------------------------------- MODULE HashTable -------------------------------
(***************************************************************************)
(* sgs_VHTable of src/sgs_util.c, the hash table of dicts, maps, global    *)
(* variables, interned strings, types and the serializer, and the iterator *)
(* over it (src/sgs_std.c).                                                *)
(*                                                                         *)
(* vars holds the items in the order of their indices; pairs is the open-  *)
(* addressed index of them, probed two slots at a time.  An insertion      *)
(* takes the slot of an item that is nearer to its own first slot and      *)
(* carries that one on (Robin Hood hashing); a removal leaves a mark in    *)
(* pairs and moves the last item into the hole in vars.                    *)
(***************************************************************************)
EXTENDS Integers, Sequences, FiniteSets

CONSTANTS
    Key, Value, None,
    Hash,       \* the hash of each key
    Same,       \* the pairs of keys that equal_variables finds equal
    PairMem,    \* the arguments of sgs_vht_init
    VarMem,
    Slack,      \* the 16 of the growth and shrinking rules
    MaxItems,   \* bound: items in the table
    Ops         \* what the callers of this instance do: "iterate" over the
                \* table, "getdata" before the first advance

ASSUME HashAssumption == Hash \in [Key -> Nat] /\ Same \subseteq Key \X Key
ASSUME MemAssumption ==
    {PairMem, VarMem, Slack, MaxItems} \subseteq Nat \ {0} /\ PairMem > 1

VARIABLES
    pairs,      \* T->pairs
    items,      \* T->vars, up to T->size
    var_mem,    \* T->var_mem
    num_rem,    \* T->num_rem
    iter,       \* an iterator over the table
    got,        \* auxiliary: what the last read of the iterator returned
    last,       \* auxiliary: the call that was made last
    failed      \* auxiliary: the assertion that failed

vars == <<pairs, items, var_mem, num_rem, iter, got, last, failed>>

---------------------------------------------------------------------------
EMPTY == -1
REMOVED == -2

Item == [key : Key, val : Value]
Mem(p) == Cardinality(DOMAIN p)
Blank(size) == [i \in 0 .. size - 1 |-> EMPTY]
Size == Len(items)

(* SGS_VHT_PROBE_ADV: the slots of a probe, until it is back at its first. *)
Steps(m) == IF m % 2 = 0 THEN m \div 2 ELSE m
Slot(h, m, j) == (h + 2 * j) % m

(* SGS_VHT_PROBE_LEN_.                                                     *)
ProbeLen(h, m, slot) == ((m + slot - (h % m)) % m) \div 2

(* sgs_vht_pair_id: the slot of the pair with this key, or -1.  The probe  *)
(* stops at an empty slot, and goes on past a removed one.                 *)
PairId(p, its, k) ==
    LET m == Mem(p)
        Is(idx) == idx \in 0 .. Len(its) - 1 /\ <<k, its[idx + 1].key>> \in Same
        probe[j \in 0 .. Steps(m)] ==
            LET slot == Slot(Hash[k], m, j)
            IN  IF j = Steps(m) \/ p[slot] = EMPTY THEN -1
                ELSE IF Is(p[slot]) THEN slot ELSE probe[j + 1]
    IN  probe[0]

(* sgs_next_prime.                                                         *)
Prime(n) == \A d \in 2 .. n - 1 : n % d # 0
NextPrime(n) ==
    LET from[p \in Nat] == IF Prime(p) THEN p ELSE from[p + 1]
    IN  from[n]

(* The first empty slot of a probe.                                        *)
Gap(np, m, h) ==
    LET gaps == {j \in 0 .. Steps(m) - 1 : np[Slot(h, m, j)] = EMPTY}
    IN  Slot(h, m, CHOOSE j \in gaps : \A i \in gaps : j <= i)

Replaced(np, m, its, idx) ==
    IF idx < 0 THEN np ELSE [np EXCEPT ![Gap(np, m, Hash[its[idx + 1].key])] = idx]

(* sgs_vht_rehash: an index of about the given size, filled in the order   *)
(* of the old one.                                                         *)
Rehash(p, its, size) ==
    LET m == NextPrime(IF size < 4 THEN 4 ELSE size)
        moved[si \in 0 .. Mem(p)] ==
            IF si = 0 THEN Blank(m) ELSE Replaced(moved[si - 1], m, its, p[si - 1])
    IN  IF m = Mem(p) THEN p ELSE moved[Mem(p)]

(* What sgs_vht_rehash leaves of rem removed marks: a new index has none.  *)
Marks(p, size, rem) == IF NextPrime(IF size < 4 THEN 4 ELSE size) = Mem(p) THEN rem ELSE 0

(* sgs_vht_reserve.                                                        *)
Reserved(mem, size) == IF size = mem THEN mem ELSE IF size < 4 THEN 4 ELSE size

Larger(a, b) == IF a > b THEN a ELSE b

(* One slot of the probe of an insertion: it takes the item at index ipos, *)
(* if it is free or if its own item is nearer to its first slot, which is  *)
(* then carried on.                                                        *)
Visited(its, m, s, slot) ==
    LET idx == s.p[slot]
        exdist == ProbeLen(Hash[its[idx + 1].key], m, slot)
    IN  IF s.done THEN s
        ELSE IF idx < 0
             THEN [s EXCEPT !.p[slot] = s.ipos, !.done = TRUE, !.reused = idx = REMOVED]
        ELSE IF exdist < s.dist
             THEN [s EXCEPT !.p[slot] = s.ipos, !.ipos = idx, !.dist = exdist + 1]
        ELSE [s EXCEPT !.dist = @ + 1]

(* The insertion of the last item into the index.                          *)
Insert(p, its) ==
    LET m == Mem(p)
        h == Hash[its[Len(its)].key]
        state[j \in 0 .. Steps(m)] ==
            IF j = 0 THEN [p |-> p, ipos |-> Len(its) - 1, dist |-> 0, done |-> FALSE, reused |-> FALSE]
            ELSE Visited(its, m, state[j - 1], Slot(h, m, j - 1))
    IN  state[Steps(m)]

---------------------------------------------------------------------------
(* The table as one value; failed is the assertion that the call failed.   *)
Table == [pairs |-> pairs, items |-> items, var_mem |-> var_mem,
          num_rem |-> num_rem, failed |-> failed]

(* sgs_vht_init with the arguments of this instance.                       *)
NewTable == [pairs |-> Blank(PairMem), items |-> <<>>, var_mem |-> VarMem,
             num_rem |-> 0, failed |-> None]

Find(t, k) == PairId(t.pairs, t.items, k)

(* sgs_vht_get: the value of a key.                                        *)
Get(t, k) ==
    LET slot == Find(t, k)
    IN  IF slot = -1 THEN None ELSE t.items[t.pairs[slot] + 1].val

(* sgs_vht_set of a key that is there.                                     *)
Overwritten(t, k, v) == [t EXCEPT !.items[t.pairs[Find(t, k)] + 1].val = v]

(* The index is enlarged before it is seven tenths full.                   *)
Crowded(t) == 10 * (Len(t.items) + t.num_rem + 1) >= 7 * Mem(t.pairs)

(* sgs_vht_set of a new key.  An insertion that finds no slot fails the    *)
(* assertion "T->size == osize".                                           *)
Added(t, k, v) ==
    LET size == Len(t.items)
        want == Larger((3 * Mem(t.pairs)) \div 2, size + Slack)
        index == IF Crowded(t) THEN Rehash(t.pairs, t.items, want) ELSE t.pairs
        marks == IF Crowded(t) THEN Marks(t.pairs, want, t.num_rem) ELSE t.num_rem
        its == Append(t.items, [key |-> k, val |-> v])
        new == Insert(index, its)
    IN  [pairs |-> new.p,
         items |-> IF new.done THEN its ELSE t.items,
         num_rem |-> IF new.reused THEN marks - 1 ELSE marks,
         var_mem |-> IF size < t.var_mem THEN t.var_mem
                     ELSE Reserved(t.var_mem, Larger((3 * size) \div 2, size + Slack)),
         failed |-> IF new.done THEN t.failed ELSE "T->size == osize"]

(* sgs_vht_set.                                                            *)
Stored(t, k, v) == IF Find(t, k) = -1 THEN Added(t, k, v) ELSE Overwritten(t, k, v)

(* Mutant of Removal: the slot becomes empty.                              *)
RemovalEmpties(t, slot) ==
    LET idx == t.pairs[slot]
        end == Len(t.items) - 1
        marked == [t.pairs EXCEPT ![slot] = EMPTY]
        moved == PairId(marked, t.items, t.items[end + 1].key)
    IN  [p |-> IF idx = end \/ moved = -1 THEN marked ELSE [marked EXCEPT ![moved] = idx],
         its |-> SubSeq([t.items EXCEPT ![idx + 1] = t.items[end + 1]], 1, end),
         lost |-> idx # end /\ moved = -1]

(* Mutant of Removal: the pair of the item that moves is not updated.      *)
RemovalForgets(t, slot) ==
    LET size == Len(t.items)
    IN  [p |-> [t.pairs EXCEPT ![slot] = REMOVED],
         its |-> SubSeq([t.items EXCEPT ![t.pairs[slot] + 1] = t.items[size]], 1, size - 1),
         lost |-> FALSE]

(* The slot is marked and the last item moves into the hole; its own pair  *)
(* is found by its key, which fails the assertion "i == -1" when it is not.*)
Removal(t, slot) ==
    LET idx == t.pairs[slot]
        end == Len(t.items) - 1
        marked == [t.pairs EXCEPT ![slot] = REMOVED]
        moved == PairId(marked, t.items, t.items[end + 1].key)
    IN  [p |-> IF idx = end \/ moved = -1 THEN marked ELSE [marked EXCEPT ![moved] = idx],
         its |-> SubSeq([t.items EXCEPT ![idx + 1] = t.items[end + 1]], 1, end),
         lost |-> idx # end /\ moved = -1]

(* sgs_vht_unset, and the shrinking of a table with many marks, which it   *)
(* looks at even when the key is not there.                                *)
Dropped(t, k) ==
    LET slot == Find(t, k)
        now == IF slot = -1 THEN [p |-> t.pairs, its |-> t.items, lost |-> FALSE]
               ELSE Removal(t, slot)
        rem == IF slot = -1 THEN t.num_rem ELSE t.num_rem + 1
        size == Len(now.its)
        shrink == 4 * rem > t.var_mem + 4 * Slack
        mem == Reserved(t.var_mem, (3 * size + t.var_mem) \div 4)
        want == (size + mem) \div 2
    IN  [pairs |-> IF shrink /\ ~now.lost THEN Rehash(now.p, now.its, want) ELSE now.p,
         items |-> now.its,
         num_rem |-> IF shrink THEN Marks(now.p, want, rem) ELSE rem,
         var_mem |-> IF shrink THEN mem ELSE t.var_mem,
         failed |-> IF now.lost THEN "i == -1" ELSE t.failed]

---------------------------------------------------------------------------
(* What every call on the table does.                                      *)
Becomes(t, call) ==
    /\ pairs' = t.pairs /\ items' = t.items /\ var_mem' = t.var_mem
    /\ num_rem' = t.num_rem /\ failed' = t.failed
    /\ last' = call /\ got' = None
    /\ UNCHANGED iter

Overwrite(k, v) ==
    /\ failed = None /\ Find(Table, k) # -1
    /\ \E t \in {Overwritten(Table, k, v)} : Becomes(t, <<"set", k, v>>)

Add(k, v) ==
    /\ failed = None /\ Find(Table, k) = -1
    /\ Size < MaxItems
    /\ \E t \in {Added(Table, k, v)} : Becomes(t, <<"set", k, v>>)

Unset(k) ==
    /\ failed = None
    /\ \E t \in {Dropped(Table, k)} : Becomes(t, <<"unset", k>>)

---------------------------------------------------------------------------
(* The iterator.                                                           *)
Iterator == [at : {"start", "ready", "over"}, size : Nat, off : Int]
NoIterator == [at |-> "over", size |-> 0, off |-> -1]

IterNew ==
    /\ failed = None /\ "iterate" \in Ops
    /\ iter' = [at |-> "start", size |-> Size, off |-> -1] /\ got' = None
    /\ UNCHANGED <<pairs, items, var_mem, num_rem, last, failed>>

(* sgsstd_dict_iter_getnext without flags.  An iterator that is over is    *)
(* released.                                                               *)
IterAdvance ==
    /\ failed = None /\ iter.at # "over"
    /\ iter' = IF iter.size = Size /\ iter.off + 1 < Size
               THEN [iter EXCEPT !.off = @ + 1, !.at = "ready"]
               ELSE NoIterator
    /\ got' = None
    /\ UNCHANGED <<pairs, items, var_mem, num_rem, last, failed>>

(* Mutant of IterRead: the size is not compared.                           *)
IterReadUnchecked ==
    /\ failed = None
    /\ iter.at = "ready" \/ ("getdata" \in Ops /\ iter.at = "start")
    /\ got' = IF iter.off \in 0 .. Size - 1 THEN items[iter.off + 1].key ELSE "garbage"
    /\ UNCHANGED <<pairs, items, var_mem, num_rem, iter, last, failed>>

(* With flags.  Without "getdata" in Ops it is called only after an        *)
(* advance that returned true, as foreach does.                            *)
IterRead ==
    /\ failed = None
    /\ iter.at = "ready" \/ ("getdata" \in Ops /\ iter.at = "start")
    /\ got' = IF iter.size # Size THEN "error"
              ELSE IF iter.off \in 0 .. Size - 1 THEN items[iter.off + 1].key ELSE "garbage"
    /\ UNCHANGED <<pairs, items, var_mem, num_rem, iter, last, failed>>

---------------------------------------------------------------------------
Init ==
    /\ pairs = Blank(PairMem) /\ items = <<>>
    /\ var_mem = VarMem /\ num_rem = 0
    /\ iter = NoIterator /\ got = None /\ last = <<"init">> /\ failed = None

Next ==
    \/ \E k \in Key : Unset(k) \/ \E v \in Value : Overwrite(k, v) \/ Add(k, v)
    \/ IterNew \/ IterAdvance \/ IterRead

Spec == Init /\ [][Next]_vars

---------------------------------------------------------------------------
(* Every variable has its type.                                            *)
TypeOK ==
    /\ pairs \in [0 .. Mem(pairs) - 1 -> Nat \cup {EMPTY, REMOVED}]
    /\ items \in Seq(Item) /\ var_mem \in Nat /\ num_rem \in Nat
    /\ iter \in Iterator /\ got \in Key \cup {None, "error", "garbage"}

(* Every item of a table is in its index once, the index refers to no      *)
(* other, num_rem counts the removed marks and the items have the memory   *)
(* they need; an insertion found a slot, a removal the item that it moved. *)
Sound(t) ==
    /\ t.failed = None
    /\ \A i \in 0 .. Len(t.items) - 1 : Cardinality({s \in DOMAIN t.pairs : t.pairs[s] = i}) = 1
    /\ \A s \in DOMAIN t.pairs : t.pairs[s] < Len(t.items)
    /\ t.num_rem = Cardinality({s \in DOMAIN t.pairs : t.pairs[s] = REMOVED})
    /\ Len(t.items) <= t.var_mem

(* The table of every state is sound: the assertions of sgs_vht_set and    *)
(* sgs_vht_unset hold through every rehash, displacement and move.         *)
TableSound == Sound(Table)

(* A lookup of any key, after rehashes, removals and moves, finds what was *)
(* last stored for it and nothing else.                                    *)
Dict == INSTANCE Dictionary WITH dict <- [k \in Key |-> Get(Table, k)]
Implements == Dict!AbsSpec

(* What an iterator reads is an item of the table, or it reports an error. *)
ReadsTable == got # "garbage"
=============================================================================
