------------------------------ MODULE Collections ------------------------------
(***************************************************************************)
(* Dicts and maps, and the library functions on them (src/sgs_std.c): two  *)
(* kinds of object around one hash table.  A dict keeps its keys as        *)
(* strings and converts what it is given; a map keeps any key.             *)
(*                                                                         *)
(* Every function works on the items one by one, through the table's own   *)
(* operations and iterator, and some call a function of the script between *)
(* two items, which may change the very object they are walking over.      *)
(***************************************************************************)
EXTENDS HashTable, SequencesExt

CONSTANTS
    StringOf,   \* sgs_ToString of each key
    Parsed      \* the keys that sgs_ParseString accepts: all but null

Texts == {StringOf[k] : k \in Key}

ASSUME TextAssumption ==
    /\ StringOf \in [Key -> Key] /\ \A k \in Texts : StringOf[k] = k
    /\ Texts \subseteq Parsed /\ Parsed \subseteq Key

---------------------------------------------------------------------------
Kinds == {"dict", "map"}

(* mkdict, mkmap.                                                          *)
Made(kind) == [kind |-> kind, table |-> NewTable]
Items(o) == o.table.items

(* vm_getprop of an index: a dict converts any key, null too.              *)
ReadKey(o, k) == IF o.kind = "dict" THEN StringOf[k] ELSE k
GetIndex(o, k) == Get(o.table, ReadKey(o, k))

(* sgsstd_dict_setindex, sgsstd_map_setindex: a dict refuses null.         *)
Refuses(o, k) == o.kind = "dict" /\ k \notin Parsed
SetIndex(o, k, v) ==
    IF Refuses(o, k) THEN o ELSE [o EXCEPT !.table = Stored(@, ReadKey(o, k), v)]

(* sgsstd_isset, sgsstd_unset.                                             *)
isset(o, k) == GetIndex(o, k) # None
unset(o, k) == IF Refuses(o, k) THEN o ELSE [o EXCEPT !.table = Dropped(@, ReadKey(o, k))]

(* sgsstd_dict_size, sgsstd_map_size, and the conversion to a bool.        *)
SizeOf(o) == Len(Items(o))
Bool(o) == SizeOf(o) # 0

(* The keys of a literal or a constructor call are converted with          *)
(* sgs_ToString, which takes null.                                         *)
Filled(kind, args) ==
    FoldLeft(LAMBDA o, i : [o EXCEPT !.table = Stored(@, ReadKey(o, args[2 * i - 1]), args[2 * i])],
             Made(kind), [i \in 1 .. Len(args) \div 2 |-> i])

(* sgsstd_dict, sgsstd_map: an odd number of arguments is refused.         *)
Constructed(kind, args) == IF Len(args) % 2 # 0 THEN None ELSE Filled(kind, args)

(* sgsSTD_MakeDict, sgsSTD_MakeMap: of the top cnt items of the stack,     *)
(* which they take off it.                                                 *)
MakeFrom(kind, stack, cnt) ==
    IF cnt % 2 # 0 \/ cnt > Len(stack) THEN [obj |-> None, stack |-> stack]
    ELSE LET base == Len(stack) - cnt
         IN  [obj |-> Filled(kind, SubSeq(stack, base + 1, Len(stack))),
              stack |-> SubSeq(stack, 1, base)]

(* SGS_CONVOP_CLONE: the items are stored anew.                            *)
Clone(o) == FoldLeft(LAMBDA n, item : [n EXCEPT !.table = Stored(@, item.key, item.val)],
                     Made(o.kind), Items(o))

(* Mutant of Joined: the closing brace of an empty table is not counted.   *)
JoinedWithoutEmpty(cnt) == cnt * 4 + 1

(* What sgs_StringConcat is told to join.                                  *)
Joined(cnt) == cnt * 4 + 1 + (IF cnt = 0 THEN 1 ELSE 0)

(* The conversion to a string pushes the pieces and joins them into one.   *)
Pieces(o) ==
    FoldLeft(LAMBDA p, item : p \o (IF Len(p) = 1 THEN <<>> ELSE <<",">>) \o <<item.key, "=", item.val>>,
             <<IF o.kind = "map" THEN "[map]{" ELSE "{">>, Items(o)) \o <<"}">>
StringForm(o, stack) ==
    LET pushed == stack \o Pieces(o)
        first == Len(pushed) - Joined(SizeOf(o)) + 1
    IN  Append(SubSeq(pushed, 1, first - 1), SubSeq(pushed, first, Len(pushed)))

---------------------------------------------------------------------------
(* What a function of the script does: it accepts the items whose keys are *)
(* in "accepts", and its call number "at" stores or removes "key" in the   *)
(* object that is being walked over.                                       *)
Effect(call, n, o) ==
    IF n # call.at THEN o
    ELSE IF call.does = "set" THEN SetIndex(o, call.key, call.val)
    ELSE IF call.does = "unset" THEN unset(o, call.key) ELSE o

(* A walk with sgs_PushIterator and sgs_IterAdvance: it ends after the     *)
(* last item, or where the size of the object is not what it was.          *)
Walk(o) == [src |-> o, size |-> SizeOf(o), off |-> -1, out |-> Made("map"), over |-> FALSE]
Advance(w) ==
    IF w.over \/ SizeOf(w.src) # w.size \/ w.off + 1 >= w.size THEN [w EXCEPT !.over = TRUE]
    ELSE [w EXCEPT !.off = @ + 1]
At(w) == Items(w.src)[w.off + 1]
Turns(o) == [n \in 1 .. SizeOf(o) |-> n]

Truthy(v) == v # 0

(* Mutant of Keeps: a filter without a function keeps everything.          *)
KeepsAll(call, item) == call.does = "absent" \/ item.key \in call.accepts

(* The decision of a filter: the function's, or the truth of the value.    *)
Keeps(call, item) == IF call.does = "absent" THEN Truthy(item.val) ELSE item.key \in call.accepts

(* _sgsstd_ht_filter.  The key and the value are read before the call.     *)
Filter(o, call) ==
    LET Turn(w, item) ==
            [w EXCEPT !.src = Effect(call, w.off + 1, @),
                      !.out = IF Keeps(call, item) THEN SetIndex(@, item.key, item.val) ELSE @]
    IN  FoldLeft(LAMBDA v, n : LET w == Advance(v) IN IF w.over THEN w ELSE Turn(w, At(w)),
                 [Walk(o) EXCEPT !.out = Made(o.kind)], Turns(o))

(* sgsstd_map_process: what the function returns, here 10 more, is stored  *)
(* under the key that was read before the call.                            *)
map_process(o, call) ==
    LET Turn(w, item) ==
            [w EXCEPT !.src = SetIndex(Effect(call, w.off + 1, @), item.key, item.val + 10)]
    IN  FoldLeft(LAMBDA v, n : LET w == Advance(v) IN IF w.over THEN w ELSE Turn(w, At(w)),
                 Walk(o), Turns(o)).src

(* _foreach_lister and sgsstd_get_concat.                                  *)
get_keys(o) == [i \in 1 .. SizeOf(o) |-> Items(o)[i].key]
get_values(o) == [i \in 1 .. SizeOf(o) |-> Items(o)[i].val]
get_concat(objs) == IF Len(objs) < 2 THEN None ELSE FoldLeft(LAMBDA s, o : s \o get_values(o), <<>>, objs)

(* Mutant of Merged: what is there is not overwritten.                     *)
MergedFirst(kind, objs) ==
    FoldLeft(LAMBDA n, o : FoldLeft(LAMBDA m, i : IF isset(m, i.key) THEN m ELSE SetIndex(m, i.key, i.val),
                                    n, Items(o)),
             Made(kind), objs)

(* sgsstd__get_merged__common.                                             *)
Merged(kind, objs) ==
    FoldLeft(LAMBDA n, o : FoldLeft(LAMBDA m, i : SetIndex(m, i.key, i.val), n, Items(o)),
             Made(kind), objs)

(* sgsstd_get_merged, sgsstd_get_merged_map.                               *)
get_merged(kind, objs) == IF Len(objs) < 2 THEN None ELSE Merged(kind, objs)

---------------------------------------------------------------------------
(* The meaning of the functions, on lists of items with different keys.    *)
Placed(its, k, v) ==
    IF \E i \in DOMAIN its : its[i].key = k
    THEN [i \in DOMAIN its |-> IF its[i].key = k THEN [key |-> k, val |-> v] ELSE its[i]]
    ELSE Append(its, [key |-> k, val |-> v])
PlacedAll(its, new) == FoldLeft(LAMBDA l, i : Placed(l, i.key, i.val), its, new)

(* The last item takes the place of the one that goes.                     *)
Cut(its, k) ==
    IF \A i \in DOMAIN its : its[i].key # k THEN its
    ELSE [i \in 1 .. Len(its) - 1 |-> IF its[i].key = k THEN its[Len(its)] ELSE its[i]]

(* What a dict or a map takes of the items of an object.                   *)
As(kind, o) ==
    LET kept == SelectSeq(Items(o), LAMBDA i : ~Refuses(Made(kind), i.key))
    IN  [i \in DOMAIN kept |-> [kept[i] EXCEPT !.key = ReadKey(Made(kind), @)]]

(* The object has just these items, in this order, and finds each of them. *)
Holds(o, its) ==
    /\ Sound(o.table) /\ Items(o) = its
    /\ \A k \in Key :
          LET is == {i \in DOMAIN its : its[i].key = ReadKey(o, k)}
          IN  GetIndex(o, k) = IF is = {} THEN None ELSE its[CHOOSE i \in is : TRUE].val

(* Single calls: reads, writes, removals, size, bool, string form, clone.  *)
CallsMean(o) ==
    LET its == Items(o)
    IN  /\ Holds(o, its) /\ Holds(Clone(o), its)
        /\ Bool(o) = (its # <<>>)
        /\ StringForm(o, <<"below">>) = <<"below", Pieces(o)>>
        /\ get_keys(o) = [i \in DOMAIN its |-> its[i].key]
        /\ \A k \in Key :
              LET key == ReadKey(o, k)
              IN  /\ Holds(SetIndex(o, k, 99), IF Refuses(o, k) THEN its ELSE Placed(its, key, 99))
                  /\ Holds(unset(o, k), IF Refuses(o, k) THEN its ELSE Cut(its, key))
                  /\ ~Refuses(o, k) => isset(SetIndex(o, k, 99), k) /\ ~isset(unset(o, k), k)

(* An object made of arguments, and merged with another, before and after: *)
(* the later value of a key wins, the first place of it stays.             *)
MakesMean(o, args) ==
    \A other \in {Constructed(kind, args) : kind \in Kinds}, kind \in Kinds :
        LET Pairs == [i \in 1 .. Len(args) \div 2 |-> [key |-> ReadKey(other, args[2 * i - 1]), val |-> args[2 * i]]]
        IN  /\ Holds(other, PlacedAll(<<>>, Pairs))
            /\ MakeFrom(other.kind, <<"below">> \o args, Len(args)) = [obj |-> other, stack |-> <<"below">>]
            /\ Constructed(kind, Tail(args)) = None
            /\ MakeFrom(kind, args, Len(args) + 2).obj = None
            /\ \A two \in {<<o, other>>, <<other, o>>} :
                  /\ Holds(get_merged(kind, two), PlacedAll(PlacedAll(<<>>, As(kind, two[1])), As(kind, two[2])))
                  /\ get_concat(two) = get_values(two[1]) \o get_values(two[2])

(* A filter whose function may change the object at one of its calls.  A   *)
(* change of the size ends the walk there; without one it sees every item  *)
(* once, those after the change as they are then.                          *)
FilterMeans(o, call) ==
    LET its == Items(o)
        w == Filter(o, call)
        now == Items(Effect(call, call.at, o))
        Seen == IF call.at \notin DOMAIN its THEN its
                ELSE IF Len(now) # Len(its) THEN SubSeq(its, 1, call.at)
                ELSE SubSeq(its, 1, call.at) \o SubSeq(now, call.at + 1, Len(now))
        Wanted(i) == IF call.does = "absent" THEN i.val # 0 ELSE i.key \in call.accepts
    IN  Sound(w.src.table) /\ Holds(w.out, SelectSeq(Seen, Wanted))

(* map_process: every item is replaced once.  An item that the function    *)
(* itself removed comes back as the last one and is processed again, and   *)
(* the one that moved into its place never is.                             *)
ProcessMeans(o, call) ==
    LET its == Items(o)
        p == map_process(o, call)
        Ten(l) == [i \in DOMAIN l |-> [l[i] EXCEPT !.val = @ + 10]]
        Removes == call.does = "unset" /\ call.at \in DOMAIN its /\ call.key = its[call.at].key
        moved == Append(Cut(its, call.key), its[call.at])
        Times(i) == IF call.at = Len(its) THEN 1 ELSE IF i = call.at THEN 0 ELSE IF i = Len(its) THEN 2 ELSE 1
    IN  /\ Sound(p.table)
        /\ call.does = "nothing" => Holds(p, Ten(its))
        /\ Removes => Items(p) = [i \in DOMAIN its |-> [moved[i] EXCEPT !.val = @ + 10 * Times(i)]]
=============================================================================
