----------------------------- MODULE MCHashTable -----------------------------
(* An instance of HashTable and Collections for TLC.                        *)
EXTENDS Collections

CONSTANTS k1, k2, k3, k4

(* The first slots of the keys collide in indices of 4, 5, 7 and 11 slots.  *)
Hashes == [k \in Key |-> ((k1 :> 0) @@ (k2 :> 0) @@ (k3 :> 2) @@ (k4 :> 35))[k]]

Equal == {<<k, k>> : k \in Key}

(* k4 is null, whose string is k3; the others are strings.                  *)
Strings == [k \in Key |-> IF k = k4 THEN k3 ELSE k]
NotNull == Key \ {k4}

(* last only labels the steps for Implements: states that differ in it     *)
(* alone have the same successors.                                         *)
Unlabelled == <<pairs, items, var_mem, num_rem, iter, got, failed>>

---------------------------------------------------------------------------
(* The objects around the table of this state, whatever their values.      *)
Objects(values) ==
    LET Obj(kind) == [kind |-> kind,
                      table |-> [Table EXCEPT !.items = [i \in DOMAIN @ |-> [@[i] EXCEPT !.val = values[i]]]]]
    IN  {Obj(kind) : kind \in IF \A i \in DOMAIN items : items[i].key \in Texts THEN Kinds ELSE {"map"}}

Arguments == {<<k3, 8, k4, 9>>, <<k1, 8, k1, 9>>, <<k2, 8, k4, 9>>}

Harmless == {[does |-> "nothing", at |-> 0, key |-> k1, accepts |-> Key \ {k1}]}
Changing ==
    [does : {"unset"}, at : DOMAIN items, key : Key, accepts : {Key \ {k1}}]
        \cup [does : {"set"}, at : DOMAIN items, key : {k1, k4}, val : {99}, accepts : {Key \ {k2}}]

LibraryMeans ==
    /\ \A o \in Objects([i \in DOMAIN items |-> i]) :
          /\ CallsMean(o)
          /\ \A args \in Arguments : MakesMean(o, args)
          /\ \A call \in Harmless \cup Changing : FilterMeans(o, call) /\ ProcessMeans(o, call)
    /\ \A values \in [DOMAIN items -> {0, 1}] : \A o \in Objects(values) :
          FilterMeans(o, [does |-> "absent", at |-> 0])

(* An iterator reads items of the table or reports an error, and the       *)
(* library functions on dicts and maps, all of which walk over a table or  *)
(* build one, mean what they mean on lists of items: also where a function *)
(* of the script changes the object in the middle of a walk.               *)
ReadsItems == ReadsTable /\ (iter = NoIterator /\ got = None => LibraryMeans)
=============================================================================
