---------------------------- MODULE MCObjectHeap ----------------------------
(* Instances of ObjectHeap for TLC.                                        *)
EXTENDS ObjectHeap, TLC

CONSTANTS a, b, iface, globals, c, f, g

(* Two blocks of the same size, one smaller than them, and one that is too *)
(* large for the pool.                                                     *)
Sizes == (a :> 2) @@ (b :> 2) @@ (iface :> 1) @@ (globals :> 9)

(* a can be in a cycle by its first field and hold a thread in the other;  *)
(* b is what a makes a longer cycle or a chain with.                       *)
Holds ==
    [o \in Obj |-> [x \in Field |->
        CASE o \in {a, globals} /\ x = f -> Val
          [] o = a /\ x = g -> {c, Null}
          [] o = b /\ x = f -> {a, b, c, Null}
          [] OTHER -> {}]]
=============================================================================
