----------------------------- MODULE MCThreads -----------------------------
(* Instances of Threads for TLC.                                           *)
EXTENDS Threads, TLC

CONSTANTS c1, c2, c3

(* The contexts other than the root are interchangeable.                   *)
Threads2 == Permutations({c1, c2})
Threads3 == Permutations({c1, c2, c3})
=============================================================================
