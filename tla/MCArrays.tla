------------------------------- MODULE MCArrays -------------------------------
(* Instances of Arrays for TLC.                                             *)
EXTENDS Arrays

CONSTANTS anInt, aReal

(* aReal equals anInt and has another type, as 1.0 equals 1.               *)
Orders == (Null :> 0) @@ (anInt :> 1) @@ (aReal :> 1)
Types == (Null :> "null") @@ (anInt :> "int") @@ (aReal :> "real")

Lists == {<<>>, <<anInt>>, <<aReal>>, <<aReal, Null>>}

Longer ==
    {<<aReal, anInt, Null, aReal>>, <<Null, anInt, aReal, Null>>,
     <<anInt, Null, Null, aReal>>,
     <<anInt, anInt, Null, anInt, Null, anInt>>}

(* last only labels the steps for Implements.                               *)
Unlabelled == <<data, size, rc, ret, job, iter>>
=============================================================================
