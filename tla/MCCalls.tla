------------------------------- MODULE MCCalls -------------------------------
(* Instances of Calls: scripts with and without <this>, and their calls.   *)
EXTENDS Calls, TLC

CONSTANTS scr, method, native, yielder, aborter, null, x1, x2, x3, x4, r1, r2

Functions ==
    scr :> [kind |-> "script", this |-> FALSE, args |-> 1, tmp |-> 2]
    @@ method :> [kind |-> "script", this |-> TRUE, args |-> 1, tmp |-> 2]
    @@ native :> [kind |-> "native", this |-> FALSE, args |-> 0, tmp |-> 0]
    @@ yielder :> [kind |-> "yield", this |-> FALSE, args |-> 0, tmp |-> 0]
    @@ aborter :> [kind |-> "abort", this |-> FALSE, args |-> 0, tmp |-> 0]

Args == <<x1, x2, x3, x4>>
Results == <<r1, r2>>

(* The results of the scripts: none, one register or two.                 *)
Returned == {<<>>, <<1>>, <<1, 0>>}

Call(fn, from, this, args, expect) ==
    [fn |-> fn, from |-> from, this |-> this, args |-> args, expect |-> expect]

(* Calls with more arguments than parameters and with fewer, with a <this> *)
(* that is not wanted and without one that is, with more results than are  *)
(* expected and with fewer.                                                *)
CallSites ==
    {Call(scr, 0, FALSE, 2, 2), Call(scr, 1, TRUE, 0, 1), Call(method, 0, TRUE, 2, 0),
     Call(method, 1, FALSE, 0, 1), Call(native, 0, FALSE, 1, 1), Call(yielder, 1, FALSE, 1, 1),
     Call(aborter, 1, FALSE, 0, 0), Call(null, 2, FALSE, 0, 1)}
=============================================================================
