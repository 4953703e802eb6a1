----------------------------- MODULE Activations -----------------------------
(***************************************************************************)
(* What a call promises to a script: every activation of a function has    *)
(* registers of its own, filled from the arguments; a call changes the     *)
(* result registers of its caller and nothing else; a coroutine goes on    *)
(* after a yield as if the yield had been a call that returned the         *)
(* arguments of the resume.  Calls implements it on one stack.             *)
(***************************************************************************)
EXTENDS Naturals, Sequences, SequencesExt

CONSTANTS
    Fn,     \* the functions: [kind, this, args, tmp] of each
    Null,   \* the null value
    Arg,    \* the values a script loads into its registers, by register
    Res,    \* the values a native function returns, in order
    Sites,  \* the calls of the instance: [fn, from, this, args, expect]
    Rets,   \* the results of the scripts: sequences of registers
    Limit   \* SGS_MAX_CALL_STACK_SIZE

VARIABLES
    acts,   \* the activations, the innermost last
    paused, \* the context is suspended in a yield
    host    \* what the last run of the context gave to the host

avars == <<acts, paused, host>>

---------------------------------------------------------------------------
Kind(fn) == IF fn \in DOMAIN Fn THEN Fn[fn].kind ELSE "none"
IsScript(fn) == Kind(fn) = "script"

Nulls(n) == [i \in 1 .. n |-> Null]

(* The first n of the values, with nulls for those that are missing.       *)
FirstOf(n, values) == [i \in 1 .. n |-> IF i <= Len(values) THEN values[i] ELSE Null]

Prefix(n, values) == SubSeq(values, 1, n)

(* What a caller waits for, and the call at a site: the function, *)
(* <this> and the arguments, loaded into registers from from on.           *)
NoCall == [op |-> "none", from |-> 0, expect |-> 0]
Wants(op, site) == [op |-> op, from |-> site.from, expect |-> site.expect]

Width(site) == site.args + (IF site.this THEN 1 ELSE 0)

Operands(site) == <<site.fn>> \o SubSeq(Arg, site.from + 1, site.from + Width(site))

Loaded(regs, site) ==
    [r \in DOMAIN regs |->
        IF r \in site.from + 1 .. site.from + 1 + Width(site)
        THEN Operands(site)[r - site.from] ELSE regs[r]]

(* The registers of a new activation: a native function takes what it is   *)
(* given, a script function <this>, if it wants it, and its parameters.    *)
Registers(site) ==
    LET fn == site.fn
        given == Tail(Operands(site))
        args == IF site.this THEN Tail(given) ELSE given
    IN  IF IsScript(fn)
        THEN (IF Fn[fn].this THEN FirstOf(1, IF site.this THEN given ELSE <<>>) ELSE <<>>)
             \o FirstOf(Fn[fn].args, args) \o Nulls(Fn[fn].tmp)
        ELSE args

Activation(site) ==
    [fn |-> site.fn, regs |-> Registers(site), wants |-> NoCall, ends |-> FALSE, aborted |-> FALSE]

(* The results reach the caller: in registers, as values a native caller   *)
(* goes on with, or as the value of an operator.  The registers of a       *)
(* function that is about to end no longer matter.                         *)
Receive(act, results) ==
    LET w == act.wants
    IN  [act EXCEPT !.wants = NoCall,
           !.regs = CASE act.ends -> <<>>
                      [] w.op = "call" ->
                           [r \in DOMAIN @ |-> IF r \in w.from + 1 .. w.from + w.expect
                                               THEN FirstOf(w.expect, results)[r - w.from]
                                               ELSE @[r]]
                      [] w.op = "native" -> @ \o FirstOf(w.expect, results)
                      [] w.op = "operator" ->
                           [@ EXCEPT ![w.from + 1] = IF results = <<>> THEN Null ELSE Last(results)]]

(* The innermost activation is replaced by its results.                    *)
Ended(as, results) ==
    LET below == Front(as)
    IN  IF below = <<>> THEN <<>> ELSE Front(below) \o <<Receive(Last(below), results)>>

---------------------------------------------------------------------------
(* What an activation may end with: a script with some of its registers, a *)
(* native function with values of its own.                                 *)
Results(act) ==
    IF act.ends THEN {<<>>}
    ELSE IF IsScript(act.fn)
    THEN {[i \in DOMAIN ret |-> act.regs[ret[i] + 1]] : ret \in Rets}
    ELSE {Prefix(n, Res) : n \in 0 .. Len(Res)}

(* In the actions as and new are the activations before and after.         *)
Active(as) == as # <<>> /\ ~paused

ReturnWith(as, new, results) ==
    /\ new = Ended(as, results)
    /\ host' = IF Len(as) = 1 THEN results ELSE host
    /\ UNCHANGED paused

(* The host runs a function in the context.                                *)
Begin(as, new) ==
    /\ as = <<>> /\ host' = <<>>
    /\ \E site \in Sites : IsScript(site.fn) /\ new = <<Activation(site)>>
    /\ UNCHANGED paused

(* A call, from a script, from an operator of a script or from native      *)
(* code; after a call without results the caller may be at its end.        *)
Call(as, new) ==
    /\ Active(as) /\ ~Last(as).ends
    /\ Len(new) >= Len(as)
    /\ \E op \in IF IsScript(Last(as).fn) THEN {"call", "operator"} ELSE {"native"} :
       \E site \in Sites : \E ends \in BOOLEAN :
         LET regs == IF op = "call" THEN Loaded(Last(as).regs, site) ELSE Last(as).regs
             caller == [Last(as) EXCEPT !.regs = regs, !.wants = Wants(op, site), !.ends = ends]
         IN  /\ ends => op = "call" /\ site.expect = 0
             /\ new = Front(as) \o
                   (IF Len(as) = Limit \/ Kind(site.fn) = "none"
                    THEN <<Receive(caller, <<>>)>>
                    ELSE <<caller, Activation(site)>>)
    /\ UNCHANGED <<paused, host>>

Return(as, new) ==
    /\ Active(as) /\ Kind(Last(as).fn) \in {"script", "native"}
    /\ \E results \in Results(Last(as)) : ReturnWith(as, new, results)

(* yield: the scripts below keep what they have until they are resumed; if *)
(* native code is among them, yield returns its arguments.                 *)
Yield(as, new) ==
    LET below == Front(as)
        given == Last(as).regs
    IN  /\ Active(as) /\ Kind(Last(as).fn) = "yield"
        /\ IF \A i \in DOMAIN below : below[i].wants.op = "call"
           THEN new = below /\ host' = given /\ paused' = TRUE
           ELSE ReturnWith(as, new, given)

(* abort: the scripts from last down to the innermost native code end.     *)
Stopped(as, last) ==
    [i \in DOMAIN as |->
        IF i <= last /\ \A j \in i .. last : IsScript(as[j].fn)
        THEN [as[i] EXCEPT !.ends = TRUE, !.aborted = TRUE] ELSE as[i]]

Abort(as, new) ==
    /\ Active(as) /\ Kind(Last(as).fn) = "abort"
    /\ ReturnWith(Stopped(as, Len(as) - 1), new, Prefix(1, Res))

AbortPaused(as, new) ==
    /\ paused /\ new = Stopped(as, Len(as))
    /\ UNCHANGED <<paused, host>>

Resume(as, new) ==
    /\ paused /\ ~paused'
    /\ host' = <<>>
    /\ IF Head(as).aborted THEN new = <<>>
       ELSE \E n \in 0 .. Len(Arg) : new = Ended(Append(as, Last(as)), Prefix(n, Arg))

Init == acts = <<>> /\ host = <<>> /\ ~paused

Next ==
    \E as \in {acts}, new \in {acts'} :
        \/ Begin(as, new) \/ Call(as, new) \/ Return(as, new) \/ Yield(as, new)
        \/ Abort(as, new) \/ AbortPaused(as, new) \/ Resume(as, new)

Spec == Init /\ [][Next]_avars
=============================================================================
