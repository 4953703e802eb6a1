-------------------------------- MODULE Calls --------------------------------
(***************************************************************************)
(* Calls in one execution context of the virtual machine, sgs_proc.c: one  *)
(* stack of variables, the frames that divide it, the bytecode interpreter *)
(* vm_exec, which runs script functions without recursion and native code  *)
(* with it, and sgs_PauseState, sgs_ResumeStateRet and sgs_Abort, which    *)
(* leave and enter chains of frames.                                       *)
(***************************************************************************)
EXTENDS Naturals, Sequences, SequencesExt

CONSTANTS
    Fn,         \* the functions: [kind, this, args, tmp] of each
    Null,       \* the null value
    Arg,        \* the values a script loads into its registers, by register
    Res,        \* the values a native function returns, in order
    Sites,      \* the calls of the instance: [fn, from, this, args, expect]
    Rets,       \* the results of the scripts: sequences of registers
    Limit,      \* SGS_MAX_CALL_STACK_SIZE
    MaxCalls,   \* bound: the calls in one run of the context
    Ops         \* what the scripts of this instance do

VARIABLES
    stack,      \* the variables from stack_base to stack_top
    off,        \* stack_off: where the innermost function's variables start
    frames,     \* the call frames, sf_last at the end
    lastabort,  \* SGS_STATE_LASTFUNCABORT
    resumed,    \* vm_exec was entered by sgs_ResumeStateRet
    host,       \* what the last run of the context gave to the host
    ended,      \* how the last call from native code or the host ended
    made        \* the calls made so far, for MaxCalls

vars == <<stack, off, frames, lastabort, resumed, host, ended, made>>

---------------------------------------------------------------------------
A == INSTANCE Activations WITH acts <- <<>>, paused <- FALSE

Kind(fn) == A!Kind(fn)
IsScript(fn) == Kind(fn) = "script"
Nulls(n) == A!Nulls(n)
Count(b) == IF b THEN 1 ELSE 0

(* wants stands for the instruction in progress: the CALL at iptr - 1 or   *)
(* the operator that runs a metamethod; ends for a RETN at iptr.           *)
Frame(fn, argbeg, reenter) ==
    [fn |-> fn, argbeg |-> argbeg, stkoff |-> off, reenter |-> reenter,
     paused |-> FALSE, aborted |-> FALSE, wants |-> A!NoCall, ends |-> FALSE]

SF == Last(frames)

Running == frames # <<>> /\ ~SF.paused

(* <this>, the parameters and the temporaries.                             *)
Size(fn) == Count(Fn[fn].this) + Fn[fn].args + Fn[fn].tmp

ASSUME FnAssumption ==
    \A fn \in DOMAIN Fn :
        Fn[fn] \in [kind : {"script", "native", "yield", "abort"},
                   this : BOOLEAN, args : Nat, tmp : Nat]
ASSUME SiteAssumption ==
    \A site \in Sites :
        /\ site.this \in BOOLEAN /\ {site.from, site.args, site.expect} \subseteq Nat
        /\ site.from + A!Width(site) <= Len(Arg)

(* The values of the instance.                                             *)
Value == {Null} \cup {site.fn : site \in Sites} \cup Range(Arg) \cup Range(Res)

ASSUME ValueAssumption == Arg \in Seq(Value) /\ Res \in Seq(Value) \ {<<>>}

(* A script returns registers of its own.                                  *)
ASSUME RetAssumption ==
    \A ret \in Rets : \A fn \in DOMAIN Fn :
        ret \in Seq(Nat) /\ \A i \in DOMAIN ret : IsScript(fn) => ret[i] < Size(fn)

ASSUME LimitAssumption == Limit \in Nat \ {0} /\ MaxCalls \in Nat

(* fstk_clean                                                              *)
Clean(s, from, to) == SubSeq(s, 1, from) \o SubSeq(s, to + 1, Len(s))

(* stk_resize_expected                                                     *)
Resized(s, expect, rvc) ==
    IF rvc > expect THEN SubSeq(s, 1, Len(s) - (rvc - expect)) ELSE s \o Nulls(expect - rvc)

(* The expected values go from the top of the stack to the registers from  *)
(* args_from on.                                                           *)
Delivered(s, o, w, rvc) ==
    LET all == Resized(s, w.expect, rvc)
        n == Len(all) - w.expect
    IN  [i \in 1 .. n |-> IF i \in o + w.from + 1 .. o + w.from + w.expect
                          THEN all[n + i - (o + w.from)] ELSE all[i]]

(* vm_arith_op_obj_meta and WRITEGET: the value on top, if any, becomes    *)
(* the operator's; the rest of what the call left goes.                    *)
Outcome(s, o, w, rvc) ==
    [SubSeq(s, 1, Len(s) - rvc) EXCEPT ![o + w.from + 1] = IF rvc > 0 THEN Last(s) ELSE Null]

Answered(frs) == Front(frs) \o <<[Last(frs) EXCEPT !.wants = A!NoCall]>>

(* What follows a vm_call that left rvc values on top of the stack.        *)
AfterCall(frs, s, o, rvc) ==
    /\ off' = o
    /\ IF frs = <<>>
       THEN stack' = <<>> /\ frames' = <<>> /\ host' = SubSeq(s, Len(s) - rvc + 1, Len(s))
       ELSE LET w == Last(frs).wants
            IN  IF Last(frs).paused
                THEN stack' = s /\ frames' = frs /\ host' = SubSeq(s, Len(s) - rvc + 1, Len(s))
                ELSE /\ stack' = CASE w.op = "call" -> Delivered(s, o, w, rvc)
                                   [] w.op = "native" -> Resized(s, w.expect, rvc)
                                   [] w.op = "operator" -> Outcome(s, o, w, rvc)
                     /\ frames' = Answered(frs)
                     /\ UNCHANGED host

(* Mutant of Leave: only an abort changes the flag.                        *)
LeaveKeepsFlag(s, frs, rvc) ==
    LET f == Last(frs)
    IN  /\ AfterCall(Front(frs), Clean(s, f.argbeg - 1, Len(s) - rvc), f.stkoff, rvc)
        /\ lastabort' = (lastabort \/ f.aborted)
        /\ ended' = IF f.aborted THEN "aborted" ELSE "done"
        /\ UNCHANGED <<resumed, made>>

(* The end of vm_call, with the frame on the stack and rvc values on top.  *)
Leave(s, frs, rvc) ==
    LET f == Last(frs)
    IN  /\ AfterCall(Front(frs), Clean(s, f.argbeg - 1, Len(s) - rvc), f.stkoff, rvc)
        /\ lastabort' = f.aborted
        /\ ended' = IF f.aborted THEN "aborted" ELSE "done"
        /\ UNCHANGED <<resumed, made>>

(* Mutant of Transposed: the superfluous arguments stay on top.            *)
TransposedNot(s, first, all) == s

(* stk_transpose: the first of the all values on top move above the others *)
Transposed(s, first, all) ==
    LET n == Len(s) - all
    IN  SubSeq(s, 1, n) \o SubSeq(s, n + first + 1, Len(s)) \o SubSeq(s, n + 1, n + first)

(* The stack of a script function that is entered: a null for a missing    *)
(* <this>, superfluous arguments below stack_off, nulls for the parameters *)
(* that got none and the temporaries.                                      *)
Prepared(s, fn, args, gotthis) ==
    LET F == Fn[fn]
        s1 == IF F.this /\ ~gotthis
              THEN SubSeq(s, 1, Len(s) - args) \o <<Null>> \o SubSeq(s, Len(s) - args + 1, Len(s))
              ELSE s
        this == gotthis \/ F.this
        o == Len(s1) - args - Count(F.this)
        first == F.args + Count(this)
        all == args + Count(this)
    IN  IF args > F.args
        THEN [stack |-> Transposed(s1, first, all) \o Nulls(F.tmp), off |-> o + all - first]
        ELSE [stack |-> s1 \o Nulls(F.tmp + F.args - args), off |-> o]

(* vm_call and sgsVM_PushStackFrame: the function, <this> and args values  *)
(* are on top of s; frs has the caller's frame.                            *)
VmCall(s, frs, args, gotthis, reenter) ==
    LET argbeg == Len(s) - args - Count(gotthis)
        fn == s[argbeg]
        f == Frame(fn, argbeg, reenter)
    IN  /\ made' = made + 1
        /\ IF Len(frs) >= Limit \/ Kind(fn) = "none"
           THEN /\ AfterCall(frs, SubSeq(s, 1, argbeg - 1), off, 0)
                /\ lastabort' = FALSE
                /\ ended' = "done"
                /\ UNCHANGED resumed
           ELSE LET ready == IF IsScript(fn) THEN Prepared(s, fn, args, gotthis)
                             ELSE [stack |-> s, off |-> Len(s) - args]
                IN  /\ stack' = ready.stack /\ off' = ready.off
                    /\ frames' = Append(frs, f)
                    /\ UNCHANGED <<lastabort, resumed, host, ended>>

---------------------------------------------------------------------------
(* sgs_XCall on a context that runs nothing: co_resume of a new coroutine. *)
Begin ==
    /\ frames = <<>>
    /\ \E site \in Sites :
         LET s == A!Operands(site)
             f == Frame(site.fn, 1, FALSE)
             ready == Prepared(s, site.fn, site.args, site.this)
         IN  /\ IsScript(site.fn)
             /\ stack' = ready.stack /\ off' = ready.off
             /\ frames' = <<[f EXCEPT !.stkoff = 0]>>
    /\ host' = <<>>
    /\ lastabort' = FALSE /\ resumed' = FALSE /\ ended' = "done" /\ made' = 0

(* Whether the scripts of this instance call fn here: "yield_in_operator"  *)
(* for a yield that a metamethod makes.                                    *)
Makes(fn, op) ==
    /\ made < MaxCalls
    /\ Kind(fn) = "yield" =>
        \/ "yield_in_operator" \in Ops
        \/ op # "operator" /\ \A i \in DOMAIN frames : frames[i].wants.op # "operator"

(* The instructions that load the registers of a call, and CALL, which     *)
(* copies them to the top of the stack.                                    *)
ScriptCall ==
    /\ Running /\ IsScript(SF.fn) /\ ~SF.ends
    /\ \E site \in Sites : \E ends \in BOOLEAN :
         LET beg == off + site.from
             s == [i \in DOMAIN stack |-> IF i \in beg + 1 .. beg + 1 + A!Width(site)
                                          THEN A!Operands(site)[i - beg] ELSE stack[i]]
             caller == [SF EXCEPT !.wants = A!Wants("call", site), !.ends = ends]
         IN  /\ ends => site.expect = 0
             /\ Makes(site.fn, "call")
             /\ VmCall(s \o A!Operands(site), Front(frames) \o <<caller>>,
                       site.args, site.this, TRUE)

(* An operator whose operand has a metamethod calls it, with <this>, in a  *)
(* vm_exec of its own.                                                     *)
OperatorCall ==
    /\ Running /\ IsScript(SF.fn) /\ ~SF.ends /\ "operator" \in Ops
    /\ \E site \in Sites :
         /\ site.this /\ Makes(site.fn, "operator")
         /\ VmCall(stack \o A!Operands(site),
                   Front(frames) \o <<[SF EXCEPT !.wants = A!Wants("operator", site)]>>,
                   site.args, TRUE, FALSE)

(* sgs_FCall by a native function.                                         *)
NativeCall ==
    /\ Running /\ Kind(SF.fn) = "native"
    /\ \E site \in Sites :
         /\ Makes(site.fn, "native")
         /\ VmCall(stack \o A!Operands(site),
                   Front(frames) \o <<[SF EXCEPT !.wants = A!Wants("native", site)]>>,
                   site.args, site.this, FALSE)

NativeReturn ==
    /\ Running /\ Kind(SF.fn) = "native"
    /\ \E n \in 0 .. Len(Res) : Leave(stack \o A!Prefix(n, Res), frames, n)

---------------------------------------------------------------------------
(* Mutant of PostCall: the results stay when RETN does not follow.         *)
PostCallLeaves(s, rvc) ==
    LET t == Clean(s, SF.argbeg - 1, Len(s) - rvc)
        below == Front(frames)
    IN  /\ off' = SF.stkoff
        /\ IF below = <<>>
           THEN stack' = <<>> /\ frames' = <<>> /\ host' = SubSeq(t, Len(t) - rvc + 1, Len(t))
           ELSE /\ stack' = IF Last(below).ends THEN SubSeq(t, 1, Len(t) - rvc)
                            ELSE Delivered(t, SF.stkoff, Last(below).wants, rvc)
                                 \o SubSeq(t, Len(t) - rvc + 1, Len(t))
                /\ frames' = Answered(below)
                /\ UNCHANGED host
        /\ ended' = IF SF.reenter THEN ended ELSE IF SF.aborted THEN "aborted" ELSE "done"
        /\ UNCHANGED <<lastabort, resumed, made>>

(* vm_postcall: the registers are left alone when RETN follows.            *)
PostCall(s, rvc) ==
    LET t == Clean(s, SF.argbeg - 1, Len(s) - rvc)
        below == Front(frames)
    IN  /\ off' = SF.stkoff
        /\ IF below = <<>>
           THEN stack' = <<>> /\ frames' = <<>> /\ host' = SubSeq(t, Len(t) - rvc + 1, Len(t))
           ELSE /\ stack' = IF Last(below).ends THEN SubSeq(t, 1, Len(t) - rvc)
                            ELSE Delivered(t, SF.stkoff, Last(below).wants, rvc)
                /\ frames' = Answered(below)
                /\ UNCHANGED host
        /\ ended' = IF SF.reenter THEN ended ELSE IF SF.aborted THEN "aborted" ELSE "done"
        /\ UNCHANGED <<lastabort, resumed, made>>

(* How a script function that does not reenter ends depends on what        *)
(* entered vm_exec: vm_call or sgs_ResumeStateRet.                         *)
ByPostCall == SF.reenter \/ (resumed /\ Len(frames) = 1)

ScriptReturn(values) ==
    LET s == stack \o values
    IN  IF ByPostCall THEN PostCall(s, Len(values)) ELSE Leave(s, frames, Len(values))

Values(ret) == [i \in DOMAIN ret |-> stack[off + ret[i] + 1]]

(* RETN, after PUSH instructions: an aborted function is at its last RETN. *)
ReturnN ==
    /\ Running /\ IsScript(SF.fn)
    /\ \/ SF.ends /\ ScriptReturn(<<>>)
       \/ ~SF.ends /\ \E ret \in Rets : Len(ret) # 1 /\ ScriptReturn(Values(ret))

(* RET1 in a function that reenters writes the result to the caller's      *)
(* register and clears the other registers where results were expected.    *)
Return1 ==
    /\ Running /\ IsScript(SF.fn) /\ ~SF.ends
    /\ \E ret \in Rets :
         /\ Len(ret) = 1
         /\ IF ~SF.reenter THEN ScriptReturn(Values(ret))
            ELSE LET w == frames[Len(frames) - 1].wants
                     first == SF.stkoff + w.from + 1
                 IN  /\ stack' = [i \in 1 .. SF.argbeg - 1 |->
                                    IF i \notin first .. first + w.expect - 1 THEN stack[i]
                                    ELSE IF i = first THEN Head(Values(ret)) ELSE Null]
                     /\ off' = SF.stkoff
                     /\ frames' = Answered(Front(frames))
                     /\ UNCHANGED <<lastabort, resumed, host, ended, made>>

---------------------------------------------------------------------------
(* Mutant of CanPause: only the caller is looked at.                       *)
CanPauseCaller == Len(frames) > 1 /\ IsScript(frames[Len(frames) - 1].fn)

(* sgs_PauseState in the native function yield, which returns what it was  *)
(* given.  The frames below must be those of scripts: the test is iptr.    *)
CanPause == Len(frames) > 1 /\ \A i \in 1 .. Len(frames) - 1 : IsScript(frames[i].fn)

Yield ==
    LET below == Len(frames) - 1
    IN  /\ Running /\ Kind(SF.fn) = "yield"
        /\ Leave(stack, IF CanPause THEN [frames EXCEPT ![below].paused = TRUE] ELSE frames,
                 Len(stack) - off)

(* sgs_Abort: the script frames from last down to a native one.            *)
Aborted(last) ==
    [i \in DOMAIN frames |->
        IF i <= last /\ \A j \in i .. last : IsScript(frames[j].fn)
        THEN [frames[i] EXCEPT !.ends = TRUE, !.aborted = TRUE] ELSE frames[i]]

Abort ==
    /\ Running /\ Kind(SF.fn) = "abort"
    /\ Leave(stack \o A!Prefix(1, Res), Aborted(Len(frames) - 1), 1)

(* abort(context) from another context, while this one is suspended.       *)
AbortPaused ==
    /\ frames # <<>> /\ SF.paused /\ ~SF.aborted
    /\ frames' = Aborted(Len(frames))
    /\ UNCHANGED <<stack, off, lastabort, resumed, host, ended, made>>

(* sgs_ResumeStateRet, with n values.  The values of the yield are still   *)
(* on the stack, under them.  A context that was aborted loses its frames; *)
(* the code leaves its values on the stack, where nothing reads them, and  *)
(* the model drops them, as Begin starts on a new context.                 *)
Resume ==
    /\ frames # <<>> /\ SF.paused
    /\ IF Head(frames).aborted
       THEN /\ frames' = <<>> /\ stack' = <<>> /\ off' = 0 /\ host' = <<>>
            /\ lastabort' = TRUE /\ ended' = "aborted"
            /\ UNCHANGED <<resumed, made>>
       ELSE \E n \in 0 .. Len(Arg) :
            /\ stack' = Delivered(stack \o A!Prefix(n, Arg), off, SF.wants, n)
            /\ frames' = Answered(Front(frames) \o <<[SF EXCEPT !.paused = FALSE]>>)
            /\ resumed' = TRUE /\ host' = <<>>
            /\ UNCHANGED <<off, lastabort, ended, made>>

Init ==
    /\ stack = <<>> /\ off = 0 /\ frames = <<>> /\ host = <<>>
    /\ lastabort = FALSE /\ resumed = FALSE /\ ended = "done" /\ made = 0

Next ==
    \/ Begin \/ ScriptCall \/ OperatorCall \/ NativeCall \/ NativeReturn
    \/ ReturnN \/ Return1 \/ Yield \/ Abort \/ AbortPaused \/ Resume

Spec == Init /\ [][Next]_vars

---------------------------------------------------------------------------
(* The variables of the frame at depth i.                                  *)
Slice(i) ==
    IF i = Len(frames) THEN SubSeq(stack, off + 1, Len(stack))
    ELSE SubSeq(stack, frames[i + 1].stkoff + 1, frames[i + 1].argbeg - 1)

(* A function that runs has all its registers and nothing above them; in a *)
(* context that was suspended the values of its yields stay there.         *)
HeightKept ==
    \A i \in DOMAIN frames :
        LET height == Len(Slice(i)) IN
        IsScript(frames[i].fn) /\ ~(frames[i].paused)
            => height >= Size(frames[i].fn) /\ (height > Size(frames[i].fn) => resumed)

(* While a context is suspended its frames wait in calls that vm_exec made *)
(* itself: no native code waits for one of them, so that nothing but a     *)
(* resume goes on with them (sgs_PauseState).                              *)
SuspendedCleanly ==
    frames # <<>> /\ SF.paused => \A i \in DOMAIN frames : frames[i].wants.op = "call"

(* SGS_CNTL_GET_ABORT tells native code whether the function it called was *)
(* stopped by abort, whatever other calls that function made.              *)
NativeToldOfAbort == Running /\ Kind(SF.fn) = "native" => (lastabort <=> ended = "aborted")

(* The stack implements activations with registers of their own.           *)
Refined(i) ==
    LET f == frames[i]
    IN  [fn |-> f.fn, wants |-> f.wants, ends |-> f.ends, aborted |-> f.aborted,
         regs |-> IF f.ends /\ f.wants = A!NoCall THEN <<>>
                  ELSE IF IsScript(f.fn) THEN SubSeq(Slice(i), 1, Size(f.fn)) ELSE Slice(i)]

Abstract == INSTANCE Activations
    WITH acts <- [i \in DOMAIN frames |-> Refined(i)],
         paused <- frames # <<>> /\ SF.paused

Implements == Abstract!Spec
=============================================================================
