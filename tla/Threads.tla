------------------------------ MODULE Threads ------------------------------
(***************************************************************************)
(* The cooperative threads of SGScript (src/sgs_std.c, "thread_create" to  *)
(* "process_threads", and the context calls of src/sgs_ctx.c and           *)
(* src/sgs_proc.c they rest on).                                           *)
(*                                                                         *)
(* One operating-system thread runs everything.  A script running in one   *)
(* context calls into another (thread_create, resume) and the scheduler,   *)
(* sgs_ProcessSubthreads, walks a linked list with a pointer to the link   *)
(* it came from while the scripts it resumes edit the same lists.  The     *)
(* C call stack is therefore part of the state: cstack holds the           *)
(* activations, the innermost one first, and every action is one step of   *)
(* the innermost activation.                                               *)
(***************************************************************************)
EXTENDS Integers, Sequences, FiniteSets

CONSTANTS
    Ctx,        \* the contexts the engine may have allocated at one time
    Root,       \* the engine's root context, where the main script runs
    Null,       \* the C null pointer
    Timeouts,   \* the values scripts yield: the time to wait
    Deltas,     \* the values passed to process_threads
    Ops,        \* the library functions the scripts of this instance call
    MaxVars,    \* bound: script variables that hold one thread
    MaxDepth,   \* bound: activations on the C stack
    MaxAccum    \* bound: accumulated time a context may hand to a fork

ASSUME RootAssumption == Root \in Ctx /\ Null \notin Ctx
ASSUME TimeAssumption == Timeouts \subseteq Nat /\ Deltas \subseteq Nat
ASSUME BoundAssumption == {MaxVars, MaxDepth, MaxAccum} \subseteq Nat

VARIABLES
    ctx,        \* the contexts: sgs_Context
    signaled,   \* the state of the event that scripts pass to end_on
    cstack      \* the C call stack, innermost activation first

vars == <<ctx, signaled, cstack>>

---------------------------------------------------------------------------
(* The state of a context.  exec stands for its script stack frames: none  *)
(* (sf_last == NULL), a coroutine that was not started (COROSTART), frames *)
(* that are running or that are marked SGS_SF_PAUSED.                      *)

Ptr == Ctx \cup {Null}

Context ==
    [live    : BOOLEAN,                                 \* is allocated
     exec    : {"none", "fresh", "running", "paused"},
     aborted : BOOLEAN,                     \* SGS_SF_ABORTED on sf_first
     parent  : Ptr,
     first   : Ptr,                         \* subthreads
     next    : Ptr,                         \* st_next
     refs    : Int,                         \* refcount
     held    : Nat,               \* how many script variables hold it
     timeout : Int,                         \* st_timeout
     accum   : Int,                         \* tm_accum
     endOn   : BOOLEAN,                     \* _E holds the event
     waited  : Int,     \* auxiliary: time since it was last run by a pass
     asked   : Int]     \* auxiliary: the timeout it last yielded to a pass

NoContext ==
    [live |-> FALSE, exec |-> "none", aborted |-> FALSE, parent |-> Null,
     first |-> Null, next |-> Null, refs |-> 0, held |-> 0, timeout |-> 0,
     accum |-> 0, endOn |-> FALSE, waited |-> 0, asked |-> 0]

(* A cursor is the C variable pst: the address of a "subthreads" field or  *)
(* of an "st_next" field.                                                  *)
Cursor == [at : {"first", "next"}, of : Ctx]

Kinds == {"script", "start", "resume", "visit", "timer", "resumed", "after"}

(* One activation.  Kinds "script" (bytecode running in c), "start" (in    *)
(* sgs_CreateSubthread, c is the new thread and p its parent), "resume"    *)
(* (in co_resume of c) and the four program points of                      *)
(* sgs_ProcessSubthreads(c, dt) with its cursor pst and thctx th.          *)
Activation ==
    [k : Kinds, c : Ctx, p : Ptr, pst : Cursor, th : Ptr, dt : Nat,
     val  : Nat,            \* what the script that just stopped handed back
     todo : SUBSET Ctx,     \* auxiliary: the list when the pass began
     seen : SUBSET Ctx]     \* auxiliary: the threads it is done with

Act(kind, c) ==
    [k |-> kind, c |-> c, p |-> Null, pst |-> [at |-> "first", of |-> c],
     th |-> Null, dt |-> 0, val |-> 0, todo |-> {}, seen |-> {}]

Top == Head(cstack)
Replace(a) == <<a>> \o Tail(cstack)
Push(a) == <<a>> \o cstack
(* The caller of the innermost activation, told the value it returns.      *)
PopWith(v) == <<[Head(Tail(cstack)) EXCEPT !.val = v]>> \o Tail(Tail(cstack))
(* A call made by the innermost activation, which continues at kind k.     *)
Room(n) == Len(cstack) + n <= MaxDepth

---------------------------------------------------------------------------
(* What can be reached from the contexts S along R: the smallest set that  *)
(* holds S and is closed under R.                                          *)
Reachable(R, S) ==
    LET closed == {T \in SUBSET Ctx : S \subseteq T /\ \A t \in T : R[t] \subseteq T}
    IN  {t \in Ctx : \A T \in closed : t \in T}

NextLinks(cx) == [t \in Ctx |-> {cx[t].next} \ {Null}]
ParentLinks(cx) == [t \in Ctx |-> {cx[t].parent} \ {Null}]

(* The list of a context's subthreads, as a set: the contexts found by     *)
(* following st_next from subthreads.                                      *)
ListOf(cx, c) == Reachable(NextLinks(cx), {cx[c].first} \ {Null})

(* A context, its parent, the parent of that one and so on.                *)
Ancestors(cx, c) == Reachable(ParentLinks(cx), {c})

Deref(cx, cur) == IF cur.at = "first" THEN cx[cur.of].first ELSE cx[cur.of].next

Store(cx, cur, t) ==
    IF cur.at = "first" THEN [cx EXCEPT ![cur.of].first = t]
                        ELSE [cx EXCEPT ![cur.of].next = t]

(* The contexts sgsCTX_FreeState(t) frees: sgsSTD_ThreadsFree releases the *)
(* subthreads, which frees those with no other reference, and so on.       *)
Sublists(cx, S) == UNION {ListOf(cx, v) : v \in S}

Doomed(cx, t) ==
    Reachable([u \in Ctx |-> {v \in ListOf(cx, u) : cx[v].refs <= 1}], {t})

(* Mutant of Released: the subthreads that survive keep their parent.      *)
ReleasedKeepsParent(cx, t) ==
    IF cx[t].refs > 1 THEN [cx EXCEPT ![t].refs = @ - 1]
    ELSE LET freed == Doomed(cx, t)
         IN  [u \in Ctx |->
                IF u \in freed THEN NoContext
                ELSE IF u \in Sublists(cx, freed) THEN [cx[u] EXCEPT !.refs = @ - 1]
                     ELSE cx[u]]

(* One reference to t is dropped; at zero t is freed and its subthreads    *)
(* lose their parent and one reference each.                               *)
Released(cx, t) ==
    IF cx[t].refs > 1 THEN [cx EXCEPT ![t].refs = @ - 1]
    ELSE LET freed == Doomed(cx, t)
             orphans == Sublists(cx, freed) \ freed
         IN  [u \in Ctx |->
                IF u \in freed THEN NoContext
                ELSE IF u \in orphans
                     THEN [cx[u] EXCEPT !.parent = Null, !.refs = @ - 1]
                     ELSE cx[u]]

Topmost(c) == CHOOSE r \in Ancestors(ctx, c) : ctx[r].parent = Null

(* sgsCTX_ForkState copies the context p and resets what is not shared;    *)
(* the accumulated time is copied.                                         *)
Forked(p, exec) ==
    [NoContext EXCEPT !.live = TRUE, !.exec = exec, !.accum = ctx[p].accum]

(* sgs_Abort marks the frames, if there are any.                           *)
Aborted(cx, t) ==
    [cx EXCEPT ![t].aborted = @ \/ cx[t].exec \in {"running", "paused"}]

(* Frames of an aborted context are popped when it is resumed.             *)
Finished(cx, t) == [cx EXCEPT ![t] = [cx[t] EXCEPT !.exec = "none", !.aborted = FALSE]]

---------------------------------------------------------------------------
(* What the script that runs in context c (the innermost activation) does. *)

Script(op) ==
    /\ Top.k = "script"
    /\ op \in Ops
    /\ ctx[Top.c].exec = "running" /\ ~ctx[Top.c].aborted

(* A thread the script can name: its own (_T) or one a variable holds.     *)
Reach(t) == t = Top.c \/ ctx[t].held > 0

Activations(kinds, c) ==
    {i \in 1 .. Len(cstack) : cstack[i].k \in kinds /\ cstack[i].c = c}

PassKinds == {"visit", "timer", "resumed", "after"}

(* A walk of p's list holds the address of p's "subthreads" field.         *)
HeadInUse(p) ==
    \E i \in Activations(PassKinds, p) : cstack[i].pst = [at |-> "first", of |-> p]

(* sgs_CreateSubthread up to the call of the function: the new context     *)
(* runs at once, with no reference to it yet.  Without "prepend" in Ops    *)
(* the scripts of the instance do not add to a list whose head is in use.  *)
CreateSubthread(op, p, n) ==
    /\ Script(op) /\ Room(2)
    /\ p = IF op = "thread_create" THEN Topmost(Top.c) ELSE Top.c
    /\ ~ctx[n].live
    /\ ctx[p].accum <= MaxAccum
    /\ "prepend" \in Ops \/ ~HeadInUse(p)
    /\ ctx' = [ctx EXCEPT ![n] = Forked(p, "running")]
    /\ cstack' = <<Act("script", n), [Act("start", n) EXCEPT !.p = p]>> \o cstack
    /\ UNCHANGED signaled

(* The rest of sgs_CreateSubthread: a thread that paused is linked in, and *)
(* either way a reference to it goes to the caller's stack.                *)
StartReturn ==
    LET n == Top.c
        p == Top.p
        result == [ctx[n] EXCEPT !.refs = @ + 1, !.held = @ + 1]
        linked == [result EXCEPT !.refs = @ + 1, !.parent = p, !.next = ctx[p].first,
                                 !.timeout = Top.val, !.asked = Top.val]
    IN  /\ Top.k = "start"
        /\ ctx' = IF ctx[n].exec # "paused" THEN [ctx EXCEPT ![n] = result]
                  ELSE [ctx EXCEPT ![n] = linked, ![p].first = n]
        /\ cstack' = Tail(cstack)
        /\ UNCHANGED signaled

(* co_create: a context that is not started, owned by the variable.        *)
CoCreate(n) ==
    /\ Script("co_create")
    /\ ~ctx[n].live
    /\ ctx[Top.c].accum <= MaxAccum
    /\ ctx' = [ctx EXCEPT ![n] = [Forked(Top.c, "fresh") EXCEPT !.refs = 1, !.held = 1]]
    /\ UNCHANGED <<signaled, cstack>>

(* Mutant of CoResume: the argument is not kept while it runs.             *)
CoResumeNoHold(t) ==
    /\ Script("co_resume") /\ Room(2)
    /\ ctx[t].held > 0
    /\ ctx[t].exec = "fresh" \/ (ctx[t].exec = "paused" /\ ~ctx[t].aborted)
    /\ ctx' = [ctx EXCEPT ![t].exec = "running"]
    /\ cstack' = <<Act("script", t), Act("resume", t)>> \o cstack
    /\ UNCHANGED signaled

(* co_resume (also t.resume()) of a coroutine or of a waiting thread.  The *)
(* argument on the caller's stack keeps t alive until it returns.          *)
CoResume(t) ==
    /\ Script("co_resume") /\ Room(2)
    /\ ctx[t].held > 0
    /\ ctx[t].exec = "fresh" \/ (ctx[t].exec = "paused" /\ ~ctx[t].aborted)
    /\ ctx' = [ctx EXCEPT ![t] = [ctx[t] EXCEPT !.exec = "running", !.refs = @ + 1]]
    /\ cstack' = <<Act("script", t), Act("resume", t)>> \o cstack
    /\ UNCHANGED signaled

(* co_resume of an aborted context only pops its frames.                   *)
CoResumeAborted(t) ==
    /\ Script("co_resume")
    /\ ctx[t].held > 0
    /\ ctx[t].exec = "paused" /\ ctx[t].aborted
    /\ ctx' = Finished(ctx, t)
    /\ UNCHANGED <<signaled, cstack>>

ResumeReturn ==
    /\ Top.k = "resume"
    /\ ctx' = Released(ctx, Top.c)
    /\ cstack' = Tail(cstack)
    /\ UNCHANGED signaled

(* abort() and t.abort().                                                  *)
Abort(t) ==
    /\ Script("abort")
    /\ t # Root /\ Reach(t)
    /\ ctx' = Aborted(ctx, t)
    /\ UNCHANGED <<signaled, cstack>>

(* t.end_on(event, enable), and a script that sets event.signaled.         *)
EndOn(t, enable) ==
    /\ Script("end_on")
    /\ t # Root /\ Reach(t)
    /\ ctx' = [ctx EXCEPT ![t].endOn = enable]
    /\ UNCHANGED <<signaled, cstack>>

Signal(b) ==
    /\ Script("end_on")
    /\ signaled' = b
    /\ UNCHANGED <<ctx, cstack>>

(* A variable is set to _T.  Without "self_ref" in Ops the scripts do not  *)
(* use _T before the first yield of a thread.                              *)
TakeRef ==
    LET c == Top.c
    IN  /\ Script("hold")
        /\ c # Root /\ ctx[c].held < MaxVars
        /\ "self_ref" \in Ops \/ Activations({"start"}, c) = {}
        /\ ctx' = [ctx EXCEPT ![c] = [ctx[c] EXCEPT !.refs = @ + 1, !.held = @ + 1]]
        /\ UNCHANGED <<signaled, cstack>>

(* Mutant of DropRef: the variable may be released twice.                  *)
DropRefTwice(t) ==
    /\ Script("hold")
    /\ t # Root
    /\ ctx[t].live
    /\ ctx' = Released([ctx EXCEPT ![t].held = @ - 1], t)
    /\ UNCHANGED <<signaled, cstack>>

(* A variable that holds a thread is set to null.  Without "drop_owner" in *)
(* Ops the owner of a thread that is being started is not left to a call   *)
(* that returns before the start does.                                     *)
DropRef(t) ==
    /\ Script("hold")
    /\ ctx[t].held > 0
    /\ ctx' = Released([ctx EXCEPT ![t].held = @ - 1], t)
    /\ "drop_owner" \in Ops \/ \A i \in 1 .. Len(cstack) :
            cstack[i].k = "start" /\ cstack[i].p = t =>
                ctx[t].held > 1 \/ \E j \in i + 1 .. Len(cstack) : cstack[j].c = t
    /\ UNCHANGED <<signaled, cstack>>

(* yield(v): the frames are marked paused and control goes to the caller.  *)
Yield(v) ==
    /\ Script("yield")
    /\ Top.c # Root
    /\ ctx' = [ctx EXCEPT ![Top.c].exec = "paused"]
    /\ cstack' = PopWith(v)
    /\ UNCHANGED signaled

(* The function ends; an aborted one goes to its last RETN at once.        *)
Return(v) ==
    /\ Top.k = "script"
    /\ Top.c # Root
    /\ ctx[Top.c].aborted => v = 0
    /\ ctx' = Finished(ctx, Top.c)
    /\ cstack' = PopWith(v)
    /\ UNCHANGED signaled

---------------------------------------------------------------------------
(* sgs_ProcessSubthreads.                                                  *)

Pass(c, d) == [Act("visit", c) EXCEPT !.dt = d, !.todo = ListOf(ctx, c)]

(* process_threads(d), called by the main script or by another.  Without   *)
(* "reenter" in Ops no script calls it for a context whose list, or that   *)
(* of one of its descendants, is being walked.                             *)
ProcessThreads(d) ==
    /\ Top.k = "script" /\ ctx[Top.c].exec = "running" /\ ~ctx[Top.c].aborted
    /\ Top.c = Root \/ "process_threads" \in Ops
    /\ Room(1)
    /\ "reenter" \in Ops \/ \A i \in 1 .. Len(cstack) :
            cstack[i].k \in PassKinds => Top.c \notin Ancestors(ctx, cstack[i].c)
    /\ cstack' = Push(Pass(Top.c, d))
    /\ UNCHANGED <<ctx, signaled>>

(* The next thread of the list: its own subthreads are advanced first.     *)
PassVisit ==
    LET th == Deref(ctx, Top.pst)
    IN  /\ Top.k = "visit"
        /\ th # Null
        /\ cstack' = <<Pass(th, Top.dt), [Top EXCEPT !.k = "timer", !.th = th]>>
                        \o Tail(cstack)
        /\ UNCHANGED <<ctx, signaled>>

PassReturn ==
    /\ Top.k = "visit"
    /\ Deref(ctx, Top.pst) = Null
    /\ cstack' = Tail(cstack)
    /\ UNCHANGED <<ctx, signaled>>

(* The timers of the thread being visited, advanced by dt.                 *)
Ticked ==
    [ctx EXCEPT ![Top.th] = [ctx[Top.th] EXCEPT !.timeout = @ - Top.dt,
                                                !.accum = @ + Top.dt,
                                                !.waited = @ + Top.dt]]

Expired == Ticked[Top.th].timeout <= 0
EndEvent == ctx[Top.th].endOn /\ signaled
(* Mutant of CanRun: SGS_SF_ABORTED is not looked at.                      *)
CanRunAborted == ctx[Top.th].exec = "paused"

CanRun == ctx[Top.th].exec = "paused" /\ ~ctx[Top.th].aborted

(* Mutant of PassAbort: a thread whose event is signaled is passed over.   *)
PassAbortNothing ==
    /\ Top.k = "timer"
    /\ EndEvent
    /\ cstack' = Replace([Top EXCEPT !.k = "after"])
    /\ UNCHANGED <<ctx, signaled>>

PassAbort ==
    /\ Top.k = "timer"
    /\ EndEvent
    /\ ctx' = Aborted(Ticked, Top.th)
    /\ cstack' = Replace([Top EXCEPT !.k = "after"])
    /\ UNCHANGED signaled

(* Mutant of PassWait: the timers of a waiting thread stand still.         *)
PassWaitStill ==
    /\ Top.k = "timer"
    /\ ~EndEvent /\ ~Expired
    /\ cstack' = Replace([Top EXCEPT !.k = "after"])
    /\ UNCHANGED <<ctx, signaled>>

PassWait ==
    /\ Top.k = "timer"
    /\ ~EndEvent /\ ~Expired
    /\ ctx' = Ticked
    /\ cstack' = Replace([Top EXCEPT !.k = "after"])
    /\ UNCHANGED signaled

PassResume ==
    LET th == Top.th
    IN  /\ Top.k = "timer"
        /\ ~EndEvent /\ Expired /\ CanRun
        /\ ctx' = [Ticked EXCEPT ![th] =
                        [Ticked[th] EXCEPT !.accum = 0, !.waited = 0, !.exec = "running"]]
        /\ cstack' = <<Act("script", th), [Top EXCEPT !.k = "resumed"]>> \o Tail(cstack)
        /\ UNCHANGED signaled

(* sgs_ResumeStateRet runs nothing: it pops the frames of an aborted       *)
(* context, and it refuses one that is running or has no frames, so that   *)
(* the pushed time is read back as the timeout.                            *)
PassNoResume ==
    LET th == Top.th
        left == IF ctx[th].exec = "paused" THEN 0 ELSE Ticked[th].accum
        cx == [Ticked EXCEPT ![th] = [Ticked[th] EXCEPT !.accum = 0, !.waited = 0,
                                                        !.timeout = left, !.asked = left]]
    IN  /\ Top.k = "timer"
        /\ ~EndEvent /\ Expired /\ ~CanRun
        /\ ctx' = IF ctx[th].exec = "paused" THEN Finished(cx, th) ELSE cx
        /\ cstack' = Replace([Top EXCEPT !.k = "after"])
        /\ UNCHANGED signaled

(* Mutant of PassResumed: what was left of the old timeout is carried over.*)
PassResumedCarries ==
    /\ Top.k = "resumed"
    /\ ctx' = [ctx EXCEPT ![Top.th] =
                    [ctx[Top.th] EXCEPT !.timeout = @ + Top.val, !.asked = Top.val]]
    /\ cstack' = Replace([Top EXCEPT !.k = "after"])
    /\ UNCHANGED signaled

PassResumed ==
    /\ Top.k = "resumed"
    /\ ctx' = [ctx EXCEPT ![Top.th] =
                    [ctx[Top.th] EXCEPT !.timeout = Top.val, !.asked = Top.val]]
    /\ cstack' = Replace([Top EXCEPT !.k = "after"])
    /\ UNCHANGED signaled

Over == ctx[Top.th].exec \in {"none", "fresh"} \/ ctx[Top.th].aborted

Detached(cx, th) == [cx EXCEPT ![th] = [cx[th] EXCEPT !.parent = Null, !.next = Null]]

(* Mutant of PassRemove: the thread is released and left in the list.      *)
PassRemoveLinked ==
    LET th == Top.th
    IN  /\ Top.k = "after"
        /\ Over
        /\ ctx' = Released(Detached(ctx, th), th)
        /\ cstack' = Replace([Top EXCEPT !.k = "visit", !.th = Null,
                                         !.seen = @ \cup {th}])
        /\ UNCHANGED signaled

(* Mutant of PassRemove: the cursor also moves on, past the next thread.   *)
PassRemoveSkips ==
    LET th == Top.th
        over == ctx[th].next
    IN  /\ Top.k = "after"
        /\ Over
        /\ ctx' = Released(Detached(Store(ctx, Top.pst, over), th), th)
        /\ cstack' = Replace([Top EXCEPT !.k = "visit", !.th = Null,
                        !.pst = IF over = Null THEN @ ELSE [at |-> "next", of |-> over],
                        !.seen = @ \cup {th}])
        /\ UNCHANGED signaled

(* The thread is unlinked: the link the cursor addresses is overwritten.   *)
PassRemove ==
    LET th == Top.th
    IN  /\ Top.k = "after"
        /\ Over
        /\ ctx' = Released(Detached(Store(ctx, Top.pst, ctx[th].next), th), th)
        /\ cstack' = Replace([Top EXCEPT !.k = "visit", !.th = Null,
                                         !.seen = @ \cup {th}])
        /\ UNCHANGED signaled

(* The cursor moves to the st_next field of the thread it addresses.        *)
PassAdvance ==
    LET at == Deref(ctx, Top.pst)
    IN  /\ Top.k = "after"
        /\ ~Over
        /\ at # Null
        /\ cstack' = Replace([Top EXCEPT !.k = "visit", !.th = Null,
                                         !.pst = [at |-> "next", of |-> at],
                                         !.seen = @ \cup {Top.th}])
        /\ UNCHANGED <<ctx, signaled>>

---------------------------------------------------------------------------
Init ==
    /\ ctx = [c \in Ctx |-> IF c = Root
                THEN [NoContext EXCEPT !.live = TRUE, !.exec = "running", !.refs = 1]
                ELSE NoContext]
    /\ signaled = FALSE
    /\ cstack = <<Act("script", Root)>>

Create ==
    \E n \in Ctx : \/ \E p \in Ctx : \/ CreateSubthread("thread_create", p, n)
                                     \/ CreateSubthread("subthread_create", p, n)
                   \/ CoCreate(n)

OnThread ==
    \E t \in Ctx : \/ CoResume(t) \/ CoResumeAborted(t) \/ Abort(t) \/ DropRef(t)
                   \/ \E b \in BOOLEAN : EndOn(t, b)

ScriptStops == \E v \in Timeouts \cup {0} : Yield(v) \/ Return(v)

StartPass == \E d \in Deltas : ProcessThreads(d)

(* The steps of C code that no script decides.                             *)
Continue ==
    \/ StartReturn \/ ResumeReturn
    \/ PassVisit \/ PassReturn \/ PassAbort \/ PassWait \/ PassResume
    \/ PassNoResume \/ PassResumed \/ PassRemove \/ PassAdvance

Next ==
    \/ Create \/ OnThread \/ TakeRef \/ (\E b \in BOOLEAN : Signal(b))
    \/ ScriptStops \/ StartPass \/ Continue

Spec == Init /\ [][Next]_vars

(* The C code keeps running; whichever script has control some time yields *)
(* or returns; the host's main loop calls process_threads again and again.    *)
FairSpec ==
    /\ Spec
    /\ WF_vars(Continue)
    /\ \A c \in Ctx \ {Root} : SF_vars(ScriptStops /\ Top.c = c)
    /\ SF_vars(StartPass /\ Top.c = Root)

---------------------------------------------------------------------------
(* Every variable has its type.                                            *)
TypeOK ==
    /\ ctx \in [Ctx -> Context]
    /\ signaled \in BOOLEAN
    /\ cstack \in Seq(Activation) \ {<<>>}

Listed(t) == {p \in Ctx : t \in ListOf(ctx, p)}

(* A context's reference count is the number of its owners: the variables  *)
(* that hold it, the list it is in and the resume calls on the C stack.    *)
(* The root has the engine's reference.  A context nobody owns is freed,   *)
(* unless its first run is still going on.                                 *)
RefsExact ==
    \A t \in Ctx :
        /\ ctx[t].refs = ctx[t].held + Cardinality(Listed(t))
                            + Cardinality(Activations({"resume"}, t))
                            + (IF t = Root THEN 1 ELSE 0)
        /\ ctx[t].live <=> (ctx[t].refs > 0 \/ Activations({"start"}, t) # {})

(* A thread is in the list of the context it names as its parent and in no *)
(* other, and a list holds nothing else: no thread is lost by the walk.    *)
ListsMatchParents ==
    \A t \in Ctx : Listed(t) = {ctx[t].parent} \ {Null}

(* Nothing reachable points to a freed context: not a list, not a parent,  *)
(* not a caller on the C stack and not the link a walk is about to write.  *)
NoDangling ==
    /\ \A c \in Ctx : ctx[c].live =>
        \A t \in ListOf(ctx, c) \cup ({ctx[c].parent} \ {Null}) : ctx[t].live
    /\ \A i \in 1 .. Len(cstack) :
        LET a == cstack[i]
        IN  /\ ctx[a.c].live /\ ctx[a.pst.of].live
            /\ a.th # Null => ctx[a.th].live
            /\ a.p # Null => ctx[a.p].live

(* One pass of process_threads handles every thread that was in the list   *)
(* when it began exactly once (or finds it gone), and the timers with it.  *)
OncePerPass ==
    \A i \in 1 .. Len(cstack) :
        LET a == cstack[i]
        IN  a.k \in PassKinds =>
                /\ a.th \notin a.seen
                /\ (i = 1 /\ a.k = "visit" /\ Deref(ctx, a.pst) = Null) =>
                        \A t \in a.todo \ a.seen : ctx[t].parent # a.c

(* A waiting thread's timeout is what it asked for less the time that the  *)
(* passes have counted since one last ran it, however often it was resumed *)
(* by hand or its list was edited in between.                              *)
TimersExact ==
    \A t \in Ctx :
        ctx[t].parent # Null /\ ctx[t].exec = "paused" =>
            \/ ctx[t].timeout = ctx[t].asked - ctx[t].waited
            \/ \E i \in 1 .. Len(cstack) : cstack[i].k = "resumed" /\ cstack[i].th = t

(* The thread that thread_create is about to return exists.                *)
CreatedThreadIsLive == Top.k = "start" => ctx[Top.c].live

(* An aborted context runs no more: it stays aborted until its frames are  *)
(* gone, and a paused one is not resumed.                                  *)
AbortIsFinal ==
    \A t \in Ctx : ctx[t].aborted =>
        /\ ctx'[t].aborted \/ ctx'[t].exec = "none"
        /\ ctx[t].exec = "paused" => ctx'[t].exec \in {"paused", "none"}

AbortedNeverRuns == [][AbortIsFinal]_vars

(* The threads that the main script's process_threads reaches.             *)
Managed(t) == ctx[t].parent # Null /\ Topmost(t) = Root

(* A managed thread whose end_on event stays signaled is stopped.          *)
Ending(t) == Managed(t) /\ ctx[t].endOn /\ signaled
EndOnStops == \A t \in Ctx \ {Root} : Ending(t) ~> ~Ending(t)

(* A managed thread that waits is run again, or stopped.                   *)
Waiting(t) == Managed(t) /\ ctx[t].exec = "paused" /\ ~ctx[t].aborted
WaitEnds == \A t \in Ctx \ {Root} : Waiting(t) ~> ~Waiting(t)
=============================================================================
