--------------------------- MODULE ThreadsProofs ---------------------------
(* Theorems about Threads, for every set of contexts, every set of yielded *)
(* values and library functions and every value of the bounds.             *)
EXTENDS Threads, SequenceTheorems, TLAPS

(* The activations that occur: a walk that is past its fetch has a thread  *)
(* in hand, and a thread is started for some parent.                       *)
GoodAct ==
    {a \in Activation : /\ a.k \in {"timer", "resumed", "after"} => a.th \in Ctx
                        /\ a.k = "start" => a.p \in Ctx}

(* The C stack rests on the main script.                                   *)
StackOK(s) ==
    /\ s \in Seq(GoodAct)
    /\ s # <<>>
    /\ s[Len(s)].k = "script"
    /\ s[Len(s)].c = Root

(* TypeOK strengthened, so that whatever returns to a caller has one.      *)
IInv ==
    /\ ctx \in [Ctx -> Context]
    /\ signaled \in BOOLEAN
    /\ StackOK(cstack)

---------------------------------------------------------------------------
(* Facts about sequences.                                                  *)

LEMMA SingleLen ==
    ASSUME NEW S, NEW s \in Seq(S), s # <<>>, Tail(s) = <<>>
    PROVE  Len(s) = 1
<1>1. Len(Tail(s)) = Len(s) - 1 /\ Len(s) \in Nat
  BY HeadTailProperties, LenProperties
<1>2. PICK n \in Nat : n = Len(s)
  BY <1>1
<1>3. 0 = n - 1
  BY <1>1, <1>2, EmptySeq
<1>4. n = 1
  BY <1>3
<1> QED
  BY <1>2, <1>4

LEMMA FirstIsHead ==
    ASSUME NEW S, NEW s \in Seq(S), s # <<>>
    PROVE  Head(s) = s[1]
  OBVIOUS

LEMMA TailLast ==
    ASSUME NEW S, NEW s \in Seq(S), s # <<>>, Tail(s) # <<>>
    PROVE  Tail(s)[Len(Tail(s))] = s[Len(s)]
<1>1. /\ Tail(s) \in Seq(S)
      /\ Len(Tail(s)) = Len(s) - 1
      /\ \A i \in 1 .. Len(Tail(s)) : Tail(s)[i] = s[i + 1]
  BY HeadTailProperties
<1>2. Len(s) \in Nat /\ Len(Tail(s)) \in Nat \ {0}
  BY <1>1, EmptySeq, LenProperties
<1>3. Len(Tail(s)) \in 1 .. Len(Tail(s)) /\ Len(Tail(s)) + 1 = Len(s)
  BY <1>1, <1>2
<1> QED
  BY <1>1, <1>3

LEMMA ConsLast ==
    ASSUME NEW S, NEW a \in S, NEW r \in Seq(S), r # <<>>
    PROVE  /\ <<a>> \o r \in Seq(S)
           /\ <<a>> \o r # <<>>
           /\ (<<a>> \o r)[Len(<<a>> \o r)] = r[Len(r)]
<1>1. Len(<<a>> \o r) = Len(r) + 1 /\ Len(r) \in Nat /\ Len(r) # 0
  OBVIOUS
<1>2. (<<a>> \o r)[Len(r) + 1] = r[Len(r)]
  BY <1>1
<1> QED
  BY <1>1, <1>2

(* Facts about the stack.                                                  *)

LEMMA TopType ==
    ASSUME IInv
    PROVE  /\ Top \in GoodAct
           /\ Tail(cstack) \in Seq(GoodAct)
  BY DEF IInv, StackOK, Top

(* An activation that is not the main script has a caller beneath it.      *)
LEMMA HasCaller ==
    ASSUME IInv, Top.k # "script" \/ Top.c # Root
    PROVE  /\ Tail(cstack) # <<>>
           /\ Tail(cstack)[Len(Tail(cstack))] = cstack[Len(cstack)]
           /\ Head(Tail(cstack)) \in GoodAct
           /\ Tail(Tail(cstack)) \in Seq(GoodAct)
<1>1. cstack \in Seq(GoodAct) /\ cstack # <<>>
  BY DEF IInv, StackOK
<1>2. cstack[Len(cstack)] # cstack[1]
  BY <1>1, FirstIsHead DEF IInv, StackOK, Top
<1>3. Tail(cstack) # <<>>
  BY <1>1, <1>2, SingleLen
<1>4. Tail(cstack)[Len(Tail(cstack))] = cstack[Len(cstack)]
  BY <1>1, <1>3, TailLast
<1>5. Tail(cstack) \in Seq(GoodAct)
  BY <1>1, HeadTailProperties
<1>6. Head(Tail(cstack)) \in GoodAct /\ Tail(Tail(cstack)) \in Seq(GoodAct)
  BY <1>3, <1>5, HeadTailProperties
<1> QED
  BY <1>3, <1>4, <1>6

LEMMA PushKeepsStack ==
    ASSUME IInv, NEW a \in GoodAct
    PROVE  StackOK(<<a>> \o cstack)
  BY DEF IInv, StackOK

LEMMA PushTwoKeepsStack ==
    ASSUME IInv, NEW a \in GoodAct, NEW b \in GoodAct
    PROVE  StackOK(<<a, b>> \o cstack)
  BY DEF IInv, StackOK

LEMMA ReplaceKeepsStack ==
    ASSUME IInv, Top.k # "script", NEW a \in GoodAct
    PROVE  StackOK(<<a>> \o Tail(cstack))
  BY HasCaller, TopType DEF IInv, StackOK

LEMMA ReplaceTwoKeepsStack ==
    ASSUME IInv, Top.k # "script", NEW a \in GoodAct, NEW b \in GoodAct
    PROVE  StackOK(<<a, b>> \o Tail(cstack))
  BY HasCaller, TopType DEF IInv, StackOK

LEMMA PopKeepsStack ==
    ASSUME IInv, Top.k # "script"
    PROVE  StackOK(Tail(cstack))
  BY HasCaller, TopType DEF IInv, StackOK

LEMMA PopWithKeepsStack ==
    ASSUME IInv, Top.k # "script" \/ Top.c # Root, NEW v \in Nat
    PROVE  StackOK(PopWith(v))
<1> DEFINE t == Tail(cstack)
           b == [Head(t) EXCEPT !.val = v]
<1>1. /\ t # <<>> /\ t \in Seq(GoodAct)
      /\ Head(t) \in GoodAct /\ Tail(t) \in Seq(GoodAct)
      /\ t[Len(t)].k = "script" /\ t[Len(t)].c = Root
  BY HasCaller, TopType DEF IInv, StackOK
<1>2. b \in GoodAct /\ b.k = Head(t).k /\ b.c = Head(t).c
  BY <1>1 DEF GoodAct, Activation
<1> HIDE DEF b
<1>3. CASE Tail(t) = <<>>
  <2>1. t[Len(t)] = Head(t)
    BY <1>1, <1>3, SingleLen, FirstIsHead
  <2>2. <<b>> \in Seq(GoodAct) /\ <<b>> # <<>> /\ <<b>>[Len(<<b>>)] = b
    BY <1>2
  <2>3. <<b>> \o Tail(t) = <<b>>
    BY <1>3, <2>2, ConcatEmptySeq
  <2>4. PopWith(v) = <<b>>
    BY <2>3 DEF PopWith, b
  <2> QED
    BY <1>1, <1>2, <2>1, <2>2, <2>4 DEF StackOK
<1>4. CASE Tail(t) # <<>>
  <2>1. t[Len(t)] = Tail(t)[Len(Tail(t))]
    BY <1>1, <1>4, TailLast
  <2>2. LET s == <<b>> \o Tail(t)
        IN  /\ s \in Seq(GoodAct) /\ s # <<>>
            /\ s[Len(s)] = Tail(t)[Len(Tail(t))]
    BY <1>1, <1>2, <1>4, ConsLast
  <2> QED
    BY <1>1, <2>1, <2>2 DEF PopWith, StackOK, b
<1> QED
  BY <1>3, <1>4

---------------------------------------------------------------------------
(* Facts about contexts and activations.                                   *)

LEMMA NoContextType == NoContext \in Context
  BY RootAssumption DEF NoContext, Context, Ptr

(* Updating fields of a context record.                                    *)
LEMMA RecordTypes ==
    ASSUME NEW r \in Context
    PROVE  /\ \A v \in BOOLEAN : [r EXCEPT !.endOn = v] \in Context
           /\ \A v \in BOOLEAN : [r EXCEPT !.aborted = v] \in Context
           /\ \A v \in Ptr : [r EXCEPT !.first = v] \in Context
           /\ \A v \in Ptr : [r EXCEPT !.next = v] \in Context
           /\ \A v \in Nat : [r EXCEPT !.held = v] \in Context
           /\ \A v \in Int : [r EXCEPT !.refs = v] \in Context
           /\ \A e \in {"none", "fresh", "running", "paused"} :
                    [r EXCEPT !.exec = e] \in Context
           /\ \A v \in Int : [r EXCEPT !.timeout = v, !.asked = v] \in Context
  BY DEF Context

LEMMA FieldValues ==
    ASSUME NEW r \in Context
    PROVE  /\ r.live \in BOOLEAN /\ r.exec \in {"none", "fresh", "running", "paused"}
           /\ r.aborted \in BOOLEAN /\ r.endOn \in BOOLEAN
           /\ r.parent \in Ptr /\ r.first \in Ptr /\ r.next \in Ptr
           /\ r.refs \in Int /\ r.held \in Nat
           /\ r.timeout \in Int /\ r.accum \in Int
           /\ r.waited \in Int /\ r.asked \in Int
  BY DEF Context

LEMMA SetContext ==
    ASSUME NEW cx \in [Ctx -> Context], NEW t \in Ctx, NEW r \in Context
    PROVE  /\ [cx EXCEPT ![t] = r] \in [Ctx -> Context]
           /\ cx[t] \in Context
  OBVIOUS

LEMMA UpdateTypes ==
    ASSUME NEW cx \in [Ctx -> Context], NEW t \in Ctx
    PROVE  /\ \A v \in {"none", "fresh", "running", "paused"} :
                    [cx EXCEPT ![t].exec = v] \in [Ctx -> Context]
           /\ \A v \in BOOLEAN : [cx EXCEPT ![t].aborted = v] \in [Ctx -> Context]
           /\ \A v \in BOOLEAN : [cx EXCEPT ![t].endOn = v] \in [Ctx -> Context]
           /\ \A v \in Ptr : [cx EXCEPT ![t].first = v] \in [Ctx -> Context]
           /\ \A v \in Ptr : [cx EXCEPT ![t].next = v] \in [Ctx -> Context]
           /\ \A v \in Nat : [cx EXCEPT ![t].held = v] \in [Ctx -> Context]
           /\ \A v \in Int : [cx EXCEPT ![t].refs = v] \in [Ctx -> Context]
<1>1. cx[t] \in Context
  OBVIOUS
<1>2. \A r \in Context : [cx EXCEPT ![t] = r] \in [Ctx -> Context]
  OBVIOUS
<1> QED
  BY <1>1, <1>2, RecordTypes

LEMMA ReleasedType ==
    ASSUME NEW cx \in [Ctx -> Context], NEW t \in Ctx
    PROVE  Released(cx, t) \in [Ctx -> Context]
<1>1. cx[t].refs - 1 \in Int
  BY FieldValues
<1>2. [cx EXCEPT ![t].refs = @ - 1] \in [Ctx -> Context]
  BY <1>1, UpdateTypes
<1>3. ASSUME NEW r \in Context
      PROVE  [r EXCEPT !.parent = Null, !.refs = @ - 1] \in Context
  <2>1. \A v \in Int : [r EXCEPT !.parent = Null, !.refs = v] \in Context
    BY DEF Context, Ptr
  <2>2. r.refs - 1 \in Int
    BY FieldValues
  <2> QED
    BY <2>1, <2>2
<1> QED
  BY <1>2, <1>3, NoContextType DEF Released

LEMMA FinishedType ==
    ASSUME NEW cx \in [Ctx -> Context], NEW t \in Ctx
    PROVE  Finished(cx, t) \in [Ctx -> Context]
<1>1. \A r \in Context : [r EXCEPT !.exec = "none", !.aborted = FALSE] \in Context
  BY DEF Context
<1> QED
  BY <1>1, SetContext DEF Finished

LEMMA AbortedType ==
    ASSUME NEW cx \in [Ctx -> Context], NEW t \in Ctx
    PROVE  Aborted(cx, t) \in [Ctx -> Context]
<1> DEFINE v == cx[t].aborted \/ cx[t].exec \in {"running", "paused"}
<1>1. v \in BOOLEAN
  OBVIOUS
<1>2. [cx EXCEPT ![t].aborted = v] \in [Ctx -> Context]
  BY <1>1, UpdateTypes
<1> QED
  BY <1>2 DEF Aborted

LEMMA ForkedType ==
    ASSUME IInv, NEW p \in Ctx, NEW e \in {"fresh", "running"}
    PROVE  Forked(p, e) \in Context
  BY NoContextType DEF IInv, Forked, Context

LEMMA TickedType ==
    ASSUME IInv, Top.th \in Ctx
    PROVE  Ticked \in [Ctx -> Context]
<1> DEFINE r == ctx[Top.th]
           i == r.timeout - Top.dt
           j == r.accum + Top.dt
           k == r.waited + Top.dt
           q == [r EXCEPT !.timeout = i, !.accum = j, !.waited = k]
<1>1. r \in Context
  BY DEF IInv
<1>2. i \in Int /\ j \in Int /\ k \in Int
  <2>1. Top.dt \in Nat
    BY TopType DEF GoodAct, Activation
  <2>2. r.timeout \in Int /\ r.accum \in Int /\ r.waited \in Int
    BY <1>1, FieldValues
  <2> QED
    BY <2>1, <2>2
<1>3. q \in Context
  <2> HIDE DEF i, j, k, r
  <2> QED
    BY <1>1, <1>2 DEF Context
<1>4. Ticked = [ctx EXCEPT ![Top.th] = q]
  BY DEF Ticked
<1> HIDE DEF q
<1> QED
  BY <1>3, <1>4, SetContext DEF IInv

LEMMA DerefType ==
    ASSUME IInv
    PROVE  Deref(ctx, Top.pst) \in Ptr
<1>1. Top.pst.of \in Ctx
  BY TopType DEF GoodAct, Activation, Cursor
<1> QED
  BY <1>1 DEF IInv, Deref, Context

LEMMA ActType ==
    ASSUME NEW c \in Ctx, NEW kind \in {"script", "resume", "visit"}
    PROVE  Act(kind, c) \in GoodAct
  BY DEF Act, GoodAct, Activation, Cursor, Kinds, Ptr

LEMMA StartType ==
    ASSUME NEW c \in Ctx, NEW p \in Ctx
    PROVE  [Act("start", c) EXCEPT !.p = p] \in GoodAct
  BY DEF Act, GoodAct, Activation, Cursor, Kinds, Ptr

LEMMA PassType ==
    ASSUME NEW c \in Ctx, NEW d \in Nat
    PROVE  Pass(c, d) \in GoodAct
<1>1. ListOf(ctx, c) \in SUBSET Ctx
  BY DEF ListOf, Reachable
<1>2. Act("visit", c) \in Activation
  BY ActType DEF GoodAct
<1> QED
  BY <1>1, <1>2 DEF Pass, Act, GoodAct, Activation

(* What is known of the innermost activation.                              *)
LEMMA TopFields ==
    ASSUME IInv
    PROVE  /\ Top.c \in Ctx /\ Top.th \in Ptr /\ Top.dt \in Nat /\ Top.val \in Nat
           /\ Top.k \in {"timer", "resumed", "after"} => Top.th \in Ctx
           /\ Top.k = "start" => Top.p \in Ctx
           /\ \A kind \in {"timer", "resumed", "after"} :
                 Top.th \in Ctx => [Top EXCEPT !.k = kind] \in GoodAct
           /\ \A t \in Ctx : [Top EXCEPT !.k = "timer", !.th = t] \in GoodAct
           /\ \A t \in Ctx : [Top EXCEPT !.k = "visit", !.th = Null,
                                         !.seen = @ \cup {t}] \in GoodAct
           /\ \A t, a \in Ctx : [Top EXCEPT !.k = "visit", !.th = Null,
                                  !.pst = [at |-> "next", of |-> a],
                                  !.seen = @ \cup {t}] \in GoodAct
<1>1. Top \in GoodAct
  BY TopType
<1> QED
  BY <1>1 DEF GoodAct, Activation, Cursor, Kinds, Ptr

---------------------------------------------------------------------------
(* Every action keeps IInv.                                                *)

LEMMA StartReturnKeeps ==
    ASSUME IInv, StartReturn
    PROVE  IInv'
<1> DEFINE n == Top.c
           p == Top.p
           r == ctx[n]
           result == [r EXCEPT !.refs = @ + 1, !.held = @ + 1]
           linked == [result EXCEPT !.refs = @ + 1, !.parent = p,
                                    !.next = ctx[p].first,
                                    !.timeout = Top.val, !.asked = Top.val]
<1>1. /\ n \in Ctx /\ p \in Ctx /\ Top.val \in Int /\ Top.k # "script"
      /\ ctx \in [Ctx -> Context] /\ r \in Context /\ ctx[p] \in Context
  <2>1. Top.k = "start"
    BY DEF StartReturn
  <2>2. n \in Ctx /\ p \in Ctx /\ Top.val \in Nat
    BY <2>1, TopFields
  <2> QED
    BY <2>1, <2>2 DEF IInv
<1>2. result \in Context
  <2>1. \A i \in Int, h \in Nat : [r EXCEPT !.refs = i, !.held = h] \in Context
    BY <1>1 DEF Context
  <2>2. r.refs + 1 \in Int /\ r.held + 1 \in Nat
    BY <1>1, FieldValues
  <2> QED
    BY <2>1, <2>2
<1> HIDE DEF result
<1>3. linked \in Context
  <2>1. \A i \in Int, q \in Ptr, v \in Int :
            [result EXCEPT !.refs = i, !.parent = p, !.next = q,
                           !.timeout = v, !.asked = v] \in Context
    BY <1>1, <1>2 DEF Context, Ptr
  <2>2. result.refs + 1 \in Int /\ ctx[p].first \in Ptr
    BY <1>1, <1>2, FieldValues
  <2> QED
    BY <1>1, <2>1, <2>2
<1> HIDE DEF linked
<1>4. [ctx EXCEPT ![n] = result] \in [Ctx -> Context]
  BY <1>1, <1>2, SetContext
<1>5. [ctx EXCEPT ![n] = linked, ![p].first = n] \in [Ctx -> Context]
  <2>1. [ctx EXCEPT ![n] = linked] \in [Ctx -> Context]
    BY <1>1, <1>3, SetContext
  <2> DEFINE c1 == [ctx EXCEPT ![n] = linked]
  <2>2. [c1 EXCEPT ![p].first = n] \in [Ctx -> Context]
    BY <1>1, <2>1, UpdateTypes DEF Ptr
  <2> QED
    BY <2>2
<1>6. StackOK(cstack')
  BY <1>1, PopKeepsStack DEF StartReturn
<1> QED
  BY <1>4, <1>5, <1>6 DEF StartReturn, IInv, result, linked

(* The steps of a script.                                                  *)
LEMMA ScriptKeeps ==
    ASSUME IInv, Create \/ OnThread \/ TakeRef \/ \E b \in BOOLEAN : Signal(b)
    PROVE  IInv'
<1> USE DEF IInv
<1>1. ASSUME NEW n \in Ctx, NEW p \in Ctx, NEW op, CreateSubthread(op, p, n)
      PROVE  IInv'
  <2>1. ctx' \in [Ctx -> Context]
    BY <1>1, ForkedType, SetContext DEF CreateSubthread
  <2>2. StackOK(cstack')
    BY <1>1, ActType, StartType, PushTwoKeepsStack DEF CreateSubthread
  <2> QED
    BY <1>1, <2>1, <2>2 DEF CreateSubthread
<1>2. ASSUME NEW n \in Ctx, CoCreate(n)
      PROVE  IInv'
  <2>1. Top.c \in Ctx
    BY TopFields
  <2>2. Forked(Top.c, "fresh") \in Context
    BY <2>1, ForkedType
  <2>3. [Forked(Top.c, "fresh") EXCEPT !.refs = 1, !.held = 1] \in Context
    <3>1. \A r \in Context, i \in Int, h \in Nat :
            [r EXCEPT !.refs = i, !.held = h] \in Context
      BY DEF Context
    <3>2. 1 \in Int /\ 1 \in Nat
      OBVIOUS
    <3> QED
      BY <2>2, <3>1, <3>2
  <2>4. ctx' \in [Ctx -> Context]
    BY <1>2, <2>3, SetContext DEF CoCreate
  <2> QED
    BY <1>2, <2>4 DEF CoCreate
<1>3. ASSUME NEW t \in Ctx, CoResume(t)
      PROVE  IInv'
  <2> DEFINE i == ctx[t].refs + 1
  <2>1. ctx[t] \in Context /\ i \in Int
    BY FieldValues
  <2>2. [ctx[t] EXCEPT !.exec = "running", !.refs = i] \in Context
    <3> HIDE DEF i
    <3> QED
      BY <2>1 DEF Context
  <2>3. ctx' \in [Ctx -> Context]
    BY <1>3, <2>2, SetContext DEF CoResume
  <2>4. StackOK(cstack')
    BY <1>3, ActType, PushTwoKeepsStack DEF CoResume
  <2> QED
    BY <1>3, <2>3, <2>4 DEF CoResume
<1>4. ASSUME NEW t \in Ctx, CoResumeAborted(t)
      PROVE  IInv'
  BY <1>4, FinishedType DEF CoResumeAborted
<1>5. ASSUME NEW t \in Ctx, Abort(t)
      PROVE  IInv'
  BY <1>5, AbortedType DEF Abort
<1>6. ASSUME NEW t \in Ctx, DropRef(t)
      PROVE  IInv'
  <2>1. ctx[t].held - 1 \in Nat
    BY <1>6, FieldValues DEF DropRef
  <2>2. [ctx EXCEPT ![t].held = @ - 1] \in [Ctx -> Context]
    BY <2>1, UpdateTypes
  <2>3. ctx' \in [Ctx -> Context]
    BY <1>6, <2>2, ReleasedType DEF DropRef
  <2> QED
    BY <1>6, <2>3 DEF DropRef
<1>7. ASSUME NEW t \in Ctx, NEW b \in BOOLEAN, EndOn(t, b)
      PROVE  IInv'
  <2>1. ctx' \in [Ctx -> Context]
    BY <1>7, UpdateTypes DEF EndOn
  <2> QED
    BY <1>7, <2>1 DEF EndOn
<1>8. ASSUME TakeRef
      PROVE  IInv'
  <2> DEFINE c == Top.c
             i == ctx[c].refs + 1
             h == ctx[c].held + 1
  <2>1. c \in Ctx /\ ctx[c] \in Context
    BY TopFields
  <2>2. i \in Int /\ h \in Nat
    BY <2>1, FieldValues
  <2>3. [ctx[c] EXCEPT !.refs = i, !.held = h] \in Context
    <3> HIDE DEF i, h, c
    <3> QED
      BY <2>1, <2>2 DEF Context
  <2>4. ctx' \in [Ctx -> Context]
    BY <1>8, <2>1, <2>3, SetContext DEF TakeRef
  <2> QED
    BY <1>8, <2>4 DEF TakeRef
<1>9. ASSUME NEW b \in BOOLEAN, Signal(b)
      PROVE  IInv'
  BY <1>9 DEF Signal
<1> QED
  BY <1>1, <1>2, <1>3, <1>4, <1>5, <1>6, <1>7, <1>8, <1>9 DEF Create, OnThread

(* A script gives control back to its caller, or starts a pass.            *)
LEMMA StopKeeps ==
    ASSUME IInv, ScriptStops \/ StartPass
    PROVE  IInv'
<1>0. Top.c \in Ctx /\ Timeouts \subseteq Nat /\ Deltas \subseteq Nat
  BY TopFields, TimeAssumption
<1>1. ASSUME NEW v \in Timeouts \cup {0}, Yield(v)
      PROVE  IInv'
  <2>1. ctx' \in [Ctx -> Context]
    BY <1>0, <1>1, UpdateTypes DEF Yield, IInv
  <2>2. StackOK(cstack')
    BY <1>0, <1>1, PopWithKeepsStack DEF Yield
  <2> QED
    BY <1>1, <2>1, <2>2 DEF Yield, IInv
<1>2. ASSUME NEW v \in Timeouts \cup {0}, Return(v)
      PROVE  IInv'
  <2>1. ctx' \in [Ctx -> Context]
    BY <1>0, <1>2, FinishedType DEF Return, IInv
  <2>2. StackOK(cstack')
    BY <1>0, <1>2, PopWithKeepsStack DEF Return
  <2> QED
    BY <1>2, <2>1, <2>2 DEF Return, IInv
<1>3. ASSUME NEW d \in Deltas, ProcessThreads(d)
      PROVE  IInv'
  <2>1. Pass(Top.c, d) \in GoodAct
    BY <1>0, PassType
  <2>2. StackOK(cstack')
    BY <1>3, <2>1, PushKeepsStack DEF ProcessThreads, Push
  <2> QED
    BY <1>3, <2>2 DEF ProcessThreads, IInv
<1> QED
  BY <1>1, <1>2, <1>3 DEF ScriptStops, StartPass

(* The steps of sgs_ProcessSubthreads.                                     *)
LEMMA AfterKeeps ==
    ASSUME IInv, Top.k = "timer" \/ Top.k = "resumed",
           ctx' \in [Ctx -> Context], UNCHANGED signaled,
           cstack' = Replace([Top EXCEPT !.k = "after"])
    PROVE  IInv'
<1>1. Top.th \in Ctx /\ [Top EXCEPT !.k = "after"] \in GoodAct
  BY TopFields
<1>2. StackOK(cstack')
  BY <1>1, ReplaceKeepsStack DEF Replace
<1> QED
  BY <1>2 DEF IInv

LEMMA DetachedType ==
    ASSUME NEW cx \in [Ctx -> Context], NEW t \in Ctx
    PROVE  Detached(cx, t) \in [Ctx -> Context]
<1>1. \A r \in Context : [r EXCEPT !.parent = Null, !.next = Null] \in Context
  BY DEF Context, Ptr
<1> QED
  BY <1>1, SetContext DEF Detached

LEMMA PassKeeps ==
    ASSUME IInv, PassVisit \/ PassReturn \/ PassAbort \/ PassWait \/ PassResume
                 \/ PassNoResume \/ PassResumed \/ PassRemove \/ PassAdvance
    PROVE  IInv'
<1>0. /\ ctx \in [Ctx -> Context] /\ Top.c \in Ctx /\ Top.dt \in Nat /\ Top.val \in Int
      /\ Top.k \in {"timer", "resumed", "after"} => Top.th \in Ctx /\ ctx[Top.th] \in Context
  <2>1. /\ ctx \in [Ctx -> Context] /\ Top.c \in Ctx /\ Top.dt \in Nat /\ Top.val \in Nat
        /\ Top.k \in {"timer", "resumed", "after"} => Top.th \in Ctx
    BY TopFields DEF IInv
  <2>2. \A t \in Ctx : ctx[t] \in Context
    BY <2>1
  <2> QED
    BY <2>1, <2>2
<1>1. CASE PassVisit
  <2> DEFINE th == Deref(ctx, Top.pst)
  <2>1. th \in Ctx
    BY <1>1, DerefType DEF PassVisit, Ptr
  <2>2. Pass(th, Top.dt) \in GoodAct /\ [Top EXCEPT !.k = "timer", !.th = th] \in GoodAct
    BY <1>0, <2>1, PassType, TopFields
  <2>3. StackOK(cstack')
    BY <1>1, <2>2, ReplaceTwoKeepsStack DEF PassVisit
  <2> QED
    BY <1>1, <2>3 DEF PassVisit, IInv
<1>2. CASE PassReturn
  BY <1>2, PopKeepsStack DEF PassReturn, IInv
<1>3. CASE PassAbort
  BY <1>0, <1>3, TickedType, AbortedType, AfterKeeps DEF PassAbort
<1>4. CASE PassWait
  BY <1>0, <1>4, TickedType, AfterKeeps DEF PassWait
<1>5. CASE PassResume
  <2>1. Top.th \in Ctx /\ Ticked \in [Ctx -> Context]
    BY <1>0, <1>5, TickedType DEF PassResume
  <2>2. \A r \in Context : [r EXCEPT !.accum = 0, !.waited = 0, !.exec = "running"] \in Context
    <3>1. \A r \in Context, i, j \in Int :
            [r EXCEPT !.accum = i, !.waited = j, !.exec = "running"] \in Context
      BY DEF Context
    <3>2. 0 \in Int
      OBVIOUS
    <3> QED
      BY <3>1, <3>2
  <2>3. ctx' \in [Ctx -> Context]
    BY <1>5, <2>1, <2>2, SetContext DEF PassResume
  <2>4. [Top EXCEPT !.k = "resumed"] \in GoodAct /\ Act("script", Top.th) \in GoodAct
    BY <2>1, TopFields, ActType
  <2>5. StackOK(cstack')
    BY <1>5, <2>4, ReplaceTwoKeepsStack DEF PassResume
  <2> QED
    BY <1>5, <2>3, <2>5 DEF PassResume, IInv
<1>6. CASE PassNoResume
  <2> DEFINE th == Top.th
             left == IF ctx[th].exec = "paused" THEN 0 ELSE Ticked[th].accum
             cx == [Ticked EXCEPT ![th] = [Ticked[th] EXCEPT !.accum = 0, !.waited = 0,
                                              !.timeout = left, !.asked = left]]
  <2>1. th \in Ctx /\ Ticked \in [Ctx -> Context]
    BY <1>0, <1>6, TickedType DEF PassNoResume
  <2>2. Ticked[th] \in Context /\ left \in Int
    BY <2>1, FieldValues
  <2>3. [Ticked[th] EXCEPT !.accum = 0, !.waited = 0, !.timeout = left, !.asked = left]
            \in Context
    <3>1. \A r \in Context, i, j, v \in Int :
            [r EXCEPT !.accum = i, !.waited = j, !.timeout = v, !.asked = v] \in Context
      BY DEF Context
    <3>2. 0 \in Int
      OBVIOUS
    <3> HIDE DEF left
    <3> QED
      BY <2>2, <3>1, <3>2
  <2>4. cx \in [Ctx -> Context]
    BY <2>1, <2>3, SetContext
  <2>5. ctx' = (IF ctx[th].exec = "paused" THEN Finished(cx, th) ELSE cx)
    BY <1>6 DEF PassNoResume
  <2> HIDE DEF cx
  <2>6. ctx' \in [Ctx -> Context]
    BY <2>1, <2>4, <2>5, FinishedType
  <2> QED
    BY <1>6, <2>6, AfterKeeps DEF PassNoResume
<1>7. CASE PassResumed
  <2>1. Top.th \in Ctx /\ ctx[Top.th] \in Context
    BY <1>0, <1>7 DEF PassResumed
  <2>2. [ctx[Top.th] EXCEPT !.timeout = Top.val, !.asked = Top.val] \in Context
    BY <1>0, <2>1, RecordTypes
  <2>3. ctx' \in [Ctx -> Context]
    BY <1>0, <1>7, <2>1, <2>2, SetContext DEF PassResumed
  <2> QED
    BY <1>7, <2>3, AfterKeeps DEF PassResumed
<1>8. CASE PassRemove
  <2> DEFINE th == Top.th
             st == Store(ctx, Top.pst, ctx[th].next)
  <2>1. th \in Ctx /\ Top.pst.of \in Ctx /\ ctx[th].next \in Ptr
    BY <1>0, <1>8, FieldValues, TopType DEF PassRemove, GoodAct, Activation, Cursor
  <2>2. st \in [Ctx -> Context]
    BY <1>0, <2>1, UpdateTypes DEF Store
  <2>3. ctx' \in [Ctx -> Context]
    BY <1>8, <2>1, <2>2, DetachedType, ReleasedType DEF PassRemove
  <2>4. [Top EXCEPT !.k = "visit", !.th = Null, !.seen = @ \cup {th}] \in GoodAct
    BY <2>1, TopFields
  <2>5. StackOK(cstack')
    BY <1>8, <2>4, ReplaceKeepsStack DEF PassRemove, Replace
  <2> QED
    BY <1>8, <2>3, <2>5 DEF PassRemove, IInv
<1>9. CASE PassAdvance
  <2> DEFINE at == Deref(ctx, Top.pst)
  <2>1. at \in Ctx /\ Top.th \in Ctx
    BY <1>0, <1>9, DerefType DEF PassAdvance, Ptr
  <2>2. [Top EXCEPT !.k = "visit", !.th = Null, !.pst = [at |-> "next", of |-> at],
                    !.seen = @ \cup {Top.th}] \in GoodAct
    BY <2>1, TopFields
  <2>3. StackOK(cstack')
    BY <1>9, <2>2, ReplaceKeepsStack DEF PassAdvance, Replace
  <2> QED
    BY <1>9, <2>3 DEF PassAdvance, IInv
<1> QED
  BY <1>1, <1>2, <1>3, <1>4, <1>5, <1>6, <1>7, <1>8, <1>9

LEMMA ResumeReturnKeeps ==
    ASSUME IInv, ResumeReturn
    PROVE  IInv'
<1>1. ctx' \in [Ctx -> Context]
  BY TopFields, ReleasedType DEF ResumeReturn, IInv
<1>2. StackOK(cstack')
  BY PopKeepsStack DEF ResumeReturn
<1> QED
  BY <1>1, <1>2 DEF ResumeReturn, IInv

LEMMA InitEstablishes == Init => IInv
<1> SUFFICES ASSUME Init PROVE IInv
  OBVIOUS
<1>1. [NoContext EXCEPT !.live = TRUE, !.exec = "running", !.refs = 1] \in Context
  <2>1. \A r \in Context, b \in BOOLEAN, i \in Int :
          [r EXCEPT !.live = b, !.exec = "running", !.refs = i] \in Context
    BY DEF Context
  <2>2. TRUE \in BOOLEAN /\ 1 \in Int
    OBVIOUS
  <2> QED
    BY <2>1, <2>2, NoContextType
<1>2. ctx \in [Ctx -> Context]
  BY <1>1, NoContextType DEF Init
<1>3. Act("script", Root) \in GoodAct
  BY ActType, RootAssumption
<1>4. Act("script", Root).k = "script" /\ Act("script", Root).c = Root
  BY DEF Act
<1>5. StackOK(cstack)
  BY <1>3, <1>4 DEF Init, StackOK
<1> QED
  BY <1>2, <1>5 DEF Init, IInv

LEMMA StepKeeps == IInv /\ [Next]_vars => IInv'
<1>1. ASSUME IInv, UNCHANGED vars PROVE IInv'
  BY <1>1 DEF vars, IInv
<1>2. ASSUME IInv, Continue PROVE IInv'
  BY <1>2, StartReturnKeeps, ResumeReturnKeeps, PassKeeps DEF Continue
<1> QED
  BY <1>1, <1>2, ScriptKeeps, StopKeeps DEF Next

(* The contexts, the counts and the C stack keep their types, and the C    *)
(* stack always rests on the main script: no call of the scheduler, of     *)
(* thread_create or of resume ever returns to nothing.                     *)
THEOREM StackRests == Spec => []IInv
<1>1. Init => IInv
  BY InitEstablishes
<1>2. IInv /\ [Next]_vars => IInv'
  BY StepKeeps
<1> QED
  BY <1>1, <1>2, PTL DEF Spec

THEOREM TypeCorrect == Spec => []TypeOK
<1>1. IInv => TypeOK
  <2>1. GoodAct \subseteq Activation
    BY DEF GoodAct
  <2> QED
    BY <2>1, SeqMonotonic DEF IInv, StackOK, TypeOK
<1> QED
  BY <1>1, StackRests, PTL
---------------------------------------------------------------------------
(* Aborted contexts.  A context that is not allocated has no frames and is *)
(* not aborted; with that, every action treats every context in a way that *)
(* AbortIsFinal allows.                                                    *)

Clean(r) == r.live \/ (~r.aborted /\ r.exec = "none")

Final(r, q) ==
    r.aborted => /\ q.aborted \/ q.exec = "none"
                 /\ r.exec = "paused" => q.exec \in {"paused", "none"}

Allowed(r, q) == Clean(r) => Clean(q) /\ Final(r, q)

Same(r, q) == q.live = r.live /\ q.exec = r.exec /\ q.aborted = r.aborted
Gone(q) == ~q.aborted /\ q.exec = "none"
Fate(r, q) == Same(r, q) \/ Gone(q)

LEMMA FateAllowed ==
    ASSUME NEW r, NEW q, NEW w, Same(r, q), Fate(q, w)
    PROVE  Allowed(r, w)
  BY DEF Same, Fate, Gone, Allowed, Clean, Final

LEMMA FreeIsGone == Gone(NoContext)
  BY DEF Gone, NoContext

LEMMA ReleasedFate ==
    ASSUME NEW cx \in [Ctx -> Context], NEW t \in Ctx, NEW u \in Ctx
    PROVE  Fate(cx[u], Released(cx, t)[u])
<1>1. CASE cx[t].refs > 1
  <2>1. Released(cx, t)[u] = (IF u = t THEN [cx[t] EXCEPT !.refs = @ - 1] ELSE cx[u])
    BY <1>1 DEF Released
  <2>2. \A r \in Context : \A v : Same(r, [r EXCEPT !.refs = v])
    BY DEF Same, Context
  <2> QED
    BY <2>1, <2>2 DEF Fate, Same
<1>2. CASE ~(cx[t].refs > 1)
  <2>1. \/ Released(cx, t)[u] = NoContext
        \/ Released(cx, t)[u] = [cx[u] EXCEPT !.parent = Null, !.refs = @ - 1]
        \/ Released(cx, t)[u] = cx[u]
    BY <1>2 DEF Released
  <2>2. Same(cx[u], [cx[u] EXCEPT !.parent = Null, !.refs = @ - 1])
    <3>1. \A r \in Context : \A v : Same(r, [r EXCEPT !.parent = Null, !.refs = v])
      BY DEF Same, Context
    <3> QED
      BY <3>1
  <2>3. Same(cx[u], cx[u])
    BY DEF Same
  <2> QED
    BY <2>1, <2>2, <2>3, FreeIsGone DEF Fate
<1> QED
  BY <1>1, <1>2

LEMMA FinishedFate ==
    ASSUME NEW cx \in [Ctx -> Context], NEW t \in Ctx, NEW u \in Ctx
    PROVE  Fate(cx[u], Finished(cx, t)[u])
<1>1. \A r \in Context : Gone([r EXCEPT !.exec = "none", !.aborted = FALSE])
  BY DEF Gone, Context
<1> QED
  BY <1>1 DEF Finished, Fate, Same

LEMMA AbortedAllowed ==
    ASSUME NEW cx \in [Ctx -> Context], NEW t \in Ctx, NEW u \in Ctx,
           NEW r, Same(r, cx[u])
    PROVE  Allowed(r, Aborted(cx, t)[u])
<1> DEFINE v == cx[t].aborted \/ cx[t].exec \in {"running", "paused"}
           q == [cx[t] EXCEPT !.aborted = v]
<1>1. Aborted(cx, t)[u] = (IF u = t THEN q ELSE cx[u])
  BY DEF Aborted
<1>2. q.live = cx[t].live /\ q.exec = cx[t].exec /\ q.aborted = v
  <2>1. \A x \in Context : \A b : LET y == [x EXCEPT !.aborted = b]
                                    IN  y.live = x.live /\ y.exec = x.exec /\ y.aborted = b
    BY DEF Context
  <2> QED
    BY <2>1
<1>3. CASE u = t
  BY <1>1, <1>2, <1>3 DEF Same, Allowed, Clean, Final
<1>4. CASE u # t
  BY <1>1, <1>4 DEF Same, Allowed, Clean, Final
<1> QED
  BY <1>3, <1>4

(* What a step does to every context, given what was known before it.      *)
Step == \A u \in Ctx : Allowed(ctx[u], ctx'[u])

LEMMA SameStep ==
    ASSUME NEW r, NEW q, Same(r, q)
    PROVE  Allowed(r, q)
  BY DEF Same, Allowed, Clean, Final

LEMMA ReleasedStep ==
    ASSUME NEW cx \in [Ctx -> Context], NEW t \in Ctx, NEW u \in Ctx,
           NEW r, Same(r, cx[u])
    PROVE  Allowed(r, Released(cx, t)[u])
  BY ReleasedFate, FateAllowed

LEMMA FinishedStep ==
    ASSUME NEW cx \in [Ctx -> Context], NEW t \in Ctx, NEW u \in Ctx,
           NEW r, Same(r, cx[u])
    PROVE  Allowed(r, Finished(cx, t)[u])
  BY FinishedFate, FateAllowed

(* Replacing one context's record, by one that Allowed permits.            *)
LEMMA SetStep ==
    ASSUME NEW cx \in [Ctx -> Context], NEW t \in Ctx, NEW q, Allowed(cx[t], q)
    PROVE  \A u \in Ctx : Allowed(cx[u], [cx EXCEPT ![t] = q][u])
<1>1. \A u \in Ctx : Allowed(cx[u], cx[u])
  BY DEF Allowed, Clean, Final
<1> QED
  BY <1>1

LEMMA ForkedStep ==
    ASSUME NEW r, ~r.live, NEW q, q.live, ~q.aborted
    PROVE  Allowed(r, q)
  BY DEF Allowed, Clean, Final

LEMMA ForkedFields ==
    ASSUME NEW p, NEW e
    PROVE  /\ Forked(p, e).live /\ ~Forked(p, e).aborted
           /\ \A i, h : LET q == [Forked(p, e) EXCEPT !.refs = i, !.held = h]
                        IN  q.live /\ ~q.aborted
  BY DEF Forked, NoContext

(* A context that runs, or that is resumed while it is not aborted.        *)
LEMMA RunStep ==
    ASSUME NEW r, r.exec # "none", ~r.aborted, NEW q, q.live = r.live, ~q.aborted
    PROVE  Allowed(r, q)
  BY DEF Allowed, Clean, Final

LEMMA ScriptStep ==
    ASSUME IInv, Create \/ OnThread \/ TakeRef
    PROVE  Step
<1> USE DEF IInv
<1>0. Top.c \in Ctx
  BY TopFields
<1>1. ASSUME NEW n \in Ctx, NEW p \in Ctx, NEW op, CreateSubthread(op, p, n)
      PROVE  Step
  <2> DEFINE q == Forked(p, "running")
  <2>1. q.live /\ ~q.aborted
    BY ForkedFields
  <2>2. ctx' = [ctx EXCEPT ![n] = q] /\ ~ctx[n].live
    BY <1>1 DEF CreateSubthread
  <2> HIDE DEF q
  <2>3. Allowed(ctx[n], q)
    BY <2>1, <2>2, ForkedStep
  <2> QED
    BY <2>2, <2>3, SetStep DEF Step
<1>2. ASSUME NEW n \in Ctx, CoCreate(n)
      PROVE  Step
  <2> DEFINE q == [Forked(Top.c, "fresh") EXCEPT !.refs = 1, !.held = 1]
  <2>1. q.live /\ ~q.aborted
    BY ForkedFields
  <2>2. ctx' = [ctx EXCEPT ![n] = q] /\ ~ctx[n].live
    BY <1>2 DEF CoCreate
  <2> HIDE DEF q
  <2> QED
    BY <2>1, <2>2, ForkedStep, SetStep DEF Step
<1>3. ASSUME NEW t \in Ctx, CoResume(t)
      PROVE  Step
  <2> DEFINE q == [ctx[t] EXCEPT !.exec = "running", !.refs = @ + 1]
  <2>1. q.live = ctx[t].live /\ q.aborted = ctx[t].aborted
    <3>1. \A r \in Context : \A v : LET y == [r EXCEPT !.exec = "running", !.refs = v]
                                      IN  y.live = r.live /\ y.aborted = r.aborted
      BY DEF Context
    <3> QED
      BY <3>1
  <2>2. ctx' = [ctx EXCEPT ![t] = q]
    BY <1>3 DEF CoResume
  <2>3. Allowed(ctx[t], q)
    <3> HIDE DEF q
    <3> QED
      BY <1>3, <2>1 DEF CoResume, Allowed, Clean, Final
  <2> HIDE DEF q
  <2> QED
    BY <2>2, <2>3, SetStep DEF Step
<1>4. ASSUME NEW t \in Ctx, CoResumeAborted(t)
      PROVE  Step
  BY <1>4, FinishedStep DEF CoResumeAborted, Step, Same
<1>5. ASSUME NEW t \in Ctx, Abort(t)
      PROVE  Step
  BY <1>5, AbortedAllowed DEF Abort, Step, Same
<1>6. ASSUME NEW t \in Ctx, DropRef(t)
      PROVE  Step
  <2> DEFINE cx == [ctx EXCEPT ![t].held = @ - 1]
  <2>1. cx \in [Ctx -> Context]
    <3>1. ctx[t].held - 1 \in Nat
      BY <1>6, FieldValues DEF DropRef
    <3> QED
      BY <3>1, UpdateTypes
  <2>2. \A u \in Ctx : Same(ctx[u], cx[u])
    <3>1. \A r \in Context : \A v : Same(r, [r EXCEPT !.held = v]) /\ Same(r, r)
      BY DEF Same, Context
    <3> QED
      BY <3>1
  <2>3. ctx' = Released(cx, t)
    BY <1>6 DEF DropRef
  <2> HIDE DEF cx
  <2> QED
    BY <2>1, <2>2, <2>3, ReleasedStep DEF Step
<1>7. ASSUME NEW t \in Ctx, NEW b \in BOOLEAN, EndOn(t, b)
      PROVE  Step
  <2>1. \A r \in Context : Same(r, [r EXCEPT !.endOn = b])
    BY DEF Same, Context
  <2>2. Allowed(ctx[t], [ctx[t] EXCEPT !.endOn = b])
    BY <2>1, SameStep
  <2> QED
    BY <1>7, <2>2, SetStep DEF EndOn, Step
<1>8. ASSUME TakeRef
      PROVE  Step
  <2> DEFINE c == Top.c
             q == [ctx[c] EXCEPT !.refs = @ + 1, !.held = @ + 1]
  <2>1. \A r \in Context : \A i, h : Same(r, [r EXCEPT !.refs = i, !.held = h])
    BY DEF Same, Context
  <2>2. Allowed(ctx[c], q)
    BY <1>0, <2>1, SameStep
  <2>3. ctx' = [ctx EXCEPT ![c] = q]
    BY <1>8 DEF TakeRef
  <2> HIDE DEF q, c
  <2> QED
    BY <1>0, <2>2, <2>3, SetStep DEF Step, c
<1> QED
  BY <1>1, <1>2, <1>3, <1>4, <1>5, <1>6, <1>7, <1>8 DEF Create, OnThread

LEMMA StopStep ==
    ASSUME IInv, ScriptStops \/ StartPass
    PROVE  Step
<1> USE DEF IInv
<1>0. Top.c \in Ctx
  BY TopFields
<1>1. ASSUME NEW v, Yield(v)
      PROVE  Step
  <2> DEFINE r == ctx[Top.c]
             q == [r EXCEPT !.exec = "paused"]
  <2>1. r.exec = "running" /\ ~r.aborted /\ r \in Context
    BY <1>0, <1>1 DEF Yield, Script
  <2>2. q.live = r.live /\ ~q.aborted
    BY <2>1 DEF Context
  <2>3. Allowed(r, q)
    BY <2>1, <2>2, RunStep
  <2>4. ctx' = [ctx EXCEPT ![Top.c] = q]
    BY <1>1 DEF Yield
  <2> HIDE DEF q
  <2> QED
    BY <1>0, <2>3, <2>4, SetStep DEF Step
<1>2. ASSUME NEW v, Return(v)
      PROVE  Step
  BY <1>0, <1>2, FinishedStep DEF Return, Step, Same
<1>3. ASSUME NEW d, ProcessThreads(d)
      PROVE  Step
  BY <1>3, SameStep DEF ProcessThreads, Step, Same
<1> QED
  BY <1>1, <1>2, <1>3 DEF ScriptStops, StartPass

LEMMA StartReturnStep ==
    ASSUME IInv, StartReturn
    PROVE  Step
<1> DEFINE n == Top.c
           p == Top.p
           result == [ctx[n] EXCEPT !.refs = @ + 1, !.held = @ + 1]
           linked == [result EXCEPT !.refs = @ + 1, !.parent = p,
                                    !.next = ctx[p].first,
                                    !.timeout = Top.val, !.asked = Top.val]
           c1 == [ctx EXCEPT ![n] = linked]
<1>1. /\ n \in Ctx /\ p \in Ctx /\ Top.val \in Int
      /\ ctx \in [Ctx -> Context] /\ ctx[n] \in Context /\ ctx[p].first \in Ptr
  <2>1. Top.k = "start"
    BY DEF StartReturn
  <2>2. n \in Ctx /\ p \in Ctx /\ Top.val \in Nat
    BY <2>1, TopFields
  <2> QED
    BY <2>1, <2>2, FieldValues DEF IInv
<1>2. result \in Context /\ Same(ctx[n], result)
  <2>1. \A r \in Context, i \in Int, h \in Nat :
            LET q == [r EXCEPT !.refs = i, !.held = h]
            IN  q \in Context /\ Same(r, q)
    BY DEF Context, Same
  <2>2. ctx[n].refs + 1 \in Int /\ ctx[n].held + 1 \in Nat
    BY <1>1, FieldValues
  <2> QED
    BY <1>1, <2>1, <2>2
<1>3. linked \in Context /\ Same(result, linked)
  <2>1. \A r \in Context, i \in Int, a \in Ptr, b \in Ptr, v \in Int :
            [r EXCEPT !.refs = i, !.parent = a, !.next = b,
                      !.timeout = v, !.asked = v] \in Context
    BY DEF Context
  <2>3. \A r \in Context, i \in Int, a \in Ptr, b \in Ptr, v \in Int :
            Same(r, [r EXCEPT !.refs = i, !.parent = a, !.next = b,
                              !.timeout = v, !.asked = v])
    BY DEF Context, Same
  <2>2. result.refs + 1 \in Int /\ p \in Ptr
    BY <1>1, <1>2, FieldValues DEF Ptr
  <2> HIDE DEF result, p
  <2>4. linked \in Context
    BY <1>1, <1>2, <2>1, <2>2
  <2>5. Same(result, linked)
    BY <1>1, <1>2, <2>2, <2>3
  <2> QED
    BY <2>4, <2>5
<1> HIDE DEF result, linked
<1>4. Same(ctx[n], linked)
  BY <1>2, <1>3 DEF Same
<1>5. c1 \in [Ctx -> Context] /\ \A u \in Ctx : Same(ctx[u], c1[u])
  BY <1>1, <1>3, <1>4, SetContext DEF Same
<1>6. \A r \in Context : \A a : Same(r, [r EXCEPT !.first = a]) /\ Same(r, r)
  BY DEF Context, Same
<1>7. \A u \in Ctx : Same(c1[u], [c1 EXCEPT ![p].first = n][u])
  <2> HIDE DEF c1
  <2> QED
    BY <1>1, <1>5, <1>6
<1>8. \A u \in Ctx : Same(ctx[u], [ctx EXCEPT ![n] = linked, ![p].first = n][u])
  BY <1>5, <1>7 DEF Same
<1>9. \A u \in Ctx : Same(ctx[u], [ctx EXCEPT ![n] = result][u])
  BY <1>1, <1>2 DEF Same
<1> QED
  BY <1>8, <1>9, SameStep DEF StartReturn, Step, result, linked

LEMMA TickedSame ==
    ASSUME IInv, Top.th \in Ctx
    PROVE  \A u \in Ctx : Same(ctx[u], Ticked[u])
<1>1. \A r \in Context : \A i, j, k :
        Same(r, [r EXCEPT !.timeout = i, !.accum = j, !.waited = k]) /\ Same(r, r)
  BY DEF Context, Same
<1> QED
  BY <1>1 DEF IInv, Ticked

LEMMA PassStep ==
    ASSUME IInv, PassVisit \/ PassReturn \/ PassAbort \/ PassWait \/ PassResume
                 \/ PassNoResume \/ PassResumed \/ PassRemove \/ PassAdvance
    PROVE  Step
<1> DEFINE th == Top.th
<1>0. /\ ctx \in [Ctx -> Context] /\ Top.pst.of \in Ctx
      /\ Top.k \in {"timer", "resumed", "after"} => th \in Ctx
  BY TopFields, TopType DEF IInv, GoodAct, Activation, Cursor
<1>1. CASE UNCHANGED ctx
  BY <1>1, SameStep DEF Step, Same
<1>2. CASE PassAbort
  <2>1. th \in Ctx /\ ctx' = Aborted(Ticked, th)
    BY <1>0, <1>2 DEF PassAbort
  <2> QED
    BY <2>1, TickedType, TickedSame, AbortedAllowed DEF Step
<1>3. CASE PassWait
  <2>1. th \in Ctx /\ ctx' = Ticked
    BY <1>0, <1>3 DEF PassWait
  <2> QED
    BY <2>1, TickedSame, SameStep DEF Step
<1>4. CASE PassResume
  <2> DEFINE q == [Ticked[th] EXCEPT !.accum = 0, !.waited = 0, !.exec = "running"]
  <2>1. th \in Ctx /\ ctx' = [Ticked EXCEPT ![th] = q]
    BY <1>0, <1>4 DEF PassResume
  <2>2. Ticked \in [Ctx -> Context] /\ \A u \in Ctx : Same(ctx[u], Ticked[u])
    BY <2>1, TickedType, TickedSame
  <2>3. ctx[th].exec = "paused" /\ ~ctx[th].aborted
    BY <1>4 DEF PassResume, CanRun
  <2>4. q.live = ctx[th].live /\ ~q.aborted
    <3>1. \A r \in Context : \A i, j :
            LET y == [r EXCEPT !.accum = i, !.waited = j, !.exec = "running"]
            IN  y.live = r.live /\ y.aborted = r.aborted
      BY DEF Context
    <3>2. q.live = Ticked[th].live /\ q.aborted = Ticked[th].aborted
      BY <2>1, <2>2, <3>1
    <3> HIDE DEF q
    <3> QED
      BY <2>1, <2>2, <2>3, <3>2 DEF Same
  <2> HIDE DEF q
  <2>5. Allowed(ctx[th], q)
    BY <2>3, <2>4, RunStep
  <2>6. ASSUME NEW u \in Ctx PROVE Allowed(ctx[u], ctx'[u])
    <3>1. CASE u = th
      BY <2>1, <2>2, <2>5, <3>1
    <3>2. CASE u # th
      BY <2>1, <2>2, <3>2, SameStep
    <3> QED
      BY <3>1, <3>2
  <2> QED
    BY <2>6 DEF Step
<1>5. CASE PassNoResume
  <2> DEFINE left == IF ctx[th].exec = "paused" THEN 0 ELSE Ticked[th].accum
             q == [Ticked[th] EXCEPT !.accum = 0, !.waited = 0,
                                     !.timeout = left, !.asked = left]
             cx == [Ticked EXCEPT ![th] = q]
  <2>1. th \in Ctx /\ ctx' = (IF ctx[th].exec = "paused" THEN Finished(cx, th) ELSE cx)
    BY <1>0, <1>5 DEF PassNoResume
  <2>2. Ticked \in [Ctx -> Context] /\ \A u \in Ctx : Same(ctx[u], Ticked[u])
    BY <2>1, TickedType, TickedSame
  <2>3. left \in Int /\ Ticked[th] \in Context
    <3>1. Ticked[th] \in Context /\ Ticked[th].accum \in Int
      BY <2>1, <2>2, FieldValues
    <3> QED
      BY <3>1
  <2>4. q \in Context /\ Same(Ticked[th], q)
    <3>1. \A r \in Context, i, j, v \in Int :
            [r EXCEPT !.accum = i, !.waited = j, !.timeout = v, !.asked = v] \in Context
      BY DEF Context
    <3>2. \A r \in Context, i, j, v \in Int :
            Same(r, [r EXCEPT !.accum = i, !.waited = j, !.timeout = v, !.asked = v])
      BY DEF Context, Same
    <3>3. 0 \in Int
      OBVIOUS
    <3> HIDE DEF left
    <3>4. q \in Context
      BY <2>3, <3>1, <3>3
    <3>5. Same(Ticked[th], q)
      BY <2>3, <3>2, <3>3
    <3> QED
      BY <3>4, <3>5
  <2> HIDE DEF q
  <2>5. cx \in [Ctx -> Context] /\ \A u \in Ctx : Same(ctx[u], cx[u])
    BY <2>1, <2>2, <2>4, SetContext DEF Same
  <2> HIDE DEF cx
  <2> QED
    BY <2>1, <2>5, SameStep, FinishedStep DEF Step
<1>6. CASE PassResumed
  <2>1. th \in Ctx
        /\ ctx' = [ctx EXCEPT ![th] = [ctx[th] EXCEPT !.timeout = Top.val, !.asked = Top.val]]
    BY <1>0, <1>6 DEF PassResumed
  <2>2. \A r \in Context : \A v : Same(r, [r EXCEPT !.timeout = v, !.asked = v])
    BY DEF Context, Same
  <2>3. Allowed(ctx[th], [ctx[th] EXCEPT !.timeout = Top.val, !.asked = Top.val])
    BY <1>0, <2>1, <2>2, SameStep
  <2> QED
    BY <1>0, <2>1, <2>3, SetStep DEF Step
<1>7. CASE PassRemove
  <2> DEFINE st == Store(ctx, Top.pst, ctx[th].next)
             d == Detached(st, th)
  <2>1. th \in Ctx /\ ctx' = Released(d, th) /\ ctx[th].next \in Ptr
    BY <1>0, <1>7, FieldValues DEF PassRemove
  <2>2. st \in [Ctx -> Context] /\ d \in [Ctx -> Context]
    BY <1>0, <2>1, UpdateTypes, DetachedType DEF Store
  <2>3. \A r \in Context : \A a :
            /\ Same(r, [r EXCEPT !.first = a]) /\ Same(r, [r EXCEPT !.next = a])
            /\ Same(r, [r EXCEPT !.parent = Null, !.next = Null]) /\ Same(r, r)
    BY DEF Context, Same
  <2>4. \A u \in Ctx : Same(ctx[u], st[u])
    BY <1>0, <2>3 DEF Store
  <2> HIDE DEF st
  <2>5. \A u \in Ctx : Same(st[u], d[u])
    BY <2>1, <2>2, <2>3 DEF Detached
  <2> HIDE DEF d
  <2>6. \A u \in Ctx : Same(ctx[u], d[u])
    BY <2>4, <2>5 DEF Same
  <2> QED
    BY <2>1, <2>2, <2>6, ReleasedStep DEF Step
<1> QED
  BY <1>1, <1>2, <1>3, <1>4, <1>5, <1>6, <1>7 DEF PassVisit, PassReturn, PassAdvance

LEMMA EveryStep == IInv /\ [Next]_vars => Step
<1>1. ASSUME IInv, UNCHANGED vars PROVE Step
  BY <1>1, SameStep DEF vars, Step, Same
<1>2. ASSUME IInv, ResumeReturn PROVE Step
  <2>1. Top.c \in Ctx /\ ctx' = Released(ctx, Top.c)
    BY <1>2, TopFields DEF ResumeReturn
  <2> QED
    BY <1>2, <2>1, ReleasedStep DEF IInv, Step, Same
<1>3. ASSUME IInv, NEW b \in BOOLEAN, Signal(b) PROVE Step
  BY <1>3, SameStep DEF Signal, Step, Same
<1> QED
  BY <1>1, <1>2, <1>3, ScriptStep, StopStep, StartReturnStep, PassStep DEF Next, Continue

CleanInv == \A u \in Ctx : Clean(ctx[u])

(* An aborted thread stays aborted until its frames are gone and is never  *)
(* resumed, whatever calls the scripts and the scheduler make meanwhile.   *)
THEOREM AbortIsRespected == Spec => AbortedNeverRuns
<1>1. Init => CleanInv
  BY RootAssumption DEF Init, CleanInv, Clean, NoContext
<1>2. IInv /\ CleanInv /\ [Next]_vars => CleanInv'
  BY EveryStep DEF CleanInv, Step, Allowed
<1>3. IInv /\ CleanInv /\ [Next]_vars => [AbortIsFinal]_vars
  BY EveryStep DEF CleanInv, Step, Allowed, Final, AbortIsFinal
<1> QED
  BY <1>1, <1>2, <1>3, StackRests, PTL DEF Spec, AbortedNeverRuns
=============================================================================
