------------------------ MODULE ThreadWalksProofs ------------------------
(* The steps of Threads, each of which keeps the invariant of              *)
(* ThreadListsProofs, and what follows of it: the properties of the runs,  *)
(* for every set of contexts and every depth of the C stack.               *)
EXTENDS ThreadListsProofs


---------------------------------------------------------------------------
(* The steps of a walk.                                                    *)

(* The scripts keep to what the library can take: see Threads.             *)
Tame == {"prepend", "reenter", "self_ref", "drop_owner"} \cap Ops = {}

LEMMA PassKind ==
    ASSUME NEW c \in Ctx, NEW d \in Nat
    PROVE  Pass(c, d) \in GoodAct /\ Pass(c, d).k = "visit" /\ Pass(c, d).c = c
  BY PassType DEF Pass, Act

LEMMA PassFields ==
    ASSUME NEW c \in Ctx, NEW d \in Nat
    PROVE  /\ Pass(c, d).p = Null /\ Pass(c, d).th = Null
           /\ Pass(c, d).pst = [at |-> "first", of |-> c]
           /\ Pass(c, d).todo = ListOf(ctx, c) /\ Pass(c, d).seen = {}
  BY DEF Pass, Act

LEMMA FreshPass ==
    ASSUME ctx \in [Ctx -> Context], Tree(ctx), NEW c \in Ctx, NEW d \in Nat, ctx[c].live,
           NEW B, \A b \in B : b.k \in PassKinds => c \notin Ancestors(ctx, b.c)
    PROVE  RunOK(ctx, Pass(c, d), B) /\ ActOK(Pass(c, d))
<1> DEFINE a == Pass(c, d)
<1>1. /\ a.k = "visit" /\ a.c = c /\ a.p = Null /\ a.th = Null
      /\ a.pst = [at |-> "first", of |-> c]
      /\ a.todo = ListOf(ctx, c) /\ a.seen = {}
  BY PassKind, PassFields
<1> HIDE DEF a
<1>2. a.pst.at = "first" /\ a.pst.of = c /\ Deref(ctx, a.pst) = ctx[c].first
  BY <1>1 DEF Deref
<1>3. Rest(ctx, a.pst) = ListOf(ctx, c)
  BY <1>2, ListIsFrom
<1>4. \A t \in ListOf(ctx, c) : ctx[t].parent = c
  BY ListIsChildren DEF Tree
<1>5. WalkOK(ctx, a)
  BY <1>1, <1>2, <1>3, <1>4 DEF WalkOK
<1>6. RunOK(ctx, a, B)
  BY <1>1, <1>5 DEF RunOK, Inner, PassKinds
<1>7. ActOK(a)
  BY <1>1 DEF ActOK, PassKinds
<1> QED
  BY <1>6, <1>7 DEF a

LEMMA ProcessStep ==
    ASSUME LInv, Tame, NEW d \in Deltas, ProcessThreads(d)
    PROVE  Sound(ctx', cstack')
<1> DEFINE c == Top.c
           a == Pass(c, d)
<1>1. /\ c \in Ctx /\ d \in Nat /\ Top.k = "script" /\ ctx' = ctx
      /\ cstack' = <<a>> \o cstack
  BY TopFields, TimeAssumption DEF LInv, ProcessThreads, Push
<1>2. \A b \in Acts(cstack) : b.k \in PassKinds => c \notin Ancestors(ctx, b.c)
  <2>1. "reenter" \notin Ops
    BY DEF Tame
  <2> QED
    BY <2>1 DEF ProcessThreads, Acts
<1>3. ctx[c].live
  BY StackSplit DEF RunOK
<1>4. /\ a \in GoodAct /\ a.k = "visit" /\ a.c = c
  <2>1. \A x \in Ctx, e \in Nat : Pass(x, e) \in GoodAct /\ Pass(x, e).k = "visit"
            /\ Pass(x, e).c = x
    BY PassKind
  <2> HIDE DEF c
  <2> QED
    BY <1>1, <2>1
<1>5. RunOK(ctx, a, Acts(cstack)) /\ ActOK(a)
  BY <1>1, <1>2, <1>3, StackSplit, FreshPass
<1> HIDE DEF a
<1>6. CalledBy(a, Head(cstack))
  BY <1>1, <1>4 DEF CalledBy, Top
<1>7. Sound(ctx, <<a>> \o cstack)
  BY <1>4, <1>5, <1>6, StackSplit, SoundCons DEF LInv
<1> QED
  BY <1>1, <1>7

LEMMA VisitStep ==
    ASSUME LInv, PassVisit
    PROVE  Sound(ctx', cstack')
<1> DEFINE th == Deref(ctx, Top.pst)
           b == [Top EXCEPT !.k = "timer", !.th = th]
           a == Pass(th, Top.dt)
           r == Tail(cstack)
<1>0. /\ Top \in GoodAct /\ Top.k = "visit" /\ th # Null /\ ctx' = ctx
      /\ Top.c \in Ctx /\ Top.dt \in Nat /\ ctx \in [Ctx -> Context] /\ r \in Seq(GoodAct)
      /\ Tree(ctx) /\ RunOK(ctx, Top, Acts(r)) /\ Counted(ctx, cstack)
      /\ cstack' = <<a, b>> \o r
      /\ cstack \in Seq(GoodAct) /\ ActOK(Top) /\ (r # <<>> => CalledBy(Top, Head(r)))
  BY StackSplit, TopFields DEF PassVisit, LInv
<1>1. WalkOK(ctx, Top) /\ Inner(ctx, Top, Acts(r))
  BY <1>0 DEF RunOK, PassKinds
<1>2. th \in Ctx /\ ctx[th].parent = Top.c
  <2>1. th \in Ptr /\ (th # Null => ctx[th].parent = Top.c)
    BY <1>0, <1>1, CursorInList DEF Tree, WalkOK
  <2> QED
    BY <1>0, <2>1 DEF Ptr
<1>3. ctx[th].live
  BY <1>0, <1>2, OwnerFacts, RootAssumption
<1>4. /\ b \in GoodAct /\ b.k = "timer" /\ b.c = Top.c /\ b.th = th /\ b.p = Top.p
      /\ b.pst = Top.pst /\ b.todo = Top.todo /\ b.seen = Top.seen
  BY <1>0, <1>2, TopFields DEF LInv, GoodAct, Activation
<1>5. a \in GoodAct /\ a.k = "visit" /\ a.c = th
  <2>1. \A x \in Ctx, e \in Nat : Pass(x, e) \in GoodAct /\ Pass(x, e).k = "visit"
            /\ Pass(x, e).c = x
    BY PassKind
  <2> HIDE DEF th
  <2> QED
    BY <1>0, <1>2, <2>1
<1> DEFINE q == <<b>> \o r
<1>6. cstack' = <<a>> \o q /\ q \in Seq(GoodAct) /\ q # <<>> /\ Head(q) = b
  BY <1>0, <1>4, <1>5
<1> HIDE DEF a, b, q, r, th
<1>7. Acts(q) = {b} \cup Acts(r)
  <2>1. r \in Seq(GoodAct) /\ b \in GoodAct
    BY <1>0, <1>4
  <2>2. Acts(<<b>> \o r) = {b} \cup Acts(r)
    BY <2>1, ActsCons
  <2> QED
    BY <2>2 DEF q
<1>8. RunOK(ctx, b, Acts(r))
  <2>1. WalkOK(ctx, b)
    BY <1>1, <1>2, <1>4 DEF WalkOK, th
  <2>2. Inner(ctx, b, Acts(r))
    BY <1>1, <1>4 DEF Inner
  <2> QED
    BY <1>0, <1>4, <2>1, <2>2 DEF RunOK, PassKinds
<1>9. ActOK(b) /\ (r # <<>> => CalledBy(b, Head(r)))
  BY <1>0, <1>4 DEF ActOK, CalledBy, PassKinds
<1>10. Sound(ctx, q)
  BY <1>0, <1>4, <1>8, <1>9, PopSound, SoundCons DEF q, r
<1>11. ASSUME NEW d \in Acts(q), d.k \in PassKinds PROVE th \notin Ancestors(ctx, d.c)
  <2>1. CASE d = b
    BY <1>0, <1>2, <1>4, <2>1, ChildIsNoAncestor, RootAssumption DEF Tree
  <2>2. CASE d \in Acts(r)
    <3>1. Top.c \notin Ancestors(ctx, d.c)
      BY <1>1, <1>11, <2>2 DEF Inner
    <3>2. d.c \in Ctx
      BY <1>0, <2>2, ActsType, ActFields
    <3> QED
      BY <1>0, <1>2, <3>1, <3>2, AncestorFacts, RootAssumption
  <2> QED
    BY <1>7, <1>11, <2>1, <2>2
<1>12. RunOK(ctx, a, Acts(q)) /\ ActOK(a)
  BY <1>0, <1>2, <1>3, <1>11, FreshPass DEF a
<1>13. CalledBy(a, Head(q))
  BY <1>4, <1>5, <1>6 DEF CalledBy
<1>14. Sound(ctx, <<a>> \o q)
  BY <1>5, <1>6, <1>10, <1>12, <1>13, SoundCons
<1> QED
  BY <1>0, <1>6, <1>14

(* The thread at hand comes before what is left of the list.               *)
LEMMA RestSplit ==
    ASSUME NEW cx \in [Ctx -> Context], LinksMatch(cx), LinksDiffer(cx),
           NEW a \in GoodAct, a.k \in {"timer", "resumed", "after"}, WalkOK(cx, a)
    PROVE  LET N == From(cx, cx[a.th].next)
           IN  /\ a.th \in Ctx /\ cx[a.th].parent = a.c /\ cx[a.th].next \in Ptr
               /\ a.th \in Rest(cx, a.pst) /\ a.th \notin a.seen /\ a.th \notin N
               /\ N \subseteq Rest(cx, a.pst) /\ N \in SUBSET Ctx
               /\ \A t \in Rest(cx, a.pst) : t = a.th \/ t \in N
               /\ \A t \in N : cx[t].parent = a.c
<1> DEFINE th == a.th
           p == cx[th].next
           N == From(cx, p)
           M == Rest(cx, a.pst)
<1>0. /\ th \in Ctx /\ cx[th].parent = a.c /\ p \in Ptr /\ a.c \in Ctx /\ a.c # Null
      /\ a.pst.of \in Ctx /\ a.pst.at \in {"first", "next"}
      /\ Deref(cx, a.pst) = th /\ M = From(cx, th) /\ th # Null /\ th \in Ptr
      /\ \A t \in Ctx : cx[t].next \in Ptr /\ cx[t].first \in Ptr
      /\ M \cap a.seen = {}
      /\ a.pst.at = "first" => a.pst.of = a.c
      /\ a.pst.at = "next" => cx[a.pst.of].parent = a.c /\ a.pst.of \in a.seen
  BY ActFields, FieldValues, RootAssumption, ListIsFrom DEF WalkOK, Ptr
<1>1. /\ M \in SUBSET Ctx /\ th \in M
      /\ \A t \in M : cx[t].next # Null => cx[t].next \in M
      /\ \A T \in SUBSET Ctx : /\ th \in T
                               /\ \A t \in T : cx[t].next # Null => cx[t].next \in T
                               => M \subseteq T
  BY <1>0, FromFacts
<1>2. /\ N \in SUBSET Ctx /\ (p # Null => p \in N)
      /\ \A t \in N : cx[t].next # Null => cx[t].next \in N
      /\ \A T \in SUBSET Ctx : /\ p # Null => p \in T
                               /\ \A t \in T : cx[t].next # Null => cx[t].next \in T
                               => N \subseteq T
  BY <1>0, FromFacts
<1>3. p # Null => cx[p].parent = a.c
  BY <1>0 DEF LinksMatch
<1>4. \A t \in N : cx[t].parent = a.c
  BY <1>0, <1>3, FromIsChildren
<1> HIDE DEF N, M, p, th
<1>5. N \subseteq M
  BY <1>0, <1>1, <1>2 DEF p
<1>6. ASSUME NEW t \in M PROVE t = th \/ t \in N
  <2> DEFINE T == {th} \cup N
  <2>1. T \in SUBSET Ctx /\ th \in T
    BY <1>0, <1>2
  <2>2. \A u \in T : cx[u].next # Null => cx[u].next \in T
    BY <1>2 DEF p
  <2>3. \A u \in T : u = th \/ u \in N
    OBVIOUS
  <2> HIDE DEF T
  <2> QED
    BY <1>1, <1>6, <2>1, <2>2, <2>3
<1>7. th \notin N
  <2>1. ASSUME NEW u \in Ctx, u = th \/ u \in N, cx[u].next = th PROVE FALSE
    <3>0. cx[u].parent = a.c /\ u \in M
      BY <1>0, <1>1, <1>4, <1>5, <2>1 DEF th
    <3>1. CASE a.pst.at = "first"
      <4>1. cx[a.c].first = th
        BY <1>0, <3>1 DEF Deref
      <4> QED
        BY <1>0, <2>1, <3>0, <4>1 DEF LinksDiffer
    <3>2. CASE a.pst.at = "next"
      <4>1. cx[a.pst.of].next = th
        BY <1>0, <3>2 DEF Deref
      <4>2. u = a.pst.of
        BY <1>0, <2>1, <3>0, <3>2, <4>1 DEF LinksDiffer
      <4> QED
        BY <1>0, <3>0, <3>2, <4>2
    <3> QED
      BY <1>0, <3>1, <3>2
  <2> DEFINE T == N \ {th}
  <2>2. T \in SUBSET Ctx /\ (p # Null => p \in T)
    BY <1>0, <1>2, <2>1 DEF p
  <2>3. \A u \in T : cx[u].next # Null => cx[u].next \in T
    BY <1>2, <2>1
  <2>4. th \notin T
    OBVIOUS
  <2> HIDE DEF T
  <2> QED
    BY <1>2, <2>2, <2>3, <2>4
<1>8. th \notin a.seen
  BY <1>0, <1>1
<1> QED
  BY <1>0, <1>1, <1>2, <1>4, <1>5, <1>6, <1>7, <1>8 DEF N, M, p, th

LEMMA AdvanceStep ==
    ASSUME LInv, PassAdvance
    PROVE  Sound(ctx', cstack')
<1> DEFINE th == Top.th
           at == Deref(ctx, Top.pst)
           cur == [at |-> "next", of |-> at]
           b == [Top EXCEPT !.k = "visit", !.th = Null, !.pst = cur,
                            !.seen = @ \cup {th}]
           r == Tail(cstack)
<1>0. /\ Top \in GoodAct /\ Top.k = "after" /\ ctx' = ctx
      /\ th \in Ctx /\ ctx \in [Ctx -> Context] /\ r \in Seq(GoodAct)
      /\ Tree(ctx) /\ RunOK(ctx, Top, Acts(r))
      /\ cstack' = <<b>> \o r
      /\ cstack \in Seq(GoodAct) /\ ActOK(Top) /\ (r # <<>> => CalledBy(Top, Head(r)))
  BY StackSplit, TopFields DEF PassAdvance, LInv, Replace
<1>1. WalkOK(ctx, Top) /\ Inner(ctx, Top, Acts(r)) /\ at = th /\ ctx[th].parent = Top.c
  BY <1>0 DEF RunOK, PassKinds, WalkOK
<1>2. /\ b \in GoodAct /\ b.k = "visit" /\ b.c = Top.c /\ b.th = Null /\ b.p = Top.p
      /\ b.pst = cur /\ b.todo = Top.todo /\ b.seen = Top.seen \cup {th}
  <2>1. b \in GoodAct
    BY <1>0, <1>1, TopFields DEF LInv
  <2>2. /\ b.k = "visit" /\ b.c = Top.c /\ b.th = Null /\ b.p = Top.p
        /\ b.pst = cur /\ b.todo = Top.todo /\ b.seen = Top.seen \cup {th}
    <3> HIDE DEF cur, th
    <3> QED
      BY <1>0 DEF GoodAct, Activation
  <2> QED
    BY <2>1, <2>2
<1>3. cur.at = "next" /\ cur.of = th /\ Deref(ctx, cur) = ctx[th].next
  BY <1>1 DEF Deref
<1> DEFINE N == From(ctx, ctx[th].next)
<1>4. /\ th \notin N /\ N \subseteq Rest(ctx, Top.pst) /\ N \in SUBSET Ctx
      /\ \A t \in Rest(ctx, Top.pst) : t = th \/ t \in N
  BY <1>0, <1>1, RestSplit DEF Tree
<1>5. Rest(ctx, cur) = N
  BY <1>3, ListIsFrom
<1> HIDE DEF N, cur, b, at, r, th
<1>6. WalkOK(ctx, b)
  BY <1>1, <1>2, <1>3, <1>4, <1>5 DEF WalkOK
<1>7. RunOK(ctx, b, Acts(r))
  BY <1>0, <1>1, <1>2, <1>6 DEF RunOK, PassKinds, Inner
<1>8. ActOK(b) /\ (r # <<>> => CalledBy(b, Head(r)))
  BY <1>0, <1>2 DEF ActOK, CalledBy, PassKinds
<1>9. Sound(ctx, <<b>> \o r)
  BY <1>0, <1>2, <1>7, <1>8, PopSound, SoundCons DEF r
<1> QED
  BY <1>0, <1>9

---------------------------------------------------------------------------
(* The steps that only count references.                                   *)

LEMMA StartedCons ==
    ASSUME NEW S, NEW a \in S, NEW r \in Seq(S), NEW t
    PROVE  Started(<<a>> \o r, t) <=> Started(r, t) \/ (a.k = "start" /\ a.c = t)
<1>1. Acts(<<a>> \o r) = {a} \cup Acts(r)
  BY ActsCons
<1> QED
  BY <1>1 DEF Started

LEMMA SameLinksSound ==
    ASSUME NEW cx \in [Ctx -> Context], NEW cy \in [Ctx -> Context],
           NEW s \in Seq(GoodAct), Tree(cx), Runs(cx, s), SameLinks(cx, cy),
           \A t \in Ctx : cx[t].live => cy[t].live,
           \A t \in Ctx : cx[t].held > 0 => cy[t].held > 0,
           \A t \in Ctx : Started(s, t) => cy[t].refs = cx[t].refs /\ cy[t].waited = cx[t].waited
    PROVE  Tree(cy) /\ Runs(cy, s)
<1>1. Tree(cy)
  BY TreeSame
<1>2. \A t \in Ctx : Started(s, t) => cy[t].refs = 0 /\ cy[t].waited = 0
  BY StartedFacts
<1>3. Runs(cy, s)
  BY <1>2, RunsSame
<1> QED
  BY <1>1, <1>3

(* A running context that no call is starting has an owner.                *)
LEMMA OwnedUnlessStarted ==
    ASSUME LInv, NEW t \in Ctx
    PROVE  /\ ctx[t].refs \in Nat /\ ctx[t].held \in Nat
           /\ ctx[t].held > 0 => ~Started(cstack, t)
           /\ ctx[t].live /\ ~Started(cstack, t) => ctx[t].refs > 0
<1>1. /\ ctx \in [Ctx -> Context] /\ cstack \in Seq(GoodAct)
      /\ Counted(ctx, cstack) /\ Runs(ctx, cstack)
  BY StackSplit
<1>2. /\ ctx[t].refs \in Nat /\ ctx[t].held \in Nat
      /\ ctx[t].held > 0 => ctx[t].refs > 0
      /\ ctx[t].live <=> (ctx[t].refs > 0 \/ Started(cstack, t))
  BY <1>1, OwnerFacts
<1>3. Started(cstack, t) => ctx[t].refs = 0
  BY <1>1, StartedFacts
<1> QED
  BY <1>2, <1>3

(* A context has one reference more, which a variable has.                 *)
OneMore(cx, cy, t) ==
    /\ SameLinks(cx, cy)
    /\ \A u \in Ctx : /\ cy[u].live = cx[u].live /\ cy[u].timeout = cx[u].timeout
                      /\ cy[u].asked = cx[u].asked /\ cy[u].waited = cx[u].waited
    /\ \A u \in Ctx : u # t => cy[u].refs = cx[u].refs /\ cy[u].held = cx[u].held
    /\ cy[t].refs = cx[t].refs + 1 /\ cy[t].held = cx[t].held + 1

LEMMA HoldFields ==
    ASSUME NEW cx \in [Ctx -> Context], NEW t \in Ctx
    PROVE  OneMore(cx, [cx EXCEPT ![t] = [cx[t] EXCEPT !.refs = @ + 1, !.held = @ + 1]], t)
<1> DEFINE q == [cx[t] EXCEPT !.refs = @ + 1, !.held = @ + 1]
           cy == [cx EXCEPT ![t] = q]
<1>1. /\ q.live = cx[t].live /\ q.timeout = cx[t].timeout /\ q.asked = cx[t].asked
      /\ q.waited = cx[t].waited /\ q.parent = cx[t].parent /\ q.first = cx[t].first
      /\ q.next = cx[t].next /\ q.refs = cx[t].refs + 1 /\ q.held = cx[t].held + 1
  BY DEF Context
<1>2. \A u \in Ctx : cy[u] = IF u = t THEN q ELSE cx[u]
  OBVIOUS
<1> HIDE DEF q, cy
<1>3. SameLinks(cx, cy)
  BY <1>1, <1>2 DEF SameLinks
<1>4. \A u \in Ctx : /\ cy[u].live = cx[u].live /\ cy[u].timeout = cx[u].timeout
                     /\ cy[u].asked = cx[u].asked /\ cy[u].waited = cx[u].waited
  BY <1>1, <1>2
<1>5. \A u \in Ctx : u # t => cy[u].refs = cx[u].refs /\ cy[u].held = cx[u].held
  BY <1>2
<1>6. cy[t].refs = cx[t].refs + 1 /\ cy[t].held = cx[t].held + 1
  BY <1>1, <1>2
<1> QED
  BY <1>3, <1>4, <1>5, <1>6 DEF OneMore, q, cy

LEMMA TakeRefStep ==
    ASSUME LInv, IInv', Tame, TakeRef
    PROVE  Sound(ctx', cstack')
<1> DEFINE c == Top.c
           cy == ctx'
           s == cstack
<1>1. /\ ctx \in [Ctx -> Context] /\ cy \in [Ctx -> Context] /\ s \in Seq(GoodAct)
      /\ Tree(ctx) /\ Counted(ctx, s) /\ Timed(ctx, s) /\ Runs(ctx, s) /\ Calls(s)
      /\ c \in Ctx /\ ctx[c].live /\ cstack' = s
  BY StackSplit, TopFields DEF LInv, IInv, TakeRef, RunOK
<1>2. ~Started(s, c)
  <2>1. Activations({"start"}, c) = {}
    BY DEF TakeRef, Tame
  <2> QED
    BY <2>1 DEF Started, Acts, Activations
<1>3. /\ SameLinks(ctx, cy)
      /\ \A u \in Ctx : /\ cy[u].live = ctx[u].live /\ cy[u].timeout = ctx[u].timeout
                        /\ cy[u].asked = ctx[u].asked /\ cy[u].waited = ctx[u].waited
      /\ \A u \in Ctx : u # c => cy[u].refs = ctx[u].refs /\ cy[u].held = ctx[u].held
      /\ cy[c].refs = ctx[c].refs + 1 /\ cy[c].held = ctx[c].held + 1
  <2>1. ctx' = [ctx EXCEPT ![c] = [ctx[c] EXCEPT !.refs = @ + 1, !.held = @ + 1]]
    BY DEF TakeRef
  <2>2. OneMore(ctx, cy, c)
    <3> HIDE DEF c
    <3> QED
      BY <1>1, <2>1, HoldFields
  <2> QED
    BY <2>2 DEF OneMore
<1>4. ctx[c].refs \in Nat /\ ctx[c].held \in Nat /\ ctx[c].refs > 0
  BY <1>1, <1>2, OwnedUnlessStarted
<1> HIDE DEF cy, c, s
<1>5. Counted(cy, s)
  <2> SUFFICES ASSUME NEW u \in Ctx
               PROVE  /\ cy[u].refs = Owners(cy, s, u)
                      /\ cy[u].live <=> (cy[u].refs > 0 \/ Started(s, u))
    BY DEF Counted
  <2>1. /\ ctx[u].refs = ctx[u].held + (IF ctx[u].parent = Null THEN 0 ELSE 1)
               + Cardinality(Resumes(s, u)) + (IF u = Root THEN 1 ELSE 0)
        /\ ctx[u].live <=> (ctx[u].refs > 0 \/ Started(s, u))
        /\ Cardinality(Resumes(s, u)) \in Nat
        /\ cy[u].parent = ctx[u].parent
    BY <1>1, <1>3, OwnerFacts DEF SameLinks
  <2>2. CASE u = c
    BY <1>3, <1>4, <2>1, <2>2 DEF Owners
  <2>3. CASE u # c
    BY <1>3, <2>1, <2>3 DEF Owners
  <2> QED
    BY <2>2, <2>3
<1>6. Timed(cy, s)
  BY <1>1, <1>3 DEF Timed, SameLinks
<1>7. Tree(cy) /\ Runs(cy, s)
  <2>1. \A t \in Ctx : ctx[t].held > 0 => cy[t].held > 0
    BY <1>3, <1>4
  <2>2. \A t \in Ctx : Started(s, t) => cy[t].refs = ctx[t].refs /\ cy[t].waited = ctx[t].waited
    BY <1>2, <1>3
  <2> QED
    BY <1>1, <1>3, <2>1, <2>2, SameLinksSound
<1> QED
  BY <1>1, <1>5, <1>6, <1>7 DEF Sound, cy, s

LEMMA ActFieldsOf ==
    ASSUME NEW kind \in {"script", "resume"}, NEW c \in Ctx, NEW B, NEW cx, cx[c].live
    PROVE  /\ Act(kind, c) \in GoodAct /\ Act(kind, c).k = kind /\ Act(kind, c).c = c
           /\ ActOK(Act(kind, c)) /\ RunOK(cx, Act(kind, c), B)
<1> DEFINE a == Act(kind, c)
<1>1. a \in GoodAct /\ a.k = kind /\ a.c = c
  BY ActType DEF Act
<1>2. a.p = Null /\ a.th = Null /\ a.pst = [at |-> "first", of |-> c]
  BY DEF Act
<1> HIDE DEF a
<1>3. ActOK(a)
  BY <1>1, <1>2 DEF ActOK
<1>4. RunOK(cx, a, B)
  BY <1>1 DEF RunOK, PassKinds
<1> QED
  BY <1>1, <1>3, <1>4 DEF a

LEMMA ConsTwo ==
    ASSUME NEW S, NEW a \in S, NEW b \in S, NEW r \in Seq(S)
    PROVE  <<a, b>> \o r = <<a>> \o (<<b>> \o r)
<1>1. <<a>> \in Seq(S) /\ <<b>> \in Seq(S) /\ <<a, b>> \in Seq(S)
  OBVIOUS
<1>2. /\ Len(<<a, b>>) = 2 /\ <<a, b>>[1] = a /\ <<a, b>>[2] = b
      /\ Len(<<a>> \o <<b>>) = 2 /\ (<<a>> \o <<b>>)[1] = a /\ (<<a>> \o <<b>>)[2] = b
      /\ <<a>> \o <<b>> \in Seq(S)
  BY <1>1
<1>3. \A i \in 1 .. 2 : i = 1 \/ i = 2
  OBVIOUS
<1>4. \A i \in 1 .. Len(<<a, b>>) : <<a, b>>[i] = (<<a>> \o <<b>>)[i]
  BY <1>2, <1>3
<1>5. <<a, b>> = <<a>> \o <<b>>
  BY <1>1, <1>2, <1>4, SeqEqual
<1> QED
  BY <1>1, <1>5, ConcatAssociative

LEMMA CoResumeStep ==
    ASSUME LInv, IInv', NEW t \in Ctx, CoResume(t)
    PROVE  Sound(ctx', cstack')
<1> DEFINE cy == ctx'
           s == cstack
           a == Act("script", t)
           b == Act("resume", t)
           q == <<b>> \o s
<1>1. /\ ctx \in [Ctx -> Context] /\ cy \in [Ctx -> Context] /\ s \in Seq(GoodAct)
      /\ Tree(ctx) /\ Counted(ctx, s) /\ Timed(ctx, s) /\ Runs(ctx, s) /\ Calls(s)
      /\ ctx[t].held > 0
  BY StackSplit DEF LInv, IInv, CoResume
<1>2. ctx[t].refs \in Nat /\ ~Started(s, t)
  BY <1>1, OwnedUnlessStarted
<1>3. /\ SameLinks(ctx, cy)
      /\ \A u \in Ctx : /\ cy[u].live = ctx[u].live /\ cy[u].timeout = ctx[u].timeout
                        /\ cy[u].asked = ctx[u].asked /\ cy[u].waited = ctx[u].waited
                        /\ cy[u].held = ctx[u].held
      /\ \A u \in Ctx : u # t => cy[u].refs = ctx[u].refs
      /\ cy[t].refs = ctx[t].refs + 1
  <2> DEFINE r == [ctx[t] EXCEPT !.exec = "running", !.refs = @ + 1]
  <2>1. /\ r.live = ctx[t].live /\ r.timeout = ctx[t].timeout /\ r.asked = ctx[t].asked
        /\ r.waited = ctx[t].waited /\ r.parent = ctx[t].parent /\ r.first = ctx[t].first
        /\ r.next = ctx[t].next /\ r.refs = ctx[t].refs + 1 /\ r.held = ctx[t].held
    BY <1>1 DEF Context
  <2>2. \A u \in Ctx : cy[u] = IF u = t THEN r ELSE ctx[u]
    BY <1>1 DEF CoResume
  <2> HIDE DEF r, cy
  <2>3. SameLinks(ctx, cy)
    BY <2>1, <2>2 DEF SameLinks
  <2>4. \A u \in Ctx : /\ cy[u].live = ctx[u].live /\ cy[u].timeout = ctx[u].timeout
                       /\ cy[u].asked = ctx[u].asked /\ cy[u].waited = ctx[u].waited
                       /\ cy[u].held = ctx[u].held
    BY <2>1, <2>2
  <2>5. \A u \in Ctx : u # t => cy[u].refs = ctx[u].refs
    BY <2>2
  <2>6. cy[t].refs = ctx[t].refs + 1
    BY <2>1, <2>2
  <2> QED
    BY <2>3, <2>4, <2>5, <2>6
<1>4. cstack' = <<a>> \o q
  <2>1. cstack' = <<a, b>> \o s
    BY DEF CoResume
  <2>2. a \in GoodAct /\ b \in GoodAct
    BY ActType
  <2>3. s \in Seq(GoodAct)
    BY <1>1
  <2> HIDE DEF a, b, s
  <2> QED
    BY <2>1, <2>2, <2>3, ConsTwo
<1>5. cy[t].live
  BY <1>1, <1>3, OwnerFacts
<1>6. /\ a \in GoodAct /\ a.k = "script" /\ a.c = t /\ ActOK(a)
      /\ \A B : RunOK(cy, a, B)
      /\ b \in GoodAct /\ b.k = "resume" /\ b.c = t /\ ActOK(b)
      /\ \A B : RunOK(cy, b, B)
  BY <1>5, ActFieldsOf
<1> HIDE DEF cy, s, a, b
<1>7. Counted(cy, q)
  <2> SUFFICES ASSUME NEW u \in Ctx
               PROVE  /\ cy[u].refs = Owners(cy, q, u)
                      /\ cy[u].live <=> (cy[u].refs > 0 \/ Started(q, u))
    BY DEF Counted
  <2>1. /\ ctx[u].refs = ctx[u].held + (IF ctx[u].parent = Null THEN 0 ELSE 1)
               + Cardinality(Resumes(s, u)) + (IF u = Root THEN 1 ELSE 0)
        /\ ctx[u].live <=> (ctx[u].refs > 0 \/ Started(s, u))
        /\ Cardinality(Resumes(s, u)) \in Nat
        /\ cy[u].parent = ctx[u].parent
        /\ ctx[u].held \in Nat /\ ctx[u].refs \in Nat
    BY <1>1, <1>3, OwnerFacts DEF SameLinks
  <2>2. /\ Started(q, u) <=> Started(s, u)
        /\ Cardinality(Resumes(q, u)) = Cardinality(Resumes(s, u)) + (IF u = t THEN 1 ELSE 0)
    BY <1>1, <1>6, StartedCons, ResumesCons
  <2> HIDE DEF q
  <2>3. CASE u = t
    BY <1>1, <1>3, <2>1, <2>2, <2>3 DEF Owners
  <2>4. CASE u # t
    <3>1. /\ cy[u].refs = ctx[u].refs /\ cy[u].held = ctx[u].held
          /\ cy[u].live = ctx[u].live
          /\ Cardinality(Resumes(q, u)) = Cardinality(Resumes(s, u))
      BY <1>3, <2>1, <2>2, <2>4
    <3> QED
      BY <2>1, <2>2, <3>1 DEF Owners
  <2> QED
    BY <2>3, <2>4
<1>8. Timed(cy, q)
  <2>1. Timed(cy, s)
    BY <1>1, <1>3 DEF Timed, SameLinks
  <2> QED
    BY <1>1, <1>6, <2>1, TimedCons
<1>9. Tree(cy) /\ Runs(cy, s)
  <2>1. \A u \in Ctx : Started(s, u) => cy[u].refs = ctx[u].refs /\ cy[u].waited = ctx[u].waited
    BY <1>2, <1>3
  <2> QED
    BY <1>1, <1>3, <2>1, SameLinksSound
<1>10. Runs(cy, q)
  BY <1>1, <1>6, <1>9, RunsCons
<1>11. Calls(q)
  <2>1. CalledBy(b, Head(s))
    BY <1>6 DEF CalledBy, PassKinds
  <2> QED
    BY <1>1, <1>6, <2>1, CallsCons
<1>12. Sound(cy, q)
  BY <1>7, <1>8, <1>9, <1>10, <1>11 DEF Sound
<1>13. q \in Seq(GoodAct) /\ q # <<>> /\ Head(q) = b
  BY <1>1, <1>6
<1>14. CalledBy(a, b)
  BY <1>6 DEF CalledBy, PassKinds
<1> HIDE DEF q
<1>15. Sound(cy, <<a>> \o q)
  BY <1>6, <1>12, <1>13, <1>14, SoundCons
<1> QED
  BY <1>4, <1>15 DEF cy

(* A context that is not allocated has no links and no owner.              *)
LEMMA DeadBlank ==
    ASSUME LInv, NEW n \in Ctx, ~ctx[n].live
    PROVE  /\ ctx[n].parent = Null /\ ctx[n].first = Null /\ ctx[n].next = Null
           /\ ctx[n].refs = 0 /\ ctx[n].held = 0 /\ n # Root
           /\ Cardinality(Resumes(cstack, n)) = 0 /\ ~Started(cstack, n)
<1>1. /\ ctx \in [Ctx -> Context] /\ cstack \in Seq(GoodAct)
      /\ Counted(ctx, cstack) /\ Tree(ctx)
  BY StackSplit
<1>2. /\ ctx[n].refs \in Nat /\ ctx[n].held \in Nat
      /\ Cardinality(Resumes(cstack, n)) \in Nat
      /\ ctx[n].held > 0 \/ ctx[n].parent # Null \/ n = Root
            \/ Cardinality(Resumes(cstack, n)) > 0 => ctx[n].refs > 0 /\ ctx[n].live
      /\ ctx[n].live <=> (ctx[n].refs > 0 \/ Started(cstack, n))
  BY <1>1, OwnerFacts
<1>3. ctx[n].first = Null
  <2>1. ctx[n].first \in Ptr
    BY <1>1, FieldValues
  <2>2. ASSUME ctx[n].first # Null PROVE FALSE
    <3>1. ctx[n].first \in Ctx /\ ctx[ctx[n].first].parent = n
      BY <1>1, <2>1, <2>2 DEF Tree, LinksMatch, Ptr
    <3> QED
      BY <1>1, <3>1, RootAssumption DEF Tree, FreedBlank
  <2> QED
    BY <2>2
<1>4. ctx[n].next = Null
  BY <1>1 DEF Tree, FreedBlank
<1> QED
  BY <1>2, <1>3, <1>4

(* A new context in the place of one that is not allocated.                *)
LEMMA NewContext ==
    ASSUME LInv, NEW n \in Ctx, ~ctx[n].live, NEW q \in Context,
           q.live, q.parent = Null, q.first = Null, q.next = Null, q.waited = 0,
           NEW cy, cy = [ctx EXCEPT ![n] = q]
    PROVE  /\ cy \in [Ctx -> Context] /\ SameLinks(ctx, cy)
           /\ \A u \in Ctx : u # n => cy[u] = ctx[u]
           /\ cy[n] = q
           /\ Tree(cy) /\ Runs(cy, cstack) /\ Timed(cy, cstack)
<1>1. /\ ctx \in [Ctx -> Context] /\ cstack \in Seq(GoodAct)
      /\ Counted(ctx, cstack) /\ Tree(ctx) /\ Runs(ctx, cstack) /\ Timed(ctx, cstack)
  BY StackSplit
<1>2. /\ ctx[n].parent = Null /\ ctx[n].first = Null /\ ctx[n].next = Null
      /\ ctx[n].held = 0 /\ ~Started(cstack, n)
  BY DeadBlank
<1>3. /\ cy \in [Ctx -> Context] /\ cy[n] = q
      /\ \A u \in Ctx : u # n => cy[u] = ctx[u]
  BY <1>1
<1>4. SameLinks(ctx, cy)
  BY <1>2, <1>3 DEF SameLinks
<1>5. Tree(cy) /\ Runs(cy, cstack)
  <2>1. \A t \in Ctx : ctx[t].live => cy[t].live
    BY <1>3
  <2>2. \A t \in Ctx : ctx[t].held > 0 => cy[t].held > 0
    BY <1>2, <1>3
  <2>3. \A t \in Ctx : Started(cstack, t)
            => cy[t].refs = ctx[t].refs /\ cy[t].waited = ctx[t].waited
    BY <1>2, <1>3
  <2> QED
    BY <1>1, <1>3, <1>4, <2>1, <2>2, <2>3, SameLinksSound
<1>6. Timed(cy, cstack)
  <2>1. \A u \in Ctx : cy[u].parent # Null => cy[u] = ctx[u]
    BY <1>3
  <2> QED
    BY <1>1, <2>1 DEF Timed
<1> QED
  BY <1>3, <1>4, <1>5, <1>6

LEMMA ForkedValues ==
    ASSUME IInv, NEW p \in Ctx, NEW e \in {"fresh", "running"}
    PROVE  LET f == Forked(p, e)
               q == [f EXCEPT !.refs = 1, !.held = 1]
           IN  /\ f \in Context /\ f.live /\ f.parent = Null /\ f.first = Null
               /\ f.next = Null /\ f.refs = 0 /\ f.held = 0 /\ f.waited = 0
               /\ q \in Context /\ q.live /\ q.parent = Null /\ q.first = Null
               /\ q.next = Null /\ q.refs = 1 /\ q.held = 1 /\ q.waited = 0
<1> DEFINE f == Forked(p, e)
           q == [f EXCEPT !.refs = 1, !.held = 1]
<1>1. f \in Context
  BY ForkedType
<1>2. /\ f.live /\ f.parent = Null /\ f.first = Null
      /\ f.next = Null /\ f.refs = 0 /\ f.held = 0 /\ f.waited = 0
  BY DEF Forked, NoContext
<1> HIDE DEF f
<1>3. q \in Context
  <2>1. \A h \in Nat, i \in Int : [f EXCEPT !.refs = i, !.held = h] \in Context
    BY <1>1 DEF Context
  <2>2. 1 \in Nat /\ 1 \in Int
    OBVIOUS
  <2> QED
    BY <2>1, <2>2
<1>4. /\ q.live = f.live /\ q.parent = f.parent /\ q.first = f.first
      /\ q.next = f.next /\ q.refs = 1 /\ q.held = 1 /\ q.waited = f.waited
  BY <1>1 DEF Context
<1> QED
  BY <1>1, <1>2, <1>3, <1>4 DEF f

LEMMA CoCreateStep ==
    ASSUME LInv, NEW n \in Ctx, CoCreate(n)
    PROVE  Sound(ctx', cstack')
<1> DEFINE q == [Forked(Top.c, "fresh") EXCEPT !.refs = 1, !.held = 1]
           cy == [ctx EXCEPT ![n] = q]
<1>1. /\ ctx' = cy /\ cstack' = cstack /\ ~ctx[n].live
      /\ cstack \in Seq(GoodAct) /\ ctx \in [Ctx -> Context]
      /\ Counted(ctx, cstack) /\ Calls(cstack)
  BY StackSplit DEF CoCreate
<1>2. /\ q \in Context /\ q.live /\ q.parent = Null /\ q.first = Null
      /\ q.next = Null /\ q.refs = 1 /\ q.held = 1 /\ q.waited = 0
  BY ForkedValues, TopFields DEF LInv
<1> HIDE DEF q
<1>3. /\ SameLinks(ctx, cy) /\ cy[n] = q /\ \A u \in Ctx : u # n => cy[u] = ctx[u]
      /\ Tree(cy) /\ Runs(cy, cstack) /\ Timed(cy, cstack)
  BY <1>1, <1>2, NewContext
<1>4. Cardinality(Resumes(cstack, n)) = 0 /\ ~Started(cstack, n) /\ n # Root
  BY <1>1, DeadBlank
<1> HIDE DEF cy
<1>5. Counted(cy, cstack)
  <2> SUFFICES ASSUME NEW u \in Ctx
               PROVE  /\ cy[u].refs = Owners(cy, cstack, u)
                      /\ cy[u].live <=> (cy[u].refs > 0 \/ Started(cstack, u))
    BY DEF Counted
  <2>1. CASE u = n
    BY <1>2, <1>3, <1>4, <2>1 DEF Owners
  <2>2. CASE u # n
    <3>1. cy[u] = ctx[u]
      BY <1>3, <2>2
    <3>2. /\ ctx[u].refs = Owners(ctx, cstack, u)
          /\ ctx[u].live <=> (ctx[u].refs > 0 \/ Started(cstack, u))
      BY <1>1 DEF Counted
    <3> QED
      BY <3>1, <3>2 DEF Owners
  <2> QED
    BY <2>1, <2>2
<1> QED
  BY <1>1, <1>3, <1>5 DEF Sound

LEMMA ResumeReturnStep ==
    ASSUME LInv, ResumeReturn
    PROVE  Sound(ctx', cstack')
<1> DEFINE t == Top.c
           r == Tail(cstack)
<1>1. /\ ctx \in [Ctx -> Context] /\ r \in Seq(GoodAct) /\ Top \in GoodAct /\ t \in Ctx
      /\ cstack = <<Top>> \o r /\ Top.k = "resume"
      /\ Counted(ctx, cstack) /\ Timed(ctx, cstack) /\ cstack \in Seq(GoodAct)
      /\ Tree(ctx) /\ Runs(ctx, r) /\ Calls(r)
      /\ ctx' = Released(ctx, t) /\ cstack' = r
  BY StackSplit, TopFields DEF LInv, ResumeReturn
<1>2. StackOK(r)
  BY <1>1, PopKeepsStack DEF LInv
<1> HIDE DEF t, r
<1>3. Timed(ctx, r)
  BY <1>1, TimedCons
<1>4. Pending(ctx, r, t)
  <2> SUFFICES ASSUME NEW u \in Ctx
               PROVE  /\ ctx[u].refs = Owners(ctx, r, u) + (IF u = t THEN 1 ELSE 0)
                      /\ ctx[u].live <=> (ctx[u].refs > 0 \/ Started(r, u))
    BY DEF Pending
  <2>1. /\ ctx[u].refs = ctx[u].held + (IF ctx[u].parent = Null THEN 0 ELSE 1)
               + Cardinality(Resumes(cstack, u)) + (IF u = Root THEN 1 ELSE 0)
        /\ ctx[u].held \in Nat
        /\ ctx[u].live <=> (ctx[u].refs > 0 \/ Started(cstack, u))
    BY <1>1, OwnerFacts
  <2>2. /\ Cardinality(Resumes(cstack, u)) = Cardinality(Resumes(r, u)) + (IF u = t THEN 1 ELSE 0)
        /\ Started(cstack, u) <=> Started(r, u)
    BY <1>1, ResumesCons, StartedCons DEF t
  <2>3. Cardinality(Resumes(r, u)) \in Nat
    BY <1>1, ResumesFinite
  <2> QED
    BY <2>1, <2>2, <2>3 DEF Owners
<1>5. Losing(ctx, r, t)
  BY <1>1, <1>3, <1>4 DEF Losing
<1> QED
  BY <1>1, <1>2, <1>5, ReleasedKeeps

LEMMA DropRefStep ==
    ASSUME LInv, Tame, NEW t \in Ctx, DropRef(t)
    PROVE  Sound(ctx', cstack')
<1> DEFINE s == cstack
           cx == [ctx EXCEPT ![t].held = @ - 1]
<1>1. /\ ctx \in [Ctx -> Context] /\ s \in Seq(GoodAct) /\ StackOK(s)
      /\ Counted(ctx, s) /\ Timed(ctx, s) /\ Tree(ctx) /\ Runs(ctx, s) /\ Calls(s)
      /\ ctx' = Released(cx, t) /\ cstack' = s /\ ctx[t].held > 0
  BY StackSplit DEF DropRef, LInv, IInv
<1>2. ctx[t].held \in Nat /\ ctx[t].held - 1 \in Nat
  BY <1>1, OwnedUnlessStarted
<1>3. cx \in [Ctx -> Context]
  BY <1>1, <1>2, UpdateTypes
<1>4. /\ SameLinks(ctx, cx)
      /\ \A u \in Ctx : /\ cx[u].live = ctx[u].live /\ cx[u].timeout = ctx[u].timeout
                        /\ cx[u].asked = ctx[u].asked /\ cx[u].waited = ctx[u].waited
                        /\ cx[u].refs = ctx[u].refs
      /\ \A u \in Ctx : u # t => cx[u].held = ctx[u].held
      /\ cx[t].held = ctx[t].held - 1
  <2> DEFINE r == [ctx[t] EXCEPT !.held = @ - 1]
  <2>1. /\ r.live = ctx[t].live /\ r.timeout = ctx[t].timeout /\ r.asked = ctx[t].asked
        /\ r.waited = ctx[t].waited /\ r.parent = ctx[t].parent /\ r.first = ctx[t].first
        /\ r.next = ctx[t].next /\ r.refs = ctx[t].refs /\ r.held = ctx[t].held - 1
    BY <1>1 DEF Context
  <2>2. \A u \in Ctx : cx[u] = IF u = t THEN r ELSE ctx[u]
    BY <1>1
  <2> HIDE DEF r, cx
  <2>3. SameLinks(ctx, cx)
    BY <2>1, <2>2 DEF SameLinks
  <2>4. \A u \in Ctx : /\ cx[u].live = ctx[u].live /\ cx[u].timeout = ctx[u].timeout
                       /\ cx[u].asked = ctx[u].asked /\ cx[u].waited = ctx[u].waited
                       /\ cx[u].refs = ctx[u].refs
    BY <2>1, <2>2
  <2>5. \A u \in Ctx : u # t => cx[u].held = ctx[u].held
    BY <2>2
  <2>6. cx[t].held = ctx[t].held - 1
    BY <2>1, <2>2
  <2> QED
    BY <2>3, <2>4, <2>5, <2>6
<1>5. ASSUME NEW i \in 1 .. Len(s), s[i].k = "start", s[i].p = t
      PROVE  ctx[t].held > 1 \/ \E b \in Below(s, i) : b.c = t
  <2>1. ctx[t].held > 1 \/ \E j \in i + 1 .. Len(s) : s[j].c = t
    BY <1>5 DEF DropRef, Tame
  <2>2. Len(s) \in Nat
    BY <1>1, LenProperties
  <2>3. \A j \in i + 1 .. Len(s) : j \in 1 .. Len(s) /\ i < j
    BY <2>2
  <2> QED
    BY <2>1, <2>3 DEF Below
<1> HIDE DEF cx, s
<1>6. Tree(cx)
  BY <1>1, <1>3, <1>4, TreeSame
<1>7. Timed(cx, s)
  BY <1>1, <1>4 DEF Timed, SameLinks
<1>8. Runs(cx, s)
  <2> SUFFICES ASSUME NEW i \in 1 .. Len(s)
               PROVE  RunOK(cx, s[i], Below(s, i))
    BY DEF Runs
  <2> DEFINE a == s[i]
             B == Below(s, i)
  <2>1. RunOK(ctx, a, B)
    BY <1>1 DEF Runs
  <2>2. a \in GoodAct /\ a \in Acts(s)
    BY <1>1, ActsType
  <2>3. (a.k = "start" /\ a.p = t) => (ctx[t].held > 1 \/ \E b \in B : b.c = t)
    BY <1>5
  <2> HIDE DEF a, B
  <2>4. a.c \in Ctx /\ (a.k = "start" => a.p \in Ctx)
    BY <2>2, ActFields
  <2>5. ctx[a.c].live /\ (a.k = "start" => StartOK(ctx, a, B))
    BY <2>1 DEF RunOK
  <2>6. a.k = "start" => cx[a.p].held > 0 \/ \E b \in B : b.c = a.p
    <3> SUFFICES ASSUME a.k = "start" PROVE cx[a.p].held > 0 \/ \E b \in B : b.c = a.p
      OBVIOUS
    <3>1. CASE a.p = t
      BY <1>2, <1>4, <2>3, <3>1
    <3>2. CASE a.p # t
      BY <1>4, <2>4, <2>5, <3>2 DEF StartOK
    <3> QED
      BY <3>1, <3>2
  <2>7. a.k = "start" => cx[a.c].refs = 0 /\ cx[a.c].waited = 0
    BY <1>4, <2>4, <2>5 DEF StartOK
  <2>8. cx[a.c].live
    BY <1>4, <2>4, <2>5
  <2>9. RunOK(cx, a, B)
    BY <1>1, <1>3, <1>4, <2>1, <2>2, <2>6, <2>7, <2>8, RunSame
  <2> QED
    BY <2>9 DEF a, B
<1>9. Pending(cx, s, t)
  <2> SUFFICES ASSUME NEW u \in Ctx
               PROVE  /\ cx[u].refs = Owners(cx, s, u) + (IF u = t THEN 1 ELSE 0)
                      /\ cx[u].live <=> (cx[u].refs > 0 \/ Started(s, u))
    BY DEF Pending
  <2>1. /\ ctx[u].refs = ctx[u].held + (IF ctx[u].parent = Null THEN 0 ELSE 1)
               + Cardinality(Resumes(s, u)) + (IF u = Root THEN 1 ELSE 0)
        /\ ctx[u].held \in Nat /\ Cardinality(Resumes(s, u)) \in Nat
        /\ ctx[u].live <=> (ctx[u].refs > 0 \/ Started(s, u))
    BY <1>1, OwnerFacts
  <2>2. /\ cx[u].parent = ctx[u].parent /\ cx[u].refs = ctx[u].refs
        /\ cx[u].live = ctx[u].live
    BY <1>4 DEF SameLinks
  <2>3. CASE u = t
    BY <1>2, <1>4, <2>1, <2>2, <2>3 DEF Owners
  <2>4. CASE u # t
    BY <1>4, <2>1, <2>2, <2>4 DEF Owners
  <2> QED
    BY <2>3, <2>4
<1>10. Losing(cx, s, t)
  BY <1>1, <1>6, <1>7, <1>8, <1>9 DEF Losing
<1> QED
  BY <1>1, <1>3, <1>10, ReleasedKeeps

---------------------------------------------------------------------------
(* A thread is created.                                                    *)

LEMMA TopmostFacts ==
    ASSUME LInv, NEW c \in Ctx
    PROVE  Topmost(c) \in Ancestors(ctx, c) /\ ctx[Topmost(c)].parent = Null
<1>1. ctx \in [Ctx -> Context] /\ NoCycle(ctx)
  BY StackSplit DEF Tree
<1>2. /\ Ancestors(ctx, c) \in SUBSET Ctx /\ c \in Ancestors(ctx, c)
      /\ \A t \in Ancestors(ctx, c) :
            ctx[t].parent # Null => ctx[t].parent \in Ancestors(ctx, c)
  BY <1>1, AncestorFacts
<1>3. \E t \in Ancestors(ctx, c) : ctx[t].parent \notin Ancestors(ctx, c)
  BY <1>1, <1>2 DEF NoCycle
<1>4. \E t \in Ancestors(ctx, c) : ctx[t].parent = Null
  BY <1>2, <1>3
<1> QED
  BY <1>4 DEF Topmost

(* The main script is beneath everything.                                  *)
LEMMA RootBeneath ==
    ASSUME LInv
    PROVE  \E b \in Acts(cstack) : b.c = Root
<1>1. cstack \in Seq(GoodAct) /\ cstack # <<>> /\ cstack[Len(cstack)].c = Root
  BY DEF LInv, IInv, StackOK
<1>2. Len(cstack) \in 1 .. Len(cstack)
  BY <1>1, EmptySeq, LenProperties
<1> QED
  BY <1>1, <1>2 DEF Acts

(* What the stack names is allocated.                                      *)
LEMMA NamedLive ==
    ASSUME LInv, NEW b \in Acts(cstack)
    PROVE  /\ b \in GoodAct /\ ctx[b.c].live
           /\ b.k = "start" => b.p \in Ctx /\ ctx[b.p].live
           /\ b.k \in {"timer", "resumed", "after"} =>
                b.th \in Ctx /\ ctx[b.th].live /\ ctx[b.th].parent = b.c
           /\ b.k \in PassKinds =>
                /\ b.pst.at = "first" => b.pst.of = b.c
                /\ b.pst.at = "next" => ctx[b.pst.of].parent = b.c /\ b.pst.of \in b.seen
                /\ ctx[b.pst.of].live
<1>0. /\ ctx \in [Ctx -> Context] /\ cstack \in Seq(GoodAct)
      /\ Counted(ctx, cstack) /\ Runs(ctx, cstack)
  BY StackSplit
<1>1. PICK i \in 1 .. Len(cstack) : cstack[i] = b
  BY DEF Acts
<1>2. RunOK(ctx, b, Below(cstack, i)) /\ Below(cstack, i) \subseteq Acts(cstack)
  BY <1>0, <1>1, ActsType DEF Runs
<1>3. \A d \in Acts(cstack) : d \in GoodAct /\ ctx[d.c].live
  BY <1>0, ActsType DEF Runs, RunOK, Acts
<1>4. /\ b \in GoodAct /\ b.c \in Ctx /\ b.pst.of \in Ctx /\ b.pst.at \in {"first", "next"}
      /\ b.k \in {"timer", "resumed", "after"} => b.th \in Ctx
      /\ b.k = "start" => b.p \in Ctx
  BY <1>3, ActFields
<1>5. ASSUME NEW t \in Ctx, ctx[t].held > 0 \/ ctx[t].parent # Null PROVE ctx[t].live
  BY <1>0, <1>5, OwnerFacts
<1>6. b.k = "start" => ctx[b.p].live
  BY <1>2, <1>3, <1>4, <1>5 DEF RunOK, StartOK
<1>7. b.k \in PassKinds => WalkOK(ctx, b)
  BY <1>2 DEF RunOK
<1>8. b.k \in {"timer", "resumed", "after"} => ctx[b.th].parent = b.c /\ ctx[b.th].live
  BY <1>4, <1>5, <1>7, RootAssumption DEF WalkOK, PassKinds
<1>9. b.k \in PassKinds =>
        /\ b.pst.at = "first" => b.pst.of = b.c
        /\ b.pst.at = "next" => ctx[b.pst.of].parent = b.c /\ b.pst.of \in b.seen
  BY <1>7 DEF WalkOK
<1>10. b.k \in PassKinds => ctx[b.pst.of].live
  BY <1>3, <1>4, <1>5, <1>9, RootAssumption
<1> QED
  BY <1>3, <1>4, <1>6, <1>8, <1>9, <1>10

LEMMA CreateStep ==
    ASSUME LInv, Tame, NEW op, NEW p \in Ctx, NEW n \in Ctx, CreateSubthread(op, p, n)
    PROVE  Sound(ctx', cstack')
<1> DEFINE f == Forked(p, "running")
           cy == [ctx EXCEPT ![n] = f]
           s == cstack
           a == Act("script", n)
           b == [Act("start", n) EXCEPT !.p = p]
           q == <<b>> \o s
<1>1. /\ ctx' = cy /\ ~ctx[n].live /\ ctx \in [Ctx -> Context] /\ s \in Seq(GoodAct)
      /\ Counted(ctx, s) /\ Calls(s) /\ Tree(ctx) /\ Runs(ctx, s)
      /\ Top \in GoodAct /\ Top.c \in Ctx /\ Top \in Acts(s) /\ s # <<>>
  BY StackSplit, TopFields DEF LInv, CreateSubthread
<1>2. /\ f \in Context /\ f.live /\ f.parent = Null /\ f.first = Null
      /\ f.next = Null /\ f.refs = 0 /\ f.held = 0 /\ f.waited = 0
  BY ForkedValues DEF LInv
<1>3. /\ a \in GoodAct /\ b \in GoodAct /\ b.k = "start" /\ b.c = n /\ b.p = p /\ b.th = Null
      /\ b.pst = [at |-> "first", of |-> n]
  BY ActType, StartType DEF Act
<1>4. cstack' = <<a>> \o q
  <2>1. cstack' = <<a, b>> \o s
    BY DEF CreateSubthread
  <2>2. a \in GoodAct /\ b \in GoodAct /\ s \in Seq(GoodAct)
    BY <1>1, <1>3
  <2> HIDE DEF a, b, s
  <2> QED
    BY <2>1, <2>2, ConsTwo
<1> HIDE DEF f
<1>5. /\ cy \in [Ctx -> Context] /\ SameLinks(ctx, cy) /\ cy[n] = f
      /\ \A u \in Ctx : u # n => cy[u] = ctx[u]
      /\ Tree(cy) /\ Runs(cy, s) /\ Timed(cy, s)
  BY <1>1, <1>2, NewContext
<1>6. /\ Cardinality(Resumes(s, n)) = 0 /\ ~Started(s, n) /\ n # Root
  BY <1>1, DeadBlank
<1>7. /\ p \in Ancestors(ctx, Top.c)
      /\ \/ p = Top.c
         \/ ctx[p].parent = Null
  <2>1. p = IF op = "thread_create" THEN Topmost(Top.c) ELSE Top.c
    BY DEF CreateSubthread
  <2>2. Top.c \in Ancestors(ctx, Top.c)
    BY <1>1, AncestorFacts
  <2> QED
    BY <1>1, <2>1, <2>2, TopmostFacts
<1>8. ASSUME NEW c \in Ctx, ctx[c].live PROVE n \notin Ancestors(ctx, c)
  BY <1>1, <1>8, AncestorsLive DEF Tree
<1>9. ctx[Top.c].live /\ ctx[p].live
  <2>1. ctx[Top.c].live
    BY <1>1, NamedLive
  <2> QED
    BY <1>1, <1>7, <2>1, AncestorsLive DEF Tree
<1>10. ctx[p].held > 0 \/ \E d \in Acts(s) : d.c = p
  <2>1. CASE p = Top.c
    BY <1>1, <2>1
  <2>2. CASE ctx[p].parent = Null
    <3>1. /\ ctx[p].refs = ctx[p].held + (IF ctx[p].parent = Null THEN 0 ELSE 1)
               + Cardinality(Resumes(s, p)) + (IF p = Root THEN 1 ELSE 0)
          /\ ctx[p].held \in Nat /\ Cardinality(Resumes(s, p)) \in Nat
          /\ ctx[p].live <=> (ctx[p].refs > 0 \/ Started(s, p))
      BY <1>1, OwnerFacts
    <3>2. Started(s, p) => \E d \in Acts(s) : d.c = p
      BY DEF Started
    <3>3. p = Root => \E d \in Acts(s) : d.c = p
      BY RootBeneath
    <3>4. Resumes(s, p) # {} => \E d \in Acts(s) : d.c = p
      BY DEF Resumes, Acts
    <3>5. Resumes(s, p) = {} => Cardinality(Resumes(s, p)) = 0
      BY FS_EmptySet
    <3> QED
      BY <1>9, <2>2, <3>1, <3>2, <3>3, <3>4, <3>5
  <2> QED
    BY <1>7, <2>1, <2>2
<1>11. \A d \in Acts(s) : d.k \in PassKinds /\ d.c = p => d.pst.at = "next"
  <2> SUFFICES ASSUME NEW d \in Acts(s), d.k \in PassKinds, d.c = p, d.pst.at # "next"
               PROVE  FALSE
    OBVIOUS
  <2>1. ~HeadInUse(p)
    BY DEF CreateSubthread, Tame
  <2>2. d.pst \in Cursor /\ d.pst.at = "first" /\ d.pst.of = p
    BY NamedLive, ActFields
  <2>3. d.pst = [at |-> "first", of |-> p]
    BY <2>2 DEF Cursor
  <2>4. PICK i \in 1 .. Len(cstack) : cstack[i] = d
    BY DEF Acts
  <2> QED
    BY <2>1, <2>3, <2>4 DEF HeadInUse, Activations
<1>12. cy[n].live
  BY <1>2, <1>5
<1> HIDE DEF cy, s, a, b
<1>13. StartOK(cy, b, Acts(s))
  <2>1. \A c : Ancestors(cy, c) = Ancestors(ctx, c)
    BY <1>1, <1>5, SameLinksFacts
  <2>2. cy[n].refs = 0 /\ cy[n].waited = 0
    BY <1>2, <1>5
  <2>3. cy[p].held > 0 \/ \E d \in Acts(s) : d.c = p
    <3>1. p # n
      BY <1>1, <1>9
    <3> QED
      BY <1>5, <1>10, <3>1
  <2>4. n \notin Ancestors(cy, p)
    BY <1>8, <1>9, <2>1
  <2>5. \A d \in Acts(s) : /\ n \notin Ancestors(cy, d.c)
                           /\ d.k = "start" => n \notin Ancestors(cy, d.p)
    <3> SUFFICES ASSUME NEW d \in Acts(s)
                 PROVE  /\ n \notin Ancestors(ctx, d.c)
                        /\ d.k = "start" => n \notin Ancestors(ctx, d.p)
      BY <2>1
    <3>1. /\ d.c \in Ctx /\ ctx[d.c].live
          /\ d.k = "start" => d.p \in Ctx /\ ctx[d.p].live
      BY NamedLive, ActFields DEF s
    <3> QED
      BY <1>8, <3>1
  <2> QED
    BY <1>3, <1>11, <2>2, <2>3, <2>4, <2>5 DEF StartOK
<1>14. RunOK(cy, b, Acts(s)) /\ ActOK(b)
  BY <1>3, <1>12, <1>13, RootAssumption DEF RunOK, ActOK, PassKinds
<1>15. CalledBy(b, Head(s))
  BY <1>3 DEF CalledBy, PassKinds
<1>16. Counted(cy, q)
  <2> SUFFICES ASSUME NEW u \in Ctx
               PROVE  /\ cy[u].refs = Owners(cy, q, u)
                      /\ cy[u].live <=> (cy[u].refs > 0 \/ Started(q, u))
    BY DEF Counted
  <2>1. Started(q, u) <=> Started(s, u) \/ u = n
    BY <1>1, <1>3, StartedCons
  <2>2. Cardinality(Resumes(q, u)) = Cardinality(Resumes(s, u))
    <3>1. Cardinality(Resumes(q, u)) = Cardinality(Resumes(s, u))
             + (IF b.k = "resume" /\ b.c = u THEN 1 ELSE 0)
      BY <1>1, <1>3, ResumesCons
    <3>2. Cardinality(Resumes(s, u)) \in Nat
      BY <1>1, ResumesFinite
    <3> QED
      BY <1>3, <3>1, <3>2
  <2> HIDE DEF q
  <2>3. CASE u = n
    BY <1>2, <1>5, <1>6, <2>1, <2>2, <2>3 DEF Owners
  <2>4. CASE u # n
    <3>1. cy[u] = ctx[u]
      BY <1>5, <2>4
    <3>2. /\ ctx[u].refs = Owners(ctx, s, u)
          /\ ctx[u].live <=> (ctx[u].refs > 0 \/ Started(s, u))
      BY <1>1 DEF Counted
    <3> QED
      BY <2>1, <2>2, <2>4, <3>1, <3>2 DEF Owners
  <2> QED
    BY <2>3, <2>4
<1>17. Timed(cy, q)
  BY <1>1, <1>3, <1>5, TimedCons
<1>18. Runs(cy, q)
  BY <1>1, <1>3, <1>5, <1>14, RunsCons
<1>19. Calls(q)
  BY <1>1, <1>3, <1>14, <1>15, CallsCons
<1>20. Sound(cy, q)
  BY <1>5, <1>16, <1>17, <1>18, <1>19 DEF Sound
<1>21. q \in Seq(GoodAct) /\ q # <<>> /\ Head(q) = b
  BY <1>1, <1>3
<1>22. /\ a.k = "script" /\ a.c = n /\ ActOK(a) /\ RunOK(cy, a, Acts(q))
  BY <1>12, ActFieldsOf DEF a
<1>23. CalledBy(a, b)
  BY <1>3, <1>22 DEF CalledBy, PassKinds
<1> HIDE DEF q
<1>24. Sound(cy, <<a>> \o q)
  BY <1>3, <1>20, <1>21, <1>22, <1>23, SoundCons
<1> QED
  BY <1>1, <1>4, <1>24

---------------------------------------------------------------------------
(* A thread is put at the head of its parent's list.                       *)

Linked(cx, cy, n, p) ==
    /\ cx[n].parent = Null /\ cx[n].live /\ cx[p].live
    /\ n \notin Ancestors(cx, p)
    /\ cy[n].parent = p /\ cy[n].next = cx[p].first
    /\ cy[p].first = n
    /\ \A u \in Ctx : u # n => cy[u].parent = cx[u].parent /\ cy[u].next = cx[u].next
    /\ \A u \in Ctx : u # p => cy[u].first = cx[u].first
    /\ \A u \in Ctx : cy[u].live = cx[u].live

LEMMA LinkedLinks ==
    ASSUME NEW cx \in [Ctx -> Context], NEW cy \in [Ctx -> Context],
           NEW n \in Ctx, NEW p \in Ctx, Tree(cx), Linked(cx, cy, n, p)
    PROVE  /\ n # p
           /\ \A t \in Ctx : /\ cx[t].parent # Null => t # n
                             /\ cx[t].first # Null =>
                                  /\ cx[t].first \in Ctx /\ cx[cx[t].first].parent = t
                                  /\ cx[t].first # n
                             /\ cx[t].parent # Null /\ cx[t].next # Null =>
                                  /\ cx[t].next \in Ctx
                                  /\ cx[cx[t].next].parent = cx[t].parent
                                  /\ cx[t].next # n
           /\ \A c \in Ctx : n \notin Ancestors(cx, c) => Ancestors(cy, c) \subseteq Ancestors(cx, c)
<1>1. \A t \in Ctx : cx[t].parent \in Ptr /\ cx[t].first \in Ptr /\ cx[t].next \in Ptr
  BY FieldValues
<1>2. n # p
  BY AncestorFacts DEF Linked
<1>3. \A t \in Ctx : cx[t].first # Null =>
          cx[t].first \in Ctx /\ cx[cx[t].first].parent = t /\ cx[t].first # n
  BY <1>1, RootAssumption DEF Linked, Tree, LinksMatch, Ptr
<1>4. \A t \in Ctx : cx[t].parent # Null /\ cx[t].next # Null =>
          /\ cx[t].next \in Ctx /\ cx[cx[t].next].parent = cx[t].parent
          /\ cx[t].next # n
  BY <1>1 DEF Linked, Tree, LinksMatch, Ptr
<1>5. ASSUME NEW c \in Ctx, n \notin Ancestors(cx, c)
      PROVE  Ancestors(cy, c) \subseteq Ancestors(cx, c)
  <2>1. \A t \in Ancestors(cx, c) : t \in Ctx /\ t # n
    BY <1>5, AncestorFacts
  <2>2. \A t \in Ancestors(cx, c) : cy[t].parent \in {cx[t].parent, Null}
    BY <2>1 DEF Linked
  <2> QED
    BY <2>2, AncestorsShrink
<1> QED
  BY <1>2, <1>3, <1>4, <1>5 DEF Linked

LEMMA LinkedTree ==
    ASSUME NEW cx \in [Ctx -> Context], NEW cy \in [Ctx -> Context],
           NEW n \in Ctx, NEW p \in Ctx, Tree(cx), Linked(cx, cy, n, p)
    PROVE  Tree(cy)
<1>0. /\ n # p
      /\ \A t \in Ctx : cx[t].parent # Null => t # n
      /\ \A t \in Ctx : cx[t].first # Null =>
           cx[t].first \in Ctx /\ cx[cx[t].first].parent = t /\ cx[t].first # n
      /\ \A t \in Ctx : cx[t].parent # Null /\ cx[t].next # Null =>
           /\ cx[t].next \in Ctx /\ cx[cx[t].next].parent = cx[t].parent
           /\ cx[t].next # n
  BY LinkedLinks
<1>1. /\ cx[n].parent = Null /\ cx[n].live /\ cx[p].live
      /\ n \notin Ancestors(cx, p)
      /\ cy[n].parent = p /\ cy[n].next = cx[p].first /\ cy[p].first = n
      /\ \A u \in Ctx : u # n => cy[u].parent = cx[u].parent /\ cy[u].next = cx[u].next
      /\ \A u \in Ctx : u # p => cy[u].first = cx[u].first
      /\ \A u \in Ctx : cy[u].live = cx[u].live
      /\ p # Null /\ n # Null
      /\ \A t \in Ctx : cx[t].parent \in Ptr /\ cx[t].first \in Ptr /\ cx[t].next \in Ptr
      /\ \A t \in Ctx : cy[t].parent \in Ptr /\ cy[t].first \in Ptr /\ cy[t].next \in Ptr
  BY FieldValues, RootAssumption DEF Linked
<1>2. LinksMatch(cy)
  <2>1. ASSUME NEW c \in Ctx, cy[c].first # Null PROVE cy[cy[c].first].parent = c
    <3>1. CASE c = p
      BY <1>1, <3>1
    <3>2. CASE c # p
      BY <1>0, <1>1, <2>1, <3>2
    <3> QED
      BY <3>1, <3>2
  <2>2. ASSUME NEW t \in Ctx, cy[t].parent # Null, cy[t].next # Null
        PROVE  cy[cy[t].next].parent = cy[t].parent
    <3>1. CASE t = n
      BY <1>0, <1>1, <2>2, <3>1
    <3>2. CASE t # n
      BY <1>0, <1>1, <2>2, <3>2
    <3> QED
      BY <3>1, <3>2
  <2> QED
    BY <2>1, <2>2 DEF LinksMatch
<1>3. LinksDiffer(cy)
  <2>0. /\ \A t, u \in Ctx : cx[t].parent # Null /\ cx[u].parent # Null
                                /\ cx[t].next # Null /\ cx[t].next = cx[u].next => t = u
        /\ \A t, c \in Ctx : cx[t].parent # Null /\ cx[t].next # Null =>
                cx[t].next # cx[c].first
    BY DEF Tree, LinksDiffer
  <2>1. ASSUME NEW t \in Ctx, NEW u \in Ctx, cy[t].parent # Null, cy[u].parent # Null,
               cy[t].next # Null, cy[t].next = cy[u].next
        PROVE  t = u
    <3>1. CASE t = n /\ u # n
      BY <1>0, <1>1, <2>0, <2>1, <3>1
    <3>2. CASE t # n /\ u = n
      BY <1>0, <1>1, <2>0, <2>1, <3>2
    <3>3. CASE t # n /\ u # n
      BY <1>1, <2>0, <2>1, <3>3
    <3> QED
      BY <3>1, <3>2, <3>3
  <2>2. ASSUME NEW t \in Ctx, NEW c \in Ctx, cy[t].parent # Null, cy[t].next # Null
        PROVE  cy[t].next # cy[c].first
    <3>1. CASE t = n
      BY <1>0, <1>1, <2>2, <3>1
    <3>2. CASE t # n
      BY <1>0, <1>1, <2>0, <2>2, <3>2
    <3> QED
      BY <3>1, <3>2
  <2> QED
    BY <2>1, <2>2 DEF LinksDiffer
<1>4. AllFound(cy)
  <2> SUFFICES ASSUME NEW t \in Ctx, cy[t].parent # Null
               PROVE  t \in ListOf(cy, cy[t].parent)
    BY DEF AllFound
  <2> DEFINE c == cy[t].parent
             L == From(cx, cx[c].first)
             M == From(cy, cy[c].first)
  <2>1. c \in Ctx /\ ListOf(cy, c) = M /\ ListOf(cx, c) = L
    BY <1>1, ListIsFrom DEF Ptr
  <2>2. \A u \in L : u \in Ctx /\ cx[u].parent = c /\ u # n
    <3>1. L \in SUBSET Ctx
      BY <1>1, <2>1, FromFacts
    <3>2. \A u \in L : cx[u].parent = c
      BY <2>1, ListIsChildren DEF Tree
    <3> QED
      BY <1>0, <2>1, <3>1, <3>2, RootAssumption
  <2>3. t # n => t \in L
    <3> HIDE DEF L
    <3> QED
      BY <1>1, <2>1 DEF Tree, AllFound
  <2> HIDE DEF c
  <2>4. CASE c # p
    <3>1. cy[c].first = cx[c].first /\ cx[c].first \in Ptr
      BY <1>1, <2>1, <2>4
    <3>2. \A u \in L : cy[u].next = cx[u].next
      BY <1>1, <2>2
    <3>3. M = L
      BY <3>1, <3>2, FromSame
    <3>4. t # n
      BY <1>1, <2>4 DEF c
    <3> QED
      BY <2>1, <2>3, <3>3, <3>4 DEF c
  <2>5. CASE c = p
    <3>1. /\ M \in SUBSET Ctx /\ n \in M
          /\ \A u \in M : cy[u].next # Null => cy[u].next \in M
      BY <1>1, <2>5, FromFacts
    <3>2. cx[p].first # Null => cx[p].first \in M
      BY <1>1, <3>1
    <3> DEFINE T == L \cap M
    <3>3. /\ L \in SUBSET Ctx /\ (cx[p].first # Null => cx[p].first \in L)
          /\ \A u \in L : cx[u].next # Null => cx[u].next \in L
          /\ \A V \in SUBSET Ctx : /\ cx[p].first # Null => cx[p].first \in V
                                   /\ \A u \in V : cx[u].next # Null => cx[u].next \in V
                                   => L \subseteq V
      BY <1>1, <2>5, FromFacts
    <3>4. T \in SUBSET Ctx /\ (cx[p].first # Null => cx[p].first \in T)
      BY <3>2, <3>3
    <3>5. \A u \in T : cx[u].next # Null => cx[u].next \in T
      <4> HIDE DEF L, M
      <4> QED
        BY <1>1, <2>2, <3>1, <3>3
    <3>6. T \subseteq M
      OBVIOUS
    <3> HIDE DEF T, L, M
    <3>7. L \subseteq T
      BY <3>3, <3>4, <3>5
    <3>8. t \in M
      BY <2>3, <3>1, <3>6, <3>7
    <3> QED
      BY <2>1, <3>8 DEF c
  <2> QED
    BY <2>4, <2>5
<1>5. NoCycle(cy)
  <2> SUFFICES ASSUME NEW S \in SUBSET Ctx, S # {}
               PROVE  \E t \in S : cy[t].parent \notin S
    BY DEF NoCycle
  <2>0. \A V \in SUBSET Ctx : V # {} => \E t \in V : cx[t].parent \notin V
    BY DEF Tree, NoCycle
  <2>1. CASE n \notin S
    <3>1. PICK t \in S : cx[t].parent \notin S
      BY <2>0
    <3>2. cy[t].parent = cx[t].parent
      BY <1>1, <2>1, <3>1
    <3> QED
      BY <3>1, <3>2
  <2>2. CASE n \in S /\ p \notin S
    BY <1>1, <2>2
  <2>3. CASE n \in S /\ p \in S
    <3> DEFINE A == Ancestors(cx, p)
               V == S \cap A
    <3>1. /\ p \in A /\ \A t \in A : cx[t].parent # Null => cx[t].parent \in A
      BY AncestorFacts
    <3>2. V \in SUBSET Ctx /\ V # {} /\ n \notin V
      BY <1>1, <2>3, <3>1
    <3>3. PICK t \in V : cx[t].parent \notin V
      BY <2>0, <3>2
    <3>4. t \in S /\ t \in A /\ t # n /\ t \in Ctx
      BY <3>2, <3>3
    <3>5. cx[t].parent \notin S
      <4> HIDE DEF A
      <4> QED
        BY <3>1, <3>3, <3>4, RootAssumption
    <3> QED
      BY <1>1, <3>4, <3>5
  <2> QED
    BY <2>1, <2>2, <2>3
<1>6. FreedBlank(cy)
  <2>1. ASSUME NEW t \in Ctx, ~cy[t].live PROVE cy[t].next = Null
    BY <1>1, <2>1 DEF Tree, FreedBlank
  <2>2. ASSUME NEW t \in Ctx, cy[t].parent # Null PROVE cy[cy[t].parent].live
    <3>1. CASE t = n
      BY <1>1, <3>1
    <3>2. CASE t # n
      <4>1. cy[t].parent = cx[t].parent /\ cx[t].parent \in Ctx /\ cx[cx[t].parent].live
        BY <1>1, <2>2, <3>2 DEF Tree, FreedBlank, Ptr
      <4> QED
        BY <1>1, <4>1
    <3> QED
      BY <3>1, <3>2
  <2> QED
    BY <2>1, <2>2 DEF FreedBlank
<1> QED
  BY <1>2, <1>3, <1>4, <1>5, <1>6 DEF Tree

(* The activations B have nothing to do with n; a walk of p's list is past  *)
(* its front.                                                              *)
Apart(cx, n, p, B) ==
    \A b \in B : /\ n \notin Ancestors(cx, b.c)
                 /\ b.k = "start" => n \notin Ancestors(cx, b.p)
                 /\ b.k \in PassKinds /\ b.c = p => b.pst.at = "next"

LEMMA LinkedRun ==
    ASSUME NEW cx \in [Ctx -> Context], NEW cy \in [Ctx -> Context],
           NEW n \in Ctx, NEW p \in Ctx, Tree(cx), Linked(cx, cy, n, p),
           \A u \in Ctx : u # n => cy[u].refs = cx[u].refs /\ cy[u].waited = cx[u].waited,
           \A u \in Ctx : cx[u].held > 0 => cy[u].held > 0,
           NEW a \in GoodAct, NEW B \in SUBSET GoodAct, RunOK(cx, a, B),
           Apart(cx, n, p, B \cup {a})
    PROVE  RunOK(cy, a, B)
<1>0. /\ n # p
      /\ \A t \in Ctx : cx[t].parent # Null => t # n
      /\ \A c \in Ctx : n \notin Ancestors(cx, c) => Ancestors(cy, c) \subseteq Ancestors(cx, c)
  BY LinkedLinks
<1>1. /\ \A u \in Ctx : u # n => cy[u].parent = cx[u].parent /\ cy[u].next = cx[u].next
      /\ \A u \in Ctx : u # p => cy[u].first = cx[u].first
      /\ \A u \in Ctx : cy[u].live = cx[u].live
      /\ \A t \in Ctx : cx[t].parent \in Ptr /\ cx[t].first \in Ptr /\ cx[t].next \in Ptr
  BY FieldValues DEF Linked
<1>9. \A b \in B \cup {a} : /\ n \notin Ancestors(cx, b.c)
                            /\ b.k = "start" => n \notin Ancestors(cx, b.p)
                            /\ b.k \in PassKinds /\ b.c = p => b.pst.at = "next"
  BY DEF Apart
<1>2. \A b \in B \cup {a} : b \in GoodAct /\ b.c \in Ctx /\ (b.k = "start" => b.p \in Ctx)
  BY ActFields
<1>3. \A b \in B \cup {a} : /\ Ancestors(cy, b.c) \subseteq Ancestors(cx, b.c)
                            /\ b.k = "start" => Ancestors(cy, b.p) \subseteq Ancestors(cx, b.p)
  BY <1>0, <1>2, <1>9
<1>4. a.c # n
  BY <1>2, <1>9, AncestorFacts
<1>5. a.k = "start" => StartOK(cy, a, B)
  <2> SUFFICES ASSUME a.k = "start" PROVE StartOK(cy, a, B)
    OBVIOUS
  <2>1. StartOK(cx, a, B)
    BY DEF RunOK
  <2>2. cy[a.c].refs = 0 /\ cy[a.c].waited = 0
    BY <1>2, <1>4, <2>1 DEF StartOK
  <2>3. cy[a.p].held > 0 \/ \E b \in B : b.c = a.p
    BY <1>2, <2>1 DEF StartOK
  <2>4. a.c \notin Ancestors(cy, a.p)
    BY <1>3, <2>1 DEF StartOK
  <2>5. \A b \in B : /\ a.c \notin Ancestors(cy, b.c)
                     /\ b.k = "start" => a.c \notin Ancestors(cy, b.p)
                     /\ b.k \in PassKinds /\ b.c = a.p => b.pst.at = "next"
    BY <1>3, <2>1 DEF StartOK
  <2> QED
    BY <2>2, <2>3, <2>4, <2>5 DEF StartOK
<1>6. a.k \in PassKinds => WalkOK(cy, a)
  <2> SUFFICES ASSUME a.k \in PassKinds PROVE WalkOK(cy, a)
    OBVIOUS
  <2> DEFINE d == Deref(cx, a.pst)
  <2>1. /\ a.pst.of \in Ctx /\ a.pst.at \in {"first", "next"}
        /\ a.todo \subseteq Ctx /\ a.seen \subseteq Ctx /\ a.c # Null
        /\ a.k # "visit" => a.th \in Ctx
    BY <1>2, ActFields, RootAssumption DEF PassKinds
  <2>2. /\ a.k # "visit" => cx[a.th].parent = a.c /\ d = a.th
        /\ a.pst.at = "first" => a.pst.of = a.c
        /\ a.pst.at = "next" => cx[a.pst.of].parent = a.c /\ a.pst.of \in a.seen
        /\ \A t \in a.todo \ a.seen : cx[t].parent = a.c /\ t \in Rest(cx, a.pst)
        /\ Rest(cx, a.pst) \cap a.seen = {}
    BY DEF RunOK, WalkOK
  <2>3. Deref(cy, a.pst) = d
    <3>1. CASE a.pst.at = "first"
      <4>1. a.pst.of # p
        BY <1>9, <2>2, <3>1
      <4> QED
        BY <1>1, <2>1, <3>1, <4>1 DEF Deref
    <3>2. CASE a.pst.at = "next"
      <4>1. a.pst.of # n
        BY <1>0, <2>1, <2>2, <3>2
      <4> QED
        BY <1>1, <2>1, <3>2, <4>1 DEF Deref
    <3> QED
      BY <2>1, <3>1, <3>2
  <2>4. /\ d \in Ptr /\ \A t \in Rest(cx, a.pst) : t \in Ctx /\ cx[t].parent = a.c
    BY <2>2, CursorInList DEF Tree
  <2> HIDE DEF d
  <2>5. Rest(cx, a.pst) = From(cx, d) /\ Rest(cy, a.pst) = From(cy, d)
    BY <2>3, ListIsFrom DEF d
  <2>6. \A t \in From(cx, d) : cy[t].next = cx[t].next
    BY <1>0, <1>1, <2>1, <2>4, <2>5
  <2>7. Rest(cy, a.pst) = Rest(cx, a.pst)
    BY <2>4, <2>5, <2>6, FromSame
  <2>8. a.k # "visit" => cy[a.th].parent = a.c
    BY <1>0, <1>1, <2>1, <2>2
  <2>9. a.pst.at = "next" => cy[a.pst.of].parent = a.c
    BY <1>0, <1>1, <2>1, <2>2
  <2>10. \A t \in a.todo \ a.seen : cy[t].parent = a.c
    BY <1>0, <1>1, <2>1, <2>2
  <2> QED
    BY <2>2, <2>3, <2>7, <2>8, <2>9, <2>10 DEF WalkOK, d
<1>7. a.k \in PassKinds => Inner(cy, a, B)
  BY <1>3 DEF RunOK, Inner
<1>8. cy[a.c].live
  BY <1>1, <1>2 DEF RunOK
<1> QED
  BY <1>5, <1>6, <1>7, <1>8 DEF RunOK

(* The fields that a created thread gets.                                  *)
StartedFor(cx, cy, n, p, v) ==
    /\ cy[n].parent = p /\ cy[n].next = cx[p].first /\ cy[p].first = n
    /\ cy[n].timeout = v /\ cy[n].asked = v /\ cy[n].waited = cx[n].waited
    /\ cy[n].refs = cx[n].refs + 1 + 1 /\ cy[n].held = cx[n].held + 1
    /\ \A u \in Ctx : cy[u].live = cx[u].live
    /\ \A u \in Ctx : u # p => cy[u].first = cx[u].first
    /\ \A u \in Ctx : u # n =>
         /\ cy[u].parent = cx[u].parent /\ cy[u].next = cx[u].next
         /\ cy[u].refs = cx[u].refs /\ cy[u].held = cx[u].held
         /\ cy[u].timeout = cx[u].timeout /\ cy[u].asked = cx[u].asked
         /\ cy[u].waited = cx[u].waited

LEMMA StartFields ==
    ASSUME NEW cx \in [Ctx -> Context], NEW n \in Ctx, NEW p \in Ctx, n # p, NEW v,
           NEW x, x = [cx[n] EXCEPT !.refs = @ + 1, !.held = @ + 1],
           NEW y, y = [x EXCEPT !.refs = @ + 1, !.parent = p, !.next = cx[p].first,
                                !.timeout = v, !.asked = v]
    PROVE  StartedFor(cx, [cx EXCEPT ![n] = y, ![p].first = n], n, p, v)
<1> DEFINE q == [cx[p] EXCEPT !.first = n]
           cy == [cx EXCEPT ![n] = y, ![p].first = n]
<1>0. cx[n] \in Context /\ cx[p] \in Context
  OBVIOUS
<1>9. /\ x.first = cx[n].first /\ x.waited = cx[n].waited /\ x.live = cx[n].live
      /\ x.refs = cx[n].refs + 1 /\ x.held = cx[n].held + 1 /\ x \in Context
  <2>1. \A h \in Nat, i \in Int : [cx[n] EXCEPT !.refs = i, !.held = h] \in Context
    BY <1>0 DEF Context
  <2>2. cx[n].refs + 1 \in Int /\ cx[n].held + 1 \in Nat
    BY <1>0, FieldValues
  <2>3. x \in Context
    BY <2>1, <2>2
  <2>4. /\ x.first = cx[n].first /\ x.waited = cx[n].waited /\ x.live = cx[n].live
        /\ x.refs = cx[n].refs + 1 /\ x.held = cx[n].held + 1
    BY <1>0 DEF Context
  <2> QED
    BY <2>3, <2>4
<1>10. /\ y.parent = p /\ y.next = cx[p].first /\ y.first = x.first
      /\ y.timeout = v /\ y.asked = v /\ y.waited = x.waited
      /\ y.refs = x.refs + 1 /\ y.held = x.held /\ y.live = x.live
  BY <1>9 DEF Context
<1>1. /\ y.parent = p /\ y.next = cx[p].first /\ y.first = cx[n].first
      /\ y.timeout = v /\ y.asked = v /\ y.waited = cx[n].waited
      /\ y.refs = cx[n].refs + 1 + 1 /\ y.held = cx[n].held + 1
      /\ y.live = cx[n].live
  BY <1>9, <1>10
<1>2. /\ q.first = n /\ q.live = cx[p].live /\ q.parent = cx[p].parent
      /\ q.next = cx[p].next /\ q.refs = cx[p].refs /\ q.held = cx[p].held
      /\ q.timeout = cx[p].timeout /\ q.asked = cx[p].asked /\ q.waited = cx[p].waited
  BY DEF Context
<1>3. \A u \in Ctx : cy[u] = IF u = n THEN y ELSE IF u = p THEN q ELSE cx[u]
  OBVIOUS
<1> HIDE DEF q, cy
<1>4. /\ cy[n].parent = p /\ cy[n].next = cx[p].first
      /\ cy[n].timeout = v /\ cy[n].asked = v /\ cy[n].waited = cx[n].waited
      /\ cy[n].refs = cx[n].refs + 1 + 1 /\ cy[n].held = cx[n].held + 1
  BY <1>1, <1>3
<1>5. cy[p].first = n
  BY <1>2, <1>3
<1>6. \A u \in Ctx : cy[u].live = cx[u].live
  BY <1>1, <1>2, <1>3
<1>7. \A u \in Ctx : u # p => cy[u].first = cx[u].first
  BY <1>1, <1>3
<1>8. \A u \in Ctx : u # n =>
        /\ cy[u].parent = cx[u].parent /\ cy[u].next = cx[u].next
        /\ cy[u].refs = cx[u].refs /\ cy[u].held = cx[u].held
        /\ cy[u].timeout = cx[u].timeout /\ cy[u].asked = cx[u].asked
        /\ cy[u].waited = cx[u].waited
  BY <1>2, <1>3
<1> QED
  BY <1>4, <1>5, <1>6, <1>7, <1>8 DEF StartedFor, cy

LEMMA StartEndStep ==
    ASSUME LInv, IInv', StartReturn
    PROVE  Sound(ctx', cstack')
<1> DEFINE n == Top.c
           p == Top.p
           r == Tail(cstack)
           result == [ctx[n] EXCEPT !.refs = @ + 1, !.held = @ + 1]
           linked == [result EXCEPT !.refs = @ + 1, !.parent = p, !.next = ctx[p].first,
                                    !.timeout = Top.val, !.asked = Top.val]
           cy == ctx'
<1>1. /\ ctx \in [Ctx -> Context] /\ cy \in [Ctx -> Context] /\ r \in Seq(GoodAct)
      /\ cstack = <<Top>> \o r /\ cstack' = r /\ cstack \in Seq(GoodAct)
      /\ Acts(cstack) = {Top} \cup Acts(r) /\ Top \in GoodAct
      /\ Counted(ctx, cstack) /\ Timed(ctx, cstack) /\ Tree(ctx)
      /\ Runs(ctx, r) /\ Calls(r) /\ RunOK(ctx, Top, Acts(r))
      /\ Top.k = "start" /\ n \in Ctx /\ p \in Ctx
  BY StackSplit, TopFields DEF LInv, IInv, StartReturn
<1>2. /\ StartOK(ctx, Top, Acts(r)) /\ ctx[n].live /\ ctx[p].live
  BY <1>1, NamedLive DEF RunOK
<1>3. /\ ctx[n].refs = 0 /\ ctx[n].waited = 0 /\ n \notin Ancestors(ctx, p)
      /\ \A b \in Acts(r) : /\ n \notin Ancestors(ctx, b.c)
                            /\ b.k = "start" => n \notin Ancestors(ctx, b.p)
                            /\ b.k \in PassKinds /\ b.c = p => b.pst.at = "next"
  BY <1>2 DEF StartOK
<1>4. Acts(r) \in SUBSET GoodAct /\ \A b \in Acts(r) : b.c \in Ctx /\ b.c # n
  <2>1. Acts(r) \in SUBSET GoodAct
    BY <1>1, ActsType
  <2>2. \A b \in Acts(r) : b.c \in Ctx
    BY <2>1, ActFields
  <2> QED
    BY <1>1, <1>3, <2>1, <2>2, AncestorFacts
<1> HIDE DEF r
<1>5. ~Started(r, n) /\ n # p
  BY <1>1, <1>3, <1>4, AncestorFacts DEF Started
<1>6. \A u \in Ctx : /\ Cardinality(Resumes(r, u)) = Cardinality(Resumes(cstack, u))
                     /\ Cardinality(Resumes(r, u)) \in Nat
                     /\ u # n => (Started(cstack, u) <=> Started(r, u))
  <2> TAKE u \in Ctx
  <2>1. Cardinality(Resumes(cstack, u)) = Cardinality(Resumes(r, u))
           + (IF Top.k = "resume" /\ Top.c = u THEN 1 ELSE 0)
    BY <1>1, ResumesCons
  <2>2. Cardinality(Resumes(r, u)) \in Nat
    BY <1>1, ResumesFinite
  <2>3. u # n => (Started(cstack, u) <=> Started(r, u))
    BY <1>1, StartedCons
  <2> QED
    BY <1>1, <2>1, <2>2, <2>3
<1>7. /\ ctx[n].held = 0 /\ ctx[n].parent = Null /\ n # Root
      /\ Cardinality(Resumes(r, n)) = 0
  <2>1. /\ ctx[n].held \in Nat /\ Cardinality(Resumes(cstack, n)) \in Nat
        /\ ctx[n].held > 0 \/ ctx[n].parent # Null \/ n = Root
                \/ Cardinality(Resumes(cstack, n)) > 0 => ctx[n].refs > 0
    BY <1>1, OwnerFacts
  <2> QED
    BY <1>1, <1>3, <1>6, <2>1
<1>8. Timed(ctx, r)
  BY <1>1, TimedCons
<1>9. /\ ctx' = IF ctx[n].exec # "paused" THEN [ctx EXCEPT ![n] = result]
                ELSE [ctx EXCEPT ![n] = linked, ![p].first = n]
  BY DEF StartReturn
<1>10. \A u \in Ctx : u # n =>
          /\ ctx[u].refs = ctx[u].held + (IF ctx[u].parent = Null THEN 0 ELSE 1)
               + Cardinality(Resumes(r, u)) + (IF u = Root THEN 1 ELSE 0)
          /\ ctx[u].live <=> (ctx[u].refs > 0 \/ Started(r, u))
          /\ ctx[u].held \in Nat
  <2> TAKE u \in Ctx
  <2>1. /\ ctx[u].refs = ctx[u].held + (IF ctx[u].parent = Null THEN 0 ELSE 1)
               + Cardinality(Resumes(cstack, u)) + (IF u = Root THEN 1 ELSE 0)
        /\ ctx[u].live <=> (ctx[u].refs > 0 \/ Started(cstack, u))
        /\ ctx[u].held \in Nat
    BY <1>1, OwnerFacts
  <2> QED
    BY <1>6, <2>1
<1>11. CASE ctx[n].exec # "paused"
  <2>0. ctx' = [ctx EXCEPT ![n] = result]
    BY <1>9, <1>11
  <2>1. /\ SameLinks(ctx, cy)
        /\ \A u \in Ctx : /\ cy[u].live = ctx[u].live /\ cy[u].timeout = ctx[u].timeout
                          /\ cy[u].asked = ctx[u].asked /\ cy[u].waited = ctx[u].waited
        /\ \A u \in Ctx : u # n => cy[u].refs = ctx[u].refs /\ cy[u].held = ctx[u].held
        /\ cy[n].refs = ctx[n].refs + 1 /\ cy[n].held = ctx[n].held + 1
    <3>1. n \in Ctx /\ ctx \in [Ctx -> Context]
      BY <1>1
    <3>2. cy = [ctx EXCEPT ![n] = [ctx[n] EXCEPT !.refs = @ + 1, !.held = @ + 1]]
      BY <2>0
    <3>3. OneMore(ctx, cy, n)
      <4> HIDE DEF n, p, result, linked, cy
      <4> QED
        BY <3>1, <3>2, HoldFields
    <3> QED
      BY <3>3 DEF OneMore
  <2> HIDE DEF result, linked, cy, n, p, r
  <2>2. Counted(cy, r)
    <3> SUFFICES ASSUME NEW u \in Ctx
                 PROVE  /\ cy[u].refs = Owners(cy, r, u)
                        /\ cy[u].live <=> (cy[u].refs > 0 \/ Started(r, u))
      BY DEF Counted
    <3>1. CASE u = n
      BY <1>2, <1>3, <1>5, <1>7, <2>1, <3>1 DEF Owners, SameLinks
    <3>2. CASE u # n
      <4>1. cy[u].parent = ctx[u].parent
        BY <2>1 DEF SameLinks
      <4> QED
        BY <1>10, <2>1, <3>2, <4>1 DEF Owners
    <3> QED
      BY <3>1, <3>2
  <2>3. Timed(cy, r)
    BY <1>8, <2>1 DEF Timed, SameLinks
  <2>4. Tree(cy) /\ Runs(cy, r)
    <3>1. \A u \in Ctx : ctx[u].held > 0 => cy[u].held > 0
      BY <1>7, <2>1
    <3>2. \A u \in Ctx : Started(r, u) => cy[u].refs = ctx[u].refs /\ cy[u].waited = ctx[u].waited
      BY <1>5, <2>1
    <3> QED
      BY <1>1, <2>1, <3>1, <3>2, SameLinksSound
  <2> QED
    BY <1>1, <2>2, <2>3, <2>4 DEF Sound, cy
<1>12. CASE ctx[n].exec = "paused"
  <2>0. ctx' = [ctx EXCEPT ![n] = linked, ![p].first = n]
    BY <1>9, <1>12
  <2>1. /\ cy[n].parent = p /\ cy[n].next = ctx[p].first /\ cy[p].first = n
        /\ cy[n].timeout = Top.val /\ cy[n].asked = Top.val /\ cy[n].waited = ctx[n].waited
        /\ cy[n].refs = ctx[n].refs + 1 + 1 /\ cy[n].held = ctx[n].held + 1
        /\ \A u \in Ctx : cy[u].live = ctx[u].live
        /\ \A u \in Ctx : u # p => cy[u].first = ctx[u].first
        /\ \A u \in Ctx : u # n =>
             /\ cy[u].parent = ctx[u].parent /\ cy[u].next = ctx[u].next
             /\ cy[u].refs = ctx[u].refs /\ cy[u].held = ctx[u].held
             /\ cy[u].timeout = ctx[u].timeout /\ cy[u].asked = ctx[u].asked
             /\ cy[u].waited = ctx[u].waited
    <3>1. n \in Ctx /\ p \in Ctx /\ n # p /\ ctx \in [Ctx -> Context]
      BY <1>1, <1>5
    <3>2. cy = [ctx EXCEPT ![n] = linked, ![p].first = n]
      BY <2>0
    <3>3. StartedFor(ctx, cy, n, p, Top.val)
      <4>0. /\ result = [ctx[n] EXCEPT !.refs = @ + 1, !.held = @ + 1]
            /\ linked = [result EXCEPT !.refs = @ + 1, !.parent = p, !.next = ctx[p].first,
                                       !.timeout = Top.val, !.asked = Top.val]
        OBVIOUS
      <4> HIDE DEF n, p, result, linked, cy
      <4>1. StartedFor(ctx, [ctx EXCEPT ![n] = linked, ![p].first = n], n, p, Top.val)
        BY <3>1, <4>0, StartFields
      <4> QED
        BY <3>2, <4>1
    <3> QED
      BY <3>3 DEF StartedFor
  <2>2. Top.val \in Nat
    BY TopFields DEF LInv
  <2> HIDE DEF result, linked, cy, n, p, r
  <2>3. Linked(ctx, cy, n, p)
    BY <1>2, <1>3, <1>7, <2>1 DEF Linked
  <2>4. Tree(cy)
    BY <1>1, <2>3, LinkedTree
  <2>5. Runs(cy, r)
    <3> SUFFICES ASSUME NEW i \in 1 .. Len(r)
                 PROVE  RunOK(cy, r[i], Below(r, i))
      BY DEF Runs
    <3> DEFINE a == r[i]
               B == Below(r, i)
    <3>1. a \in GoodAct /\ a \in Acts(r) /\ B \subseteq Acts(r) /\ RunOK(ctx, a, B)
      BY <1>1, ActsType DEF Runs
    <3> HIDE DEF a, B
    <3>2. B \in SUBSET GoodAct
      BY <1>4, <3>1
    <3>3. \A b \in B \cup {a} : b \in Acts(r)
      BY <3>1
    <3>4. \A u \in Ctx : u # n => cy[u].refs = ctx[u].refs /\ cy[u].waited = ctx[u].waited
      BY <2>1
    <3>5. \A u \in Ctx : ctx[u].held > 0 => cy[u].held > 0
      BY <1>7, <2>1
    <3>6. Apart(ctx, n, p, B \cup {a})
      BY <1>3, <3>3 DEF Apart
    <3>0. /\ ctx \in [Ctx -> Context] /\ cy \in [Ctx -> Context] /\ Tree(ctx)
          /\ n \in Ctx /\ p \in Ctx
      BY <1>1 DEF n, p
    <3>7. RunOK(cy, a, B)
      BY <2>3, <3>0, <3>1, <3>2, <3>4, <3>5, <3>6, LinkedRun
    <3> QED
      BY <3>7 DEF a, B
  <2>6. Counted(cy, r)
    <3> SUFFICES ASSUME NEW u \in Ctx
                 PROVE  /\ cy[u].refs = Owners(cy, r, u)
                        /\ cy[u].live <=> (cy[u].refs > 0 \/ Started(r, u))
      BY DEF Counted
    <3>1. CASE u = n
      <4>1. p # Null
        BY <1>1, RootAssumption
      <4> QED
        BY <1>2, <1>3, <1>5, <1>7, <2>1, <3>1, <4>1 DEF Owners
    <3>2. CASE u # n
      BY <1>10, <2>1, <3>2 DEF Owners
    <3> QED
      BY <3>1, <3>2
  <2>7. Timed(cy, r)
    <3> SUFFICES ASSUME NEW u \in Ctx, cy[u].parent # Null
                 PROVE  IF ResumedBy(r, u) THEN cy[u].waited = 0
                                           ELSE cy[u].timeout = cy[u].asked - cy[u].waited
      BY DEF Timed
    <3>1. CASE u = n
      BY <1>3, <2>1, <2>2, <3>1
    <3>2. CASE u # n
      BY <1>8, <2>1, <3>2 DEF Timed
    <3> QED
      BY <3>1, <3>2
  <2> QED
    BY <1>1, <2>4, <2>5, <2>6, <2>7 DEF Sound, cy
<1> QED
  BY <1>11, <1>12

---------------------------------------------------------------------------
(* The steps of a walk that are about its thread's timers.                 *)

(* No outer walk is resuming the thread of an inner walk.                  *)
LEMMA InnerResumes ==
    ASSUME NEW cx \in [Ctx -> Context], NEW a \in GoodAct, NEW r \in Seq(GoodAct),
           a.k \in {"timer", "resumed", "after"}, RunOK(cx, a, Acts(r)), Runs(cx, r)
    PROVE  cx[a.th].parent = a.c /\ ~ResumedBy(r, a.th)
<1>1. WalkOK(cx, a) /\ Inner(cx, a, Acts(r))
  BY DEF RunOK, PassKinds
<1>2. cx[a.th].parent = a.c
  BY <1>1 DEF WalkOK
<1>3. ASSUME NEW d \in Acts(r), d.k = "resumed", d.th = a.th PROVE FALSE
  <2>1. PICK i \in 1 .. Len(r) : r[i] = d
    BY DEF Acts
  <2>2. RunOK(cx, d, Below(r, i))
    BY <2>1 DEF Runs
  <2>3. cx[d.th].parent = d.c
    BY <1>3, <2>2 DEF RunOK, WalkOK, PassKinds
  <2>4. d.c \in Ctx /\ d.c = a.c
    BY <1>2, <1>3, <2>3, ActsType, ActFields
  <2>5. a.c \notin Ancestors(cx, d.c)
    BY <1>1, <1>3 DEF Inner, PassKinds
  <2> QED
    BY <2>4, <2>5, AncestorFacts
<1> QED
  BY <1>2, <1>3 DEF ResumedBy

(* Only the timers of th may differ.                                       *)
TimersOnly(cx, cy, th) ==
    /\ \A u \in Ctx : /\ cy[u].live = cx[u].live /\ cy[u].parent = cx[u].parent
                      /\ cy[u].first = cx[u].first /\ cy[u].next = cx[u].next
                      /\ cy[u].refs = cx[u].refs /\ cy[u].held = cx[u].held
    /\ \A u \in Ctx : u # th =>
          /\ cy[u].timeout = cx[u].timeout /\ cy[u].waited = cx[u].waited
          /\ cy[u].asked = cx[u].asked

(* The walk goes on with its thread.                                       *)
GoesOn(a, b) ==
    /\ a.k \in {"timer", "resumed"} /\ b.k \in {"resumed", "after"}
    /\ b.c = a.c /\ b.p = a.p /\ b.th = a.th /\ b.pst = a.pst
    /\ b.todo = a.todo /\ b.seen = a.seen

LEMMA TimerSound ==
    ASSUME NEW cx \in [Ctx -> Context], NEW cy \in [Ctx -> Context],
           NEW a \in GoodAct, NEW b \in GoodAct, NEW r \in Seq(GoodAct),
           Sound(cx, <<a>> \o r), GoesOn(a, b), TimersOnly(cx, cy, a.th),
           IF b.k = "resumed" THEN cy[a.th].waited = 0
                              ELSE cy[a.th].timeout = cy[a.th].asked - cy[a.th].waited
    PROVE  Sound(cy, <<b>> \o r)
<1> DEFINE th == a.th
<1>0. /\ a.k \in {"timer", "resumed"} /\ b.k \in {"resumed", "after"}
      /\ b.c = a.c /\ b.p = a.p /\ b.th = th /\ b.pst = a.pst
      /\ b.todo = a.todo /\ b.seen = a.seen
  BY DEF GoesOn
<1>1. /\ Tree(cx) /\ Counted(cx, <<a>> \o r) /\ Timed(cx, <<a>> \o r)
      /\ Runs(cx, r) /\ RunOK(cx, a, Acts(r))
      /\ ActOK(a) /\ Calls(r) /\ (r # <<>> => CalledBy(a, Head(r)))
  BY RunsCons, CallsCons DEF Sound
<1>2. Counted(cx, r)
  BY <1>0, <1>1, CountedCons
<1>3. th \in Ctx /\ cx[th].parent = a.c /\ a.c \in Ctx /\ ~ResumedBy(r, th)
  BY <1>0, <1>1, InnerResumes, ActFields
<1>4. ~Started(r, th)
  <2>1. cx[th].refs > 0
    BY <1>2, <1>3, OwnerFacts, RootAssumption
  <2> QED
    BY <1>1, <1>3, <2>1, StartedFacts
<1> HIDE DEF th
<1>5. SameLinks(cx, cy) /\ \A u \in Ctx : cy[u].live = cx[u].live
  BY DEF TimersOnly, SameLinks
<1>6. Tree(cy) /\ Runs(cy, r)
  <2>1. \A u \in Ctx : cx[u].held > 0 => cy[u].held > 0
    BY DEF TimersOnly
  <2>2. \A u \in Ctx : Started(r, u) => cy[u].refs = cx[u].refs /\ cy[u].waited = cx[u].waited
    BY <1>4 DEF TimersOnly, th
  <2> QED
    BY <1>1, <1>5, <2>1, <2>2, SameLinksSound
<1>7. RunOK(cy, b, Acts(r))
  <2>1. RunOK(cy, a, Acts(r))
    BY <1>0, <1>1, <1>3, <1>5, RunSame DEF RunOK
  <2> QED
    BY <1>0, <2>1 DEF RunOK, WalkOK, Inner, PassKinds, th
<1>8. Counted(cy, <<b>> \o r)
  <2>1. Counted(cy, r)
    BY <1>2 DEF Counted, Owners, TimersOnly
  <2> QED
    BY <1>0, <2>1, CountedCons
<1>9. Timed(cy, <<b>> \o r)
  <2> SUFFICES ASSUME NEW u \in Ctx, cy[u].parent # Null
               PROVE  IF ResumedBy(<<b>> \o r, u) THEN cy[u].waited = 0
                            ELSE cy[u].timeout = cy[u].asked - cy[u].waited
    BY DEF Timed
  <2>1. Acts(<<b>> \o r) = {b} \cup Acts(r) /\ Acts(<<a>> \o r) = {a} \cup Acts(r)
    BY ActsCons
  <2>2. ResumedBy(<<b>> \o r, u) <=> ResumedBy(r, u) \/ (b.k = "resumed" /\ u = th)
    BY <1>0, <2>1 DEF ResumedBy
  <2>3. ResumedBy(<<a>> \o r, u) <=> ResumedBy(r, u) \/ (a.k = "resumed" /\ u = th)
    BY <1>0, <2>1 DEF ResumedBy, th
  <2>4. CASE u = th
    BY <1>0, <1>3, <2>2, <2>4 DEF th
  <2>5. CASE u # th
    <3>1. /\ cy[u].parent = cx[u].parent
          /\ cy[u].timeout = cx[u].timeout /\ cy[u].waited = cx[u].waited
          /\ cy[u].asked = cx[u].asked
      BY <2>5 DEF TimersOnly, th
    <3>2. IF ResumedBy(<<a>> \o r, u) THEN cx[u].waited = 0
                            ELSE cx[u].timeout = cx[u].asked - cx[u].waited
      BY <1>1, <3>1 DEF Timed
    <3> QED
      BY <2>2, <2>3, <2>5, <3>1, <3>2
  <2> QED
    BY <2>4, <2>5
<1>10. Runs(cy, <<b>> \o r)
  BY <1>6, <1>7, RunsCons
<1>11. Calls(<<b>> \o r)
  <2>1. ActOK(b) /\ (r # <<>> => CalledBy(b, Head(r)))
    BY <1>0, <1>1 DEF ActOK, CalledBy, PassKinds, th
  <2> QED
    BY <1>1, <2>1, CallsCons
<1> QED
  BY <1>6, <1>8, <1>9, <1>10, <1>11 DEF Sound

LEMMA TickedTimers ==
    ASSUME IInv, NEW th \in Ctx, Top.th = th
    PROVE  /\ TimersOnly(ctx, Ticked, th)
           /\ Ticked \in [Ctx -> Context]
           /\ Ticked[th].timeout = ctx[th].timeout - Top.dt
           /\ Ticked[th].waited = ctx[th].waited + Top.dt
           /\ Ticked[th].asked = ctx[th].asked
<1> DEFINE q == [ctx[th] EXCEPT !.timeout = @ - Top.dt, !.accum = @ + Top.dt,
                                !.waited = @ + Top.dt]
<1>1. ctx \in [Ctx -> Context]
  BY DEF IInv
<1>2. /\ q.live = ctx[th].live /\ q.parent = ctx[th].parent
      /\ q.first = ctx[th].first /\ q.next = ctx[th].next
      /\ q.refs = ctx[th].refs /\ q.held = ctx[th].held
      /\ q.timeout = ctx[th].timeout - Top.dt /\ q.waited = ctx[th].waited + Top.dt
      /\ q.asked = ctx[th].asked
  BY <1>1 DEF Context
<1>3. Ticked = [ctx EXCEPT ![th] = q]
  BY DEF Ticked
<1> HIDE DEF q
<1>4. \A u \in Ctx : Ticked[u] = IF u = th THEN q ELSE ctx[u]
  BY <1>1, <1>3
<1>5. TimersOnly(ctx, Ticked, th)
  BY <1>2, <1>4 DEF TimersOnly
<1>6. /\ Ticked[th].timeout = ctx[th].timeout - Top.dt
      /\ Ticked[th].waited = ctx[th].waited + Top.dt
      /\ Ticked[th].asked = ctx[th].asked
  BY <1>2, <1>4
<1> QED
  BY <1>5, <1>6, TickedType

(* A context of which one record is replaced, its timers apart.            *)
LEMMA SetTimers ==
    ASSUME NEW cx \in [Ctx -> Context], NEW cy \in [Ctx -> Context], NEW th \in Ctx,
           TimersOnly(cx, cy, th), NEW q,
           q.live = cy[th].live, q.parent = cy[th].parent, q.first = cy[th].first,
           q.next = cy[th].next, q.refs = cy[th].refs, q.held = cy[th].held
    PROVE  TimersOnly(cx, [cy EXCEPT ![th] = q], th)
<1> DEFINE cz == [cy EXCEPT ![th] = q]
<1>1. \A u \in Ctx : cz[u] = IF u = th THEN q ELSE cy[u]
  OBVIOUS
<1> HIDE DEF cz
<1>2. TimersOnly(cx, cz, th)
  BY <1>1 DEF TimersOnly
<1> QED
  BY <1>2 DEF cz

(* What is known when a walk has a thread in hand.                         *)
LEMMA InHand ==
    ASSUME LInv, Top.k \in {"timer", "resumed", "after"}
    PROVE  /\ Top.th \in Ctx /\ ctx[Top.th].parent = Top.c
           /\ Top.k # "resumed" =>
                ctx[Top.th].timeout = ctx[Top.th].asked - ctx[Top.th].waited
           /\ Top.k = "resumed" => ctx[Top.th].waited = 0
           /\ ctx[Top.th].timeout \in Int /\ ctx[Top.th].asked \in Int
           /\ ctx[Top.th].waited \in Int /\ Top.dt \in Nat /\ Top.val \in Nat
<1> DEFINE th == Top.th
<1>1. /\ ctx \in [Ctx -> Context] /\ cstack \in Seq(GoodAct)
      /\ Tail(cstack) \in Seq(GoodAct) /\ Acts(cstack) = {Top} \cup Acts(Tail(cstack))
      /\ RunOK(ctx, Top, Acts(Tail(cstack))) /\ Runs(ctx, Tail(cstack))
      /\ Timed(ctx, cstack) /\ Top \in GoodAct
      /\ Top.dt \in Nat /\ Top.val \in Nat /\ th \in Ctx /\ Top.c \in Ctx
  BY StackSplit, TopFields DEF LInv
<1>2. ctx[th].parent = Top.c /\ ~ResumedBy(Tail(cstack), th)
  BY <1>1, InnerResumes
<1>3. ResumedBy(cstack, th) <=> Top.k = "resumed"
  BY <1>1, <1>2 DEF ResumedBy
<1>4. ctx[th].timeout \in Int /\ ctx[th].asked \in Int /\ ctx[th].waited \in Int
  BY <1>1, FieldValues
<1>5. IF ResumedBy(cstack, th) THEN ctx[th].waited = 0
                               ELSE ctx[th].timeout = ctx[th].asked - ctx[th].waited
  BY <1>1, <1>2, RootAssumption DEF Timed
<1> QED
  BY <1>1, <1>2, <1>3, <1>4, <1>5

LEMMA AfterFields ==
    ASSUME IInv, Top.k \in {"timer", "resumed"}, NEW kind \in {"resumed", "after"}
    PROVE  LET b == [Top EXCEPT !.k = kind]
           IN  b \in GoodAct /\ b.k = kind /\ GoesOn(Top, b)
<1> DEFINE b == [Top EXCEPT !.k = kind]
<1>1. Top \in GoodAct /\ Top.th \in Ctx
  BY TopType, TopFields
<1>2. /\ b.k = kind /\ b.c = Top.c /\ b.p = Top.p /\ b.th = Top.th /\ b.pst = Top.pst
      /\ b.todo = Top.todo /\ b.seen = Top.seen
  BY <1>1 DEF GoodAct, Activation
<1>3. b \in GoodAct
  BY <1>1, TopFields
<1> HIDE DEF b
<1>4. GoesOn(Top, b)
  BY <1>2 DEF GoesOn
<1> QED
  BY <1>2, <1>3, <1>4 DEF b

LEMMA WaitStep ==
    ASSUME LInv, PassWait \/ PassAbort
    PROVE  Sound(ctx', cstack')
<1> DEFINE th == Top.th
           b == [Top EXCEPT !.k = "after"]
           r == Tail(cstack)
<1>1. /\ ctx \in [Ctx -> Context] /\ r \in Seq(GoodAct) /\ Top \in GoodAct
      /\ cstack = <<Top>> \o r /\ Top.k = "timer" /\ cstack' = <<b>> \o r /\ th \in Ctx
  BY StackSplit, TopFields DEF LInv, PassWait, PassAbort, Replace
<1>2. /\ TimersOnly(ctx, Ticked, th) /\ Ticked \in [Ctx -> Context]
      /\ Ticked[th].timeout = ctx[th].timeout - Top.dt
      /\ Ticked[th].waited = ctx[th].waited + Top.dt
      /\ Ticked[th].asked = ctx[th].asked
  BY <1>1, TickedTimers DEF LInv
<1>3. Ticked[th].timeout = Ticked[th].asked - Ticked[th].waited
  BY <1>1, <1>2, InHand
<1>4. b \in GoodAct /\ b.k = "after" /\ GoesOn(Top, b)
  BY <1>1, AfterFields DEF LInv
<1>5. Sound(ctx, <<Top>> \o r)
  BY <1>1 DEF LInv
<1>6. /\ ctx' \in [Ctx -> Context] /\ TimersOnly(ctx, ctx', th)
      /\ ctx'[th].timeout = ctx'[th].asked - ctx'[th].waited
  <2>1. CASE PassWait
    BY <1>2, <1>3, <2>1 DEF PassWait
  <2>2. CASE PassAbort
    <3>1. ctx' = Aborted(Ticked, th)
      BY <2>2 DEF PassAbort
    <3>2. ctx' \in [Ctx -> Context] /\ \A u \in Ctx : Alike(Ticked[u], ctx'[u])
      BY <1>1, <1>2, <3>1, AbortedType, AbortedAlike
    <3>3. th \in Ctx
      BY <1>1
    <3> HIDE DEF th
    <3>4. TimersOnly(ctx, ctx', th)
      BY <1>2, <3>2 DEF TimersOnly, Alike
    <3>5. /\ ctx'[th].timeout = Ticked[th].timeout /\ ctx'[th].asked = Ticked[th].asked
          /\ ctx'[th].waited = Ticked[th].waited
      BY <3>2, <3>3 DEF Alike
    <3> QED
      BY <1>3, <3>2, <3>4, <3>5
  <2> QED
    BY <2>1, <2>2
<1> HIDE DEF b, r
<1>7. Sound(ctx', <<b>> \o r)
  BY <1>1, <1>4, <1>5, <1>6, TimerSound
<1> QED
  BY <1>1, <1>7

LEMMA ResumedStep ==
    ASSUME LInv, IInv', PassResumed
    PROVE  Sound(ctx', cstack')
<1> DEFINE th == Top.th
           b == [Top EXCEPT !.k = "after"]
           r == Tail(cstack)
           q == [ctx[th] EXCEPT !.timeout = Top.val, !.asked = Top.val]
<1>1. /\ ctx \in [Ctx -> Context] /\ r \in Seq(GoodAct) /\ Top \in GoodAct
      /\ cstack = <<Top>> \o r /\ Top.k = "resumed" /\ cstack' = <<b>> \o r /\ th \in Ctx
      /\ ctx' \in [Ctx -> Context]
  BY StackSplit, TopFields DEF LInv, IInv, PassResumed, Replace
<1>2. /\ q.live = ctx[th].live /\ q.parent = ctx[th].parent
      /\ q.first = ctx[th].first /\ q.next = ctx[th].next
      /\ q.refs = ctx[th].refs /\ q.held = ctx[th].held
      /\ q.timeout = Top.val /\ q.asked = Top.val /\ q.waited = ctx[th].waited
  BY <1>1 DEF Context
<1>3. ctx' = [ctx EXCEPT ![th] = q]
  BY DEF PassResumed
<1> HIDE DEF q
<1>4. TimersOnly(ctx, ctx', th) /\ ctx'[th] = q
  <2>1. TimersOnly(ctx, ctx, th)
    BY DEF TimersOnly
  <2>2. TimersOnly(ctx, [ctx EXCEPT ![th] = q], th)
    BY <1>1, <1>2, <2>1, SetTimers
  <2> QED
    BY <1>1, <1>3, <2>2
<1>5. ctx[th].waited = 0 /\ Top.val \in Nat
  BY <1>1, InHand
<1>6. ctx'[th].timeout = ctx'[th].asked - ctx'[th].waited
  BY <1>2, <1>4, <1>5
<1>7. b \in GoodAct /\ b.k = "after" /\ GoesOn(Top, b)
  BY <1>1, AfterFields DEF LInv
<1>8. Sound(ctx, <<Top>> \o r)
  BY <1>1 DEF LInv
<1> HIDE DEF b, r
<1>9. Sound(ctx', <<b>> \o r)
  BY <1>1, <1>4, <1>6, <1>7, <1>8, TimerSound
<1> QED
  BY <1>1, <1>9

LEMMA NoResumeStep ==
    ASSUME LInv, IInv', PassNoResume
    PROVE  Sound(ctx', cstack')
<1> DEFINE th == Top.th
           b == [Top EXCEPT !.k = "after"]
           r == Tail(cstack)
           left == IF ctx[th].exec = "paused" THEN 0 ELSE Ticked[th].accum
           q == [Ticked[th] EXCEPT !.accum = 0, !.waited = 0, !.timeout = left, !.asked = left]
           cx == [Ticked EXCEPT ![th] = q]
<1>1. /\ ctx \in [Ctx -> Context] /\ r \in Seq(GoodAct) /\ Top \in GoodAct
      /\ cstack = <<Top>> \o r /\ Top.k = "timer" /\ cstack' = <<b>> \o r /\ th \in Ctx
      /\ ctx' \in [Ctx -> Context]
  BY StackSplit, TopFields DEF LInv, IInv, PassNoResume, Replace
<1>2. /\ TimersOnly(ctx, Ticked, th) /\ Ticked \in [Ctx -> Context]
  BY <1>1, TickedTimers DEF LInv
<1>3. left \in Int
  BY <1>1, <1>2, FieldValues
<1>4. /\ ctx' = (IF ctx[th].exec = "paused" THEN Finished(cx, th) ELSE cx)
  BY DEF PassNoResume
<1> HIDE DEF left
<1>5. /\ q.live = Ticked[th].live /\ q.parent = Ticked[th].parent
      /\ q.first = Ticked[th].first /\ q.next = Ticked[th].next
      /\ q.refs = Ticked[th].refs /\ q.held = Ticked[th].held
      /\ q.timeout = left /\ q.asked = left /\ q.waited = 0
  BY <1>1, <1>2 DEF Context
<1>6. q \in Context
  <2>1. \A s \in Context, i, j, v \in Int :
            [s EXCEPT !.accum = i, !.waited = j, !.timeout = v, !.asked = v] \in Context
    BY DEF Context
  <2>2. Ticked[th] \in Context /\ 0 \in Int
    BY <1>1, <1>2
  <2> QED
    BY <1>3, <2>1, <2>2
<1> HIDE DEF q
<1>7. TimersOnly(ctx, cx, th) /\ cx[th] = q /\ cx \in [Ctx -> Context]
  BY <1>1, <1>2, <1>5, <1>6, SetTimers
<1> HIDE DEF cx
<1>8. \A u \in Ctx : Alike(cx[u], ctx'[u])
  <2>1. \A u \in Ctx : Alike(cx[u], cx[u])
    BY <1>7, RecordAlike
  <2>2. \A u \in Ctx : Alike(cx[u], Finished(cx, th)[u])
    BY <1>1, <1>7, FinishedAlike
  <2> QED
    BY <1>4, <2>1, <2>2
<1>9. /\ TimersOnly(ctx, ctx', th) /\ ctx'[th].timeout = left /\ ctx'[th].asked = left
      /\ ctx'[th].waited = 0
  <2>1. th \in Ctx
    BY <1>1
  <2> HIDE DEF th
  <2>2. TimersOnly(ctx, ctx', th)
    BY <1>7, <1>8 DEF TimersOnly, Alike
  <2>3. /\ ctx'[th].timeout = cx[th].timeout /\ ctx'[th].asked = cx[th].asked
        /\ ctx'[th].waited = cx[th].waited
    BY <1>8, <2>1 DEF Alike
  <2> QED
    BY <1>5, <1>7, <2>2, <2>3
<1>10. ctx'[th].timeout = ctx'[th].asked - ctx'[th].waited
  BY <1>3, <1>9
<1>11. b \in GoodAct /\ b.k = "after" /\ GoesOn(Top, b)
  BY <1>1, AfterFields DEF LInv
<1>12. Sound(ctx, <<Top>> \o r)
  BY <1>1 DEF LInv
<1> HIDE DEF b, r
<1>13. Sound(ctx', <<b>> \o r)
  BY <1>1, <1>9, <1>10, <1>11, <1>12, TimerSound
<1> QED
  BY <1>1, <1>13

LEMMA ResumeStep ==
    ASSUME LInv, IInv', PassResume
    PROVE  Sound(ctx', cstack')
<1> DEFINE th == Top.th
           a == Act("script", th)
           b == [Top EXCEPT !.k = "resumed"]
           r == Tail(cstack)
           s == <<b>> \o r
           q == [Ticked[th] EXCEPT !.accum = 0, !.waited = 0, !.exec = "running"]
<1>1. /\ ctx \in [Ctx -> Context] /\ r \in Seq(GoodAct) /\ Top \in GoodAct
      /\ cstack = <<Top>> \o r /\ Top.k = "timer" /\ cstack' = <<a, b>> \o r /\ th \in Ctx
      /\ ctx' \in [Ctx -> Context]
  BY StackSplit, TopFields DEF LInv, IInv, PassResume
<1>2. /\ TimersOnly(ctx, Ticked, th) /\ Ticked \in [Ctx -> Context]
  BY <1>1, TickedTimers DEF LInv
<1>3. ctx' = [Ticked EXCEPT ![th] = q]
  BY DEF PassResume
<1>4. /\ q.live = Ticked[th].live /\ q.parent = Ticked[th].parent
      /\ q.first = Ticked[th].first /\ q.next = Ticked[th].next
      /\ q.refs = Ticked[th].refs /\ q.held = Ticked[th].held /\ q.waited = 0
  BY <1>1, <1>2 DEF Context
<1> HIDE DEF q
<1>5. TimersOnly(ctx, ctx', th) /\ ctx'[th].waited = 0
  <2>1. TimersOnly(ctx, [Ticked EXCEPT ![th] = q], th)
    BY <1>1, <1>2, <1>4, SetTimers
  <2>2. [Ticked EXCEPT ![th] = q][th] = q
    BY <1>1, <1>2
  <2> QED
    BY <1>3, <1>4, <2>1, <2>2
<1>6. b \in GoodAct /\ b.k = "resumed" /\ GoesOn(Top, b)
  BY <1>1, AfterFields DEF LInv
<1>7. Sound(ctx, <<Top>> \o r)
  BY <1>1 DEF LInv
<1>8. a \in GoodAct
  BY <1>1, ActType
<1> HIDE DEF a, b, r
<1>9. Sound(ctx', s)
  BY <1>1, <1>5, <1>6, <1>7, TimerSound
<1>10. cstack' = <<a>> \o s /\ s \in Seq(GoodAct) /\ s # <<>> /\ Head(s) = b
  <2>0. a \in GoodAct /\ b \in GoodAct /\ r \in Seq(GoodAct)
    BY <1>1, <1>6, <1>8
  <2>1. <<a, b>> \o r = <<a>> \o (<<b>> \o r)
    <3> HIDE DEF s
    <3> QED
      BY <2>0, ConsTwo
  <2>2. s \in Seq(GoodAct) /\ s # <<>> /\ Head(s) = b
    BY <1>1, <1>6
  <2> QED
    BY <1>1, <2>1, <2>2
<1>11. ctx'[th].live
  <2>1. /\ ctx[th].parent # Null /\ Counted(ctx, cstack) /\ cstack \in Seq(GoodAct)
    BY <1>1, InHand, ActFields, StackSplit, RootAssumption
  <2>2. ctx[th].live
    BY <1>1, <2>1, OwnerFacts
  <2> QED
    BY <1>1, <1>5, <2>2 DEF TimersOnly
<1>12. a.k = "script" /\ a.c = th /\ ActOK(a) /\ RunOK(ctx', a, Acts(s))
  BY <1>1, <1>11, ActFieldsOf DEF a
<1>13. CalledBy(a, b)
  BY <1>6, <1>12 DEF CalledBy, PassKinds, GoesOn
<1> HIDE DEF s
<1>14. Sound(ctx', <<a>> \o s)
  BY <1>8, <1>9, <1>10, <1>12, <1>13, SoundCons
<1> QED
  BY <1>10, <1>14

---------------------------------------------------------------------------
(* A thread is unlinked: the link pst that leads to it is overwritten.     *)

Unlinked(cx, cy, pst, th, p) ==
    /\ cx[th].parent = p /\ p # th /\ Deref(cx, pst) = th
    /\ pst.of \in Ctx /\ pst.at \in {"first", "next"}
    /\ pst.at = "first" => pst.of = p
    /\ pst.at = "next" => cx[pst.of].parent = p /\ pst.of # th
    /\ cy[th].parent = Null /\ cy[th].next = Null
    /\ \A u \in Ctx : u # th => cy[u].parent = cx[u].parent
    /\ \A u \in Ctx : ~(pst.at = "first" /\ u = pst.of) => cy[u].first = cx[u].first
    /\ pst.at = "first" => cy[pst.of].first = cx[th].next
    /\ \A u \in Ctx : u # th /\ ~(pst.at = "next" /\ u = pst.of) => cy[u].next = cx[u].next
    /\ pst.at = "next" => cy[pst.of].next = cx[th].next
    /\ \A u \in Ctx : /\ cy[u].live = cx[u].live /\ cy[u].refs = cx[u].refs
                      /\ cy[u].held = cx[u].held /\ cy[u].timeout = cx[u].timeout
                      /\ cy[u].waited = cx[u].waited /\ cy[u].asked = cx[u].asked

(* Nothing else leads to it, and what comes after it does not include the  *)
(* owner of the link.                                                      *)
LEMMA UnlinkedFacts ==
    ASSUME NEW cx \in [Ctx -> Context], NEW cy \in [Ctx -> Context], NEW pst,
           NEW th \in Ctx, NEW p \in Ctx, Tree(cx), Unlinked(cx, cy, pst, th, p),
           th \notin From(cx, cx[th].next),
           pst.at = "next" => pst.of \notin From(cx, cx[th].next)
    PROVE  /\ \A c \in Ctx : cy[c].first # Null =>
                /\ cy[c].first \in Ctx /\ cy[c].first # th /\ cx[cy[c].first].parent = c
           /\ \A t \in Ctx : t # th /\ cx[t].parent # Null /\ cy[t].next # Null =>
                /\ cy[t].next \in Ctx /\ cy[t].next # th
                /\ cx[cy[t].next].parent = cx[t].parent
           /\ \A u \in From(cx, cx[th].next) :
                u \in Ctx /\ u # th /\ cx[u].parent = p /\ cy[u].next = cx[u].next
           /\ From(cy, cx[th].next) = From(cx, cx[th].next)
<1> DEFINE nx == cx[th].next
           N == From(cx, nx)
<1>0. /\ \A t \in Ctx : cx[t].parent \in Ptr /\ cx[t].first \in Ptr /\ cx[t].next \in Ptr
      /\ p # Null /\ cx[th].parent = p
      /\ nx # Null => nx \in Ctx /\ cx[nx].parent = p /\ nx \in N
      /\ N \in SUBSET Ctx
  <2>1. /\ \A t \in Ctx : cx[t].parent \in Ptr /\ cx[t].first \in Ptr /\ cx[t].next \in Ptr
        /\ p # Null /\ cx[th].parent = p
    BY FieldValues, RootAssumption DEF Unlinked
  <2>2. nx # Null => nx \in Ctx /\ cx[nx].parent = p
    BY <2>1 DEF Tree, LinksMatch, Ptr
  <2>3. (nx # Null => nx \in N) /\ N \in SUBSET Ctx
    BY <2>1, FromFacts
  <2> QED
    BY <2>1, <2>2, <2>3
<1>1. nx # th
  BY <1>0, RootAssumption
<1>2. \A c \in Ctx : cx[c].first = th => pst.at = "first" /\ c = pst.of
  <2> SUFFICES ASSUME NEW c \in Ctx, cx[c].first = th
               PROVE  pst.at = "first" /\ c = pst.of
    OBVIOUS
  <2>1. c = p
    BY <1>0, RootAssumption DEF Tree, LinksMatch
  <2>2. ASSUME pst.at = "next" PROVE FALSE
    <3>1. cx[pst.of].next = th /\ pst.of \in Ctx /\ cx[pst.of].parent # Null
      BY <1>0, <2>2 DEF Unlinked, Deref
    <3> QED
      BY <1>0, <3>1, RootAssumption DEF Tree, LinksDiffer
  <2> QED
    BY <2>1, <2>2 DEF Unlinked
<1>3. \A t \in Ctx : cx[t].parent # Null /\ cx[t].next = th => pst.at = "next" /\ t = pst.of
  <2> SUFFICES ASSUME NEW t \in Ctx, cx[t].parent # Null, cx[t].next = th
               PROVE  pst.at = "next" /\ t = pst.of
    OBVIOUS
  <2>1. CASE pst.at = "first"
    <3>1. cx[pst.of].first = th /\ pst.of \in Ctx
      BY <2>1 DEF Unlinked, Deref
    <3> QED
      BY <3>1, RootAssumption DEF Tree, LinksDiffer
  <2>2. CASE pst.at = "next"
    <3>1. cx[pst.of].next = th /\ pst.of \in Ctx /\ cx[pst.of].parent # Null
      BY <1>0, <2>2 DEF Unlinked, Deref
    <3> QED
      BY <2>2, <3>1, RootAssumption DEF Tree, LinksDiffer
  <2> QED
    BY <2>1, <2>2 DEF Unlinked
<1>4. ASSUME NEW c \in Ctx, cy[c].first # Null
      PROVE  cy[c].first \in Ctx /\ cy[c].first # th /\ cx[cy[c].first].parent = c
  <2>1. CASE pst.at = "first" /\ c = pst.of
    <3>1. cy[c].first = nx /\ c = p
      BY <2>1 DEF Unlinked
    <3> HIDE DEF nx
    <3> QED
      BY <1>0, <1>1, <1>4, <3>1
  <2>2. CASE ~(pst.at = "first" /\ c = pst.of)
    <3>1. cy[c].first = cx[c].first
      BY <2>2 DEF Unlinked
    <3> QED
      BY <1>0, <1>2, <1>4, <2>2, <3>1 DEF Tree, LinksMatch, Ptr
  <2> QED
    BY <2>1, <2>2
<1>5. ASSUME NEW t \in Ctx, t # th, cx[t].parent # Null, cy[t].next # Null
      PROVE  cy[t].next \in Ctx /\ cy[t].next # th /\ cx[cy[t].next].parent = cx[t].parent
  <2>1. CASE pst.at = "next" /\ t = pst.of
    <3>1. cy[t].next = nx /\ cx[t].parent = p
      BY <2>1 DEF Unlinked
    <3> HIDE DEF nx
    <3> QED
      BY <1>0, <1>1, <1>5, <3>1
  <2>2. CASE ~(pst.at = "next" /\ t = pst.of)
    <3>1. cy[t].next = cx[t].next
      BY <1>5, <2>2 DEF Unlinked
    <3> QED
      BY <1>0, <1>3, <1>5, <2>2, <3>1 DEF Tree, LinksMatch, Ptr
  <2> QED
    BY <2>1, <2>2
<1>6. \A u \in N : u \in Ctx /\ u # th /\ cx[u].parent = p /\ cy[u].next = cx[u].next
  <2>1. \A u \in N : cx[u].parent = p
    BY <1>0, FromIsChildren DEF Tree
  <2>2. \A u \in N : u \in Ctx /\ u # th /\ ~(pst.at = "next" /\ u = pst.of)
    BY <1>0
  <2> HIDE DEF N
  <2> QED
    BY <2>1, <2>2 DEF Unlinked
<1>7. From(cy, nx) = N
  BY <1>0, <1>6, FromSame
<1> QED
  BY <1>4, <1>5, <1>6, <1>7

LEMMA UnlinkedTree ==
    ASSUME NEW cx \in [Ctx -> Context], NEW cy \in [Ctx -> Context], NEW pst,
           NEW th \in Ctx, NEW p \in Ctx, Tree(cx), Unlinked(cx, cy, pst, th, p),
           th \notin From(cx, cx[th].next),
           pst.at = "next" => pst.of \notin From(cx, cx[th].next),
           \A u \in Ctx : cx[u].parent # Null => cx[u].live
    PROVE  Tree(cy)
<1> DEFINE nx == cx[th].next
           N == From(cx, nx)
<1>0. /\ \A t \in Ctx : cx[t].parent \in Ptr /\ cx[t].first \in Ptr /\ cx[t].next \in Ptr
      /\ \A t \in Ctx : cy[t].parent \in Ptr /\ cy[t].first \in Ptr /\ cy[t].next \in Ptr
      /\ p # Null
  BY FieldValues, RootAssumption
<1>1. /\ \A c \in Ctx : cy[c].first # Null =>
           /\ cy[c].first \in Ctx /\ cy[c].first # th /\ cx[cy[c].first].parent = c
      /\ \A t \in Ctx : t # th /\ cx[t].parent # Null /\ cy[t].next # Null =>
           /\ cy[t].next \in Ctx /\ cy[t].next # th
           /\ cx[cy[t].next].parent = cx[t].parent
      /\ \A u \in N : u \in Ctx /\ u # th /\ cx[u].parent = p /\ cy[u].next = cx[u].next
      /\ From(cy, nx) = N
  BY UnlinkedFacts
<1>2. /\ cx[th].parent = p /\ p # th /\ cy[th].parent = Null /\ cy[th].next = Null
      /\ \A u \in Ctx : u # th => cy[u].parent = cx[u].parent
      /\ \A u \in Ctx : cy[u].live = cx[u].live
      /\ \A u \in Ctx : cy[u].parent \in {cx[u].parent, Null}
      /\ pst.of \in Ctx /\ pst.at \in {"first", "next"}
  BY DEF Unlinked
<1>3. LinksMatch(cy)
  BY <1>1, <1>2 DEF LinksMatch
<1>4. LinksDiffer(cy)
  <2>0. /\ \A t, u \in Ctx : cx[t].parent # Null /\ cx[u].parent # Null
                                /\ cx[t].next # Null /\ cx[t].next = cx[u].next => t = u
        /\ \A t, c \in Ctx : cx[t].parent # Null /\ cx[t].next # Null =>
                cx[t].next # cx[c].first
    BY DEF Tree, LinksDiffer
  <2>1. /\ \A u \in Ctx : ~(pst.at = "first" /\ u = pst.of) => cy[u].first = cx[u].first
        /\ pst.at = "first" => cy[pst.of].first = nx
        /\ \A u \in Ctx : u # th /\ ~(pst.at = "next" /\ u = pst.of) => cy[u].next = cx[u].next
        /\ pst.at = "next" => cy[pst.of].next = nx
    BY DEF Unlinked
  <2>2. ASSUME NEW t \in Ctx, NEW u \in Ctx, t # th, u # th, cx[t].parent # Null,
               cx[u].parent # Null, cy[t].next # Null, cy[t].next = cy[u].next, t # u
        PROVE  FALSE
    <3>1. CASE pst.at = "next" /\ t = pst.of
      BY <1>0, <1>2, <2>0, <2>1, <2>2, <3>1
    <3>2. CASE pst.at = "next" /\ u = pst.of
      BY <1>0, <1>2, <2>0, <2>1, <2>2, <3>2
    <3>3. CASE ~(pst.at = "next" /\ t = pst.of) /\ ~(pst.at = "next" /\ u = pst.of)
      BY <2>0, <2>1, <2>2, <3>3
    <3> QED
      BY <3>1, <3>2, <3>3
  <2>3. ASSUME NEW t \in Ctx, NEW c \in Ctx, t # th, cx[t].parent # Null,
               cy[t].next # Null, cy[t].next = cy[c].first
        PROVE  FALSE
    <3>1. CASE pst.at = "next" /\ t = pst.of
      <4>1. cy[c].first = cx[c].first
        BY <2>1, <3>1
      <4> QED
        BY <1>0, <1>2, <2>0, <2>1, <2>3, <3>1, <4>1
    <3>2. CASE pst.at = "first" /\ c = pst.of
      <4>1. cy[t].next = cx[t].next
        BY <2>1, <2>3, <3>2
      <4> QED
        BY <1>0, <1>2, <2>0, <2>1, <2>3, <3>2, <4>1
    <3>3. CASE ~(pst.at = "next" /\ t = pst.of) /\ ~(pst.at = "first" /\ c = pst.of)
      BY <2>0, <2>1, <2>3, <3>3
    <3> QED
      BY <3>1, <3>2, <3>3
  <2> QED
    BY <1>2, <2>2, <2>3 DEF LinksDiffer
<1>5. AllFound(cy)
  <2> SUFFICES ASSUME NEW t \in Ctx, cy[t].parent # Null
               PROVE  t \in ListOf(cy, cy[t].parent)
    BY DEF AllFound
  <2> DEFINE c == cy[t].parent
             L == From(cx, cx[c].first)
             M == From(cy, cy[c].first)
  <2>1. /\ c \in Ctx /\ t # th /\ c = cx[t].parent
        /\ ListOf(cy, c) = M /\ ListOf(cx, c) = L
    BY <1>0, <1>2, ListIsFrom DEF Ptr
  <2>2. /\ L \in SUBSET Ctx /\ \A u \in L : cx[u].parent = c
        /\ \A u \in Ctx : cx[u].parent = c => u \in L
    <3>1. L = {u \in Ctx : cx[u].parent = c}
      BY <2>1, ListIsChildren DEF Tree
    <3> QED
      BY <3>1
  <2>3. /\ cx[c].first \in Ptr /\ cy[c].first \in Ptr
    BY <1>0, <2>1
  <2>4. /\ M \in SUBSET Ctx /\ (cy[c].first # Null => cy[c].first \in M)
        /\ \A u \in M : cy[u].next # Null => cy[u].next \in M
    BY <2>3, FromFacts
  <2>5. /\ \A V \in SUBSET Ctx : /\ cx[c].first # Null => cx[c].first \in V
                                 /\ \A u \in V : cx[u].next # Null => cx[u].next \in V
                                 => L \subseteq V
        /\ cx[c].first # Null => cx[c].first \in L
        /\ \A u \in L : cx[u].next # Null => cx[u].next \in L
    BY <2>3, FromFacts
  <2>6. /\ \A u \in Ctx : ~(pst.at = "first" /\ u = pst.of) => cy[u].first = cx[u].first
        /\ pst.at = "first" => cy[p].first = nx /\ cx[p].first = th /\ pst.of = p
        /\ \A u \in Ctx : u # th /\ ~(pst.at = "next" /\ u = pst.of) => cy[u].next = cx[u].next
        /\ pst.at = "next" => /\ cy[pst.of].next = nx /\ cx[pst.of].next = th
                              /\ cx[pst.of].parent = p /\ pst.of # th
    BY DEF Unlinked, Deref
  <2>7. /\ N \in SUBSET Ctx /\ (nx # Null => nx \in N)
        /\ \A u \in N : cx[u].next # Null => cx[u].next \in N
        /\ \A V \in SUBSET Ctx : /\ nx # Null => nx \in V
                                 /\ \A u \in V : cx[u].next # Null => cx[u].next \in V
                                 => N \subseteq V
    BY <1>0, FromFacts
  <2> HIDE DEF L, M, N, nx, c
  <2>8. CASE c # p
    <3>1. cy[c].first = cx[c].first
      BY <2>1, <2>6, <2>8
    <3>2. \A u \in L : cy[u].next = cx[u].next
      BY <1>2, <2>2, <2>6, <2>8
    <3>3. M = L
      BY <2>3, <3>1, <3>2, FromSame DEF M, L
    <3> QED
      BY <2>1, <2>2, <3>3 DEF c
  <2>9. CASE c = p
    <3> DEFINE T == L \cap (M \cup {th} \cup N)
    <3>1. cx[c].first # Null => cx[c].first \in T
      BY <2>1, <2>4, <2>5, <2>6, <2>9
    <3>2. \A u \in T : cx[u].next # Null => cx[u].next \in T
      <4> SUFFICES ASSUME NEW u \in L, u \in M \/ u = th \/ u \in N, cx[u].next # Null
                   PROVE  cx[u].next \in M \cup {th} \cup N
        BY <2>5
      <4>1. CASE u = th
        BY <2>7, <4>1 DEF nx
      <4>2. CASE u \in N
        BY <2>7, <4>2
      <4>3. CASE u \in M /\ u # th
        BY <2>2, <2>4, <2>6, <4>3
      <4> QED
        BY <4>1, <4>2, <4>3
    <3>3. L \subseteq M \cup {th} \cup N
      <4>1. T \in SUBSET Ctx /\ T \subseteq M \cup {th} \cup N
        BY <2>2
      <4> HIDE DEF T
      <4> QED
        BY <2>5, <3>1, <3>2, <4>1
    <3>4. nx # Null => nx \in M
      <4>1. CASE pst.at = "first"
        BY <2>4, <2>6, <2>9, <4>1
      <4>2. CASE pst.at = "next"
        <5>1. pst.of \in L
          BY <1>2, <2>2, <2>6, <2>9, <4>2
        <5>2. pst.of \notin N
          BY <4>2 DEF N, nx
        <5>3. pst.of \in M
          BY <2>6, <3>3, <4>2, <5>1, <5>2
        <5> QED
          BY <2>4, <2>6, <4>2, <5>3
      <4> QED
        BY <1>2, <4>1, <4>2
    <3>5. N \subseteq M
      <4> DEFINE V == N \cap M
      <4>1. V \in SUBSET Ctx /\ (nx # Null => nx \in V) /\ V \subseteq M
        BY <2>7, <3>4
      <4>2. \A u \in V : cx[u].next # Null => cx[u].next \in V
        BY <1>1, <2>4, <2>7
      <4> HIDE DEF V
      <4> QED
        BY <2>7, <4>1, <4>2
    <3>6. t \in L
      BY <2>1, <2>2
    <3>7. t \in M
      BY <2>1, <3>3, <3>5, <3>6
    <3> QED
      BY <2>1, <3>7 DEF c
  <2> QED
    BY <2>8, <2>9
<1>6. NoCycle(cy)
  <2> SUFFICES ASSUME NEW S \in SUBSET Ctx, S # {}
               PROVE  \E t \in S : cy[t].parent \notin S
    BY DEF NoCycle
  <2>1. PICK t \in S : cx[t].parent \notin S
    BY DEF Tree, NoCycle
  <2>2. cy[t].parent \in {cx[t].parent, Null} /\ Null \notin S
    BY <1>2, RootAssumption
  <2> QED
    BY <2>1, <2>2
<1>7. FreedBlank(cy)
  <2>1. ASSUME NEW t \in Ctx, ~cy[t].live PROVE cy[t].next = Null
    <3>1. ~cx[t].live /\ cx[t].next = Null /\ cx[t].parent = Null
      BY <1>2, <2>1 DEF Tree, FreedBlank
    <3>2. ~(pst.at = "next" /\ t = pst.of)
      BY <1>0, <3>1 DEF Unlinked
    <3> QED
      BY <1>2, <3>1, <3>2 DEF Unlinked
  <2>2. ASSUME NEW t \in Ctx, cy[t].parent # Null PROVE cy[cy[t].parent].live
    BY <1>0, <1>2, <2>2 DEF Tree, FreedBlank, Ptr
  <2> QED
    BY <2>1, <2>2 DEF FreedBlank
<1> QED
  BY <1>3, <1>4, <1>5, <1>6, <1>7 DEF Tree

(* The activations beneath the walk do not notice.                         *)
LEMMA UnlinkedRun ==
    ASSUME NEW cx \in [Ctx -> Context], NEW cy \in [Ctx -> Context], NEW pst,
           NEW th \in Ctx, NEW p \in Ctx, Tree(cx), Unlinked(cx, cy, pst, th, p),
           NEW a \in GoodAct, NEW B \in SUBSET GoodAct, RunOK(cx, a, B),
           a.k \in PassKinds => a.c # p
    PROVE  RunOK(cy, a, B)
<1>1. /\ cx[th].parent = p /\ pst.of \in Ctx
      /\ pst.at = "first" => pst.of = p
      /\ pst.at = "next" => cx[pst.of].parent = p
      /\ \A u \in Ctx : u # th => cy[u].parent = cx[u].parent
      /\ \A u \in Ctx : cy[u].parent \in {cx[u].parent, Null}
      /\ \A u \in Ctx : ~(pst.at = "first" /\ u = pst.of) => cy[u].first = cx[u].first
      /\ \A u \in Ctx : u # th /\ ~(pst.at = "next" /\ u = pst.of) => cy[u].next = cx[u].next
  BY DEF Unlinked
<1>2. \A u \in Ctx : /\ cy[u].live = cx[u].live /\ cy[u].refs = cx[u].refs
                     /\ cy[u].held = cx[u].held /\ cy[u].waited = cx[u].waited
  BY DEF Unlinked
<1>3. \A b \in B \cup {a} : b \in GoodAct /\ b.c \in Ctx /\ (b.k = "start" => b.p \in Ctx)
  BY ActFields
<1>4. \A c \in Ctx : Ancestors(cy, c) \subseteq Ancestors(cx, c)
  <2> SUFFICES ASSUME NEW c \in Ctx PROVE Ancestors(cy, c) \subseteq Ancestors(cx, c)
    OBVIOUS
  <2>1. \A t \in Ancestors(cx, c) : cy[t].parent \in {cx[t].parent, Null}
    BY <1>1, AncestorFacts
  <2> QED
    BY <2>1, AncestorsShrink
<1>5. a.k = "start" => StartOK(cy, a, B)
  <2> SUFFICES ASSUME a.k = "start" PROVE StartOK(cy, a, B)
    OBVIOUS
  <2>1. StartOK(cx, a, B)
    BY DEF RunOK
  <2>2. cy[a.c].refs = 0 /\ cy[a.c].waited = 0
    BY <1>2, <1>3, <2>1 DEF StartOK
  <2>3. cy[a.p].held > 0 \/ \E b \in B : b.c = a.p
    BY <1>2, <1>3, <2>1 DEF StartOK
  <2>4. a.c \notin Ancestors(cy, a.p)
    BY <1>3, <1>4, <2>1 DEF StartOK
  <2>5. \A b \in B : /\ a.c \notin Ancestors(cy, b.c)
                     /\ b.k = "start" => a.c \notin Ancestors(cy, b.p)
                     /\ b.k \in PassKinds /\ b.c = a.p => b.pst.at = "next"
    BY <1>3, <1>4, <2>1 DEF StartOK
  <2> QED
    BY <2>2, <2>3, <2>4, <2>5 DEF StartOK
<1>6. a.k \in PassKinds => WalkOK(cy, a)
  <2> SUFFICES ASSUME a.k \in PassKinds PROVE WalkOK(cy, a)
    OBVIOUS
  <2> DEFINE d == Deref(cx, a.pst)
  <2>1. /\ a.pst.of \in Ctx /\ a.pst.at \in {"first", "next"}
        /\ a.todo \subseteq Ctx /\ a.seen \subseteq Ctx /\ a.c # Null /\ a.c # p
        /\ a.k # "visit" => a.th \in Ctx
    BY <1>3, ActFields, RootAssumption DEF PassKinds
  <2>2. /\ a.k # "visit" => cx[a.th].parent = a.c /\ d = a.th
        /\ a.pst.at = "first" => a.pst.of = a.c
        /\ a.pst.at = "next" => cx[a.pst.of].parent = a.c /\ a.pst.of \in a.seen
        /\ \A t \in a.todo \ a.seen : cx[t].parent = a.c /\ t \in Rest(cx, a.pst)
        /\ Rest(cx, a.pst) \cap a.seen = {}
    BY DEF RunOK, WalkOK
  <2>3. Deref(cy, a.pst) = d
    <3>1. CASE a.pst.at = "first"
      <4>1. ~(pst.at = "first" /\ a.pst.of = pst.of)
        BY <1>1, <2>1, <2>2, <3>1
      <4> QED
        BY <1>1, <2>1, <3>1, <4>1 DEF Deref
    <3>2. CASE a.pst.at = "next"
      <4>1. a.pst.of # th /\ ~(pst.at = "next" /\ a.pst.of = pst.of)
        BY <1>1, <2>1, <2>2, <3>2
      <4> QED
        BY <1>1, <2>1, <3>2, <4>1 DEF Deref
    <3> QED
      BY <2>1, <3>1, <3>2
  <2>4. /\ d \in Ptr /\ \A t \in Rest(cx, a.pst) : t \in Ctx /\ cx[t].parent = a.c
    BY <2>2, CursorInList DEF Tree
  <2> HIDE DEF d
  <2>5. Rest(cx, a.pst) = From(cx, d) /\ Rest(cy, a.pst) = From(cy, d)
    BY <2>3, ListIsFrom DEF d
  <2>6. \A t \in From(cx, d) : cy[t].next = cx[t].next
    BY <1>1, <2>1, <2>4, <2>5
  <2>7. Rest(cy, a.pst) = Rest(cx, a.pst)
    BY <2>4, <2>5, <2>6, FromSame
  <2>8. a.k # "visit" => cy[a.th].parent = a.c
    BY <1>1, <2>1, <2>2
  <2>9. a.pst.at = "next" => cy[a.pst.of].parent = a.c
    BY <1>1, <2>1, <2>2
  <2>10. \A t \in a.todo \ a.seen : cy[t].parent = a.c
    BY <1>1, <2>1, <2>2
  <2> QED
    BY <2>2, <2>3, <2>7, <2>8, <2>9, <2>10 DEF WalkOK, d
<1>7. a.k \in PassKinds => Inner(cy, a, B)
  BY <1>3, <1>4 DEF RunOK, Inner
<1>8. cy[a.c].live
  BY <1>2, <1>3 DEF RunOK
<1> QED
  BY <1>5, <1>6, <1>7, <1>8 DEF RunOK

(* What overwriting the cursor's link and detaching the thread does.       *)
LEMMA UnlinkFields ==
    ASSUME NEW cx \in [Ctx -> Context], NEW pst \in Cursor, NEW th \in Ctx, NEW p \in Ctx,
           cx[th].parent = p, p # th, Deref(cx, pst) = th,
           pst.at = "first" => pst.of = p,
           pst.at = "next" => cx[pst.of].parent = p /\ pst.of # th
    PROVE  LET cy == Detached(Store(cx, pst, cx[th].next), th)
           IN  cy \in [Ctx -> Context] /\ Unlinked(cx, cy, pst, th, p)
<1> DEFINE nx == cx[th].next
           cz == Store(cx, pst, nx)
           q == [cz[th] EXCEPT !.parent = Null, !.next = Null]
           cy == Detached(cz, th)
           o == pst.of
<1>0. nx \in Ptr /\ o \in Ctx /\ pst.at \in {"first", "next"}
  BY FieldValues DEF Cursor
<1> HIDE DEF nx, o
<1>1. /\ cz \in [Ctx -> Context]
      /\ \A u \in Ctx : /\ cz[u].parent = cx[u].parent
                        /\ cz[u].live = cx[u].live /\ cz[u].refs = cx[u].refs
                        /\ cz[u].held = cx[u].held /\ cz[u].timeout = cx[u].timeout
                        /\ cz[u].waited = cx[u].waited /\ cz[u].asked = cx[u].asked
      /\ \A u \in Ctx : ~(pst.at = "first" /\ u = o) => cz[u].first = cx[u].first
      /\ pst.at = "first" => cz[o].first = nx
      /\ \A u \in Ctx : ~(pst.at = "next" /\ u = o) => cz[u].next = cx[u].next
      /\ pst.at = "next" => cz[o].next = nx
  <2>1. CASE pst.at = "first"
    <3> DEFINE w == [cx[o] EXCEPT !.first = nx]
    <3>1. /\ w \in Context /\ w.parent = cx[o].parent /\ w.next = cx[o].next /\ w.first = nx
          /\ w.live = cx[o].live /\ w.refs = cx[o].refs /\ w.held = cx[o].held
          /\ w.timeout = cx[o].timeout /\ w.waited = cx[o].waited /\ w.asked = cx[o].asked
      BY <1>0 DEF Context
    <3>2. cz = [cx EXCEPT ![o] = w]
      BY <2>1 DEF Store, o
    <3> HIDE DEF w
    <3>3. cz \in [Ctx -> Context] /\ \A u \in Ctx : cz[u] = IF u = o THEN w ELSE cx[u]
      <4> HIDE DEF cz
      <4> QED
        BY <1>0, <3>1, <3>2
    <3> HIDE DEF cz
    <3> QED
      BY <1>0, <2>1, <3>1, <3>3
  <2>2. CASE pst.at = "next"
    <3> DEFINE w == [cx[o] EXCEPT !.next = nx]
    <3>1. /\ w \in Context /\ w.parent = cx[o].parent /\ w.next = nx /\ w.first = cx[o].first
          /\ w.live = cx[o].live /\ w.refs = cx[o].refs /\ w.held = cx[o].held
          /\ w.timeout = cx[o].timeout /\ w.waited = cx[o].waited /\ w.asked = cx[o].asked
      BY <1>0 DEF Context
    <3>2. cz = [cx EXCEPT ![o] = w]
      BY <2>2 DEF Store, o
    <3> HIDE DEF w
    <3>3. cz \in [Ctx -> Context] /\ \A u \in Ctx : cz[u] = IF u = o THEN w ELSE cx[u]
      <4> HIDE DEF cz
      <4> QED
        BY <1>0, <3>1, <3>2
    <3> HIDE DEF cz
    <3> QED
      BY <1>0, <2>2, <3>1, <3>3
  <2> QED
    BY <1>0, <2>1, <2>2
<1>2. cy = [cz EXCEPT ![th] = q]
  BY DEF Detached
<1> HIDE DEF cz
<1>3. /\ q \in Context /\ q.parent = Null /\ q.next = Null /\ q.first = cz[th].first
      /\ q.live = cz[th].live /\ q.refs = cz[th].refs /\ q.held = cz[th].held
      /\ q.timeout = cz[th].timeout /\ q.waited = cz[th].waited /\ q.asked = cz[th].asked
  <2>1. cz[th] \in Context /\ Null \in Ptr
    BY <1>1 DEF Ptr
  <2>2. \A w \in Context, v \in Ptr :
          LET z == [w EXCEPT !.parent = v, !.next = v]
          IN  /\ z \in Context /\ z.parent = v /\ z.next = v /\ z.first = w.first
              /\ z.live = w.live /\ z.refs = w.refs /\ z.held = w.held
              /\ z.timeout = w.timeout /\ z.waited = w.waited /\ z.asked = w.asked
    BY DEF Context
  <2> QED
    BY <2>1, <2>2
<1> HIDE DEF q
<1>4. cy \in [Ctx -> Context] /\ \A u \in Ctx : cy[u] = IF u = th THEN q ELSE cz[u]
  <2> HIDE DEF cy
  <2> QED
    BY <1>1, <1>2, <1>3
<1> HIDE DEF cy
<1>5. Unlinked(cx, cy, pst, th, p)
  <2>1. /\ cy[th].parent = Null /\ cy[th].next = Null
        /\ \A u \in Ctx : u # th => cy[u].parent = cx[u].parent
    BY <1>1, <1>3, <1>4
  <2>2. /\ \A u \in Ctx : ~(pst.at = "first" /\ u = o) => cy[u].first = cx[u].first
        /\ pst.at = "first" => cy[o].first = nx
    BY <1>0, <1>1, <1>3, <1>4
  <2>3. /\ \A u \in Ctx : u # th /\ ~(pst.at = "next" /\ u = o) => cy[u].next = cx[u].next
        /\ pst.at = "next" => cy[o].next = nx
    BY <1>0, <1>1, <1>4 DEF o
  <2>4. \A u \in Ctx : /\ cy[u].live = cx[u].live /\ cy[u].refs = cx[u].refs
                       /\ cy[u].held = cx[u].held /\ cy[u].timeout = cx[u].timeout
                       /\ cy[u].waited = cx[u].waited /\ cy[u].asked = cx[u].asked
    BY <1>1, <1>3, <1>4
  <2> QED
    BY <1>0, <2>1, <2>2, <2>3, <2>4 DEF Unlinked, nx, o
<1> QED
  BY <1>4, <1>5 DEF cy, cz, nx

LEMMA RemoveFields ==
    ASSUME IInv, Top.k = "after"
    PROVE  LET b == [Top EXCEPT !.k = "visit", !.th = Null, !.seen = @ \cup {Top.th}]
           IN  /\ b \in GoodAct /\ b.k = "visit" /\ b.c = Top.c /\ b.th = Null
               /\ b.p = Top.p /\ b.pst = Top.pst /\ b.todo = Top.todo
               /\ b.seen = Top.seen \cup {Top.th}
<1> DEFINE t == Top.th
           b == [Top EXCEPT !.k = "visit", !.th = Null, !.seen = @ \cup {t}]
<1>1. Top \in GoodAct /\ t \in Ctx
  BY TopType, TopFields
<1>2. b \in GoodAct
  BY <1>1, TopFields
<1>3. /\ b.k = "visit" /\ b.c = Top.c /\ b.th = Null /\ b.p = Top.p
      /\ b.pst = Top.pst /\ b.todo = Top.todo /\ b.seen = Top.seen \cup {t}
  <2> HIDE DEF t
  <2> QED
    BY <1>1 DEF GoodAct, Activation
<1> QED
  BY <1>2, <1>3

LEMMA RemoveStep ==
    ASSUME LInv, IInv', PassRemove
    PROVE  Sound(ctx', cstack')
<1> DEFINE th == Top.th
           p == Top.c
           nx == ctx[th].next
           cx == Detached(Store(ctx, Top.pst, nx), th)
           b == [Top EXCEPT !.k = "visit", !.th = Null, !.seen = @ \cup {th}]
           r == Tail(cstack)
           s == <<b>> \o r
           N == From(ctx, nx)
<1>0. /\ Top \in GoodAct /\ Top.k = "after" /\ th \in Ctx /\ p \in Ctx
      /\ ctx \in [Ctx -> Context] /\ r \in Seq(GoodAct) /\ cstack \in Seq(GoodAct)
      /\ Tree(ctx) /\ RunOK(ctx, Top, Acts(r)) /\ Runs(ctx, r) /\ Calls(r)
      /\ Counted(ctx, cstack) /\ Timed(ctx, cstack) /\ ActOK(Top)
      /\ (r # <<>> => CalledBy(Top, Head(r)))
      /\ cstack = <<Top>> \o r /\ cstack' = s /\ StackOK(s)
      /\ ctx' = Released(cx, th)
  BY StackSplit, TopFields DEF PassRemove, LInv, IInv, Replace
<1>1. /\ WalkOK(ctx, Top) /\ Inner(ctx, Top, Acts(r)) /\ ctx[th].parent = p
      /\ Deref(ctx, Top.pst) = th /\ Top.pst \in Cursor
  BY <1>0, ActFields DEF RunOK, PassKinds, WalkOK
<1>2. /\ b \in GoodAct /\ b.k = "visit" /\ b.c = p /\ b.th = Null /\ b.p = Top.p
      /\ b.pst = Top.pst /\ b.todo = Top.todo /\ b.seen = Top.seen \cup {th}
  BY <1>0, RemoveFields DEF LInv
<1>3. /\ th \in Rest(ctx, Top.pst) /\ th \notin Top.seen /\ th \notin N
      /\ N \subseteq Rest(ctx, Top.pst) /\ N \in SUBSET Ctx
      /\ \A t \in Rest(ctx, Top.pst) : t = th \/ t \in N
      /\ \A t \in N : ctx[t].parent = p
  BY <1>0, <1>1, RestSplit DEF Tree
<1>4. p # th
  <2>1. ctx[th].parent # Null
    BY <1>0, <1>1, RootAssumption
  <2>2. th \notin Ancestors(ctx, p)
    BY <1>0, <1>1, <2>1, ChildIsNoAncestor DEF Tree
  <2> QED
    BY <1>0, <2>2, AncestorFacts
<1>5. /\ Top.pst.at = "first" => Top.pst.of = p
      /\ Top.pst.at = "next" => /\ ctx[Top.pst.of].parent = p /\ Top.pst.of \in Top.seen
                                /\ Top.pst.of # th /\ Top.pst.of \notin N
  BY <1>1, <1>3 DEF WalkOK
<1>6. cx \in [Ctx -> Context] /\ Unlinked(ctx, cx, Top.pst, th, p)
  BY <1>0, <1>1, <1>4, <1>5, UnlinkFields
<1> HIDE DEF cx, b
<1>7. \A u \in Ctx : ctx[u].parent # Null => ctx[u].live
  BY <1>0, OwnerFacts
<1>8. Tree(cx)
  BY <1>0, <1>3, <1>5, <1>6, <1>7, UnlinkedTree
<1>9. From(cx, nx) = N
  <2>1. From(cx, ctx[th].next) = From(ctx, ctx[th].next)
    <3> HIDE DEF th, p
    <3> QED
      BY <1>0, <1>3, <1>5, <1>6, UnlinkedFacts DEF N, nx
  <2> QED
    BY <2>1
<1>10. /\ cx[th].parent = Null /\ \A u \in Ctx : u # th => cx[u].parent = ctx[u].parent
       /\ Deref(cx, Top.pst) = nx
       /\ \A u \in Ctx : /\ cx[u].live = ctx[u].live /\ cx[u].refs = ctx[u].refs
                         /\ cx[u].held = ctx[u].held /\ cx[u].timeout = ctx[u].timeout
                         /\ cx[u].waited = ctx[u].waited /\ cx[u].asked = ctx[u].asked
  BY <1>6 DEF Unlinked, Deref
<1>11. Rest(cx, Top.pst) = N
  BY <1>9, <1>10, ListIsFrom
<1> HIDE DEF N, nx, th, p, r
<1>12. RunOK(cx, b, Acts(r))
  <2>1. WalkOK(cx, b)
    <3>1. \A t \in b.todo \ b.seen : cx[t].parent = b.c /\ t \in Rest(cx, b.pst)
      <4> SUFFICES ASSUME NEW t \in b.todo \ b.seen
                   PROVE  cx[t].parent = b.c /\ t \in Rest(cx, b.pst)
        OBVIOUS
      <4>1. t \in Top.todo \ Top.seen /\ t # th
        BY <1>2
      <4>2. ctx[t].parent = p /\ t \in Rest(ctx, Top.pst)
        BY <1>1, <4>1 DEF WalkOK, p
      <4>3. t \in N /\ t \in Ctx
        BY <1>3, <4>1, <4>2
      <4> QED
        BY <1>2, <1>10, <1>11, <4>1, <4>2, <4>3
    <3>2. Rest(cx, b.pst) \cap b.seen = {}
      <4>1. Rest(ctx, Top.pst) \cap Top.seen = {}
        BY <1>1 DEF WalkOK
      <4> QED
        BY <1>2, <1>3, <1>11, <4>1
    <3>3. /\ b.pst.at = "first" => b.pst.of = b.c
          /\ b.pst.at = "next" => cx[b.pst.of].parent = b.c /\ b.pst.of \in b.seen
      <4>1. Top.pst.of \in Ctx
        BY <1>0, ActFields
      <4> QED
        BY <1>2, <1>5, <1>10, <4>1
    <3> QED
      BY <1>2, <3>1, <3>2, <3>3 DEF WalkOK
  <2>2. Inner(cx, b, Acts(r))
    <3> SUFFICES ASSUME NEW d \in Acts(r), d.k \in PassKinds
                 PROVE  p \notin Ancestors(cx, d.c)
      BY <1>2 DEF Inner
    <3>1. p \notin Ancestors(ctx, d.c)
      BY <1>1 DEF Inner, p
    <3>2. d.c \in Ctx
      BY <1>0, ActsType, ActFields
    <3>3. \A u \in Ancestors(ctx, d.c) : cx[u].parent \in {ctx[u].parent, Null}
      BY <1>0, <1>10, <3>2, AncestorFacts
    <3>4. Ancestors(cx, d.c) \subseteq Ancestors(ctx, d.c)
      BY <1>0, <1>6, <3>2, <3>3, AncestorsShrink
    <3> QED
      BY <3>1, <3>4
  <2>3. cx[p].live
    BY <1>0, <1>10 DEF RunOK, p
  <2> QED
    BY <1>2, <2>1, <2>2, <2>3 DEF RunOK
<1>13. Runs(cx, r)
  <2> SUFFICES ASSUME NEW i \in 1 .. Len(r)
               PROVE  RunOK(cx, r[i], Below(r, i))
    BY DEF Runs
  <2>1. r[i] \in Acts(r) /\ r[i] \in GoodAct /\ Below(r, i) \in SUBSET GoodAct
    BY <1>0, ActsType
  <2>2. RunOK(ctx, r[i], Below(r, i))
    BY <1>0 DEF Runs
  <2>3. r[i].k \in PassKinds => r[i].c # p
    <3>1. r[i].c \in Ctx
      BY <2>1, ActFields
    <3> QED
      BY <1>0, <1>1, <2>1, <3>1, AncestorFacts DEF Inner, p
  <2> QED
    BY <1>0, <1>6, <2>1, <2>2, <2>3, UnlinkedRun
<1>14. Runs(cx, s)
  BY <1>0, <1>2, <1>12, <1>13, RunsCons
<1>15. Calls(s)
  <2>1. ActOK(b) /\ (r # <<>> => CalledBy(b, Head(r)))
    BY <1>0, <1>2 DEF ActOK, CalledBy, PassKinds, p
  <2> QED
    BY <1>0, <1>2, <2>1, CallsCons
<1>16. Timed(cx, s)
  <2>1. Timed(ctx, r)
    BY <1>0, TimedCons
  <2>2. Timed(cx, r)
    BY <1>10, <2>1 DEF Timed
  <2> QED
    BY <1>0, <1>2, <2>2, TimedCons
<1>17. Pending(cx, s, th)
  <2>1. Counted(ctx, r)
    BY <1>0, CountedCons
  <2>2. Counted(ctx, s)
    BY <1>0, <1>2, <2>1, CountedCons
  <2> SUFFICES ASSUME NEW u \in Ctx
               PROVE  /\ cx[u].refs = Owners(cx, s, u) + (IF u = th THEN 1 ELSE 0)
                      /\ cx[u].live <=> (cx[u].refs > 0 \/ Started(s, u))
    BY DEF Pending
  <2>3. /\ ctx[u].refs = ctx[u].held + (IF ctx[u].parent = Null THEN 0 ELSE 1)
               + Cardinality(Resumes(s, u)) + (IF u = Root THEN 1 ELSE 0)
        /\ ctx[u].held \in Nat
        /\ ctx[u].live <=> (ctx[u].refs > 0 \/ Started(s, u))
        /\ Cardinality(Resumes(s, u)) \in Nat
    BY <1>0, <2>2, OwnerFacts DEF StackOK
  <2>4. ctx[th].parent # Null
    BY <1>0, <1>1, RootAssumption
  <2> HIDE DEF s
  <2>5. Owners(cx, s, u) = ctx[u].held + (IF cx[u].parent = Null THEN 0 ELSE 1)
               + Cardinality(Resumes(s, u)) + (IF u = Root THEN 1 ELSE 0)
    BY <1>10 DEF Owners
  <2> QED
    BY <1>10, <2>3, <2>4, <2>5
<1>18. Losing(cx, s, th)
  BY <1>8, <1>14, <1>15, <1>16, <1>17 DEF Losing
<1> HIDE DEF s
<1> QED
  BY <1>0, <1>6, <1>18, ReleasedKeeps

---------------------------------------------------------------------------
(* The invariant holds from the beginning and every step keeps it.         *)

LEMMA InitSound == Init => LInv
<1> SUFFICES ASSUME Init PROVE LInv
  OBVIOUS
<1> DEFINE a == Act("script", Root)
           e == <<>>
           q == [NoContext EXCEPT !.live = TRUE, !.exec = "running", !.refs = 1]
<1>1. /\ IInv /\ ctx \in [Ctx -> Context] /\ Root \in Ctx
      /\ cstack = <<a>> \o e /\ e \in Seq(GoodAct) /\ Len(e) = 0
      /\ \A t \in Ctx : ctx[t] = IF t = Root THEN q ELSE NoContext
  BY InitEstablishes, RootAssumption DEF Init, IInv
<1>2. /\ q.parent = Null /\ q.first = Null /\ q.next = Null /\ q.live = TRUE
      /\ q.refs = 1 /\ q.held = 0
      /\ NoContext.parent = Null /\ NoContext.first = Null /\ NoContext.next = Null
      /\ NoContext.live = FALSE /\ NoContext.refs = 0 /\ NoContext.held = 0
  BY DEF NoContext
<1> HIDE DEF q
<1>3. /\ \A t \in Ctx : /\ ctx[t].parent = Null /\ ctx[t].first = Null /\ ctx[t].next = Null
                        /\ ctx[t].held = 0 /\ ctx[t].refs = (IF t = Root THEN 1 ELSE 0)
                        /\ ctx[t].live <=> t = Root
      /\ ctx[Root].live
  BY <1>1, <1>2
<1>4. Acts(e) = {} /\ (\A t : Resumes(e, t) = {}) /\ Runs(ctx, e) /\ Calls(e)
  BY <1>1 DEF Acts, Resumes, Runs, Calls
<1> HIDE DEF e
<1>5. Tree(ctx)
  BY <1>3, RootAssumption DEF Tree, LinksMatch, LinksDiffer, AllFound, NoCycle, FreedBlank
<1>6. Counted(ctx, e)
  <2>1. \A t : Cardinality(Resumes(e, t)) = 0
    BY <1>4, FS_EmptySet
  <2>2. \A t : ~Started(e, t)
    BY <1>4 DEF Started
  <2> QED
    BY <1>3, <2>1, <2>2 DEF Counted, Owners
<1>7. Timed(ctx, e)
  BY <1>3 DEF Timed
<1>8. /\ a \in GoodAct /\ a.k = "script" /\ ActOK(a) /\ RunOK(ctx, a, Acts(e))
  BY <1>1, <1>3, ActFieldsOf
<1> HIDE DEF a
<1>9. e = <<>>
  BY DEF e
<1>10. Sound(ctx, <<a>> \o e)
  BY <1>1, <1>4, <1>5, <1>6, <1>7, <1>8, <1>9, SoundCons DEF Sound
<1> QED
  BY <1>1, <1>10 DEF LInv

LEMMA SoundStep == Tame /\ LInv /\ [Next]_vars => LInv'
<1> SUFFICES ASSUME Tame, LInv, [Next]_vars PROVE LInv'
  OBVIOUS
<1>1. IInv'
  BY StepKeeps DEF LInv
<1>2. CASE UNCHANGED vars
  BY <1>1, <1>2 DEF LInv, vars
<1>3. ASSUME Create PROVE Sound(ctx', cstack')
  BY <1>3, CreateStep, CoCreateStep DEF Create
<1>4. ASSUME OnThread PROVE Sound(ctx', cstack')
  BY <1>1, <1>4, CoResumeStep, DropRefStep, FlagSteps DEF OnThread
<1>5. ASSUME \E b \in BOOLEAN : Signal(b) PROVE Sound(ctx', cstack')
  BY <1>1, <1>5, FlagSteps
<1>6. ASSUME Continue PROVE Sound(ctx', cstack')
  <2>1. ASSUME PassReturn PROVE Sound(ctx', cstack')
    BY <2>1, PopSound DEF PassReturn
  <2> QED
    BY <1>1, <1>6, <2>1, StartEndStep, ResumeReturnStep, VisitStep, WaitStep, ResumeStep,
       NoResumeStep, ResumedStep, RemoveStep, AdvanceStep DEF Continue
<1>7. ASSUME StartPass PROVE Sound(ctx', cstack')
  BY <1>7, ProcessStep DEF StartPass
<1>8. ASSUME Next PROVE Sound(ctx', cstack')
  BY <1>1, <1>3, <1>4, <1>5, <1>6, <1>7, <1>8, TakeRefStep, StopSteps DEF Next
<1> QED
  BY <1>1, <1>2, <1>8 DEF LInv

(* However deep threads, coroutines and walks of their lists call one      *)
(* another, the lists stay trees of threads, every reference is accounted  *)
(* for and every walk finds what it relies on when control returns to it.  *)
THEOREM EveryWalkIsSound ==
    ASSUME Tame
    PROVE  Spec => []LInv
<1>1. Init => LInv
  BY InitSound
<1>2. LInv /\ [Next]_vars => LInv'
  BY SoundStep
<1> QED
  BY <1>1, <1>2, PTL DEF Spec

LEMMA ListedIsParent ==
    ASSUME LInv, NEW t \in Ctx
    PROVE  Listed(t) = {ctx[t].parent} \ {Null}
<1>1. ctx \in [Ctx -> Context] /\ Tree(ctx) /\ ctx[t].parent \in Ctx \cup {Null}
  BY StackSplit, FieldValues DEF Ptr
<1>2. \A p \in Ctx : t \in ListOf(ctx, p) <=> ctx[t].parent = p
  BY <1>1, ListIsChildren DEF Tree
<1> QED
  BY <1>1, <1>2, RootAssumption DEF Listed

(* A thread is in the list of the context it names as its parent and in no *)
(* other: sgs_ProcessSubthreads, sgs_CreateSubthread and the release of a  *)
(* context lose no thread and link none twice.                             *)
THEOREM ListsHold ==
    ASSUME Tame
    PROVE  Spec => []ListsMatchParents
<1>1. LInv => ListsMatchParents
  BY ListedIsParent DEF ListsMatchParents
<1> QED
  BY <1>1, EveryWalkIsSound, PTL

(* The reference count of a context is the number of its owners, and a     *)
(* context without one is freed unless its first run goes on.              *)
THEOREM RefsHold ==
    ASSUME Tame
    PROVE  Spec => []RefsExact
<1>1. ASSUME LInv PROVE RefsExact
  <2> SUFFICES ASSUME NEW t \in Ctx
               PROVE  /\ ctx[t].refs = ctx[t].held + Cardinality(Listed(t))
                            + Cardinality(Activations({"resume"}, t))
                            + (IF t = Root THEN 1 ELSE 0)
                      /\ ctx[t].live <=> (ctx[t].refs > 0 \/ Activations({"start"}, t) # {})
    BY DEF RefsExact
  <2>1. ctx \in [Ctx -> Context] /\ cstack \in Seq(GoodAct) /\ Counted(ctx, cstack)
    BY <1>1, StackSplit
  <2>2. Cardinality(Listed(t)) = IF ctx[t].parent = Null THEN 0 ELSE 1
    <3>1. Listed(t) = {ctx[t].parent} \ {Null}
      BY <1>1, ListedIsParent
    <3>2. CASE ctx[t].parent = Null
      <4>1. Listed(t) = {}
        BY <3>1, <3>2
      <4> QED
        BY <3>2, <4>1, FS_EmptySet
    <3>3. CASE ctx[t].parent # Null
      <4>1. Listed(t) = {ctx[t].parent}
        BY <3>1, <3>3
      <4> QED
        BY <3>3, <4>1, FS_Singleton
    <3> QED
      BY <3>2, <3>3
  <2>3. Activations({"resume"}, t) = Resumes(cstack, t)
    BY DEF Activations, Resumes
  <2>4. Activations({"start"}, t) # {} <=> Started(cstack, t)
    BY DEF Activations, Started, Acts
  <2> QED
    BY <2>1, <2>2, <2>3, <2>4 DEF Counted, Owners
<1> QED
  BY <1>1, EveryWalkIsSound, PTL

(* No list, no parent, no caller on the C stack and no link that a walk is *)
(* about to write belongs to a freed context.                              *)
THEOREM NothingDangles ==
    ASSUME Tame
    PROVE  Spec => []NoDangling
<1>1. ASSUME LInv PROVE NoDangling
  <2>1. /\ ctx \in [Ctx -> Context] /\ cstack \in Seq(GoodAct)
        /\ Counted(ctx, cstack) /\ Tree(ctx) /\ Calls(cstack)
    BY <1>1, StackSplit
  <2>2. ASSUME NEW c \in Ctx, NEW t \in ListOf(ctx, c) \cup ({ctx[c].parent} \ {Null})
        PROVE  ctx[t].live
    <3>1. CASE t \in ListOf(ctx, c)
      <4>1. t \in Ctx /\ ctx[t].parent = c /\ c # Null
        BY <2>1, <3>1, ListIsChildren, RootAssumption DEF Tree
      <4> QED
        BY <2>1, <4>1, OwnerFacts
    <3>2. CASE t = ctx[c].parent /\ t # Null
      BY <2>1, <3>2 DEF Tree, FreedBlank
    <3> QED
      BY <2>2, <3>1, <3>2
  <2>3. ASSUME NEW i \in 1 .. Len(cstack)
        PROVE  /\ ctx[cstack[i].c].live /\ ctx[cstack[i].pst.of].live
               /\ cstack[i].th # Null => ctx[cstack[i].th].live
               /\ cstack[i].p # Null => ctx[cstack[i].p].live
    <3> DEFINE a == cstack[i]
    <3>1. a \in Acts(cstack) /\ ActOK(a)
      BY <2>1 DEF Acts, Calls
    <3> HIDE DEF a
    <3>2. /\ ctx[a.c].live
          /\ a.k = "start" => ctx[a.p].live
          /\ a.k \in {"timer", "resumed", "after"} => ctx[a.th].live
          /\ a.k \in PassKinds => ctx[a.pst.of].live
      BY <1>1, <3>1, NamedLive
    <3>3. ctx[a.pst.of].live
      BY <3>1, <3>2 DEF ActOK
    <3> QED
      BY <3>1, <3>2, <3>3 DEF ActOK, a
  <2> QED
    BY <2>2, <2>3 DEF NoDangling
<1> QED
  BY <1>1, EveryWalkIsSound, PTL

(* One pass handles every thread that was in the list when it began        *)
(* exactly once, or finds it gone.                                         *)
THEOREM EachThreadOnce ==
    ASSUME Tame
    PROVE  Spec => []OncePerPass
<1>1. ASSUME LInv PROVE OncePerPass
  <2> SUFFICES ASSUME NEW i \in 1 .. Len(cstack), cstack[i].k \in PassKinds
               PROVE  /\ cstack[i].th \notin cstack[i].seen
                      /\ (i = 1 /\ cstack[i].k = "visit" /\ Deref(ctx, cstack[i].pst) = Null) =>
                            \A t \in cstack[i].todo \ cstack[i].seen :
                                ctx[t].parent # cstack[i].c
    BY DEF OncePerPass
  <2> DEFINE a == cstack[i]
  <2>1. /\ ctx \in [Ctx -> Context] /\ cstack \in Seq(GoodAct)
        /\ Runs(ctx, cstack) /\ Tree(ctx) /\ Calls(cstack)
    BY <1>1, StackSplit
  <2>2. a \in GoodAct /\ ActOK(a) /\ WalkOK(ctx, a)
    BY <2>1, ActsType DEF Calls, Runs, RunOK
  <2>3. a.k \in PassKinds
    OBVIOUS
  <2> HIDE DEF a
  <2>4. a.th \notin a.seen
    <3>1. CASE a.k = "visit"
      <4>1. a.th = Null /\ a.seen \subseteq Ctx
        BY <2>2, <3>1, ActFields DEF ActOK
      <4> QED
        BY <4>1, RootAssumption
    <3>2. CASE a.k # "visit"
      <4>1. a.k \in {"timer", "resumed", "after"}
        BY <2>3, <3>2 DEF PassKinds
      <4> QED
        BY <2>1, <2>2, <4>1, RestSplit DEF Tree
    <3> QED
      BY <3>1, <3>2
  <2>5. Deref(ctx, a.pst) = Null => a.todo \ a.seen = {}
    <3> SUFFICES ASSUME Deref(ctx, a.pst) = Null PROVE a.todo \ a.seen = {}
      OBVIOUS
    <3>1. Rest(ctx, a.pst) = From(ctx, Null)
      BY ListIsFrom
    <3>2. From(ctx, Null) = {}
      <4> DEFINE T == {}
      <4>1. T \in SUBSET Ctx /\ Null \in Ptr /\ \A t \in T : FALSE
        BY DEF Ptr
      <4> HIDE DEF T
      <4>2. From(ctx, Null) \subseteq T
        BY <2>1, <4>1, FromFacts
      <4> QED
        BY <4>1, <4>2
    <3> QED
      BY <2>2, <3>1, <3>2 DEF WalkOK
  <2> QED
    BY <2>4, <2>5 DEF a
<1> QED
  BY <1>1, EveryWalkIsSound, PTL

(* A waiting thread's timeout is what it asked for less the time that the  *)
(* passes have counted since one last ran it.                              *)
THEOREM TimersHold ==
    ASSUME Tame
    PROVE  Spec => []TimersExact
<1>1. ASSUME LInv PROVE TimersExact
  <2>1. Timed(ctx, cstack)
    BY <1>1, StackSplit
  <2>2. \A t : ResumedBy(cstack, t) =>
            \E i \in 1 .. Len(cstack) : cstack[i].k = "resumed" /\ cstack[i].th = t
    BY DEF ResumedBy, Acts
  <2> QED
    BY <2>1, <2>2 DEF Timed, TimersExact
<1> QED
  BY <1>1, EveryWalkIsSound, PTL
=============================================================================
