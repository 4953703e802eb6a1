------------------------ MODULE ThreadListsProofs ------------------------
(* The lists, the references and the walks of Threads, proved for every    *)
(* set of contexts and every depth of the C stack.                         *)
EXTENDS ThreadsProofs, FiniteSetTheorems, WellFoundedInduction

---------------------------------------------------------------------------
(* The invariant: the C stack.                                             *)

(* What the activations are made of, beyond GoodAct.                       *)
ActOK(a) ==
    /\ a.th # Null => a.k \in {"timer", "resumed", "after"}
    /\ a.p # Null => a.k = "start"
    /\ a.k \notin PassKinds => a.pst = [at |-> "first", of |-> a.c]

(* Who calls whom: bytecode runs in a context that is started, resumed by  *)
(* hand or resumed by a walk; a walk is called by bytecode of its context  *)
(* or by the walk of the list that its context is in.                      *)
CalledBy(a, b) ==
    /\ a.k = "script" => \/ b.k \in {"start", "resume"} /\ b.c = a.c
                         \/ b.k = "resumed" /\ b.th = a.c
    /\ a.k \in PassKinds => \/ b.k = "script" /\ b.c = a.c
                            \/ b.k = "timer" /\ b.th = a.c

Calls(s) ==
    /\ \A i \in 1 .. Len(s) : ActOK(s[i])
    /\ \A i \in 1 .. Len(s) : i < Len(s) => CalledBy(s[i], s[i + 1])

Acts(s) == {s[i] : i \in 1 .. Len(s)}
Below(s, i) == {s[j] : j \in {k \in 1 .. Len(s) : i < k}}

---------------------------------------------------------------------------
(* The invariant: the lists and the tree of the contexts.                  *)

(* A link of a list leads to a thread of the same parent.                  *)
LinksMatch(cx) ==
    /\ \A c \in Ctx : cx[c].first # Null => cx[cx[c].first].parent = c
    /\ \A t \in Ctx : cx[t].parent # Null /\ cx[t].next # Null =>
            cx[cx[t].next].parent = cx[t].parent

(* No two links lead to the same thread.                                   *)
LinksDiffer(cx) ==
    /\ \A t, u \in Ctx : cx[t].parent # Null /\ cx[u].parent # Null
                            /\ cx[t].next # Null /\ cx[t].next = cx[u].next => t = u
    /\ \A t, c \in Ctx : cx[t].parent # Null /\ cx[t].next # Null =>
            cx[t].next # cx[c].first

(* Every thread is found from its parent.                                  *)
AllFound(cx) == \A t \in Ctx : cx[t].parent # Null => t \in ListOf(cx, cx[t].parent)

(* No context is its own ancestor: of some contexts, one is the uppermost. *)
NoCycle(cx) ==
    \A S \in SUBSET Ctx : S # {} => \E t \in S : cx[t].parent \notin S

(* A freed context is in no list and nobody's parent.                      *)
FreedBlank(cx) ==
    /\ \A t \in Ctx : ~cx[t].live => cx[t].next = Null
    /\ \A t \in Ctx : cx[t].parent # Null => cx[cx[t].parent].live

Tree(cx) ==
    LinksMatch(cx) /\ LinksDiffer(cx) /\ AllFound(cx) /\ NoCycle(cx) /\ FreedBlank(cx)

---------------------------------------------------------------------------
(* The invariant: references and timers.                                   *)

Resumes(s, t) == {i \in 1 .. Len(s) : s[i].k = "resume" /\ s[i].c = t}
Started(s, t) == \E a \in Acts(s) : a.k = "start" /\ a.c = t
ResumedBy(s, t) == \E a \in Acts(s) : a.k = "resumed" /\ a.th = t

Owners(cx, s, t) ==
    cx[t].held + (IF cx[t].parent = Null THEN 0 ELSE 1)
        + Cardinality(Resumes(s, t)) + (IF t = Root THEN 1 ELSE 0)

Counted(cx, s) ==
    \A t \in Ctx : /\ cx[t].refs = Owners(cx, s, t)
                   /\ cx[t].live <=> (cx[t].refs > 0 \/ Started(s, t))

Timed(cx, s) ==
    \A t \in Ctx : cx[t].parent # Null =>
        IF ResumedBy(s, t) THEN cx[t].waited = 0
                           ELSE cx[t].timeout = cx[t].asked - cx[t].waited

---------------------------------------------------------------------------
(* The invariant: what an activation relies on.  B holds the activations   *)
(* beneath it.                                                             *)

(* The context that runs for the first time has no owner.  The one it is   *)
(* to be a thread of is held by a variable or runs beneath.  No older      *)
(* activation is of one of its descendants, and the walk that it may be    *)
(* beneath has left the front of the list.                                 *)
StartOK(cx, a, B) ==
    /\ cx[a.c].refs = 0 /\ cx[a.c].waited = 0
    /\ cx[a.p].held > 0 \/ \E b \in B : b.c = a.p
    /\ a.c \notin Ancestors(cx, a.p)
    /\ \A b \in B : /\ a.c \notin Ancestors(cx, b.c)
                    /\ b.k = "start" => a.c \notin Ancestors(cx, b.p)
                    /\ b.k \in PassKinds /\ b.c = a.p => b.pst.at = "next"

(* The threads that a cursor has before it.                                *)
Rest(cx, cur) == Reachable(NextLinks(cx), {Deref(cx, cur)} \ {Null})

(* A walk's thread is the one its cursor addresses; the threads of the     *)
(* list that it has not seen are before it and no others are.              *)
WalkOK(cx, a) ==
    /\ a.k # "visit" => cx[a.th].parent = a.c /\ Deref(cx, a.pst) = a.th
    /\ a.pst.at = "first" => a.pst.of = a.c
    /\ a.pst.at = "next" => cx[a.pst.of].parent = a.c /\ a.pst.of \in a.seen
    /\ \A t \in a.todo \ a.seen : cx[t].parent = a.c /\ t \in Rest(cx, a.pst)
    /\ Rest(cx, a.pst) \cap a.seen = {}

(* A walk is of no context that an outer walk is of, nor of one above it.  *)
Inner(cx, a, B) == \A b \in B : b.k \in PassKinds => a.c \notin Ancestors(cx, b.c)

RunOK(cx, a, B) ==
    /\ cx[a.c].live
    /\ a.k = "start" => StartOK(cx, a, B)
    /\ a.k \in PassKinds => WalkOK(cx, a) /\ Inner(cx, a, B)

Runs(cx, s) == \A i \in 1 .. Len(s) : RunOK(cx, s[i], Below(s, i))

(* The state of some contexts and a stack.                                 *)
Sound(cx, s) ==
    Tree(cx) /\ Counted(cx, s) /\ Timed(cx, s) /\ Runs(cx, s) /\ Calls(s)

LInv == IInv /\ Sound(ctx, cstack)

---------------------------------------------------------------------------
(* Facts about what can be reached.                                        *)

LEMMA ReachableFacts ==
    ASSUME NEW R \in [Ctx -> SUBSET Ctx], NEW S \in SUBSET Ctx
    PROVE  /\ Reachable(R, S) \in SUBSET Ctx
           /\ S \subseteq Reachable(R, S)
           /\ \A t \in Reachable(R, S) : R[t] \subseteq Reachable(R, S)
           /\ \A T \in SUBSET Ctx :
                S \subseteq T /\ (\A t \in T : R[t] \subseteq T) => Reachable(R, S) \subseteq T
  BY DEF Reachable

LEMMA LinkTypes ==
    ASSUME NEW cx \in [Ctx -> Context]
    PROVE  /\ NextLinks(cx) \in [Ctx -> SUBSET Ctx]
           /\ ParentLinks(cx) \in [Ctx -> SUBSET Ctx]
           /\ \A t \in Ctx : NextLinks(cx)[t] = {cx[t].next} \ {Null}
           /\ \A t \in Ctx : ParentLinks(cx)[t] = {cx[t].parent} \ {Null}
<1>1. \A t \in Ctx : cx[t].next \in Ctx \cup {Null} /\ cx[t].parent \in Ctx \cup {Null}
  BY FieldValues DEF Ptr
<1> QED
  BY <1>1 DEF NextLinks, ParentLinks

(* The contexts found from p by following st_next.                         *)
From(cx, p) == Reachable(NextLinks(cx), {p} \ {Null})

LEMMA FromFacts ==
    ASSUME NEW cx \in [Ctx -> Context], NEW p \in Ptr
    PROVE  /\ From(cx, p) \in SUBSET Ctx
           /\ p # Null => p \in From(cx, p)
           /\ \A t \in From(cx, p) : cx[t].next # Null => cx[t].next \in From(cx, p)
           /\ \A T \in SUBSET Ctx :
                /\ p # Null => p \in T
                /\ \A t \in T : cx[t].next # Null => cx[t].next \in T
                => From(cx, p) \subseteq T
<1> DEFINE R == NextLinks(cx)
           S == {p} \ {Null}
<1>1. /\ R \in [Ctx -> SUBSET Ctx] /\ S \in SUBSET Ctx
      /\ \A t \in Ctx : R[t] = {cx[t].next} \ {Null}
  BY LinkTypes DEF Ptr
<1> HIDE DEF R
<1>2. /\ Reachable(R, S) \in SUBSET Ctx
      /\ S \subseteq Reachable(R, S)
      /\ \A t \in Reachable(R, S) : R[t] \subseteq Reachable(R, S)
      /\ \A T \in SUBSET Ctx :
            S \subseteq T /\ (\A t \in T : R[t] \subseteq T) => Reachable(R, S) \subseteq T
  BY <1>1, ReachableFacts
<1>3. From(cx, p) = Reachable(R, S)
  BY DEF From, R
<1> HIDE DEF S
<1>4. (p # Null => p \in S) /\ \A x \in S : x = p /\ p # Null
  BY DEF S
<1>5. ASSUME NEW T \in SUBSET Ctx, p # Null => p \in T,
             \A t \in T : cx[t].next # Null => cx[t].next \in T
      PROVE  From(cx, p) \subseteq T
  BY <1>1, <1>2, <1>3, <1>4, <1>5
<1> QED
  BY <1>1, <1>2, <1>3, <1>4, <1>5

LEMMA ListIsFrom ==
    ASSUME NEW cx
    PROVE  /\ \A c : ListOf(cx, c) = From(cx, cx[c].first)
           /\ \A cur : Rest(cx, cur) = From(cx, Deref(cx, cur))
  BY DEF ListOf, Rest, From

LEMMA AncestorFacts ==
    ASSUME NEW cx \in [Ctx -> Context], NEW c \in Ctx
    PROVE  /\ Ancestors(cx, c) \in SUBSET Ctx
           /\ c \in Ancestors(cx, c)
           /\ \A t \in Ancestors(cx, c) :
                cx[t].parent # Null => cx[t].parent \in Ancestors(cx, c)
           /\ \A T \in SUBSET Ctx :
                /\ c \in T
                /\ \A t \in T : cx[t].parent # Null => cx[t].parent \in T
                => Ancestors(cx, c) \subseteq T
<1> DEFINE R == ParentLinks(cx)
           S == {c}
<1>1. /\ R \in [Ctx -> SUBSET Ctx] /\ S \in SUBSET Ctx
      /\ \A t \in Ctx : R[t] = {cx[t].parent} \ {Null}
  BY LinkTypes
<1> HIDE DEF R
<1>2. /\ Reachable(R, S) \in SUBSET Ctx
      /\ S \subseteq Reachable(R, S)
      /\ \A t \in Reachable(R, S) : R[t] \subseteq Reachable(R, S)
      /\ \A T \in SUBSET Ctx :
            S \subseteq T /\ (\A t \in T : R[t] \subseteq T) => Reachable(R, S) \subseteq T
  BY <1>1, ReachableFacts
<1>3. Ancestors(cx, c) = Reachable(R, S)
  BY DEF Ancestors, R
<1> HIDE DEF S
<1>4. c \in S /\ \A x \in S : x = c
  BY DEF S
<1>5. ASSUME NEW T \in SUBSET Ctx, c \in T,
             \A t \in T : cx[t].parent # Null => cx[t].parent \in T
      PROVE  Ancestors(cx, c) \subseteq T
  BY <1>1, <1>2, <1>3, <1>4, <1>5
<1> QED
  BY <1>1, <1>2, <1>3, <1>4, <1>5

LEMMA FromSame ==
    ASSUME NEW cx \in [Ctx -> Context], NEW cy \in [Ctx -> Context], NEW p \in Ptr,
           \A t \in From(cx, p) : cy[t].next = cx[t].next
    PROVE  From(cy, p) = From(cx, p)
<1>1. From(cy, p) \subseteq From(cx, p)
  BY FromFacts
<1>2. From(cx, p) \subseteq From(cy, p)
  <2> DEFINE T == From(cx, p) \cap From(cy, p)
  <2>1. T \in SUBSET Ctx /\ (p # Null => p \in T)
    BY FromFacts
  <2>2. \A t \in T : cx[t].next # Null => cx[t].next \in T
    BY FromFacts
  <2>3. From(cx, p) \subseteq T
    <3> HIDE DEF T
    <3> QED
      BY <2>1, <2>2, FromFacts
  <2> QED
    BY <2>3
<1> QED
  BY <1>1, <1>2

LEMMA AncestorsShrink ==
    ASSUME NEW cx \in [Ctx -> Context], NEW cy \in [Ctx -> Context], NEW c \in Ctx,
           \A t \in Ancestors(cx, c) : cy[t].parent \in {cx[t].parent, Null}
    PROVE  Ancestors(cy, c) \subseteq Ancestors(cx, c)
<1>1. \A t \in Ancestors(cx, c) : cy[t].parent # Null => cy[t].parent \in Ancestors(cx, c)
  BY AncestorFacts
<1> QED
  BY <1>1, AncestorFacts

LEMMA AncestorsStep ==
    ASSUME NEW cx \in [Ctx -> Context], NEW c \in Ctx
    PROVE  \A t \in Ancestors(cx, c) :
              t = c \/ (cx[c].parent # Null /\ t \in Ancestors(cx, cx[c].parent))
<1>0. cx[c].parent \in Ptr
  BY FieldValues
<1>1. CASE cx[c].parent = Null
  <2> DEFINE T == {c}
  <2>1. T \in SUBSET Ctx /\ c \in T /\ \A t \in T : t = c
    OBVIOUS
  <2> HIDE DEF T
  <2>2. Ancestors(cx, c) \subseteq T
    BY <1>1, <2>1, AncestorFacts
  <2> QED
    BY <2>1, <2>2
<1>2. CASE cx[c].parent # Null
  <2> DEFINE A == Ancestors(cx, cx[c].parent)
             T == {c} \cup A
  <2>1. /\ A \in SUBSET Ctx /\ cx[c].parent \in A
        /\ \A t \in A : cx[t].parent # Null => cx[t].parent \in A
    BY <1>0, <1>2, AncestorFacts DEF Ptr
  <2> HIDE DEF A
  <2>2. T \in SUBSET Ctx /\ c \in T /\ \A t \in T : cx[t].parent # Null => cx[t].parent \in T
    BY <2>1
  <2> HIDE DEF T
  <2>3. Ancestors(cx, c) \subseteq T
    BY <2>2, AncestorFacts
  <2>4. \A t \in T : t = c \/ t \in A
    BY DEF T
  <2> QED
    BY <1>2, <2>3, <2>4 DEF A
<1> QED
  BY <1>1, <1>2

(* A thread is no ancestor of its parent.                                  *)
LEMMA ChildIsNoAncestor ==
    ASSUME NEW cx \in [Ctx -> Context], NoCycle(cx), NEW t \in Ctx, cx[t].parent # Null
    PROVE  t \notin Ancestors(cx, cx[t].parent)
<1> DEFINE c == cx[t].parent
           S == {x \in Ancestors(cx, c) : t \in Ancestors(cx, x)}
<1>0. c \in Ctx
  BY FieldValues DEF Ptr
<1> SUFFICES ASSUME t \in Ancestors(cx, c) PROVE FALSE
  OBVIOUS
<1>1. c \in S /\ S \in SUBSET Ctx
  BY <1>0, AncestorFacts
<1>2. PICK x \in S : cx[x].parent \notin S
  <2> HIDE DEF S
  <2> QED
    BY <1>1 DEF NoCycle
<1>3. x \in Ctx /\ x # t
  BY <1>1, <1>2
<1>4. cx[x].parent # Null /\ t \in Ancestors(cx, cx[x].parent)
  BY <1>2, <1>3, AncestorsStep
<1>5. cx[x].parent \in Ancestors(cx, c)
  BY <1>0, <1>2, <1>4, AncestorFacts
<1> QED
  BY <1>2, <1>4, <1>5

(* The ancestors of an allocated context are allocated.                    *)
LEMMA AncestorsLive ==
    ASSUME NEW cx \in [Ctx -> Context], FreedBlank(cx), NEW c \in Ctx, cx[c].live
    PROVE  \A t \in Ancestors(cx, c) : cx[t].live
<1> DEFINE T == {t \in Ctx : cx[t].live}
<1>0. \A t \in Ctx : cx[t].parent \in Ptr
  BY FieldValues
<1>1. T \in SUBSET Ctx /\ c \in T /\ \A t \in T : cx[t].parent # Null => cx[t].parent \in T
  BY <1>0 DEF FreedBlank, Ptr
<1> HIDE DEF T
<1>2. Ancestors(cx, c) \subseteq T
  BY <1>1, AncestorFacts
<1> QED
  BY <1>2 DEF T

(* A list holds the contexts that name its owner as their parent.          *)
LEMMA ListIsChildren ==
    ASSUME NEW cx \in [Ctx -> Context], LinksMatch(cx), NEW c \in Ctx
    PROVE  /\ \A t \in ListOf(cx, c) : cx[t].parent = c
           /\ AllFound(cx) => ListOf(cx, c) = {t \in Ctx : cx[t].parent = c}
<1> DEFINE T == {t \in Ctx : cx[t].parent = c}
<1>0. c # Null /\ \A t \in Ctx : cx[t].next \in Ptr /\ cx[t].first \in Ptr
  BY FieldValues, RootAssumption
<1>1. T \in SUBSET Ctx /\ (cx[c].first # Null => cx[c].first \in T)
  BY <1>0 DEF LinksMatch, Ptr
<1>2. \A t \in T : cx[t].next # Null => cx[t].next \in T
  BY <1>0 DEF LinksMatch, Ptr
<1>3. ListOf(cx, c) \subseteq T
  <2> HIDE DEF T
  <2> QED
    BY <1>0, <1>1, <1>2, FromFacts, ListIsFrom
<1>4. AllFound(cx) => T \subseteq ListOf(cx, c)
  BY <1>0 DEF AllFound
<1> QED
  BY <1>3, <1>4

(* What comes behind a thread of a list is of that list.                   *)
LEMMA FromIsChildren ==
    ASSUME NEW cx \in [Ctx -> Context], LinksMatch(cx), NEW c \in Ctx, NEW p \in Ptr,
           p # Null => cx[p].parent = c
    PROVE  \A t \in From(cx, p) : cx[t].parent = c
<1> DEFINE T == {t \in Ctx : cx[t].parent = c}
<1>0. c # Null /\ \A t \in Ctx : cx[t].next \in Ptr /\ cx[t].first \in Ptr
  BY FieldValues, RootAssumption
<1>1. T \in SUBSET Ctx /\ (p # Null => p \in T)
  BY <1>0 DEF Ptr
<1>2. \A t \in T : cx[t].next # Null => cx[t].next \in T
  BY <1>0 DEF LinksMatch, Ptr
<1>3. From(cx, p) \subseteq T
  <2> HIDE DEF T
  <2> QED
    BY <1>1, <1>2, FromFacts
<1> QED
  BY <1>3

---------------------------------------------------------------------------
(* Facts about stacks: one activation on top of others.                    *)

LEMMA ConsFacts ==
    ASSUME NEW S, NEW a \in S, NEW r \in Seq(S)
    PROVE  /\ <<a>> \o r \in Seq(S)
           /\ <<a>> \o r # <<>>
           /\ Len(r) \in Nat /\ Len(<<a>> \o r) = Len(r) + 1
           /\ (<<a>> \o r)[1] = a
           /\ \A i \in 1 .. Len(r) : (<<a>> \o r)[i + 1] = r[i]
           /\ \A i \in 1 .. Len(<<a>> \o r) :
                i # 1 => i - 1 \in 1 .. Len(r) /\ (<<a>> \o r)[i] = r[i - 1]
  OBVIOUS

LEMMA ActsCons ==
    ASSUME NEW S, NEW a \in S, NEW r \in Seq(S)
    PROVE  Acts(<<a>> \o r) = {a} \cup Acts(r)
<1> DEFINE s == <<a>> \o r
<1>1. /\ Len(r) \in Nat /\ Len(s) = Len(r) + 1 /\ s[1] = a
      /\ \A i \in 1 .. Len(r) : s[i + 1] = r[i]
      /\ \A i \in 1 .. Len(s) : i # 1 => i - 1 \in 1 .. Len(r) /\ s[i] = r[i - 1]
  BY ConsFacts
<1> HIDE DEF s
<1>2. ASSUME NEW b \in Acts(s) PROVE b = a \/ b \in Acts(r)
  BY <1>1 DEF Acts
<1>3. a \in Acts(s)
  BY <1>1 DEF Acts
<1>4. ASSUME NEW b \in Acts(r) PROVE b \in Acts(s)
  <2>1. PICK i \in 1 .. Len(r) : b = r[i]
    BY DEF Acts
  <2>2. i + 1 \in 1 .. Len(s) /\ s[i + 1] = b
    BY <1>1, <2>1
  <2> QED
    BY <2>2 DEF Acts
<1> QED
  BY <1>2, <1>3, <1>4 DEF s

LEMMA BelowCons ==
    ASSUME NEW S, NEW a \in S, NEW r \in Seq(S)
    PROVE  /\ Below(<<a>> \o r, 1) = Acts(r)
           /\ \A i \in 1 .. Len(r) : Below(<<a>> \o r, i + 1) = Below(r, i)
<1> DEFINE s == <<a>> \o r
<1>1. /\ Len(r) \in Nat /\ Len(s) = Len(r) + 1
      /\ \A i \in 1 .. Len(r) : s[i + 1] = r[i]
      /\ \A i \in 1 .. Len(s) : i # 1 => i - 1 \in 1 .. Len(r) /\ s[i] = r[i - 1]
  BY ConsFacts
<1> HIDE DEF s
<1>2. ASSUME NEW b PROVE b \in Below(s, 1) <=> b \in Acts(r)
  <2>1. ASSUME b \in Below(s, 1) PROVE b \in Acts(r)
    <3>1. PICK j \in 1 .. Len(s) : 1 < j /\ b = s[j]
      BY <2>1 DEF Below
    <3> QED
      BY <1>1, <3>1 DEF Acts
  <2>2. ASSUME b \in Acts(r) PROVE b \in Below(s, 1)
    <3>1. PICK j \in 1 .. Len(r) : b = r[j]
      BY <2>2 DEF Acts
    <3>2. j + 1 \in 1 .. Len(s) /\ 1 < j + 1 /\ b = s[j + 1]
      BY <1>1, <3>1
    <3> QED
      BY <3>2 DEF Below
  <2> QED
    BY <2>1, <2>2
<1>3. ASSUME NEW i \in 1 .. Len(r), NEW b
      PROVE  b \in Below(s, i + 1) <=> b \in Below(r, i)
  <2>1. ASSUME b \in Below(s, i + 1) PROVE b \in Below(r, i)
    <3>1. PICK j \in 1 .. Len(s) : i + 1 < j /\ b = s[j]
      BY <2>1 DEF Below
    <3>2. j - 1 \in 1 .. Len(r) /\ i < j - 1 /\ b = r[j - 1]
      BY <1>1, <3>1
    <3> QED
      BY <3>2 DEF Below
  <2>2. ASSUME b \in Below(r, i) PROVE b \in Below(s, i + 1)
    <3>1. PICK j \in 1 .. Len(r) : i < j /\ b = r[j]
      BY <2>2 DEF Below
    <3>2. j + 1 \in 1 .. Len(s) /\ i + 1 < j + 1 /\ b = s[j + 1]
      BY <1>1, <3>1
    <3> QED
      BY <3>2 DEF Below
  <2> QED
    BY <2>1, <2>2
<1>4. Below(s, 1) = Acts(r) /\ \A i \in 1 .. Len(r) : Below(s, i + 1) = Below(r, i)
  BY <1>2, <1>3
<1> QED
  BY <1>4 DEF s

LEMMA RunsCons ==
    ASSUME NEW cx, NEW S, NEW a \in S, NEW r \in Seq(S)
    PROVE  Runs(cx, <<a>> \o r) <=> RunOK(cx, a, Acts(r)) /\ Runs(cx, r)
<1> DEFINE s == <<a>> \o r
<1>1. /\ Len(r) \in Nat /\ Len(s) = Len(r) + 1 /\ s[1] = a
      /\ \A i \in 1 .. Len(r) : s[i + 1] = r[i]
      /\ \A i \in 1 .. Len(s) : i # 1 => i - 1 \in 1 .. Len(r) /\ s[i] = r[i - 1]
  BY ConsFacts
<1>2. Below(s, 1) = Acts(r) /\ \A i \in 1 .. Len(r) : Below(s, i + 1) = Below(r, i)
  BY BelowCons
<1> HIDE DEF s
<1>3. 1 \in 1 .. Len(s) /\ \A i \in 1 .. Len(r) : i + 1 \in 1 .. Len(s)
  BY <1>1
<1>4. ASSUME Runs(cx, s) PROVE RunOK(cx, a, Acts(r)) /\ Runs(cx, r)
  BY <1>1, <1>2, <1>3, <1>4 DEF Runs
<1>5. ASSUME RunOK(cx, a, Acts(r)), Runs(cx, r), NEW i \in 1 .. Len(s)
      PROVE  RunOK(cx, s[i], Below(s, i))
  <2>1. CASE i = 1
    BY <1>1, <1>2, <1>5, <2>1
  <2>2. CASE i # 1
    <3>1. PICK j \in 1 .. Len(r) : i = j + 1
      BY <1>1, <2>2
    <3> QED
      BY <1>1, <1>2, <1>5, <3>1 DEF Runs
  <2> QED
    BY <2>1, <2>2
<1> QED
  BY <1>4, <1>5 DEF Runs, s

LEMMA CallsCons ==
    ASSUME NEW S, NEW a \in S, NEW r \in Seq(S)
    PROVE  Calls(<<a>> \o r) <=>
              /\ ActOK(a) /\ Calls(r)
              /\ r # <<>> => CalledBy(a, Head(r))
<1> DEFINE s == <<a>> \o r
<1>1. /\ Len(r) \in Nat /\ Len(s) = Len(r) + 1 /\ s[1] = a
      /\ \A i \in 1 .. Len(r) : s[i + 1] = r[i]
      /\ \A i \in 1 .. Len(s) : i # 1 => i - 1 \in 1 .. Len(r) /\ s[i] = r[i - 1]
  BY ConsFacts
<1>2. r # <<>> => Head(r) = r[1] /\ 1 \in 1 .. Len(r)
  <2>1. r # <<>> => Len(r) # 0
    BY EmptySeq
  <2> QED
    BY <1>1, <2>1, FirstIsHead
<1>3. r = <<>> => Len(r) = 0
  BY EmptySeq
<1> HIDE DEF s
<1>4. 1 \in 1 .. Len(s) /\ \A i \in 1 .. Len(r) : i + 1 \in 1 .. Len(s)
  BY <1>1
<1>5. ASSUME Calls(s) PROVE ActOK(a)
  BY <1>1, <1>4, <1>5 DEF Calls
<1>6. ASSUME Calls(s) PROVE Calls(r)
  <2>1. ASSUME NEW i \in 1 .. Len(r) PROVE ActOK(r[i])
    BY <1>1, <1>4, <1>6 DEF Calls
  <2>2. ASSUME NEW i \in 1 .. Len(r), i < Len(r) PROVE CalledBy(r[i], r[i + 1])
    <3>1. i + 1 \in 1 .. Len(r) /\ i + 1 \in 1 .. Len(s) /\ i + 1 < Len(s)
      BY <1>1, <2>2
    <3>2. s[i + 1] = r[i] /\ s[(i + 1) + 1] = r[i + 1]
      BY <1>1, <3>1
    <3>3. CalledBy(s[i + 1], s[(i + 1) + 1])
      BY <1>6, <3>1 DEF Calls
    <3> QED
      BY <3>2, <3>3
  <2> QED
    BY <2>1, <2>2 DEF Calls
<1>7. ASSUME Calls(s), r # <<>> PROVE CalledBy(a, Head(r))
  <2>1. 1 < Len(s) /\ s[1 + 1] = r[1]
    BY <1>1, <1>2, <1>7
  <2>2. CalledBy(s[1], s[1 + 1])
    BY <1>4, <1>7, <2>1 DEF Calls
  <2> QED
    BY <1>1, <1>2, <1>7, <2>1, <2>2
<1>8. ASSUME ActOK(a), Calls(r), r # <<>> => CalledBy(a, Head(r)) PROVE Calls(s)
  <2>1. ASSUME NEW i \in 1 .. Len(s) PROVE ActOK(s[i])
    <3>1. CASE i = 1
      BY <1>1, <1>8, <3>1
    <3>2. CASE i # 1
      BY <1>1, <1>8, <3>2 DEF Calls
    <3> QED
      BY <3>1, <3>2
  <2>2. ASSUME NEW i \in 1 .. Len(s), i < Len(s) PROVE CalledBy(s[i], s[i + 1])
    <3>1. CASE i = 1
      <4>1. r # <<>> /\ s[i + 1] = r[1]
        BY <1>1, <1>3, <2>2, <3>1
      <4> QED
        BY <1>1, <1>2, <1>8, <3>1, <4>1
    <3>2. CASE i # 1
      <4>1. PICK j \in 1 .. Len(r) : i = j + 1 /\ j < Len(r)
        BY <1>1, <2>2, <3>2
      <4>2. j + 1 \in 1 .. Len(r)
        BY <1>1, <4>1
      <4>3. s[i] = r[j] /\ s[i + 1] = r[j + 1]
        BY <1>1, <4>1, <4>2
      <4> QED
        BY <1>8, <4>1, <4>3 DEF Calls
    <3> QED
      BY <3>1, <3>2
  <2> QED
    BY <2>1, <2>2 DEF Calls
<1> QED
  BY <1>5, <1>6, <1>7, <1>8 DEF s

LEMMA ResumesFinite ==
    ASSUME NEW S, NEW s \in Seq(S), NEW t
    PROVE  IsFiniteSet(Resumes(s, t)) /\ Cardinality(Resumes(s, t)) \in Nat
<1>1. Len(s) \in Nat
  BY LenProperties
<1>2. IsFiniteSet(1 .. Len(s))
  BY <1>1, FS_Interval
<1>3. IsFiniteSet(Resumes(s, t))
  BY <1>2, FS_Subset DEF Resumes
<1> QED
  BY <1>3, FS_CardinalityType

LEMMA ResumesCons ==
    ASSUME NEW S, NEW a \in S, NEW r \in Seq(S), NEW t
    PROVE  Cardinality(Resumes(<<a>> \o r, t)) = Cardinality(Resumes(r, t))
               + (IF a.k = "resume" /\ a.c = t THEN 1 ELSE 0)
<1> DEFINE s == <<a>> \o r
           A == Resumes(r, t)
           B == {i + 1 : i \in A}
<1>1. /\ Len(r) \in Nat /\ Len(s) = Len(r) + 1 /\ s[1] = a
      /\ \A i \in 1 .. Len(r) : s[i + 1] = r[i]
      /\ \A i \in 1 .. Len(s) : i # 1 => i - 1 \in 1 .. Len(r) /\ s[i] = r[i - 1]
  BY ConsFacts
<1> HIDE DEF s
<1>2. IsFiniteSet(A) /\ Cardinality(A) \in Nat /\ A \subseteq 1 .. Len(r)
  BY ResumesFinite DEF Resumes
<1>3. IsFiniteSet(B) /\ Cardinality(B) = Cardinality(A)
  <2> DEFINE f == [i \in A |-> i + 1]
  <2>1. f \in Bijection(A, B)
    <3> HIDE DEF A
    <3>1. f \in [A -> B] /\ \A i, j \in A : f[i] = f[j] => i = j
      BY <1>2
    <3>2. \A b \in B : \E i \in A : f[i] = b
      OBVIOUS
    <3> HIDE DEF f, B
    <3>3. f \in Injection(A, B)
      BY <3>1 DEF Injection, IsInjective
    <3>4. f \in Surjection(A, B)
      BY <3>1, <3>2 DEF Surjection
    <3> QED
      BY <3>3, <3>4 DEF Bijection
  <2> QED
    BY <1>2, <2>1, FS_Bijection DEF ExistsBijection
<1>4. 1 \notin B
  BY <1>2
<1>5. Resumes(s, t) = B \cup (IF a.k = "resume" /\ a.c = t THEN {1} ELSE {})
  <2>1. ASSUME NEW i \in Resumes(s, t), i # 1 PROVE i \in B
    <3>1. i - 1 \in A /\ i = (i - 1) + 1
      BY <1>1, <2>1 DEF Resumes
    <3> QED
      BY <3>1
  <2>2. ASSUME NEW i \in A PROVE i + 1 \in Resumes(s, t)
    BY <1>1 DEF Resumes
  <2>3. 1 \in Resumes(s, t) <=> a.k = "resume" /\ a.c = t
    BY <1>1 DEF Resumes
  <2> HIDE DEF A
  <2> QED
    BY <2>1, <2>2, <2>3
<1> HIDE DEF A, B
<1>6. CASE a.k = "resume" /\ a.c = t
  <2>1. Resumes(s, t) = B \cup {1}
    BY <1>5, <1>6
  <2> QED
    BY <1>3, <1>4, <1>6, <2>1, FS_AddElement DEF A, s
<1>7. CASE ~(a.k = "resume" /\ a.c = t)
  <2>1. Resumes(s, t) = B
    BY <1>5, <1>7
  <2> QED
    BY <1>2, <1>3, <1>7, <2>1 DEF A, s
<1> QED
  BY <1>6, <1>7

---------------------------------------------------------------------------
(* What the invariant says of one context.                                 *)

LEMMA OwnerFacts ==
    ASSUME NEW cx \in [Ctx -> Context], NEW s \in Seq(GoodAct), Counted(cx, s),
           NEW t \in Ctx
    PROVE  /\ cx[t].refs \in Nat /\ cx[t].held \in Nat
           /\ Cardinality(Resumes(s, t)) \in Nat
           /\ cx[t].refs = cx[t].held + (IF cx[t].parent = Null THEN 0 ELSE 1)
                + Cardinality(Resumes(s, t)) + (IF t = Root THEN 1 ELSE 0)
           /\ cx[t].held > 0 \/ cx[t].parent # Null \/ t = Root
                \/ Cardinality(Resumes(s, t)) > 0 => cx[t].refs > 0 /\ cx[t].live
           /\ cx[t].live <=> (cx[t].refs > 0 \/ Started(s, t))
<1>1. cx[t].held \in Nat /\ Cardinality(Resumes(s, t)) \in Nat
  BY FieldValues, ResumesFinite
<1>2. cx[t].refs = cx[t].held + (IF cx[t].parent = Null THEN 0 ELSE 1)
                + Cardinality(Resumes(s, t)) + (IF t = Root THEN 1 ELSE 0)
  BY DEF Counted, Owners
<1>3. cx[t].live <=> (cx[t].refs > 0 \/ Started(s, t))
  BY DEF Counted
<1> QED
  BY <1>1, <1>2, <1>3

(* A context that runs for the first time is no one's.                     *)
LEMMA StartedFacts ==
    ASSUME NEW cx, NEW s \in Seq(GoodAct), Runs(cx, s), NEW t \in Ctx, Started(s, t)
    PROVE  cx[t].refs = 0 /\ cx[t].waited = 0
<1>1. PICK i \in 1 .. Len(s) : s[i].k = "start" /\ s[i].c = t
  BY DEF Started, Acts
<1> QED
  BY <1>1 DEF Runs, RunOK, StartOK

LEMMA ActsType ==
    ASSUME NEW S, NEW s \in Seq(S)
    PROVE  /\ Acts(s) \subseteq S
           /\ \A i \in 1 .. Len(s) : s[i] \in Acts(s) /\ s[i] \in S
           /\ \A i \in 1 .. Len(s) : Below(s, i) \subseteq Acts(s)
<1>1. \A i \in 1 .. Len(s) : s[i] \in S
  BY ElementOfSeq, LenProperties
<1> QED
  BY <1>1 DEF Acts, Below

LEMMA ActFields ==
    ASSUME NEW a \in GoodAct
    PROVE  /\ a.c \in Ctx /\ a.th \in Ptr /\ a.p \in Ptr /\ a.pst \in Cursor
           /\ a.pst.of \in Ctx /\ a.pst.at \in {"first", "next"}
           /\ a.todo \subseteq Ctx /\ a.seen \subseteq Ctx /\ a.k \in Kinds
           /\ a.k \in {"timer", "resumed", "after"} => a.th \in Ctx
           /\ a.k = "start" => a.p \in Ctx
  BY DEF GoodAct, Activation, Cursor

---------------------------------------------------------------------------
(* Steps that leave the links alone.                                       *)

SameLinks(cx, cy) ==
    \A t \in Ctx : /\ cy[t].parent = cx[t].parent
                   /\ cy[t].first = cx[t].first
                   /\ cy[t].next = cx[t].next

LEMMA SameLinksFacts ==
    ASSUME NEW cx \in [Ctx -> Context], NEW cy \in [Ctx -> Context], SameLinks(cx, cy)
    PROVE  /\ \A p : From(cy, p) = From(cx, p)
           /\ \A c \in Ctx : ListOf(cy, c) = ListOf(cx, c)
           /\ \A c : Ancestors(cy, c) = Ancestors(cx, c)
           /\ \A cur \in Cursor : Deref(cy, cur) = Deref(cx, cur)
           /\ \A cur \in Cursor : Rest(cy, cur) = Rest(cx, cur)
<1>1. NextLinks(cy) = NextLinks(cx) /\ ParentLinks(cy) = ParentLinks(cx)
  BY DEF SameLinks, NextLinks, ParentLinks
<1>2. /\ \A p : From(cy, p) = From(cx, p)
      /\ \A c : Ancestors(cy, c) = Ancestors(cx, c)
  BY <1>1 DEF From, Ancestors
<1>3. \A cur \in Cursor : Deref(cy, cur) = Deref(cx, cur)
  BY DEF Deref, SameLinks, Cursor
<1>4. \A c \in Ctx : ListOf(cy, c) = ListOf(cx, c)
  BY <1>2, ListIsFrom DEF SameLinks
<1>5. \A cur \in Cursor : Rest(cy, cur) = Rest(cx, cur)
  BY <1>2, <1>3, ListIsFrom
<1> QED
  BY <1>2, <1>3, <1>4, <1>5

LEMMA TreeSame ==
    ASSUME NEW cx \in [Ctx -> Context], NEW cy \in [Ctx -> Context], SameLinks(cx, cy),
           Tree(cx), \A t \in Ctx : cx[t].live => cy[t].live
    PROVE  Tree(cy)
<1>0. \A t \in Ctx : cx[t].parent \in Ptr /\ cx[t].first \in Ptr /\ cx[t].next \in Ptr
  BY FieldValues
<1>1. LinksMatch(cy) /\ LinksDiffer(cy)
  <2>1. LinksMatch(cy)
    BY <1>0 DEF Tree, LinksMatch, SameLinks, Ptr
  <2>2. LinksDiffer(cy)
    BY <1>0 DEF Tree, LinksDiffer, SameLinks, Ptr
  <2> QED
    BY <2>1, <2>2
<1>2. AllFound(cy)
  BY <1>0, SameLinksFacts DEF Tree, AllFound, SameLinks, Ptr
<1>3. NoCycle(cy)
  BY DEF Tree, NoCycle, SameLinks
<1>4. FreedBlank(cy)
  BY <1>0 DEF Tree, FreedBlank, SameLinks, Ptr
<1> QED
  BY <1>1, <1>2, <1>3, <1>4 DEF Tree

LEMMA RunSame ==
    ASSUME NEW cx \in [Ctx -> Context], NEW cy \in [Ctx -> Context], SameLinks(cx, cy),
           NEW a \in GoodAct, NEW B, RunOK(cx, a, B), cy[a.c].live,
           a.k = "start" => /\ cy[a.c].refs = 0 /\ cy[a.c].waited = 0
                            /\ cy[a.p].held > 0 \/ \E b \in B : b.c = a.p
    PROVE  RunOK(cy, a, B)
<1>0. /\ a.pst \in Cursor /\ a.pst.of \in Ctx /\ a.todo \subseteq Ctx
      /\ a.c \in Ctx
      /\ a.k \in {"timer", "resumed", "after"} => a.th \in Ctx
  BY ActFields
<1>1. /\ \A c : Ancestors(cy, c) = Ancestors(cx, c)
      /\ Deref(cy, a.pst) = Deref(cx, a.pst) /\ Rest(cy, a.pst) = Rest(cx, a.pst)
  BY <1>0, SameLinksFacts
<1>2. a.k = "start" => StartOK(cy, a, B)
  BY <1>1 DEF RunOK, StartOK
<1>3. a.k \in PassKinds => WalkOK(cy, a)
  <2>1. ASSUME a.k \in PassKinds, a.k # "visit" PROVE a.th \in Ctx
    BY <1>0, <2>1 DEF PassKinds
  <2>2. a.k \in PassKinds => WalkOK(cx, a)
    BY DEF RunOK
  <2> QED
    BY <1>0, <1>1, <2>1, <2>2 DEF WalkOK, SameLinks
<1>4. a.k \in PassKinds => Inner(cy, a, B)
  BY <1>1 DEF RunOK, Inner
<1> QED
  BY <1>2, <1>3, <1>4 DEF RunOK

LEMMA RunsSame ==
    ASSUME NEW cx \in [Ctx -> Context], NEW cy \in [Ctx -> Context], SameLinks(cx, cy),
           NEW s \in Seq(GoodAct), Runs(cx, s),
           \A t \in Ctx : cx[t].live => cy[t].live,
           \A t \in Ctx : cx[t].held > 0 => cy[t].held > 0,
           \A t \in Ctx : Started(s, t) => cy[t].refs = 0 /\ cy[t].waited = 0
    PROVE  Runs(cy, s)
<1> SUFFICES ASSUME NEW i \in 1 .. Len(s)
             PROVE  RunOK(cy, s[i], Below(s, i))
  BY DEF Runs
<1> DEFINE a == s[i]
           B == Below(s, i)
<1>1. RunOK(cx, a, B)
  BY DEF Runs
<1>2. a \in GoodAct /\ a \in Acts(s)
  BY ActsType
<1> HIDE DEF a, B
<1>3. a.c \in Ctx /\ (a.k = "start" => a.p \in Ctx)
  BY <1>2, ActFields
<1>4. cx[a.c].live /\ (a.k = "start" => StartOK(cx, a, B))
  BY <1>1 DEF RunOK
<1>5. a.k = "start" => Started(s, a.c)
  BY <1>2 DEF Started
<1>6. a.k = "start" => cy[a.p].held > 0 \/ \E b \in B : b.c = a.p
  BY <1>3, <1>4 DEF StartOK
<1>7. RunOK(cy, a, B)
  BY <1>1, <1>2, <1>3, <1>4, <1>5, <1>6, RunSame
<1> QED
  BY <1>7 DEF a, B

(* The fields that the invariant is about.                                 *)
Alike(r, q) ==
    /\ q.live = r.live /\ q.parent = r.parent /\ q.first = r.first /\ q.next = r.next
    /\ q.refs = r.refs /\ q.held = r.held
    /\ q.timeout = r.timeout /\ q.waited = r.waited /\ q.asked = r.asked

LEMMA SoundAlike ==
    ASSUME NEW cx \in [Ctx -> Context], NEW cy \in [Ctx -> Context],
           NEW s \in Seq(GoodAct), Sound(cx, s),
           \A t \in Ctx : Alike(cx[t], cy[t])
    PROVE  Sound(cy, s)
<1>1. SameLinks(cx, cy) /\ \A t \in Ctx : cy[t].live = cx[t].live
  BY DEF SameLinks, Alike
<1>2. Tree(cy)
  BY <1>1, TreeSame DEF Sound
<1>3. Counted(cy, s)
  BY DEF Sound, Counted, Owners, Alike
<1>4. Timed(cy, s)
  BY DEF Sound, Timed, Alike
<1>5. Runs(cy, s)
  <2>1. \A t \in Ctx : Started(s, t) => cy[t].refs = 0 /\ cy[t].waited = 0
    BY StartedFacts DEF Sound, Alike
  <2>2. \A t \in Ctx : cx[t].held > 0 => cy[t].held > 0
    BY DEF Alike
  <2>3. Runs(cx, s)
    BY DEF Sound
  <2> QED
    BY <1>1, <2>1, <2>2, <2>3, RunsSame
<1> QED
  BY <1>2, <1>3, <1>4, <1>5 DEF Sound

---------------------------------------------------------------------------
(* Activations that own nothing.                                           *)

LEMMA CountedCons ==
    ASSUME NEW cx, NEW a \in GoodAct, NEW r \in Seq(GoodAct),
           a.k \notin {"start", "resume"}
    PROVE  Counted(cx, <<a>> \o r) <=> Counted(cx, r)
<1> DEFINE s == <<a>> \o r
<1>1. ASSUME NEW t PROVE Cardinality(Resumes(s, t)) = Cardinality(Resumes(r, t))
  <2>1. Cardinality(Resumes(s, t)) = Cardinality(Resumes(r, t))
               + (IF a.k = "resume" /\ a.c = t THEN 1 ELSE 0)
    BY ResumesCons
  <2>2. Cardinality(Resumes(r, t)) \in Nat
    BY ResumesFinite
  <2> QED
    BY <2>1, <2>2
<1>2. Acts(s) = {a} \cup Acts(r)
  BY ActsCons
<1>3. ASSUME NEW t PROVE Started(s, t) <=> Started(r, t)
  BY <1>2 DEF Started
<1> HIDE DEF s
<1>4. \A t \in Ctx : Owners(cx, s, t) = Owners(cx, r, t)
  BY <1>1 DEF Owners
<1>5. Counted(cx, s) <=> Counted(cx, r)
  BY <1>3, <1>4 DEF Counted
<1> QED
  BY <1>5 DEF s

LEMMA TimedCons ==
    ASSUME NEW cx, NEW a \in GoodAct, NEW r \in Seq(GoodAct), a.k # "resumed"
    PROVE  Timed(cx, <<a>> \o r) <=> Timed(cx, r)
<1> DEFINE s == <<a>> \o r
<1>1. Acts(s) = {a} \cup Acts(r)
  BY ActsCons
<1>2. ASSUME NEW t PROVE ResumedBy(s, t) <=> ResumedBy(r, t)
  BY <1>1 DEF ResumedBy
<1> HIDE DEF s
<1>3. Timed(cx, s) <=> Timed(cx, r)
  BY <1>2 DEF Timed
<1> QED
  BY <1>3 DEF s

LEMMA SoundCons ==
    ASSUME NEW cx, NEW a \in GoodAct, NEW r \in Seq(GoodAct), a.k \notin {"start", "resume", "resumed"}
    PROVE  Sound(cx, <<a>> \o r) <=>
              /\ Sound(cx, r) /\ RunOK(cx, a, Acts(r)) /\ ActOK(a)
              /\ r # <<>> => CalledBy(a, Head(r))
  BY CountedCons, TimedCons, RunsCons, CallsCons DEF Sound

---------------------------------------------------------------------------
(* A reference is dropped.                                                 *)

LEMMA DoomedFacts ==
    ASSUME NEW cx \in [Ctx -> Context], LinksMatch(cx), AllFound(cx), NEW t \in Ctx
    PROVE  /\ Doomed(cx, t) \in SUBSET Ctx
           /\ t \in Doomed(cx, t)
           /\ \A v \in Ctx : cx[v].parent \in Doomed(cx, t) /\ cx[v].refs <= 1
                                => v \in Doomed(cx, t)
           /\ \A u \in Doomed(cx, t) :
                u = t \/ (cx[u].parent \in Doomed(cx, t) /\ cx[u].refs <= 1)
<1> DEFINE R == [u \in Ctx |-> {v \in ListOf(cx, u) : cx[v].refs <= 1}]
           F == Doomed(cx, t)
           T == {u \in F : u = t \/ (cx[u].parent \in F /\ cx[u].refs <= 1)}
           S == {t}
<1>1. \A u \in Ctx : ListOf(cx, u) = {v \in Ctx : cx[v].parent = u}
  BY ListIsChildren
<1>2. R \in [Ctx -> SUBSET Ctx] /\ S \in SUBSET Ctx
  BY <1>1
<1>3. \A u, v \in Ctx : v \in R[u] <=> cx[v].parent = u /\ cx[v].refs <= 1
  BY <1>1
<1>4. F = Reachable(R, S)
  BY DEF Doomed
<1> HIDE DEF R, F
<1>5. /\ F \in SUBSET Ctx /\ S \subseteq F /\ \A u \in F : R[u] \subseteq F
      /\ \A X \in SUBSET Ctx :
            S \subseteq X /\ (\A u \in X : R[u] \subseteq X) => F \subseteq X
  BY <1>2, <1>4, ReachableFacts
<1>6. \A v \in Ctx : cx[v].parent \in F /\ cx[v].refs <= 1 => v \in F
  BY <1>3, <1>5
<1>7. F \subseteq T
  <2>1. T \in SUBSET Ctx /\ S \subseteq T
    BY <1>5
  <2>2. ASSUME NEW u \in T, NEW v \in R[u] PROVE v \in T
    <3>1. u \in F /\ v \in F /\ u \in Ctx /\ v \in Ctx
      BY <1>5, <2>2
    <3> QED
      BY <1>3, <2>2, <3>1
  <2> HIDE DEF T, S
  <2> QED
    BY <1>5, <2>1, <2>2
<1> QED
  BY <1>5, <1>6, <1>7 DEF F

(* What happens to the fields of each context.                             *)
LEMMA FreedFields ==
    ASSUME NEW cx \in [Ctx -> Context], LinksMatch(cx), AllFound(cx), NEW t \in Ctx,
           ~(cx[t].refs > 1), NEW u \in Ctx
    PROVE  LET F == Doomed(cx, t)
               q == Released(cx, t)[u]
           IN  /\ u \in F => q = NoContext
               /\ u \notin F =>
                    /\ q.live = cx[u].live /\ q.first = cx[u].first /\ q.next = cx[u].next
                    /\ q.held = cx[u].held /\ q.timeout = cx[u].timeout
                    /\ q.waited = cx[u].waited /\ q.asked = cx[u].asked
               /\ u \notin F /\ cx[u].parent \in F =>
                    q.parent = Null /\ q.refs = cx[u].refs - 1
               /\ u \notin F /\ cx[u].parent \notin F =>
                    q.parent = cx[u].parent /\ q.refs = cx[u].refs
<1> DEFINE F == Doomed(cx, t)
           r == cx[u]
           q == Released(cx, t)[u]
<1>1. \A v \in Ctx : ListOf(cx, v) = {w \in Ctx : cx[w].parent = v}
  BY ListIsChildren
<1>2. F \in SUBSET Ctx
  BY DoomedFacts
<1> HIDE DEF F
<1>3. u \in Sublists(cx, F) <=> cx[u].parent \in F
  BY <1>1, <1>2 DEF Sublists
<1>4. Released(cx, t) = [w \in Ctx |->
                IF w \in F THEN NoContext
                ELSE IF w \in Sublists(cx, F) \ F
                     THEN [cx[w] EXCEPT !.parent = Null, !.refs = @ - 1]
                     ELSE cx[w]]
  BY DEF Released, F
<1>5. q = IF u \in F THEN NoContext
          ELSE IF u \in Sublists(cx, F) \ F
               THEN [r EXCEPT !.parent = Null, !.refs = @ - 1]
               ELSE r
  BY <1>4
<1>6. LET o == [r EXCEPT !.parent = Null, !.refs = @ - 1]
      IN  /\ o.live = r.live /\ o.first = r.first /\ o.next = r.next
          /\ o.held = r.held /\ o.timeout = r.timeout
          /\ o.waited = r.waited /\ o.asked = r.asked
          /\ o.parent = Null /\ o.refs = r.refs - 1
  <2>1. r \in Context
    OBVIOUS
  <2> HIDE DEF r
  <2> QED
    BY <2>1 DEF Context
<1> HIDE DEF q, r
<1>7. /\ u \in F => q = NoContext
      /\ u \notin F =>
            /\ q.live = r.live /\ q.first = r.first /\ q.next = r.next
            /\ q.held = r.held /\ q.timeout = r.timeout
            /\ q.waited = r.waited /\ q.asked = r.asked
      /\ u \notin F /\ r.parent \in F => q.parent = Null /\ q.refs = r.refs - 1
      /\ u \notin F /\ r.parent \notin F => q.parent = r.parent /\ q.refs = r.refs
  BY <1>3, <1>5, <1>6 DEF r
<1> QED
  BY <1>7 DEF q, r, F

LEMMA SpareFields ==
    ASSUME NEW cx \in [Ctx -> Context], NEW t \in Ctx, cx[t].refs > 1, NEW u \in Ctx
    PROVE  LET q == Released(cx, t)[u]
           IN  /\ q.live = cx[u].live /\ q.parent = cx[u].parent
               /\ q.first = cx[u].first /\ q.next = cx[u].next
               /\ q.held = cx[u].held /\ q.timeout = cx[u].timeout
               /\ q.waited = cx[u].waited /\ q.asked = cx[u].asked
               /\ q.refs = IF u = t THEN cx[u].refs - 1 ELSE cx[u].refs
<1>1. Released(cx, t) = [cx EXCEPT ![t].refs = @ - 1]
  BY DEF Released
<1>2. \A r \in Context, i \in Int :
        LET q == [r EXCEPT !.refs = i]
        IN  /\ q.live = r.live /\ q.parent = r.parent
            /\ q.first = r.first /\ q.next = r.next
            /\ q.held = r.held /\ q.timeout = r.timeout
            /\ q.waited = r.waited /\ q.asked = r.asked /\ q.refs = i
  BY DEF Context
<1>3. cx[t].refs - 1 \in Int /\ cx[t] \in Context
  BY FieldValues
<1>4. Released(cx, t)[u] = IF u = t THEN [cx[t] EXCEPT !.refs = cx[t].refs - 1] ELSE cx[u]
  BY <1>1
<1> QED
  BY <1>2, <1>3, <1>4

(* The owners of t are one fewer than its count: a reference is about to   *)
(* be dropped.                                                             *)
Pending(cx, s, t) ==
    \A u \in Ctx : /\ cx[u].refs = Owners(cx, s, u) + (IF u = t THEN 1 ELSE 0)
                   /\ cx[u].live <=> (cx[u].refs > 0 \/ Started(s, u))

LEMMA LeastNatural ==
    ASSUME NEW T, T \subseteq Nat, T # {}
    PROVE  \E x \in T : \A y \in T : x <= y
<1> DEFINE B == {p \in Nat \X Nat : p[1] < p[2]}
<1>1. IsWellFoundedOn(B, Nat)
  BY NatLessThanWellFounded DEF OpToRel
<1> HIDE DEF B
<1>2. PICK x \in T : \A y \in T : <<y, x>> \notin B
  BY <1>1, WFMin
<1>3. \A y \in T : <<y, x>> \in Nat \X Nat
  OBVIOUS
<1>4. \A y \in T : ~(y < x)
  BY <1>2, <1>3 DEF B
<1> QED
  BY <1>4

(* The lowest activation of a set of them.                                 *)
LEMMA Lowest ==
    ASSUME NEW S, NEW s \in Seq(S), NEW A, \E a \in Acts(s) : a \in A
    PROVE  \E i \in 1 .. Len(s) : s[i] \in A /\ \A j \in 1 .. Len(s) : i < j => s[j] \notin A
<1> DEFINE T == {Len(s) - i : i \in {k \in 1 .. Len(s) : s[k] \in A}}
<1>0. Len(s) \in Nat
  BY LenProperties
<1>1. T \subseteq Nat /\ T # {}
  BY <1>0 DEF Acts
<1>2. PICK x \in T : \A y \in T : x <= y
  BY <1>1, LeastNatural
<1>3. PICK i \in 1 .. Len(s) : x = Len(s) - i /\ s[i] \in A
  BY <1>2
<1>4. ASSUME NEW j \in 1 .. Len(s), i < j, s[j] \in A PROVE FALSE
  <2>1. Len(s) - j \in T
    BY <1>4
  <2>2. x <= Len(s) - j
    BY <1>2, <2>1
  <2> QED
    BY <1>0, <1>3, <1>4, <2>2
<1> QED
  BY <1>3, <1>4

(* A stack that is about to lose a reference to t.                         *)
Losing(cx, s, t) ==
    /\ Tree(cx) /\ Timed(cx, s) /\ Runs(cx, s) /\ Calls(s)
    /\ Pending(cx, s, t)

LEMMA FreedOwnerless ==
    ASSUME NEW cx \in [Ctx -> Context], NEW s \in Seq(GoodAct), NEW t \in Ctx,
           Losing(cx, s, t), ~(cx[t].refs > 1), NEW u \in Doomed(cx, t)
    PROVE  /\ u \in Ctx /\ u # Root /\ cx[u].held = 0
           /\ Resumes(s, u) = {} /\ ~Started(s, u)
           /\ cx[u].parent = Null \/ (u # t /\ cx[u].parent \in Doomed(cx, t))
<1>1. u \in Ctx /\ (u = t \/ (cx[u].parent \in Doomed(cx, t) /\ cx[u].refs <= 1))
  BY DoomedFacts DEF Losing, Tree
<1>2. \A v \in Doomed(cx, t) : v \in Ctx
  BY DoomedFacts DEF Losing, Tree
<1>3. /\ cx[u].held \in Nat /\ Cardinality(Resumes(s, u)) \in Nat
      /\ IsFiniteSet(Resumes(s, u))
  BY <1>1, FieldValues, ResumesFinite
<1>4. cx[u].refs = cx[u].held + (IF cx[u].parent = Null THEN 0 ELSE 1)
        + Cardinality(Resumes(s, u)) + (IF u = Root THEN 1 ELSE 0) + (IF u = t THEN 1 ELSE 0)
  BY <1>1 DEF Losing, Pending, Owners
<1>5. cx[u].refs <= 1 /\ (u # t => cx[u].parent # Null /\ cx[u].parent \in Doomed(cx, t))
  <2>1. cx[u].refs \in Int /\ Null \notin Ctx
    BY <1>1, FieldValues, RootAssumption
  <2> QED
    BY <1>1, <1>2, <2>1
<1>6. /\ cx[u].held = 0 /\ Cardinality(Resumes(s, u)) = 0 /\ u # Root
      /\ u = t => cx[u].parent = Null
      /\ cx[u].refs > 0
  BY <1>3, <1>4, <1>5
<1>7. Resumes(s, u) = {}
  BY <1>3, <1>6, FS_EmptySet
<1>8. ~Started(s, u)
  BY <1>1, <1>6, StartedFacts DEF Losing
<1> QED
  BY <1>1, <1>5, <1>6, <1>7, <1>8

(* No activation runs in a context that is freed.                          *)
LEMMA RunningSurvive ==
    ASSUME NEW cx \in [Ctx -> Context], NEW s, StackOK(s), NEW t \in Ctx,
           Losing(cx, s, t), ~(cx[t].refs > 1), NEW a \in Acts(s)
    PROVE  a.c \notin Doomed(cx, t)
<1> DEFINE F == Doomed(cx, t)
           A == {b \in GoodAct : b.c \in F}
<1>0. s \in Seq(GoodAct) /\ s[Len(s)].c = Root /\ Len(s) \in Nat
  BY LenProperties DEF StackOK
<1>1. \A u \in F : /\ u \in Ctx /\ u # Root /\ Resumes(s, u) = {} /\ ~Started(s, u)
                   /\ cx[u].parent = Null \/ cx[u].parent \in F
  BY <1>0, FreedOwnerless
<1> HIDE DEF F
<1> SUFFICES ASSUME a.c \in F PROVE FALSE
  BY DEF F
<1>2. a \in A
  BY <1>0, ActsType
<1>3. PICK i \in 1 .. Len(s) : s[i] \in A /\ \A j \in 1 .. Len(s) : i < j => s[j] \notin A
  <2> HIDE DEF A
  <2> QED
    BY <1>0, <1>2, Lowest
<1>4. i < Len(s)
  <2>1. s[i].c # Root
    BY <1>1, <1>3
  <2> QED
    BY <1>0, <2>1
<1> DEFINE b == s[i]
           d == s[i + 1]
<1>5. /\ b \in Acts(s) /\ d \in Acts(s) /\ b \in GoodAct /\ d \in GoodAct
      /\ b.c \in F /\ d.c \notin F /\ CalledBy(b, d) /\ RunOK(cx, d, Below(s, i + 1))
  <2>1. i + 1 \in 1 .. Len(s) /\ i < i + 1
    BY <1>0, <1>4
  <2> QED
    BY <1>0, <1>3, <1>4, <2>1, ActsType DEF Losing, Calls, Runs
<1>6. b.k # "resume"
  BY <1>1, <1>3 DEF Resumes
<1>7. b.k # "start"
  BY <1>1, <1>5 DEF Started
<1> HIDE DEF b, d
<1>8. \/ d.c = b.c
      \/ d.k \in {"resumed", "timer"} /\ d.th = b.c
  BY <1>5, <1>6, <1>7 DEF CalledBy, PassKinds, GoodAct, Activation, Kinds
<1>9. d.k \in {"resumed", "timer"} => cx[d.th].parent = d.c /\ d.c \in Ctx
  BY <1>5, ActFields DEF RunOK, WalkOK, PassKinds
<1> QED
  BY <1>1, <1>5, <1>8, <1>9, RootAssumption

(* Nor does one name a context that is freed.                              *)
LEMMA NamedSurvive ==
    ASSUME NEW cx \in [Ctx -> Context], NEW s, StackOK(s), NEW t \in Ctx,
           Losing(cx, s, t), ~(cx[t].refs > 1), NEW a \in Acts(s)
    PROVE  /\ a.k \in {"timer", "resumed", "after"} => a.th \notin Doomed(cx, t)
           /\ a.k \in PassKinds => a.pst.of \notin Doomed(cx, t)
           /\ a.k = "start" => a.p \notin Doomed(cx, t)
<1> DEFINE F == Doomed(cx, t)
<1>0. s \in Seq(GoodAct) /\ a \in GoodAct
  BY ActsType DEF StackOK
<1>1. \A u \in F : /\ u \in Ctx /\ cx[u].held = 0
                   /\ cx[u].parent = Null \/ cx[u].parent \in F
  BY <1>0, FreedOwnerless
<1>2. \A b \in Acts(s) : b.c \notin F
  BY RunningSurvive
<1> HIDE DEF F
<1>3. PICK i \in 1 .. Len(s) : a = s[i]
  BY DEF Acts
<1>4. RunOK(cx, a, Below(s, i)) /\ Below(s, i) \subseteq Acts(s)
  BY <1>0, <1>3, ActsType DEF Losing, Runs
<1>5. /\ a.c \in Ctx /\ a.pst.at \in {"first", "next"} /\ Null \notin Ctx
  BY <1>0, ActFields, RootAssumption
<1>6. ASSUME a.k \in {"timer", "resumed", "after"} PROVE a.th \notin F
  <2>1. cx[a.th].parent = a.c
    BY <1>4, <1>6 DEF RunOK, WalkOK, PassKinds
  <2> QED
    BY <1>1, <1>2, <1>5, <2>1
<1>7. ASSUME a.k \in PassKinds PROVE a.pst.of \notin F
  BY <1>1, <1>2, <1>4, <1>5, <1>7 DEF RunOK, WalkOK
<1>8. ASSUME a.k = "start" PROVE a.p \notin F
  <2>1. cx[a.p].held > 0 \/ \E b \in Acts(s) : b.c = a.p
    BY <1>4, <1>8 DEF RunOK, StartOK
  <2> QED
    BY <1>1, <1>2, <2>1
<1> QED
  BY <1>6, <1>7, <1>8 DEF F

LEMMA SpareKeeps ==
    ASSUME NEW cx \in [Ctx -> Context], NEW s, StackOK(s), NEW t \in Ctx,
           Losing(cx, s, t), cx[t].refs > 1
    PROVE  Sound(Released(cx, t), s)
<1> DEFINE cy == Released(cx, t)
<1>0. cy \in [Ctx -> Context] /\ s \in Seq(GoodAct)
  BY ReleasedType DEF StackOK
<1>1. \A u \in Ctx : /\ cy[u].live = cx[u].live /\ cy[u].parent = cx[u].parent
                     /\ cy[u].first = cx[u].first /\ cy[u].next = cx[u].next
                     /\ cy[u].held = cx[u].held /\ cy[u].timeout = cx[u].timeout
                     /\ cy[u].waited = cx[u].waited /\ cy[u].asked = cx[u].asked
                     /\ cy[u].refs = IF u = t THEN cx[u].refs - 1 ELSE cx[u].refs
  BY SpareFields
<1> HIDE DEF cy
<1>2. SameLinks(cx, cy)
  BY <1>1 DEF SameLinks
<1>3. Tree(cy)
  BY <1>0, <1>1, <1>2, TreeSame DEF Losing
<1>4. Counted(cy, s)
  <2> SUFFICES ASSUME NEW u \in Ctx
               PROVE  /\ cy[u].refs = Owners(cy, s, u)
                      /\ cy[u].live <=> (cy[u].refs > 0 \/ Started(s, u))
    BY DEF Counted
  <2>1. Owners(cy, s, u) = Owners(cx, s, u)
    BY <1>1 DEF Owners
  <2>2. /\ cx[u].refs = Owners(cx, s, u) + (IF u = t THEN 1 ELSE 0)
        /\ cx[u].live <=> (cx[u].refs > 0 \/ Started(s, u))
    BY DEF Losing, Pending
  <2>3. cx[u].refs \in Int /\ Owners(cx, s, u) \in Int
    <3>1. cx[u].refs \in Int /\ cx[u].held \in Nat /\ Cardinality(Resumes(s, u)) \in Nat
      BY <1>0, FieldValues, ResumesFinite
    <3> QED
      BY <3>1 DEF Owners
  <2> QED
    BY <1>1, <2>1, <2>2, <2>3
<1>5. Timed(cy, s)
  BY <1>1 DEF Losing, Timed
<1>6. Runs(cy, s)
  <2>1. \A u \in Ctx : Started(s, u) => cy[u].refs = 0 /\ cy[u].waited = 0
    BY <1>0, <1>1, StartedFacts DEF Losing
  <2> QED
    BY <1>0, <1>1, <1>2, <2>1, RunsSame DEF Losing
<1> QED
  BY <1>3, <1>4, <1>5, <1>6 DEF Losing, Sound, cy

LEMMA FreedTree ==
    ASSUME NEW cx \in [Ctx -> Context], NEW s \in Seq(GoodAct), NEW t \in Ctx,
           Losing(cx, s, t), ~(cx[t].refs > 1)
    PROVE  Tree(Released(cx, t))
<1> DEFINE F == Doomed(cx, t)
           cy == Released(cx, t)
<1>0. /\ cy \in [Ctx -> Context]
      /\ \A u \in Ctx : cx[u].parent \in Ptr /\ cx[u].first \in Ptr /\ cx[u].next \in Ptr
      /\ Null \notin Ctx /\ Tree(cx)
  BY ReleasedType, FieldValues, RootAssumption DEF Losing
<1>1. \A u \in Ctx :
        /\ u \in F => cy[u].first = Null /\ cy[u].next = Null /\ cy[u].parent = Null
        /\ u \notin F => /\ cy[u].first = cx[u].first /\ cy[u].next = cx[u].next
                         /\ cy[u].live = cx[u].live
        /\ u \notin F /\ cx[u].parent \in F => cy[u].parent = Null
        /\ u \notin F /\ cx[u].parent \notin F => cy[u].parent = cx[u].parent
  BY <1>0, FreedFields DEF Tree, NoContext
<1>2. \A u \in F : cx[u].parent = Null \/ cx[u].parent \in F
  BY FreedOwnerless
<1>3. F \in SUBSET Ctx
  BY <1>0, DoomedFacts DEF Tree
<1> HIDE DEF F, cy
(* A thread of a context that is left is left, with its links.             *)
<1>4. \A u \in Ctx : cy[u].parent # Null => /\ u \notin F /\ cx[u].parent \notin F
                                            /\ cy[u].parent = cx[u].parent
                                            /\ cx[u].parent \in Ctx
                                            /\ cy[u].next = cx[u].next
  BY <1>0, <1>1 DEF Ptr
<1>5. \A u \in Ctx : cx[u].parent \in Ctx /\ cx[u].parent \notin F =>
                        u \notin F /\ cy[u].parent = cx[u].parent
  BY <1>0, <1>1, <1>2
<1>6. LinksMatch(cy)
  <2>1. ASSUME NEW c \in Ctx, cy[c].first # Null
        PROVE  cy[cy[c].first].parent = c
    <3>1. c \notin F /\ cy[c].first = cx[c].first /\ cx[c].first \in Ctx
      BY <1>0, <1>1, <2>1 DEF Ptr
    <3>2. cx[cx[c].first].parent = c
      BY <1>0, <2>1, <3>1 DEF Tree, LinksMatch
    <3> QED
      BY <1>5, <3>1, <3>2
  <2>2. ASSUME NEW u \in Ctx, cy[u].parent # Null, cy[u].next # Null
        PROVE  cy[cy[u].next].parent = cy[u].parent
    <3>1. cy[u].next = cx[u].next /\ cx[u].next \in Ctx /\ cx[u].parent \in Ctx
          /\ cx[u].parent \notin F /\ cy[u].parent = cx[u].parent
      BY <1>0, <1>4, <2>2 DEF Ptr
    <3>2. cx[cx[u].next].parent = cx[u].parent
      BY <1>0, <2>2, <3>1 DEF Tree, LinksMatch
    <3> QED
      BY <1>5, <3>1, <3>2
  <2> QED
    BY <2>1, <2>2 DEF LinksMatch
<1>7. LinksDiffer(cy)
  <2>1. LinksDiffer(cx)
    BY <1>0 DEF Tree
  <2>2. ASSUME NEW u \in Ctx, NEW v \in Ctx, cy[u].parent # Null, cy[v].parent # Null,
               cy[u].next # Null, cy[u].next = cy[v].next
        PROVE  u = v
    BY <1>0, <1>4, <2>1, <2>2 DEF LinksDiffer
  <2>3. ASSUME NEW u \in Ctx, NEW c \in Ctx, cy[u].parent # Null, cy[u].next # Null
        PROVE  cy[u].next # cy[c].first
    BY <1>0, <1>1, <1>4, <2>1, <2>3 DEF LinksDiffer
  <2> QED
    BY <2>2, <2>3 DEF LinksDiffer
<1>8. AllFound(cy)
  <2> SUFFICES ASSUME NEW u \in Ctx, cy[u].parent # Null
               PROVE  u \in ListOf(cy, cy[u].parent)
    BY DEF AllFound
  <2> DEFINE c == cx[u].parent
             p == cx[c].first
  <2>1. c \in Ctx /\ c \notin F /\ cy[u].parent = c /\ p \in Ptr /\ cy[c].first = p
        /\ cx[u].parent # Null
    BY <1>0, <1>1, <1>4
  <2>2. u \in From(cx, p)
    BY <1>0, <2>1, ListIsFrom DEF Tree, AllFound
  <2>3. \A v \in From(cx, p) : cx[v].parent = c
    <3>1. p # Null => cx[p].parent = c
      BY <1>0, <2>1 DEF Tree, LinksMatch
    <3> QED
      BY <1>0, <2>1, <3>1, FromIsChildren DEF Tree
  <2>4. \A v \in From(cx, p) : cy[v].next = cx[v].next
    <3>1. From(cx, p) \subseteq Ctx
      BY <2>1, FromFacts
    <3> QED
      BY <1>1, <1>5, <2>1, <2>3, <3>1
  <2>5. From(cy, p) = From(cx, p)
    BY <1>0, <2>1, <2>4, FromSame
  <2> QED
    BY <2>1, <2>2, <2>5, ListIsFrom
<1>9. NoCycle(cy)
  <2> SUFFICES ASSUME NEW S \in SUBSET Ctx, S # {}
               PROVE  \E u \in S : cy[u].parent \notin S
    BY DEF NoCycle
  <2>1. PICK u \in S : cx[u].parent \notin S
    BY <1>0 DEF Tree, NoCycle
  <2> QED
    BY <1>0, <1>4, <2>1
<1>10. FreedBlank(cy)
  <2>1. ASSUME NEW u \in Ctx, ~cy[u].live PROVE cy[u].next = Null
    BY <1>0, <1>1, <2>1 DEF Tree, FreedBlank
  <2>2. ASSUME NEW u \in Ctx, cy[u].parent # Null PROVE cy[cy[u].parent].live
    BY <1>0, <1>1, <1>4, <2>2 DEF Tree, FreedBlank
  <2> QED
    BY <2>1, <2>2 DEF FreedBlank
<1> QED
  BY <1>6, <1>7, <1>8, <1>9, <1>10 DEF Tree, cy

(* What the cursor of a walk addresses is of the list that is walked.      *)
LEMMA CursorInList ==
    ASSUME NEW cx \in [Ctx -> Context], LinksMatch(cx), NEW a \in GoodAct,
           a.pst.at = "first" => a.pst.of = a.c,
           a.pst.at = "next" => cx[a.pst.of].parent = a.c
    PROVE  /\ Deref(cx, a.pst) \in Ptr
           /\ Deref(cx, a.pst) # Null => cx[Deref(cx, a.pst)].parent = a.c
           /\ \A t \in Rest(cx, a.pst) : cx[t].parent = a.c
           /\ Rest(cx, a.pst) \in SUBSET Ctx
<1> DEFINE p == Deref(cx, a.pst)
<1>0. /\ a.c \in Ctx /\ a.pst.of \in Ctx /\ a.pst.at \in {"first", "next"}
      /\ a.c # Null
      /\ cx[a.pst.of].first \in Ptr /\ cx[a.pst.of].next \in Ptr
  BY ActFields, FieldValues, RootAssumption
<1>1. p \in Ptr
  BY <1>0 DEF Deref
<1>2. p # Null => cx[p].parent = a.c
  BY <1>0 DEF Deref, LinksMatch
<1> HIDE DEF p
<1>3. Rest(cx, a.pst) = From(cx, p)
  BY ListIsFrom DEF p
<1>4. \A t \in From(cx, p) : cx[t].parent = a.c
  BY <1>0, <1>1, <1>2, FromIsChildren
<1>5. From(cx, p) \in SUBSET Ctx
  BY <1>1, FromFacts
<1> QED
  BY <1>1, <1>2, <1>3, <1>4, <1>5 DEF p

LEMMA FreedKeeps ==
    ASSUME NEW cx \in [Ctx -> Context], NEW s, StackOK(s), NEW t \in Ctx,
           Losing(cx, s, t), ~(cx[t].refs > 1)
    PROVE  Sound(Released(cx, t), s)
<1> DEFINE F == Doomed(cx, t)
           cy == Released(cx, t)
<1>0. /\ cy \in [Ctx -> Context] /\ s \in Seq(GoodAct)
      /\ \A u \in Ctx : cx[u].parent \in Ptr
      /\ Null \notin Ctx /\ Tree(cx) /\ Tree(cy)
  BY ReleasedType, FieldValues, RootAssumption, FreedTree DEF Losing, StackOK
<1>1. \A u \in Ctx :
        /\ u \in F => cy[u] = NoContext
        /\ u \notin F =>
            /\ cy[u].live = cx[u].live /\ cy[u].first = cx[u].first
            /\ cy[u].next = cx[u].next /\ cy[u].held = cx[u].held
            /\ cy[u].timeout = cx[u].timeout /\ cy[u].waited = cx[u].waited
            /\ cy[u].asked = cx[u].asked
        /\ u \notin F /\ cx[u].parent \in F =>
            cy[u].parent = Null /\ cy[u].refs = cx[u].refs - 1
        /\ u \notin F /\ cx[u].parent \notin F =>
            cy[u].parent = cx[u].parent /\ cy[u].refs = cx[u].refs
  BY <1>0, FreedFields DEF Tree
<1>2. /\ F \in SUBSET Ctx /\ t \in F
      /\ \A v \in Ctx : cx[v].parent \in F /\ cx[v].refs <= 1 => v \in F
  BY <1>0, DoomedFacts DEF Tree
<1>3. \A u \in F : /\ u # Root /\ Resumes(s, u) = {} /\ ~Started(s, u)
                   /\ cx[u].parent = Null \/ cx[u].parent \in F
  BY <1>0, FreedOwnerless
<1>4. /\ \A a \in Acts(s) : a.c \notin F
      /\ \A a \in Acts(s) :
            /\ a.k \in {"timer", "resumed", "after"} => a.th \notin F
            /\ a.k \in PassKinds => a.pst.of \notin F
            /\ a.k = "start" => a.p \notin F
  BY RunningSurvive, NamedSurvive
<1> HIDE DEF F, cy
<1>5. \A u \in Ctx : /\ cx[u].refs \in Int /\ cx[u].held \in Nat
                     /\ Cardinality(Resumes(s, u)) \in Nat
  BY <1>0, FieldValues, ResumesFinite
<1>6. \A u \in Ctx :
        /\ cx[u].refs = cx[u].held + (IF cx[u].parent = Null THEN 0 ELSE 1)
                         + Cardinality(Resumes(s, u)) + (IF u = Root THEN 1 ELSE 0)
                         + (IF u = t THEN 1 ELSE 0)
        /\ cx[u].live <=> (cx[u].refs > 0 \/ Started(s, u))
  BY DEF Losing, Pending, Owners
<1>7. Counted(cy, s)
  <2> SUFFICES ASSUME NEW u \in Ctx
               PROVE  /\ cy[u].refs = cy[u].held + (IF cy[u].parent = Null THEN 0 ELSE 1)
                           + Cardinality(Resumes(s, u)) + (IF u = Root THEN 1 ELSE 0)
                      /\ cy[u].live <=> (cy[u].refs > 0 \/ Started(s, u))
    BY DEF Counted, Owners
  <2>1. CASE u \in F
    <3>1. cy[u].refs = 0 /\ cy[u].held = 0 /\ cy[u].parent = Null /\ ~cy[u].live
      BY <1>1, <2>1 DEF NoContext
    <3>2. Cardinality(Resumes(s, u)) = 0
      BY <1>3, <2>1, FS_EmptySet
    <3> QED
      BY <1>3, <2>1, <3>1, <3>2
  <2>2. CASE u \notin F /\ cx[u].parent \in F
    <3>1. cx[u].refs > 1 /\ u # t /\ cx[u].parent # Null
      BY <1>0, <1>2, <1>5, <2>2
    <3>2. cy[u].refs = cx[u].refs - 1 /\ cy[u].parent = Null
          /\ cy[u].held = cx[u].held /\ cy[u].live = cx[u].live
      BY <1>1, <2>2
    <3>3. /\ cx[u].refs = cx[u].held + 1 + Cardinality(Resumes(s, u))
                            + (IF u = Root THEN 1 ELSE 0)
          /\ cx[u].live
      BY <1>5, <1>6, <3>1
    <3> QED
      BY <1>5, <3>1, <3>2, <3>3
  <2>3. CASE u \notin F /\ cx[u].parent \notin F
    <3>1. u # t
      BY <1>2, <2>3
    <3>2. cy[u].refs = cx[u].refs /\ cy[u].parent = cx[u].parent
          /\ cy[u].held = cx[u].held /\ cy[u].live = cx[u].live
      BY <1>1, <2>3
    <3>3. /\ cx[u].refs = cx[u].held + (IF cx[u].parent = Null THEN 0 ELSE 1)
                           + Cardinality(Resumes(s, u)) + (IF u = Root THEN 1 ELSE 0)
      BY <1>5, <1>6, <3>1
    <3> QED
      BY <1>6, <3>2, <3>3
  <2> QED
    BY <2>1, <2>2, <2>3
<1>8. \A u \in Ctx : cy[u].parent # Null => u \notin F /\ cy[u].parent = cx[u].parent
  BY <1>1 DEF NoContext
<1>9. Timed(cy, s)
  BY <1>1, <1>8 DEF Losing, Timed
<1>10. \A c \in Ctx : Ancestors(cy, c) \subseteq Ancestors(cx, c)
  <2>1. \A u \in Ctx : cy[u].parent \in {cx[u].parent, Null}
    BY <1>8
  <2>2. ASSUME NEW c \in Ctx PROVE \A u \in Ancestors(cx, c) : u \in Ctx
    BY AncestorFacts
  <2> QED
    BY <1>0, <2>1, <2>2, AncestorsShrink
<1>11. Runs(cy, s)
  <2> SUFFICES ASSUME NEW i \in 1 .. Len(s)
               PROVE  RunOK(cy, s[i], Below(s, i))
    BY DEF Runs
  <2> DEFINE a == s[i]
             B == Below(s, i)
  <2>1. RunOK(cx, a, B) /\ a \in Acts(s) /\ a \in GoodAct /\ B \subseteq GoodAct
    BY <1>0, ActsType DEF Losing, Runs
  <2> HIDE DEF a, B
  <2>2. /\ a.c \in Ctx /\ a.p \in Ptr /\ a.th \in Ptr /\ a.pst.of \in Ctx
        /\ a.pst.at \in {"first", "next"} /\ a.todo \subseteq Ctx
        /\ a.k = "start" => a.p \in Ctx
        /\ a.c \notin F
        /\ \A b \in B : b.c \in Ctx /\ (b.k = "start" => b.p \in Ctx)
    BY <1>4, <2>1, ActFields
  <2>3. cy[a.c].live
    BY <1>1, <2>1, <2>2 DEF RunOK
  <2>4. ASSUME a.k = "start" PROVE StartOK(cy, a, B)
    <3>1. StartOK(cx, a, B) /\ a.p \notin F
      BY <1>4, <2>1, <2>4 DEF RunOK
    <3>2. cx[a.c].parent = Null
      <4> DEFINE u == a.c
      <4>1. cx[u].refs = 0
        BY <3>1 DEF StartOK
      <4>2. cx[u].refs = cx[u].held + (IF cx[u].parent = Null THEN 0 ELSE 1)
                          + Cardinality(Resumes(s, u)) + (IF u = Root THEN 1 ELSE 0)
                          + (IF u = t THEN 1 ELSE 0)
        BY <1>6, <2>2
      <4>3. cx[u].held \in Nat /\ Cardinality(Resumes(s, u)) \in Nat
        BY <1>5, <2>2
      <4> HIDE DEF u
      <4>4. cx[u].parent = Null
        BY <4>1, <4>2, <4>3
      <4> QED
        BY <4>4 DEF u
    <3>3. cy[a.c].refs = 0 /\ cy[a.c].waited = 0
      BY <1>0, <1>1, <1>2, <2>2, <3>1, <3>2 DEF StartOK
    <3>4. cy[a.p].held = cx[a.p].held
      BY <1>1, <2>2, <2>4, <3>1
    <3> QED
      BY <1>10, <2>2, <2>4, <3>1, <3>3, <3>4 DEF StartOK
  <2>5. ASSUME a.k \in PassKinds PROVE WalkOK(cy, a)
    <3>1. WalkOK(cx, a) /\ a.pst.of \notin F
      BY <1>4, <2>1, <2>5 DEF RunOK
    <3>2. a.k # "visit" => a.th \notin F /\ a.th \in Ctx /\ cx[a.th].parent = a.c
      BY <1>4, <2>1, <2>5, <3>1, ActFields DEF PassKinds, WalkOK
    <3>3. \A u \in Ctx : cx[u].parent = a.c => /\ u \notin F /\ cy[u].parent = a.c
                                                /\ cy[u].next = cx[u].next
      BY <1>0, <1>1, <1>3, <2>2
    <3>4. Deref(cy, a.pst) = Deref(cx, a.pst)
      BY <1>1, <2>2, <3>1 DEF Deref
    <3>5. /\ Deref(cx, a.pst) \in Ptr /\ Rest(cx, a.pst) \in SUBSET Ctx
          /\ \A u \in Rest(cx, a.pst) : cx[u].parent = a.c
      BY <1>0, <2>1, <3>1, CursorInList DEF WalkOK, Tree
    <3>6. Rest(cy, a.pst) = Rest(cx, a.pst)
      <4> DEFINE p == Deref(cx, a.pst)
      <4>1. Rest(cx, a.pst) = From(cx, p) /\ Rest(cy, a.pst) = From(cy, p)
        BY <3>4, ListIsFrom
      <4> HIDE DEF p
      <4>2. \A u \in From(cx, p) : cy[u].next = cx[u].next
        BY <3>3, <3>5, <4>1
      <4>3. p \in Ptr
        BY <3>5 DEF p
      <4> QED
        BY <1>0, <4>1, <4>2, <4>3, FromSame
    <3>7. \A u \in a.todo \ a.seen : cy[u].parent = a.c /\ u \in Rest(cy, a.pst)
      BY <2>2, <3>1, <3>3, <3>6 DEF WalkOK
    <3>8. a.k # "visit" => cy[a.th].parent = a.c /\ Deref(cy, a.pst) = a.th
      BY <3>1, <3>2, <3>3, <3>4 DEF WalkOK
    <3>9. a.pst.at = "next" => cy[a.pst.of].parent = a.c
      BY <2>2, <3>1, <3>3 DEF WalkOK
    <3> QED
      BY <3>1, <3>6, <3>7, <3>8, <3>9 DEF WalkOK
  <2>6. ASSUME a.k \in PassKinds PROVE Inner(cy, a, B)
    BY <1>10, <2>1, <2>2, <2>6 DEF RunOK, Inner
  <2>7. RunOK(cy, a, B)
    BY <2>3, <2>4, <2>5, <2>6 DEF RunOK
  <2> QED
    BY <2>7 DEF a, B
<1> QED
  BY <1>0, <1>7, <1>9, <1>11 DEF Losing, Sound, cy

(* Dropping a reference keeps what is known of the stack.                  *)
LEMMA ReleasedKeeps ==
    ASSUME NEW cx \in [Ctx -> Context], NEW s, StackOK(s), NEW t \in Ctx, Losing(cx, s, t)
    PROVE  Sound(Released(cx, t), s)
  BY SpareKeeps, FreedKeeps

---------------------------------------------------------------------------
(* The steps.                                                              *)

LEMMA StackSplit ==
    ASSUME LInv
    PROVE  /\ ctx \in [Ctx -> Context] /\ cstack \in Seq(GoodAct) /\ cstack # <<>>
           /\ Top \in GoodAct /\ Tail(cstack) \in Seq(GoodAct)
           /\ cstack = <<Top>> \o Tail(cstack)
           /\ Acts(cstack) = {Top} \cup Acts(Tail(cstack))
           /\ Tree(ctx) /\ Counted(ctx, cstack) /\ Timed(ctx, cstack)
           /\ Runs(ctx, Tail(cstack)) /\ Calls(Tail(cstack))
           /\ RunOK(ctx, Top, Acts(Tail(cstack))) /\ ActOK(Top)
           /\ Tail(cstack) # <<>> => CalledBy(Top, Head(Tail(cstack)))
           /\ Runs(ctx, cstack) /\ Calls(cstack)
<1> DEFINE r == Tail(cstack)
<1>1. /\ ctx \in [Ctx -> Context] /\ cstack \in Seq(GoodAct) /\ cstack # <<>>
      /\ Top \in GoodAct /\ r \in Seq(GoodAct)
  BY TopType DEF LInv, IInv, StackOK
<1>2. cstack = <<Top>> \o r
  BY <1>1 DEF Top
<1>3. Sound(ctx, <<Top>> \o r)
  BY <1>2 DEF LInv
<1> HIDE DEF r
<1>4. Acts(<<Top>> \o r) = {Top} \cup Acts(r)
  BY <1>1, ActsCons
<1>5. Runs(ctx, r) /\ RunOK(ctx, Top, Acts(r))
  BY <1>1, <1>3, RunsCons DEF Sound
<1>6. ActOK(Top) /\ Calls(r) /\ (r # <<>> => CalledBy(Top, Head(r)))
  BY <1>1, <1>3, CallsCons DEF Sound
<1> QED
  BY <1>1, <1>2, <1>3, <1>4, <1>5, <1>6 DEF Sound, r

LEMMA AlikeSteps ==
    ASSUME LInv, IInv', cstack' = cstack, \A t \in Ctx : Alike(ctx[t], ctx'[t])
    PROVE  Sound(ctx', cstack')
<1>1. ctx' \in [Ctx -> Context]
  BY DEF IInv
<1> QED
  BY <1>1, StackSplit, SoundAlike DEF LInv

LEMMA RecordAlike ==
    ASSUME NEW r \in Context
    PROVE  /\ Alike(r, r)
           /\ \A v : Alike(r, [r EXCEPT !.endOn = v])
           /\ \A v : Alike(r, [r EXCEPT !.aborted = v])
           /\ \A v : Alike(r, [r EXCEPT !.exec = v])
           /\ Alike(r, [r EXCEPT !.exec = "none", !.aborted = FALSE])
  BY DEF Alike, Context

LEMMA FinishedAlike ==
    ASSUME NEW cx \in [Ctx -> Context], NEW t \in Ctx, NEW u \in Ctx
    PROVE  Alike(cx[u], Finished(cx, t)[u])
<1>1. Finished(cx, t)[u] = IF u = t THEN [cx[t] EXCEPT !.exec = "none", !.aborted = FALSE]
                           ELSE cx[u]
  BY DEF Finished
<1> QED
  BY <1>1, RecordAlike

LEMMA AbortedAlike ==
    ASSUME NEW cx \in [Ctx -> Context], NEW t \in Ctx, NEW u \in Ctx
    PROVE  Alike(cx[u], Aborted(cx, t)[u])
<1> DEFINE v == cx[t].aborted \/ cx[t].exec \in {"running", "paused"}
           q == [cx[t] EXCEPT !.aborted = v]
<1>1. Aborted(cx, t)[u] = IF u = t THEN q ELSE cx[u]
  BY DEF Aborted
<1>2. Alike(cx[t], q) /\ Alike(cx[u], cx[u])
  <2>1. cx[t] \in Context /\ cx[u] \in Context
    OBVIOUS
  <2> HIDE DEF v
  <2> QED
    BY <2>1, RecordAlike
<1> HIDE DEF q
<1> QED
  BY <1>1, <1>2

LEMMA FlagSteps ==
    ASSUME LInv, IInv',
           \/ \E t \in Ctx : CoResumeAborted(t) \/ Abort(t) \/ \E b \in BOOLEAN : EndOn(t, b)
           \/ \E b \in BOOLEAN : Signal(b)
    PROVE  Sound(ctx', cstack')
<1>0. ctx \in [Ctx -> Context]
  BY StackSplit
<1>1. ASSUME NEW t \in Ctx, CoResumeAborted(t) PROVE Sound(ctx', cstack')
  BY <1>0, <1>1, FinishedAlike, AlikeSteps DEF CoResumeAborted
<1>2. ASSUME NEW t \in Ctx, Abort(t) PROVE Sound(ctx', cstack')
  BY <1>0, <1>2, AbortedAlike, AlikeSteps DEF Abort
<1>3. ASSUME NEW t \in Ctx, NEW b \in BOOLEAN, EndOn(t, b) PROVE Sound(ctx', cstack')
  <2>1. ctx' = [ctx EXCEPT ![t] = [ctx[t] EXCEPT !.endOn = b]]
    BY <1>3 DEF EndOn
  <2>2. \A u \in Ctx : Alike(ctx[u], ctx'[u])
    BY <1>0, <2>1, RecordAlike
  <2> QED
    BY <1>3, <2>2, AlikeSteps DEF EndOn
<1>4. ASSUME NEW b \in BOOLEAN, Signal(b) PROVE Sound(ctx', cstack')
  BY <1>0, <1>4, RecordAlike, AlikeSteps DEF Signal
<1> QED
  BY <1>1, <1>2, <1>3, <1>4

(* The value that an activation is handed is of no account.                *)
LEMMA RunVal ==
    ASSUME NEW cx, NEW a \in GoodAct, NEW v \in Nat, NEW B
    PROVE  LET b == [a EXCEPT !.val = v]
           IN  /\ b \in GoodAct
               /\ b.k = a.k /\ b.c = a.c /\ b.p = a.p /\ b.th = a.th
               /\ RunOK(cx, a, B) => RunOK(cx, b, B)
               /\ ActOK(a) => ActOK(b)
               /\ \A d : CalledBy(a, d) => CalledBy(b, d)
<1> DEFINE b == [a EXCEPT !.val = v]
<1>1. /\ b \in GoodAct
      /\ b.k = a.k /\ b.c = a.c /\ b.p = a.p /\ b.th = a.th /\ b.pst = a.pst
      /\ b.todo = a.todo /\ b.seen = a.seen
  BY DEF GoodAct, Activation
<1> HIDE DEF b
<1>2. RunOK(cx, a, B) => RunOK(cx, b, B)
  BY <1>1 DEF RunOK, StartOK, WalkOK, Inner
<1>3. /\ ActOK(a) => ActOK(b)
      /\ \A d : CalledBy(a, d) => CalledBy(b, d)
  BY <1>1 DEF ActOK, CalledBy
<1> QED
  BY <1>1, <1>2, <1>3 DEF b

LEMMA HeadAlike ==
    ASSUME NEW cx, NEW a \in GoodAct, NEW b \in GoodAct, NEW r \in Seq(GoodAct),
           b.k = a.k, b.c = a.c, b.p = a.p, b.th = a.th
    PROVE  /\ Counted(cx, <<a>> \o r) => Counted(cx, <<b>> \o r)
           /\ Timed(cx, <<a>> \o r) => Timed(cx, <<b>> \o r)
<1> DEFINE s == <<a>> \o r
           q == <<b>> \o r
<1>1. Acts(s) = {a} \cup Acts(r) /\ Acts(q) = {b} \cup Acts(r)
  <2>1. \A d \in GoodAct : Acts(<<d>> \o r) = {d} \cup Acts(r)
    BY ActsCons
  <2> QED
    BY <2>1
<1>2. ASSUME NEW t PROVE Cardinality(Resumes(s, t)) = Cardinality(Resumes(q, t))
  <2>1. Cardinality(Resumes(s, t)) = Cardinality(Resumes(r, t))
               + (IF a.k = "resume" /\ a.c = t THEN 1 ELSE 0)
    BY ResumesCons
  <2>2. Cardinality(Resumes(q, t)) = Cardinality(Resumes(r, t))
               + (IF b.k = "resume" /\ b.c = t THEN 1 ELSE 0)
    BY ResumesCons
  <2> QED
    BY <2>1, <2>2
<1> HIDE DEF s, q
<1>3. ASSUME NEW t PROVE /\ Started(s, t) <=> Started(q, t)
                         /\ ResumedBy(s, t) <=> ResumedBy(q, t)
  BY <1>1 DEF Started, ResumedBy
<1>4. Counted(cx, s) => Counted(cx, q)
  BY <1>2, <1>3 DEF Counted, Owners
<1>5. Timed(cx, s) => Timed(cx, q)
  BY <1>3 DEF Timed
<1> QED
  BY <1>4, <1>5 DEF s, q

(* The innermost activation owns nothing: without it all is as well.       *)
LEMMA PopSound ==
    ASSUME LInv, Top.k \notin {"start", "resume", "resumed"}
    PROVE  Sound(ctx, Tail(cstack))
<1> DEFINE r == Tail(cstack)
<1>1. /\ cstack = <<Top>> \o r /\ Top \in GoodAct /\ r \in Seq(GoodAct)
      /\ Tree(ctx) /\ Counted(ctx, cstack) /\ Timed(ctx, cstack)
      /\ Runs(ctx, r) /\ Calls(r)
  BY StackSplit
<1> HIDE DEF r
<1>2. Counted(ctx, r)
  BY <1>1, CountedCons
<1>3. Timed(ctx, r)
  BY <1>1, TimedCons
<1> QED
  BY <1>1, <1>2, <1>3 DEF Sound, r

LEMMA PopWithSound ==
    ASSUME LInv, Top.k = "script", Top.c # Root, NEW v \in Nat
    PROVE  Sound(ctx, PopWith(v))
<1> DEFINE r == Tail(cstack)
           a == Head(r)
           b == [a EXCEPT !.val = v]
           q == Tail(r)
<1>1. r # <<>> /\ r \in Seq(GoodAct) /\ a \in GoodAct /\ q \in Seq(GoodAct)
  BY HasCaller, StackSplit DEF LInv
<1>2. r = <<a>> \o q
  BY <1>1
<1>3. Sound(ctx, <<a>> \o q)
  BY <1>2, PopSound
<1>4. PopWith(v) = <<b>> \o q
  BY DEF PopWith
<1> HIDE DEF a, q, r
<1>5. RunOK(ctx, a, Acts(q)) /\ Runs(ctx, q) /\ ActOK(a) /\ Calls(q)
      /\ (q # <<>> => CalledBy(a, Head(q)))
  BY <1>1, <1>3, RunsCons, CallsCons DEF Sound
<1>6. /\ b \in GoodAct /\ b.k = a.k /\ b.c = a.c /\ b.p = a.p /\ b.th = a.th
      /\ RunOK(ctx, b, Acts(q)) /\ ActOK(b) /\ (q # <<>> => CalledBy(b, Head(q)))
  BY <1>1, <1>5, RunVal
<1> HIDE DEF b
<1>7. Counted(ctx, <<b>> \o q) /\ Timed(ctx, <<b>> \o q)
  BY <1>1, <1>3, <1>6, HeadAlike DEF Sound
<1>8. Runs(ctx, <<b>> \o q) /\ Calls(<<b>> \o q)
  BY <1>1, <1>5, <1>6, RunsCons, CallsCons
<1> QED
  BY <1>3, <1>4, <1>7, <1>8 DEF Sound

LEMMA StopSteps ==
    ASSUME LInv, IInv', ScriptStops
    PROVE  Sound(ctx', cstack')
<1>0. /\ ctx \in [Ctx -> Context] /\ ctx' \in [Ctx -> Context]
      /\ cstack' \in Seq(GoodAct) /\ Top.c \in Ctx
  BY StackSplit, TopFields DEF IInv, StackOK, LInv
<1>1. PICK v \in Timeouts \cup {0} : Yield(v) \/ Return(v)
  BY DEF ScriptStops
<1>2. v \in Nat
  BY <1>1, TimeAssumption
<1>3. cstack' = PopWith(v) /\ Top.k = "script" /\ Top.c # Root
  BY <1>1 DEF Yield, Return, Script
<1>4. Sound(ctx, cstack')
  BY <1>2, <1>3, PopWithSound
<1>5. \A u \in Ctx : Alike(ctx[u], ctx'[u])
  <2>1. CASE Yield(v)
    <3>1. ctx' = [ctx EXCEPT ![Top.c] = [ctx[Top.c] EXCEPT !.exec = "paused"]]
      BY <2>1 DEF Yield
    <3> QED
      BY <1>0, <3>1, RecordAlike
  <2>2. CASE Return(v)
    BY <1>0, <2>2, FinishedAlike DEF Return
  <2> QED
    BY <1>1, <2>1, <2>2
<1> QED
  BY <1>0, <1>4, <1>5, SoundAlike
=============================================================================
