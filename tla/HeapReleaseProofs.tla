------------------------- MODULE HeapReleaseProofs -------------------------
(***************************************************************************)
(* The inductive invariant of ObjectHeap, and the steps that release:      *)
(* destructors, the pool, the sweep, the destruction of contexts and the   *)
(* rounds of sgs_DestroyEngine.                                            *)
(*                                                                         *)
(* The invariant HeapInv has a part for the references (Clean, Counted),   *)
(* for the list of contexts (Enlisted), for the C calls under way (Shape,  *)
(* Fits), for the colours of a sweep (Coloured) and for the rounds         *)
(* (TopFits, Gone).  The parts are operators of the tables they are about, *)
(* because an action changes the tables in several steps.                  *)
(***************************************************************************)
EXTENDS ObjectHeap, FiniteSetTheorems, SequenceTheorems, WellFoundedInduction, TLAPS

---------------------------------------------------------------------------
(* How often v is referred to.                                             *)
ObjPlaces(os, v) == {pl \in Obj \X Field : os[pl[1]].ref[pl[2]] = v}
CtxPlaces(cs, v) == {pl \in Ctx \X Slot : cs[pl[1]].ref[pl[2]] = v}
Count(os, cs, ar, v) ==
    Cardinality(ObjPlaces(os, v)) + Cardinality(CtxPlaces(cs, v)) + (IF ar = v THEN 1 ELSE 0)

(* The calls under way, and what they add to the count of a context.       *)
Under(cl) == {cl[i] : i \in 1 .. Len(cl)}
Busy(cl, k) == \E f \in Under(cl) : f.k = k
Kept(cl, c) == \E f \in Under(cl) : f.k \in {"free", "safe"} /\ f.x = c
Holds(cl, en) == en = "up" \/ \E f \in Under(cl) : f.k \in {"clear", "next", "pick"}
Extra(cl, en, c) ==
    (IF Kept(cl, c) THEN 1 ELSE 0) + (IF c = Root /\ Holds(cl, en) THEN 1 ELSE 0)

Counted(os, cs, ar, cl, en) ==
    /\ \A o \in Obj : os[o].live => os[o].rc = Count(os, cs, ar, o)
    /\ \A c \in Ctx : cs[c].live => cs[c].rc = Count(os, cs, ar, c) + Extra(cl, en, c)

(* Freed blocks refer to nothing, and nothing refers to them or to the     *)
(* root context.                                                           *)
Alive(os, cs, v) ==
    /\ v # Root
    /\ v \in Obj => os[v].live
    /\ v \in Ctx => cs[v].live
Clean(os, cs, ar) ==
    /\ \A o \in Obj, f \in Field : Alive(os, cs, os[o].ref[f])
    /\ \A c \in Ctx, s \in Slot : Alive(os, cs, cs[c].ref[s])
    /\ Alive(os, cs, ar)
    /\ \A o \in Obj, f \in Field : ~os[o].live => os[o].ref[f] = Null
    /\ \A c \in Ctx, s \in Slot : ~cs[c].live => cs[c].ref[s] = Null

(* The list of contexts.                                                   *)
Enlisted(cs, st, en) ==
    /\ \A i, j \in 1 .. Len(st) : st[i] = st[j] => i = j
    /\ \A c \in Ctx : cs[c].live <=> \E i \in 1 .. Len(st) : st[i] = c
    /\ en = "up" => cs[Root].live /\ cs[Root].ref["_G"] = Global

(* Which call makes which, and which are made first.                       *)
Makes(below, k) ==
    CASE k = "destroy"  -> below \in {"destroy", "destruct", "free", "safe", "gc"}
      [] k = "free"     -> below \in {"destroy", "destruct", "free", "safe"}
      [] k = "drop"     -> below \in {"destroy", "destruct", "free", "safe", "round"}
      [] k = "destruct" -> below = "sweep"
      [] k = "safe"     -> below = "next"
      [] k \in {"gc", "sweep"} -> below \in {"pick", "last"}
      [] k = "last"     -> below = "round"
      [] OTHER -> FALSE
First(k, en) ==
    CASE en = "up"      -> k \in {"destroy", "free", "drop", "gc", "sweep"}
      [] en = "closing" -> k \in {"round", "clear", "next", "pick", "forced"}
      [] OTHER -> FALSE
Chain(cl) ==
    \A i \in 1 .. Len(cl) - 1 : /\ Makes(cl[i + 1].k, cl[i].k)
                                /\ cl[i].k = "safe" => cl[i + 1].x = cl[i].x
Based(cl, en) ==
    IF cl = <<>> THEN en \in {"up", "down"} ELSE First(cl[Len(cl)].k, en)
Shape(cl, en, gr) ==
    /\ Chain(cl) /\ Based(cl, en)
    /\ gr <=> Busy(cl, "sweep")
    /\ gr => ~Busy(cl, "destroy")

Marked(os, rb) == {o \in Obj : os[o].live /\ os[o].mark = rb}
LiveIn(os) == {o \in Obj : os[o].live}
Closed(os, S) == \A o \in S, f \in Field : os[o].ref[f] \in Obj => os[o].ref[f] \in S

(* M is in every set that holds the array interface and all that the       *)
(* members of the set refer to.                                            *)
Grounded(os, ar, M) ==
    \A S \in SUBSET Obj : (ar \in Obj => ar \in S) /\ Closed(os, S) => M \subseteq S

Bare(cs, c) == \A s \in Slot : cs[c].ref[s] = Null
AllBare(cs) == \A c \in Ctx : Bare(cs, c)
BareBefore(cs, st, c) ==
    \A i, j \in 1 .. Len(st) : i < j /\ st[j] = c => Bare(cs, st[i])
InList(st, c) == \E i \in 1 .. Len(st) : st[i] = c
Tidy(os, cs, ar) == AllBare(cs) /\ Grounded(os, ar, LiveIn(os))

(* What a call under way relies on.  While calls are nested the root       *)
(* context is there, so that no nested call destroys the last context.     *)
FrameFits(os, cs, st, ar, rb, gr, f) ==
    CASE f.k = "destroy"  -> os[f.x].live /\ Count(os, cs, ar, f.x) = 0
      [] f.k = "destruct" -> os[f.x].live /\ os[f.x].mark # rb
      [] f.k = "free"     -> /\ cs[f.x].live /\ Count(os, cs, ar, f.x) = 0
                             /\ InList(st, Root) /\ f.x # Root
      [] f.k = "drop"     -> cs[f.x].live /\ Count(os, cs, ar, f.x) = 0 /\ Bare(cs, f.x)
      [] f.k = "last"     -> /\ st = <<f.x>> /\ ar = Null /\ AllBare(cs)
                             /\ \A o \in Obj, g \in Field : os[o].ref[g] \notin Ctx
      [] f.k = "safe"     -> cs[f.x].live
      [] f.k \in {"clear", "next"} -> cs[f.x].live /\ BareBefore(cs, st, f.x)
      [] f.k = "sweep"    -> \A o \in f.todo : os[o].live /\ os[o].mark # rb
      [] f.k = "pick"     -> AllBare(cs) /\ (gr => Grounded(os, ar, Marked(os, rb)))
      [] OTHER -> TRUE

(* A block is the business of one call.                                    *)
Clash(f, g) ==
    /\ f.x = g.x
    /\ \/ {f.k, g.k} \subseteq {"destroy", "destruct"}
       \/ {f.k, g.k} \subseteq {"free", "safe", "drop", "last"}
Apart(cl) == \A i, j \in 1 .. Len(cl) : Clash(cl[i], cl[j]) => i = j
Fits(os, cs, st, ar, rb, gr, cl) ==
    /\ \A f \in Under(cl) : FrameFits(os, cs, st, ar, rb, gr, f)
    /\ Apart(cl)

(* A sweep: what it has found refers to what it has found only, and what   *)
(* it has destructed refers to nothing.                                    *)
Visited(os, cl, o) ==
    \/ \A f \in Field : os[o].ref[f] = Null
    \/ \E f \in Under(cl) : \/ f.k = "destruct" /\ f.x = o
                            \/ f.k = "sweep" /\ o \in f.todo
Coloured(os, cs, ar, rb, gr, cl) ==
    IF gr
    THEN /\ Closed(os, Marked(os, rb))
         /\ \A c \in Ctx, s \in Slot : cs[c].ref[s] \in Obj => cs[c].ref[s] \in Marked(os, rb)
         /\ ar \in Obj => ar \in Marked(os, rb)
         /\ \A o \in Obj : os[o].live /\ os[o].mark # rb => Visited(os, cl, o)
         /\ \A o \in Marked(os, rb) : ~os[o].done
    ELSE \A o \in Obj : os[o].live => os[o].mark = rb /\ ~os[o].done

(* The rounds of sgs_DestroyEngine: when a context is picked nothing is    *)
(* left but what the array interface reaches, and it stays so when the     *)
(* root context is gone.                                                   *)
TopFits(os, cs, st, ar, cl) ==
    cl # <<>> =>
        /\ cl[1].k = "next" => Bare(cs, cl[1].x)
        /\ cl[1].k = "pick" => Tidy(os, cs, ar)
        /\ cl[1].k = "drop" =>
              IF Len(cl) > 1 /\ cl[2].k = "round" THEN Tidy(os, cs, ar)
              ELSE InList(st, Root) /\ cl[1].x # Root
Gone(os, cs, st, ar, cl) ==
    ~InList(st, Root) =>
        AllBare(cs) /\ (st = <<>> \/ Busy(cl, "last") \/ Tidy(os, cs, ar))

Laid(os, cs, st, ar, rb, gr, cl, en) ==
    /\ Clean(os, cs, ar) /\ Enlisted(cs, st, en) /\ Shape(cl, en, gr)
    /\ Fits(os, cs, st, ar, rb, gr, cl) /\ Coloured(os, cs, ar, rb, gr, cl)
    /\ TopFits(os, cs, st, ar, cl) /\ Gone(os, cs, st, ar, cl)
Sound(os, cs, st, ar, rb, gr, cl, en) ==
    Laid(os, cs, st, ar, rb, gr, cl, en) /\ Counted(os, cs, ar, cl, en)

(* The pool is sorted and holds free blocks, each once.                    *)
Ordered(p) ==
    /\ Len(p) <= PoolMax
    /\ \A i, j \in 1 .. Len(p) : i < j => Size[p[i]] <= Size[p[j]] /\ p[i] # p[j]
PoolFree(os, p) == Ordered(p) /\ \A i \in 1 .. Len(p) : ~os[p[i]].live

HeapInv ==
    /\ TypeOK
    /\ Sound(obj, context, states, array, redblue, gcrun, calls, engine)
    /\ PoolFree(obj, pool)

---------------------------------------------------------------------------
(* Fields.                                                                 *)
Objects == [Obj -> Object]
Contexts == [Ctx -> Context]

LEMMA ObjectFields ==
    ASSUME NEW os \in Objects, NEW o \in Obj
    PROVE  /\ os[o] \in Object
           /\ os[o].live \in BOOLEAN /\ os[o].done \in BOOLEAN /\ os[o].mark \in BOOLEAN
           /\ os[o].rc \in Int /\ os[o].ref \in [Field -> Val]
           /\ \A f \in Field : os[o].ref[f] \in Val
BY DEF Objects, Object

LEMMA ContextFields ==
    ASSUME NEW cs \in Contexts, NEW c \in Ctx
    PROVE  /\ cs[c] \in Context
           /\ cs[c].live \in BOOLEAN /\ cs[c].destroying \in BOOLEAN
           /\ cs[c].rc \in Int /\ cs[c].ref \in [Slot -> Val]
           /\ \A s \in Slot : cs[c].ref[s] \in Val
BY DEF Contexts, Context

LEMMA Names ==
    /\ Null \notin Obj /\ Null \notin Ctx /\ Root \in Ctx /\ Array \in Obj /\ Global \in Obj
    /\ \A x \in Obj : x \notin Ctx
    /\ Root # Null /\ "_G" \in Slot /\ "sub" \in Slot
    /\ "_G" \notin Var /\ "sub" \notin Var
BY NameAssumption DEF Slot

---------------------------------------------------------------------------
(* Counting.                                                               *)
Bit(b) == IF b THEN 1 ELSE 0

LEMMA PlacesFinite ==
    ASSUME NEW os, NEW cs, NEW v
    PROVE  IsFiniteSet(ObjPlaces(os, v)) /\ IsFiniteSet(CtxPlaces(cs, v))
<1>1. IsFiniteSet(Obj \X Field)
  BY FiniteAssumption, FS_Product
<1>2. IsFiniteSet(Slot)
  <2>1. IsFiniteSet({"_G", "sub"})
    <3>1. IsFiniteSet({"_G"})
      BY FS_Singleton
    <3>2. IsFiniteSet({"_G"} \cup {"sub"})
      BY <3>1, FS_AddElement
    <3>3. {"_G"} \cup {"sub"} = {"_G", "sub"}
      OBVIOUS
    <3> QED
      BY <3>2, <3>3
  <2> QED
    BY <2>1, FiniteAssumption, FS_Union DEF Slot
<1>3. IsFiniteSet(Ctx \X Slot)
  BY <1>2, FiniteAssumption, FS_Product
<1>4. ObjPlaces(os, v) \in SUBSET (Obj \X Field)
  BY DEF ObjPlaces
<1>5. CtxPlaces(cs, v) \in SUBSET (Ctx \X Slot)
  BY DEF CtxPlaces
<1>6. IsFiniteSet(ObjPlaces(os, v))
  BY <1>1, <1>4, FS_Subset
<1>7. IsFiniteSet(CtxPlaces(cs, v))
  BY <1>3, <1>5, FS_Subset
<1> QED
  BY <1>6, <1>7

LEMMA PlacesNumber ==
    ASSUME NEW os, NEW cs, NEW v
    PROVE  Cardinality(ObjPlaces(os, v)) \in Nat /\ Cardinality(CtxPlaces(cs, v)) \in Nat
<1>1. Cardinality(ObjPlaces(os, v)) \in Nat
  BY PlacesFinite, FS_CardinalityType
<1>2. Cardinality(CtxPlaces(cs, v)) \in Nat
  BY PlacesFinite, FS_CardinalityType
<1> QED
  BY <1>1, <1>2

LEMMA CountType ==
    ASSUME NEW os, NEW cs, NEW ar, NEW v
    PROVE  Count(os, cs, ar, v) \in Nat
<1> DEFINE m == Cardinality(ObjPlaces(os, v))
           n == Cardinality(CtxPlaces(cs, v))
<1>1. m \in Nat /\ n \in Nat
  BY PlacesNumber
<1>2. Count(os, cs, ar, v) = m + n + (IF ar = v THEN 1 ELSE 0)
  BY DEF Count
<1> HIDE DEF m, n
<1> QED
  BY <1>1, <1>2

(* What nothing refers to has no places.                                   *)
NoRefs(os, cs, ar, v) ==
    /\ \A o \in Obj, f \in Field : os[o].ref[f] # v
    /\ \A c \in Ctx, s \in Slot : cs[c].ref[s] # v
    /\ ar # v

LEMMA CountZero ==
    ASSUME NEW os, NEW cs, NEW ar, NEW v
    PROVE  Count(os, cs, ar, v) = 0 <=> NoRefs(os, cs, ar, v)
<1> DEFINE m == Cardinality(ObjPlaces(os, v))
           n == Cardinality(CtxPlaces(cs, v))
           P == ObjPlaces(os, v)
           Q == CtxPlaces(cs, v)
<1>1. m \in Nat /\ n \in Nat
  BY PlacesNumber
<1>2. Count(os, cs, ar, v) = m + n + (IF ar = v THEN 1 ELSE 0)
  BY DEF Count
<1>3. m = 0 <=> P = {}
  <2>1. IsFiniteSet(P)
    BY PlacesFinite
  <2> HIDE DEF P
  <2>2. Cardinality(P) = 0 <=> P = {}
    BY <2>1, FS_EmptySet
  <2> QED
    BY <2>2 DEF P
<1>4. n = 0 <=> Q = {}
  <2>1. IsFiniteSet(Q)
    BY PlacesFinite
  <2> HIDE DEF Q
  <2>2. Cardinality(Q) = 0 <=> Q = {}
    BY <2>1, FS_EmptySet
  <2> QED
    BY <2>2 DEF Q
<1>5. P = {} <=> \A o \in Obj, f \in Field : os[o].ref[f] # v
  <2>1. \A o \in Obj, f \in Field : <<o, f>> \in P <=> os[o].ref[f] = v
    BY DEF ObjPlaces
  <2>2. \A pl \in P : \E o \in Obj, f \in Field : pl = <<o, f>>
    BY DEF ObjPlaces
  <2> HIDE DEF P
  <2>3. ASSUME P = {}, NEW o \in Obj, NEW f \in Field PROVE os[o].ref[f] # v
    BY <2>1, <2>3
  <2>4. ASSUME \A o \in Obj, f \in Field : os[o].ref[f] # v, NEW pl \in P PROVE FALSE
    BY <2>1, <2>2, <2>4
  <2> QED
    BY <2>3, <2>4
<1>6. Q = {} <=> \A c \in Ctx, s \in Slot : cs[c].ref[s] # v
  <2>1. \A c \in Ctx, s \in Slot : <<c, s>> \in Q <=> cs[c].ref[s] = v
    BY DEF CtxPlaces
  <2>2. \A pl \in Q : \E c \in Ctx, s \in Slot : pl = <<c, s>>
    BY DEF CtxPlaces
  <2> HIDE DEF Q
  <2>3. ASSUME Q = {}, NEW c \in Ctx, NEW s \in Slot PROVE cs[c].ref[s] # v
    BY <2>1, <2>3
  <2>4. ASSUME \A c \in Ctx, s \in Slot : cs[c].ref[s] # v, NEW pl \in Q PROVE FALSE
    BY <2>1, <2>2, <2>4
  <2> QED
    BY <2>3, <2>4
<1> HIDE DEF m, n, P, Q
<1>7. m + n + (IF ar = v THEN 1 ELSE 0) = 0 <=> m = 0 /\ n = 0 /\ ar # v
  BY <1>1
<1> QED
  BY <1>2, <1>3, <1>4, <1>5, <1>6, <1>7 DEF NoRefs

(* One place of an object gets another value.                              *)
ObjChanged(os, os2, x, f) ==
    \A o \in Obj, g \in Field : <<o, g>> # <<x, f>> => os2[o].ref[g] = os[o].ref[g]
CtxChanged(cs, cs2, x, f) ==
    \A c \in Ctx, s \in Slot : <<c, s>> # <<x, f>> => cs2[c].ref[s] = cs[c].ref[s]

LEMMA OneMore ==
    ASSUME NEW S, NEW T, NEW p, IsFiniteSet(S), p \notin S, T = S \cup {p}
    PROVE  Cardinality(T) = Cardinality(S) + 1
BY FS_AddElement

LEMMA OneLess ==
    ASSUME NEW S, NEW T, NEW p, IsFiniteSet(S), p \in S, T = S \ {p}
    PROVE  Cardinality(T) = Cardinality(S) - 1
BY FS_RemoveElement

LEMMA ObjPlaceChange ==
    ASSUME NEW os, NEW os2, NEW x \in Obj, NEW f \in Field, ObjChanged(os, os2, x, f), NEW v
    PROVE  Cardinality(ObjPlaces(os2, v)) =
             Cardinality(ObjPlaces(os, v)) + Bit(os2[x].ref[f] = v) - Bit(os[x].ref[f] = v)
<1> DEFINE S == ObjPlaces(os, v)
           T == ObjPlaces(os2, v)
           p == <<x, f>>
<1>1. IsFiniteSet(S) /\ Cardinality(S) \in Nat
  BY PlacesFinite, PlacesNumber
<1>2. p \in S <=> os[x].ref[f] = v
  BY DEF ObjPlaces
<1>3. p \in T <=> os2[x].ref[f] = v
  BY DEF ObjPlaces
<1>4. \A q : q # p => (q \in T <=> q \in S)
  BY DEF ObjPlaces, ObjChanged
<1> HIDE DEF S, T, p
<1>5. CASE p \in S /\ p \in T
  <2>1. T = S
    BY <1>4, <1>5
  <2> QED
    BY <1>1, <1>2, <1>3, <1>5, <2>1 DEF Bit, S, T
<1>6. CASE p \notin S /\ p \notin T
  <2>1. T = S
    BY <1>4, <1>6
  <2> QED
    BY <1>1, <1>2, <1>3, <1>6, <2>1 DEF Bit, S, T
<1>7. CASE p \in S /\ p \notin T
  <2>1. T = S \ {p}
    BY <1>4, <1>7
  <2>2. Cardinality(T) = Cardinality(S) - 1
    BY <1>1, <1>7, <2>1, OneLess
  <2> QED
    BY <1>1, <1>2, <1>3, <1>7, <2>2 DEF Bit, S, T
<1>8. CASE p \notin S /\ p \in T
  <2>1. T = S \cup {p}
    BY <1>4, <1>8
  <2>2. Cardinality(T) = Cardinality(S) + 1
    BY <1>1, <1>8, <2>1, OneMore
  <2> QED
    BY <1>1, <1>2, <1>3, <1>8, <2>2 DEF Bit, S, T
<1> QED
  BY <1>5, <1>6, <1>7, <1>8

LEMMA CtxPlaceChange ==
    ASSUME NEW cs, NEW cs2, NEW x \in Ctx, NEW f \in Slot, CtxChanged(cs, cs2, x, f), NEW v
    PROVE  Cardinality(CtxPlaces(cs2, v)) =
             Cardinality(CtxPlaces(cs, v)) + Bit(cs2[x].ref[f] = v) - Bit(cs[x].ref[f] = v)
<1> DEFINE S == CtxPlaces(cs, v)
           T == CtxPlaces(cs2, v)
           p == <<x, f>>
<1>1. IsFiniteSet(S) /\ Cardinality(S) \in Nat
  BY PlacesFinite, PlacesNumber
<1>2. p \in S <=> cs[x].ref[f] = v
  BY DEF CtxPlaces
<1>3. p \in T <=> cs2[x].ref[f] = v
  BY DEF CtxPlaces
<1>4. \A q : q # p => (q \in T <=> q \in S)
  BY DEF CtxPlaces, CtxChanged
<1> HIDE DEF S, T, p
<1>5. CASE p \in S /\ p \in T
  <2>1. T = S
    BY <1>4, <1>5
  <2> QED
    BY <1>1, <1>2, <1>3, <1>5, <2>1 DEF Bit, S, T
<1>6. CASE p \notin S /\ p \notin T
  <2>1. T = S
    BY <1>4, <1>6
  <2> QED
    BY <1>1, <1>2, <1>3, <1>6, <2>1 DEF Bit, S, T
<1>7. CASE p \in S /\ p \notin T
  <2>1. T = S \ {p}
    BY <1>4, <1>7
  <2>2. Cardinality(T) = Cardinality(S) - 1
    BY <1>1, <1>7, <2>1, OneLess
  <2> QED
    BY <1>1, <1>2, <1>3, <1>7, <2>2 DEF Bit, S, T
<1>8. CASE p \notin S /\ p \in T
  <2>1. T = S \cup {p}
    BY <1>4, <1>8
  <2>2. Cardinality(T) = Cardinality(S) + 1
    BY <1>1, <1>8, <2>1, OneMore
  <2> QED
    BY <1>1, <1>2, <1>3, <1>8, <2>2 DEF Bit, S, T
<1> QED
  BY <1>5, <1>6, <1>7, <1>8

---------------------------------------------------------------------------
(* The stack of calls.                                                     *)
LEMMA CallFields ==
    ASSUME NEW f \in Call
    PROVE  /\ f.k \in {"destroy", "destruct"} => f.x \in Obj
           /\ f.k \in {"free", "safe", "drop", "last", "clear", "next"} => f.x \in Ctx
           /\ f.k \in {"gc", "sweep", "round", "pick", "forced"} => f.x = Null
           /\ f.todo \subseteq Obj
           /\ f.k \in {"destroy", "destruct", "free", "safe", "drop", "last", "clear", "next",
                       "gc", "sweep", "round", "pick", "forced"}
BY DEF Call

LEMMA UnderType ==
    ASSUME NEW cl \in Seq(Call), NEW f \in Under(cl)
    PROVE  f \in Call
<1>1. PICK i \in 1 .. Len(cl) : f = cl[i]
  BY DEF Under
<1> QED
  BY <1>1, ElementOfSeq

LEMMA ConsFacts ==
    ASSUME NEW cl \in Seq(Call), NEW f \in Call
    PROVE  LET c2 == <<f>> \o cl
           IN  /\ c2 \in Seq(Call) /\ c2 # <<>> /\ Len(c2) = Len(cl) + 1 /\ Len(cl) \in Nat
               /\ c2[1] = f /\ Head(c2) = f /\ Tail(c2) = cl
               /\ \A i \in 1 .. Len(cl) : c2[i + 1] = cl[i]
<1> DEFINE c2 == <<f>> \o cl
<1>1. <<f>> \in Seq(Call) /\ Len(<<f>>) = 1
  OBVIOUS
<1>2. c2 \in Seq(Call) /\ Len(c2) = Len(cl) + 1 /\ Len(cl) \in Nat
  BY <1>1, ConcatProperties, LenProperties
<1>3. c2 # <<>> /\ c2[1] = f
  BY <1>1, <1>2, ConcatProperties
<1>4. \A i \in 1 .. Len(cl) : c2[i + 1] = cl[i]
  BY <1>1, <1>2, ConcatProperties
<1>5. Tail(c2) \in Seq(Call) /\ Len(Tail(c2)) = Len(cl)
  BY <1>2, <1>3, HeadTailProperties
<1>6. \A i \in 1 .. Len(cl) : Tail(c2)[i] = cl[i]
  BY <1>2, <1>3, <1>4, <1>5, HeadTailProperties
<1>7. Tail(c2) = cl
  BY <1>5, <1>6, SeqEqual
<1>8. Head(c2) = f
  BY <1>2, <1>3
<1> QED
  BY <1>2, <1>3, <1>4, <1>7, <1>8

LEMMA Unstack ==
    ASSUME NEW cl \in Seq(Call), cl # <<>>
    PROVE  cl = <<Head(cl)>> \o Tail(cl) /\ Head(cl) \in Call /\ Tail(cl) \in Seq(Call)
           /\ Head(cl) = cl[1] /\ Head(cl) \in Under(cl)
<1>1. Head(cl) \in Call /\ Tail(cl) \in Seq(Call) /\ Head(cl) = cl[1]
  BY HeadTailProperties
<1>2. cl = <<Head(cl)>> \o Tail(cl)
  <2> DEFINE c2 == <<Head(cl)>> \o Tail(cl)
  <2>1. /\ c2 \in Seq(Call) /\ Len(c2) = Len(Tail(cl)) + 1 /\ c2[1] = Head(cl)
        /\ \A i \in 1 .. Len(Tail(cl)) : c2[i + 1] = Tail(cl)[i]
    BY <1>1, ConsFacts
  <2>2. Len(Tail(cl)) = Len(cl) - 1 /\ Len(cl) \in Nat \ {0}
        /\ \A i \in 1 .. Len(cl) - 1 : Tail(cl)[i] = cl[i + 1]
    BY HeadTailProperties, EmptySeq, LenProperties
  <2> HIDE DEF c2
  <2>3. Len(c2) = Len(cl)
    BY <2>1, <2>2
  <2>4. ASSUME NEW i \in 1 .. Len(cl) PROVE c2[i] = cl[i]
    <3>1. CASE i = 1
      BY <1>1, <2>1, <3>1
    <3>2. CASE i # 1
      <4>1. i - 1 \in 1 .. Len(cl) - 1 /\ (i - 1) + 1 = i /\ Len(Tail(cl)) = Len(cl) - 1
        BY <2>2, <3>2
      <4>2. c2[(i - 1) + 1] = Tail(cl)[i - 1] /\ Tail(cl)[i - 1] = cl[(i - 1) + 1]
        BY <2>1, <2>2, <4>1
      <4> QED
        BY <4>1, <4>2
    <3> QED
      BY <3>1, <3>2
  <2> QED
    BY <2>1, <2>3, <2>4, SeqEqual DEF c2
<1>3. Head(cl) \in Under(cl)
  <2>1. 1 \in 1 .. Len(cl)
    BY EmptySeq, LenProperties
  <2> QED
    BY <1>1, <2>1 DEF Under
<1> QED
  BY <1>1, <1>2, <1>3

LEMMA UnderCons ==
    ASSUME NEW cl \in Seq(Call), NEW f \in Call
    PROVE  Under(<<f>> \o cl) = {f} \cup Under(cl)
<1> DEFINE c2 == <<f>> \o cl
<1>1. /\ Len(c2) = Len(cl) + 1 /\ Len(cl) \in Nat /\ c2[1] = f
      /\ \A i \in 1 .. Len(cl) : c2[i + 1] = cl[i]
  BY ConsFacts
<1> HIDE DEF c2
<1>2. ASSUME NEW g \in Under(c2) PROVE g = f \/ g \in Under(cl)
  <2>1. PICK i \in 1 .. Len(c2) : g = c2[i]
    BY DEF Under
  <2>2. CASE i = 1
    BY <1>1, <2>1, <2>2
  <2>3. CASE i # 1
    <3>1. i - 1 \in 1 .. Len(cl) /\ (i - 1) + 1 = i
      BY <1>1, <2>3
    <3>2. g = cl[i - 1]
      BY <1>1, <2>1, <3>1
    <3> QED
      BY <3>1, <3>2 DEF Under
  <2> QED
    BY <2>2, <2>3
<1>3. f \in Under(c2)
  <2>1. 1 \in 1 .. Len(c2)
    BY <1>1
  <2> QED
    BY <1>1, <2>1 DEF Under
<1>4. ASSUME NEW g \in Under(cl) PROVE g \in Under(c2)
  <2>1. PICK i \in 1 .. Len(cl) : g = cl[i]
    BY DEF Under
  <2>2. i + 1 \in 1 .. Len(c2) /\ g = c2[i + 1]
    BY <1>1, <2>1
  <2> QED
    BY <2>2 DEF Under
<1> QED
  BY <1>2, <1>3, <1>4 DEF c2

LEMMA UnderNone == Under(<<>>) = {}
BY DEF Under

LEMMA BusyCons ==
    ASSUME NEW cl \in Seq(Call), NEW f \in Call, NEW en
    PROVE  /\ \A k : Busy(<<f>> \o cl, k) <=> f.k = k \/ Busy(cl, k)
           /\ \A c : Kept(<<f>> \o cl, c) <=> (f.k \in {"free", "safe"} /\ f.x = c) \/ Kept(cl, c)
           /\ Holds(<<f>> \o cl, en) <=> f.k \in {"clear", "next", "pick"} \/ Holds(cl, en)
BY UnderCons DEF Busy, Kept, Holds

LEMMA ApartCons ==
    ASSUME NEW cl \in Seq(Call), NEW f \in Call
    PROVE  Apart(<<f>> \o cl) <=> Apart(cl) /\ \A g \in Under(cl) : ~Clash(f, g)
<1> DEFINE c2 == <<f>> \o cl
<1>1. /\ Len(c2) = Len(cl) + 1 /\ Len(cl) \in Nat /\ c2[1] = f
      /\ \A i \in 1 .. Len(cl) : c2[i + 1] = cl[i]
  BY ConsFacts
<1> HIDE DEF c2
<1>2. ASSUME Apart(c2) PROVE Apart(cl)
  <2> SUFFICES ASSUME NEW i \in 1 .. Len(cl), NEW j \in 1 .. Len(cl), Clash(cl[i], cl[j])
               PROVE  i = j
    BY DEF Apart
  <2>1. i + 1 \in 1 .. Len(c2) /\ j + 1 \in 1 .. Len(c2)
    BY <1>1
  <2>2. Clash(c2[i + 1], c2[j + 1])
    BY <1>1
  <2>3. i + 1 = j + 1
    BY <1>2, <2>1, <2>2 DEF Apart
  <2> QED
    BY <2>3
<1>3. ASSUME Apart(c2), NEW g \in Under(cl), Clash(f, g) PROVE FALSE
  <2>1. PICK i \in 1 .. Len(cl) : g = cl[i]
    BY DEF Under
  <2>2. 1 \in 1 .. Len(c2) /\ i + 1 \in 1 .. Len(c2) /\ Clash(c2[1], c2[i + 1])
    BY <1>1, <1>3, <2>1
  <2>3. 1 = i + 1
    BY <1>3, <2>2 DEF Apart
  <2> QED
    BY <2>3
<1>4. ASSUME Apart(cl), \A g \in Under(cl) : ~Clash(f, g) PROVE Apart(c2)
  <2> SUFFICES ASSUME NEW i \in 1 .. Len(c2), NEW j \in 1 .. Len(c2), Clash(c2[i], c2[j])
               PROVE  i = j
    BY DEF Apart
  <2>1. \A g, h : Clash(g, h) <=> Clash(h, g)
    BY DEF Clash
  <2>2. ASSUME NEW n \in 1 .. Len(c2), n # 1
        PROVE  n - 1 \in 1 .. Len(cl) /\ c2[n] = cl[n - 1] /\ c2[n] \in Under(cl)
    <3>1. n - 1 \in 1 .. Len(cl) /\ (n - 1) + 1 = n
      BY <1>1, <2>2
    <3>2. c2[n] = cl[n - 1]
      BY <1>1, <3>1
    <3> QED
      BY <3>1, <3>2 DEF Under
  <2>3. CASE i = 1 /\ j # 1
    BY <1>1, <1>4, <2>2, <2>3
  <2>4. CASE i # 1 /\ j = 1
    BY <1>1, <1>4, <2>1, <2>2, <2>4
  <2>5. CASE i # 1 /\ j # 1
    <3>1. i - 1 \in 1 .. Len(cl) /\ j - 1 \in 1 .. Len(cl) /\ Clash(cl[i - 1], cl[j - 1])
      BY <2>2, <2>5
    <3>2. i - 1 = j - 1
      BY <1>4, <3>1 DEF Apart
    <3> QED
      BY <3>2
  <2> QED
    BY <2>3, <2>4, <2>5
<1> QED
  BY <1>2, <1>3, <1>4 DEF c2

(* A call may be made on top of cl.                                        *)
MayCall(cl, en, f) ==
    IF cl = <<>> THEN First(f.k, en)
    ELSE Makes(Head(cl).k, f.k) /\ (f.k = "safe" => Head(cl).x = f.x)

LEMMA ChainCons ==
    ASSUME NEW cl \in Seq(Call), NEW f \in Call, NEW en
    PROVE  Chain(<<f>> \o cl) /\ Based(<<f>> \o cl, en)
             <=> /\ Chain(cl) /\ MayCall(cl, en, f)
                 /\ cl # <<>> => Based(cl, en)
<1> DEFINE c2 == <<f>> \o cl
<1>1. /\ c2 # <<>> /\ Len(c2) = Len(cl) + 1 /\ Len(cl) \in Nat /\ c2[1] = f
      /\ \A i \in 1 .. Len(cl) : c2[i + 1] = cl[i]
  BY ConsFacts
<1>2. cl # <<>> => Len(cl) > 0 /\ Head(cl) = cl[1]
  BY Unstack, EmptySeq, LenProperties
<1>3. cl = <<>> => Len(cl) = 0
  BY EmptySeq
<1> HIDE DEF c2
<1>4. Based(c2, en) <=> IF cl = <<>> THEN First(f.k, en) ELSE Based(cl, en)
  <2>1. CASE cl = <<>>
    BY <1>1, <1>3, <2>1 DEF Based
  <2>2. CASE cl # <<>>
    <3>1. Len(cl) \in 1 .. Len(cl) /\ c2[Len(c2)] = cl[Len(cl)]
      BY <1>1, <1>2, <2>2
    <3> QED
      BY <1>1, <2>2, <3>1 DEF Based
  <2> QED
    BY <2>1, <2>2
<1> DEFINE Good(s, i) == Makes(s[i + 1].k, s[i].k) /\ (s[i].k = "safe" => s[i + 1].x = s[i].x)
<1>5. ASSUME Chain(c2) PROVE Chain(cl) /\ (cl # <<>> => Good(c2, 1))
  <2>1. \A i \in 1 .. Len(c2) - 1 : Good(c2, i)
    BY <1>5 DEF Chain
  <2>2. ASSUME NEW i \in 1 .. Len(cl) - 1 PROVE Good(cl, i)
    <3>1. i + 1 \in 1 .. Len(c2) - 1 /\ i \in 1 .. Len(cl) /\ i + 1 \in 1 .. Len(cl)
      BY <1>1
    <3>2. Good(c2, i + 1)
      BY <2>1, <3>1
    <3>3. c2[i + 1] = cl[i] /\ c2[(i + 1) + 1] = cl[i + 1]
      BY <1>1, <3>1
    <3> QED
      BY <3>2, <3>3
  <2>3. cl # <<>> => 1 \in 1 .. Len(c2) - 1
    BY <1>1, <1>2
  <2> QED
    BY <2>1, <2>2, <2>3 DEF Chain
<1>6. ASSUME Chain(cl), cl # <<>> => Good(c2, 1) PROVE Chain(c2)
  <2>1. \A i \in 1 .. Len(cl) - 1 : Good(cl, i)
    BY <1>6 DEF Chain
  <2>2. ASSUME NEW i \in 1 .. Len(c2) - 1 PROVE Good(c2, i)
    <3>1. cl # <<>>
      BY <1>1, <1>3
    <3>2. CASE i = 1
      BY <1>6, <3>1, <3>2
    <3>3. CASE i # 1
      <4>1. i - 1 \in 1 .. Len(cl) - 1 /\ i - 1 \in 1 .. Len(cl) /\ i \in 1 .. Len(cl)
            /\ (i - 1) + 1 = i
        BY <1>1, <3>3
      <4>2. Good(cl, i - 1)
        BY <2>1, <4>1
      <4>3. c2[i] = cl[i - 1] /\ c2[i + 1] = cl[i]
        BY <1>1, <4>1
      <4> QED
        BY <4>1, <4>2, <4>3
    <3> QED
      BY <3>2, <3>3
  <2> QED
    BY <2>2 DEF Chain
<1>7. cl # <<>> => (Good(c2, 1) <=> Makes(Head(cl).k, f.k) /\ (f.k = "safe" => Head(cl).x = f.x))
  <2>1. cl # <<>> => 1 \in 1 .. Len(cl)
    BY <1>1, <1>2
  <2>2. cl # <<>> => c2[1 + 1] = Head(cl) /\ c2[1] = f
    BY <1>1, <1>2, <2>1
  <2> QED
    BY <2>2
<1> QED
  BY <1>4, <1>5, <1>6, <1>7 DEF MayCall, c2

(* Nothing lies under the calls that a script or the host makes first.     *)
LEMMA LowCall ==
    ASSUME NEW cl \in Seq(Call), NEW f \in Call, NEW en, NEW gr, Shape(<<f>> \o cl, en, gr)
    PROVE  /\ f.k \in {"round", "clear", "next", "pick", "forced"} => cl = <<>> /\ en = "closing"
           /\ cl = <<>> => First(f.k, en)
           /\ cl # <<>> => Makes(Head(cl).k, f.k) /\ Chain(cl) /\ Based(cl, en)
                           /\ (f.k = "safe" => Head(cl).x = f.x)
<1>1. Chain(<<f>> \o cl) /\ Based(<<f>> \o cl, en)
  BY DEF Shape
<1>2. MayCall(cl, en, f) /\ Chain(cl) /\ (cl # <<>> => Based(cl, en))
  BY <1>1, ChainCons
<1>3. cl # <<>> => Makes(Head(cl).k, f.k)
  BY <1>2 DEF MayCall
<1>4. f.k \in {"round", "clear", "next", "pick", "forced"} => cl = <<>>
  BY <1>3 DEF Makes
<1>5. f.k \in {"round", "clear", "next", "pick", "forced"} /\ cl = <<>> => en = "closing"
  BY <1>2 DEF MayCall, First
<1> QED
  BY <1>2, <1>3, <1>4, <1>5 DEF MayCall

(* A collection is made by a script, by a round or by the last context.    *)
LEMMA CollectorLow ==
    ASSUME NEW cl \in Seq(Call), NEW f \in Call, NEW en, NEW gr, Shape(<<f>> \o cl, en, gr),
           f.k \in {"gc", "sweep"}
    PROVE  /\ \A g \in Under(cl) : g.k \in {"pick", "last", "round"}
           /\ cl # <<>> => Head(cl).k \in {"pick", "last"} /\ en = "closing"
           /\ cl = <<>> => en = "up"
           /\ cl # <<>> /\ Head(cl).k = "pick" => Tail(cl) = <<>>
           /\ cl # <<>> /\ Head(cl).k = "last" => Tail(cl) # <<>> /\ Head(Tail(cl)).k = "round"
<1>1. CASE cl = <<>>
  <2>1. First(f.k, en)
    BY <1>1, LowCall
  <2> QED
    BY <1>1, <2>1, UnderNone DEF First
<1>2. CASE cl # <<>>
  <2> DEFINE g == Head(cl)
             d == Tail(cl)
  <2>1. g \in Call /\ d \in Seq(Call) /\ cl = <<g>> \o d
    BY <1>2, Unstack
  <2>2. Makes(g.k, f.k) /\ Chain(cl) /\ Based(cl, en)
    BY <1>2, LowCall
  <2>3. g.k \in {"pick", "last"}
    BY <2>2 DEF Makes
  <2>4. MayCall(d, en, g) /\ (d # <<>> => Chain(d) /\ Based(d, en))
    BY <2>1, <2>2, ChainCons
  <2> HIDE DEF g, d
  <2>5. CASE g.k = "pick"
    <3>1. d = <<>> /\ en = "closing"
      BY <2>4, <2>5 DEF MayCall, Makes, First
    <3>2. Under(cl) = {g}
      <4>1. Under(cl) = {g} \cup Under(d)
        BY <2>1, UnderCons
      <4>2. Under(d) = {}
        BY <3>1, UnderNone
      <4> QED
        BY <4>1, <4>2
    <3> QED
      BY <1>2, <2>5, <3>1, <3>2 DEF g, d
  <2>6. CASE g.k = "last"
    <3>1. d # <<>> /\ Head(d).k = "round"
      BY <2>4, <2>6 DEF MayCall, Makes, First
    <3> DEFINE h == Head(d)
               e == Tail(d)
    <3>2. h \in Call /\ e \in Seq(Call) /\ d = <<h>> \o e
      BY <2>1, <3>1, Unstack
    <3>3. MayCall(e, en, h)
      BY <2>4, <3>1, <3>2, ChainCons
    <3> HIDE DEF h, e
    <3>4. e = <<>> /\ en = "closing"
      BY <3>1, <3>3 DEF MayCall, Makes, First, h
    <3>5. Under(d) = {h}
      <4>1. Under(d) = {h} \cup Under(e)
        BY <3>2, UnderCons
      <4>2. Under(e) = {}
        BY <3>4, UnderNone
      <4> QED
        BY <4>1, <4>2
    <3>6. Under(cl) = {g} \cup {h}
      BY <2>1, <3>5, UnderCons
    <3> QED
      BY <1>2, <2>6, <3>1, <3>4, <3>6 DEF g, d, h
  <2> QED
    BY <2>3, <2>5, <2>6
<1> QED
  BY <1>1, <1>2

(* Destructors of the collector run above a sweep.                         *)
LEMMA DestructSweeps ==
    ASSUME NEW cl \in Seq(Call), NEW en, NEW gr, Shape(cl, en, gr), Busy(cl, "destruct")
    PROVE  gr
<1>1. PICK i \in 1 .. Len(cl) : cl[i].k = "destruct"
  BY DEF Busy, Under
<1>2. Len(cl) \in Nat /\ cl # <<>>
  BY <1>1, LenProperties, EmptySeq
<1>3. i # Len(cl)
  BY <1>1, <1>2 DEF Shape, Based, First
<1>4. i \in 1 .. Len(cl) - 1 /\ i + 1 \in 1 .. Len(cl)
  BY <1>2, <1>3
<1>5. Makes(cl[i + 1].k, "destruct")
  BY <1>1, <1>4 DEF Shape, Chain
<1>6. cl[i + 1].k = "sweep"
  BY <1>5 DEF Makes
<1>7. Busy(cl, "sweep")
  BY <1>4, <1>6 DEF Busy, Under
<1> QED
  BY <1>7 DEF Shape

---------------------------------------------------------------------------
(* What does not depend on the counts.                                     *)
Alike(os, os2) ==
    \A o \in Obj : /\ os2[o].live = os[o].live /\ os2[o].mark = os[o].mark
                   /\ os2[o].done = os[o].done /\ os2[o].ref = os[o].ref
AlikeCtx(cs, cs2) ==
    \A c \in Ctx : cs2[c].live = cs[c].live /\ cs2[c].ref = cs[c].ref

LEMMA CountAlike ==
    ASSUME NEW os, NEW os2, NEW cs, NEW cs2, Alike(os, os2), AlikeCtx(cs, cs2), NEW ar, NEW v
    PROVE  Count(os2, cs2, ar, v) = Count(os, cs, ar, v)
<1>1. ObjPlaces(os2, v) = ObjPlaces(os, v)
  BY DEF ObjPlaces, Alike
<1>2. CtxPlaces(cs2, v) = CtxPlaces(cs, v)
  BY DEF CtxPlaces, AlikeCtx
<1> QED
  BY <1>1, <1>2 DEF Count

LEMMA GroundedAlike ==
    ASSUME NEW os, NEW os2, Alike(os, os2), NEW ar, NEW rb
    PROVE  /\ \A S \in SUBSET Obj : Closed(os2, S) <=> Closed(os, S)
           /\ \A M : Grounded(os2, ar, M) <=> Grounded(os, ar, M)
           /\ Marked(os2, rb) = Marked(os, rb) /\ LiveIn(os2) = LiveIn(os)
           /\ Marked(os, rb) \subseteq Obj
<1>1. \A S \in SUBSET Obj : Closed(os2, S) <=> Closed(os, S)
  BY DEF Closed, Alike
<1>2. \A M : Grounded(os2, ar, M) <=> Grounded(os, ar, M)
  BY <1>1 DEF Grounded
<1>3. Marked(os2, rb) = Marked(os, rb) /\ LiveIn(os2) = LiveIn(os)
  BY DEF Marked, LiveIn, Alike
<1> QED
  BY <1>1, <1>2, <1>3 DEF Marked

LEMMA BareAlike ==
    ASSUME NEW cs, NEW cs2, AlikeCtx(cs, cs2), NEW st \in Seq(Ctx)
    PROVE  /\ \A c \in Ctx : Bare(cs2, c) <=> Bare(cs, c)
           /\ AllBare(cs2) <=> AllBare(cs)
           /\ \A c \in Ctx : BareBefore(cs2, st, c) <=> BareBefore(cs, st, c)
<1>1. \A c \in Ctx : Bare(cs2, c) <=> Bare(cs, c)
  BY DEF Bare, AlikeCtx
<1>2. \A i \in 1 .. Len(st) : st[i] \in Ctx
  BY ElementOfSeq
<1> QED
  BY <1>1, <1>2 DEF AllBare, BareBefore

LEMMA LaidAlike ==
    ASSUME NEW os, NEW os2, NEW cs, NEW cs2, Alike(os, os2), AlikeCtx(cs, cs2),
           NEW st \in Seq(Ctx), NEW ar \in Obj \cup {Null}, NEW rb, NEW gr \in BOOLEAN,
           NEW cl \in Seq(Call), NEW en,
           Laid(os, cs, st, ar, rb, gr, cl, en)
    PROVE  Laid(os2, cs2, st, ar, rb, gr, cl, en)
<1>1. Clean(os2, cs2, ar)
  <2>1. \A v : Alive(os2, cs2, v) <=> Alive(os, cs, v)
    BY DEF Alive, Alike, AlikeCtx
  <2> QED
    BY <2>1 DEF Laid, Clean, Alike, AlikeCtx
<1>2. Enlisted(cs2, st, en)
  BY Names DEF Laid, Enlisted, AlikeCtx
<1>3. Shape(cl, en, gr)
  BY DEF Laid
<1>4. Fits(os2, cs2, st, ar, rb, gr, cl)
  <2> SUFFICES ASSUME NEW f \in Under(cl) PROVE FrameFits(os2, cs2, st, ar, rb, gr, f)
    BY DEF Laid, Fits
  <2>1. f \in Call /\ FrameFits(os, cs, st, ar, rb, gr, f)
    BY UnderType DEF Laid, Fits
  <2>2. \A v : Count(os2, cs2, ar, v) = Count(os, cs, ar, v)
    BY CountAlike
  <2>3. /\ f.k \in {"destroy", "destruct"} =>
              os2[f.x].live = os[f.x].live /\ os2[f.x].mark = os[f.x].mark
        /\ f.k \in {"free", "safe", "drop", "last", "clear", "next"} =>
              f.x \in Ctx /\ cs2[f.x].live = cs[f.x].live
    BY <2>1, CallFields DEF Alike, AlikeCtx
  <2>4. /\ AllBare(cs2) <=> AllBare(cs)
        /\ \A c \in Ctx : Bare(cs2, c) <=> Bare(cs, c)
        /\ \A c \in Ctx : BareBefore(cs2, st, c) <=> BareBefore(cs, st, c)
    BY BareAlike
  <2>5. Grounded(os2, ar, Marked(os2, rb)) <=> Grounded(os, ar, Marked(os, rb))
    BY GroundedAlike
  <2>6. \A o \in f.todo : os2[o].live = os[o].live /\ os2[o].mark = os[o].mark
    BY <2>1, CallFields DEF Alike
  <2>7. (\A o \in Obj, g \in Field : os2[o].ref[g] \notin Ctx)
          <=> (\A o \in Obj, g \in Field : os[o].ref[g] \notin Ctx)
    BY DEF Alike
  <2> QED
    BY <2>1, <2>2, <2>3, <2>4, <2>5, <2>6, <2>7 DEF FrameFits
<1>5. Coloured(os2, cs2, ar, rb, gr, cl)
  <2>1. /\ Marked(os2, rb) = Marked(os, rb) /\ Marked(os, rb) \subseteq Obj
        /\ Closed(os2, Marked(os, rb)) <=> Closed(os, Marked(os, rb))
    BY GroundedAlike
  <2>2. \A o \in Obj : Visited(os2, cl, o) <=> Visited(os, cl, o)
    BY DEF Visited, Alike
  <2>3. Coloured(os, cs, ar, rb, gr, cl)
    BY DEF Laid
  <2>4. CASE gr
    BY <2>1, <2>2, <2>3, <2>4 DEF Coloured, Alike, AlikeCtx
  <2>5. CASE ~gr
    BY <2>3, <2>5 DEF Coloured, Alike
  <2> QED
    BY <2>4, <2>5
<1>6. Tidy(os2, cs2, ar) <=> Tidy(os, cs, ar)
  BY GroundedAlike, BareAlike DEF Tidy
<1>7. TopFits(os2, cs2, st, ar, cl)
  <2>1. cl # <<>> => cl[1] \in Call
    BY Unstack
  <2>2. cl # <<>> /\ cl[1].k = "next" => cl[1].x \in Ctx
    BY <2>1, CallFields
  <2>3. \A c \in Ctx : Bare(cs2, c) <=> Bare(cs, c)
    BY BareAlike
  <2> QED
    BY <1>6, <2>2, <2>3 DEF Laid, TopFits
<1>8. Gone(os2, cs2, st, ar, cl)
  <2>1. AllBare(cs2) <=> AllBare(cs)
    BY BareAlike
  <2> QED
    BY <1>6, <2>1 DEF Laid, Gone
<1> QED
  BY <1>1, <1>2, <1>3, <1>4, <1>5, <1>7, <1>8 DEF Laid

---------------------------------------------------------------------------
(* A reference that is about to be dropped.                                *)
Pending(os, cs, ar, cl, en, v) ==
    /\ \A o \in Obj : os[o].live => os[o].rc = Count(os, cs, ar, o) + Bit(o = v)
    /\ \A c \in Ctx : cs[c].live => cs[c].rc = Count(os, cs, ar, c) + Extra(cl, en, c) + Bit(c = v)

Untouched(cl, v) ==
    \A g \in Under(cl) : g.x = v => g.k \notin {"destroy", "free", "drop", "last"}

LEMMA LessFacts ==
    ASSUME NEW os \in Objects, NEW v
    PROVE  /\ Less(os, v) \in Objects /\ Alike(os, Less(os, v))
           /\ \A o \in Obj : Less(os, v)[o].rc = os[o].rc - Bit(o = v)
<1>1. CASE v \notin Obj
  <2>1. Less(os, v) = os
    BY <1>1 DEF Less
  <2>2. \A o \in Obj : os[o].rc \in Int /\ o # v
    BY <1>1, ObjectFields
  <2> QED
    BY <2>1, <2>2 DEF Alike, Bit
<1>2. CASE v \in Obj
  <2> DEFINE n == os[v].rc - 1
             r == [os[v] EXCEPT !.rc = n]
  <2>1. Less(os, v) = [os EXCEPT ![v] = r]
    BY <1>2 DEF Less
  <2>2. os[v] \in Object /\ n \in Int
    BY <1>2, ObjectFields
  <2> HIDE DEF n
  <2>3. /\ r \in Object /\ r.rc = n /\ r.live = os[v].live /\ r.mark = os[v].mark
        /\ r.done = os[v].done /\ r.ref = os[v].ref
    BY <2>2 DEF Object
  <2> HIDE DEF r
  <2>4. Less(os, v) \in Objects /\ \A o \in Obj : Less(os, v)[o] = IF o = v THEN r ELSE os[o]
    BY <2>1, <2>3 DEF Objects
  <2>5. \A o \in Obj : os[o].rc \in Int
    BY ObjectFields
  <2> QED
    BY <2>3, <2>4, <2>5 DEF Alike, Bit, n
<1> QED
  BY <1>1, <1>2

LEMMA AcquireFacts ==
    ASSUME NEW os \in Objects, NEW v
    PROVE  /\ Acquire(os, v) \in Objects /\ Alike(os, Acquire(os, v))
           /\ \A o \in Obj : Acquire(os, v)[o].rc = os[o].rc + Bit(o = v)
<1>1. CASE v \notin Obj
  <2>1. Acquire(os, v) = os
    BY <1>1 DEF Acquire
  <2>2. \A o \in Obj : os[o].rc \in Int /\ o # v
    BY <1>1, ObjectFields
  <2> QED
    BY <2>1, <2>2 DEF Alike, Bit
<1>2. CASE v \in Obj
  <2> DEFINE n == os[v].rc + 1
             r == [os[v] EXCEPT !.rc = n]
  <2>1. Acquire(os, v) = [os EXCEPT ![v] = r]
    BY <1>2 DEF Acquire
  <2>2. os[v] \in Object /\ n \in Int
    BY <1>2, ObjectFields
  <2> HIDE DEF n
  <2>3. /\ r \in Object /\ r.rc = n /\ r.live = os[v].live /\ r.mark = os[v].mark
        /\ r.done = os[v].done /\ r.ref = os[v].ref
    BY <2>2 DEF Object
  <2> HIDE DEF r
  <2>4. Acquire(os, v) \in Objects /\ \A o \in Obj : Acquire(os, v)[o] = IF o = v THEN r ELSE os[o]
    BY <2>1, <2>3 DEF Objects
  <2>5. \A o \in Obj : os[o].rc \in Int
    BY ObjectFields
  <2> QED
    BY <2>3, <2>4, <2>5 DEF Alike, Bit, n
<1> QED
  BY <1>1, <1>2

(* A count of a context changes.                                           *)
SetRc(cs, c, n) == [cs EXCEPT ![c].rc = n]

LEMMA ContextRc ==
    ASSUME NEW cs \in Contexts, NEW c \in Ctx, NEW n \in Int
    PROVE  /\ SetRc(cs, c, n) \in Contexts /\ AlikeCtx(cs, SetRc(cs, c, n))
           /\ \A d \in Ctx : SetRc(cs, c, n)[d].rc = IF d = c THEN n ELSE cs[d].rc
<1> DEFINE r == [cs[c] EXCEPT !.rc = n]
           c2 == SetRc(cs, c, n)
<1>1. cs[c] \in Context
  BY ContextFields
<1>2. r \in Context /\ r.rc = n /\ r.live = cs[c].live /\ r.ref = cs[c].ref
  BY <1>1 DEF Context
<1>3. c2 = [cs EXCEPT ![c] = r]
  BY DEF SetRc
<1> HIDE DEF r, c2
<1>4. c2 \in Contexts /\ \A d \in Ctx : c2[d] = IF d = c THEN r ELSE cs[d]
  BY <1>2, <1>3 DEF Contexts
<1>5. AlikeCtx(cs, c2)
  BY <1>2, <1>4 DEF AlikeCtx
<1>6. \A d \in Ctx : c2[d].rc = IF d = c THEN n ELSE cs[d].rc
  BY <1>2, <1>4
<1> QED
  BY <1>4, <1>5, <1>6 DEF c2

LEMMA LessCtxFacts ==
    ASSUME NEW cs \in Contexts, NEW v
    PROVE  /\ LessCtx(cs, v) \in Contexts /\ AlikeCtx(cs, LessCtx(cs, v))
           /\ \A c \in Ctx : LessCtx(cs, v)[c].rc =
                               cs[c].rc - Bit(c = v /\ cs[c].rc > 1)
<1>0. \A c \in Ctx : cs[c].rc \in Int
  BY ContextFields
<1>1. CASE v \notin Ctx
  <2>1. LessCtx(cs, v) = cs
    BY <1>1 DEF LessCtx
  <2> QED
    BY <1>0, <1>1, <2>1 DEF AlikeCtx, Bit
<1>2. CASE v \in Ctx /\ cs[v].rc > 1
  <2> DEFINE n == cs[v].rc - 1
             c2 == LessCtx(cs, v)
  <2>1. c2 = SetRc(cs, v, n)
    BY <1>2 DEF LessCtx, SetRc
  <2>2. n \in Int
    BY <1>0, <1>2
  <2> HIDE DEF n, c2
  <2>3. /\ c2 \in Contexts /\ AlikeCtx(cs, c2)
        /\ \A d \in Ctx : c2[d].rc = IF d = v THEN n ELSE cs[d].rc
    <3>1. v \in Ctx
      BY <1>2
    <3> QED
      BY <2>1, <2>2, <3>1, ContextRc
  <2> QED
    BY <1>0, <1>2, <2>3 DEF Bit, n, c2
<1>3. CASE v \in Ctx /\ ~(cs[v].rc > 1)
  <2> DEFINE r == [cs[v] EXCEPT !.destroying = TRUE]
  <2>1. LessCtx(cs, v) = [cs EXCEPT ![v] = r]
    BY <1>3 DEF LessCtx
  <2>2. cs[v] \in Context
    BY <1>3, ContextFields
  <2>3. r \in Context /\ r.rc = cs[v].rc /\ r.live = cs[v].live /\ r.ref = cs[v].ref
    BY <2>2 DEF Context
  <2> HIDE DEF r
  <2>4. LessCtx(cs, v) \in Contexts /\ \A c \in Ctx : LessCtx(cs, v)[c] = IF c = v THEN r ELSE cs[c]
    BY <2>1, <2>3 DEF Contexts
  <2> QED
    BY <1>0, <1>3, <2>3, <2>4 DEF AlikeCtx, Bit
<1> QED
  BY <1>1, <1>2, <1>3

(* A destructor or the freeing of a context is called.                     *)
LEMMA CallLaid ==
    ASSUME NEW os, NEW cs, NEW st, NEW ar, NEW rb, NEW gr \in BOOLEAN,
           NEW cl \in Seq(Call), NEW en, Laid(os, cs, st, ar, rb, gr, cl, en),
           NEW f \in Call, f.k \in {"destroy", "destruct", "free"},
           f.k = "destroy" => ~gr, MayCall(cl, en, f), FrameFits(os, cs, st, ar, rb, gr, f),
           \A g \in Under(cl) : ~Clash(f, g)
    PROVE  Laid(os, cs, st, ar, rb, gr, <<f>> \o cl, en)
<1> DEFINE c2 == <<f>> \o cl
<1>1. /\ c2 \in Seq(Call) /\ c2 # <<>> /\ c2[1] = f /\ Under(c2) = {f} \cup Under(cl)
      /\ \A k : Busy(c2, k) <=> f.k = k \/ Busy(cl, k)
      /\ Apart(c2) <=> Apart(cl) /\ \A g \in Under(cl) : ~Clash(f, g)
  BY ConsFacts, UnderCons, BusyCons, ApartCons
<1>2. Chain(c2) /\ Based(c2, en)
  BY ChainCons DEF Laid, Shape
<1> HIDE DEF c2
<1>3. Shape(c2, en, gr)
  BY <1>1, <1>2 DEF Laid, Shape
<1>4. Fits(os, cs, st, ar, rb, gr, c2)
  BY <1>1 DEF Laid, Fits
<1>5. Coloured(os, cs, ar, rb, gr, c2)
  <2>1. \A o : Visited(os, cl, o) => Visited(os, c2, o)
    BY <1>1 DEF Visited
  <2> QED
    BY <2>1 DEF Laid, Coloured
<1>6. TopFits(os, cs, st, ar, c2)
  BY <1>1 DEF TopFits
<1>7. Gone(os, cs, st, ar, c2)
  BY <1>1 DEF Laid, Gone
<1> QED
  BY <1>3, <1>4, <1>5, <1>6, <1>7 DEF Laid, c2

LEMMA DoFacts ==
    /\ \A x \in Obj : \A k \in {"destroy", "destruct"} : Do(k, x) \in Call
    /\ \A x \in Ctx : \A k \in {"free", "safe", "drop", "last", "clear", "next"} : Do(k, x) \in Call
    /\ \A k \in {"gc", "round", "pick", "forced"} : Do(k, Null) \in Call
    /\ \A k, x : Do(k, x).k = k /\ Do(k, x).x = x /\ Do(k, x).todo = {}
BY DEF Do, Call

(* Dropping a reference: the count is exact again, or the block that has   *)
(* no other reference is the business of a new call.                       *)
LEMMA Settles ==
    ASSUME NEW os \in Objects, NEW cs \in Contexts, NEW st \in Seq(Ctx),
           NEW ar \in Obj \cup {Null}, NEW rb, gcrun \in BOOLEAN, NEW cl \in Seq(Call), NEW en,
           Laid(os, cs, st, ar, rb, gcrun, cl, en),
           NEW v \in Val, Alive(os, cs, v), Pending(os, cs, ar, cl, en, v), Untouched(cl, v),
           v \in Obj /\ ~gcrun => MayCall(cl, en, Do("destroy", v)),
           v \in Ctx => MayCall(cl, en, Do("free", v)) /\ InList(st, Root)
    PROVE  /\ Less(os, v) \in Objects /\ LessCtx(cs, v) \in Contexts
           /\ Then(os, cs, v) \o cl \in Seq(Call)
           /\ Sound(Less(os, v), LessCtx(cs, v), st, ar, rb, gcrun, Then(os, cs, v) \o cl, en)
<1> DEFINE os2 == Less(os, v)
           cs2 == LessCtx(cs, v)
           c2 == Then(os, cs, v) \o cl
<1>1. /\ os2 \in Objects /\ Alike(os, os2)
      /\ \A o \in Obj : os2[o].rc = os[o].rc - Bit(o = v)
  BY LessFacts
<1>2. /\ cs2 \in Contexts /\ AlikeCtx(cs, cs2)
      /\ \A c \in Ctx : cs2[c].rc = cs[c].rc - Bit(c = v /\ cs[c].rc > 1)
  BY LessCtxFacts
<1> HIDE DEF os2, cs2
<1>3. Laid(os2, cs2, st, ar, rb, gcrun, cl, en)
  BY <1>1, <1>2, LaidAlike
<1>4. \A u : Count(os2, cs2, ar, u) = Count(os, cs, ar, u) /\ Count(os, cs, ar, u) \in Nat
  BY <1>1, <1>2, CountAlike, CountType
<1>5. /\ \A o \in Obj : os2[o].live = os[o].live
      /\ \A c \in Ctx : cs2[c].live = cs[c].live
  BY <1>1, <1>2 DEF Alike, AlikeCtx
<1>6. \A o \in Obj : os2[o].live => os2[o].rc = Count(os2, cs2, ar, o)
  <2> SUFFICES ASSUME NEW o \in Obj, os2[o].live PROVE os2[o].rc = Count(os2, cs2, ar, o)
    OBVIOUS
  <2>1. os[o].rc = Count(os, cs, ar, o) + Bit(o = v)
    BY <1>5 DEF Pending
  <2> QED
    BY <1>1, <1>4, <2>1 DEF Bit
<1>7. v \in Obj => v \notin Ctx
  BY Names
<1>8. \A c \in Ctx : Extra(cl, en, c) \in 0 .. 2
  BY DEF Extra
<1>10. CASE v \in Obj /\ os[v].rc <= 1 /\ ~gcrun
  <2> DEFINE f == Do("destroy", v)
  <2>1. f \in Call /\ f.k = "destroy" /\ f.x = v
    BY <1>10, DoFacts
  <2>2. c2 = <<f>> \o cl
    BY <1>10 DEF Then
  <2>3. os[v].live /\ os[v].rc = Count(os, cs, ar, v) + 1
    BY <1>10 DEF Alive, Pending, Bit
  <2>4. Count(os2, cs2, ar, v) = 0
    BY <1>4, <1>10, <2>3
  <2>5. ~Busy(cl, "destruct")
    BY <1>10, DestructSweeps DEF Laid
  <2>6. \A g \in Under(cl) : ~Clash(f, g)
    BY <2>1, <2>5 DEF Clash, Untouched, Busy
  <2>7. MayCall(cl, en, f)
    BY <1>10
  <2> HIDE DEF f
  <2>8. FrameFits(os2, cs2, st, ar, rb, gcrun, f)
    BY <1>5, <1>10, <2>1, <2>3, <2>4 DEF FrameFits
  <2>9. Laid(os2, cs2, st, ar, rb, gcrun, c2, en)
    BY <1>3, <1>10, <2>1, <2>2, <2>6, <2>7, <2>8, CallLaid
  <2>10. \A c \in Ctx : Extra(c2, en, c) = Extra(cl, en, c)
    BY <2>1, <2>2, BusyCons DEF Extra
  <2>11. \A c \in Ctx : cs2[c].live => cs2[c].rc = Count(os2, cs2, ar, c) + Extra(c2, en, c)
    <3> SUFFICES ASSUME NEW c \in Ctx, cs2[c].live
                 PROVE  cs2[c].rc = Count(os2, cs2, ar, c) + Extra(c2, en, c)
      OBVIOUS
    <3>1. cs[c].rc = Count(os, cs, ar, c) + Extra(cl, en, c) + Bit(c = v) /\ c # v
      BY <1>5, <1>7, <1>10 DEF Pending
    <3> QED
      BY <1>2, <1>4, <1>8, <2>10, <3>1 DEF Bit
  <2>12. c2 \in Seq(Call)
    BY <2>1, <2>2, ConsFacts
  <2> QED
    BY <1>1, <1>2, <1>6, <2>9, <2>11, <2>12 DEF Sound, Counted, os2, cs2
<1>11. CASE v \in Ctx /\ cs[v].rc <= 1
  <2> DEFINE f == Do("free", v)
  <2>1. f \in Call /\ f.k = "free" /\ f.x = v
    BY <1>11, DoFacts
  <2>2. c2 = <<f>> \o cl
    BY <1>7, <1>11 DEF Then
  <2>3. cs[v].live /\ v # Root /\ cs[v].rc = Count(os, cs, ar, v) + Extra(cl, en, v) + 1
    BY <1>11 DEF Alive, Pending, Bit
  <2>4. Count(os2, cs2, ar, v) = 0 /\ Extra(cl, en, v) = 0 /\ cs[v].rc = 1
    BY <1>4, <1>8, <1>11, <2>3
  <2>5. ~Kept(cl, v)
    BY <2>4, <1>8 DEF Extra
  <2>6. \A g \in Under(cl) : ~Clash(f, g)
    BY <2>1, <2>5 DEF Clash, Untouched, Kept
  <2>7. MayCall(cl, en, f) /\ InList(st, Root)
    BY <1>11
  <2> HIDE DEF f
  <2>8. FrameFits(os2, cs2, st, ar, rb, gcrun, f)
    BY <1>5, <1>11, <2>1, <2>3, <2>4, <2>7 DEF FrameFits
  <2>9. Laid(os2, cs2, st, ar, rb, gcrun, c2, en)
    BY <1>3, <2>1, <2>2, <2>6, <2>7, <2>8, CallLaid
  <2>10. /\ \A c \in Ctx : c # v => Extra(c2, en, c) = Extra(cl, en, c)
         /\ Kept(c2, v) /\ (Holds(c2, en) <=> Holds(cl, en))
    BY <2>1, <2>2, BusyCons DEF Extra
  <2>11. Extra(c2, en, v) = 1
    BY <2>3, <2>10 DEF Extra
  <2>12. \A c \in Ctx : cs2[c].live => cs2[c].rc = Count(os2, cs2, ar, c) + Extra(c2, en, c)
    <3> SUFFICES ASSUME NEW c \in Ctx, cs2[c].live
                 PROVE  cs2[c].rc = Count(os2, cs2, ar, c) + Extra(c2, en, c)
      OBVIOUS
    <3>1. cs[c].rc = Count(os, cs, ar, c) + Extra(cl, en, c) + Bit(c = v)
      BY <1>5 DEF Pending
    <3>2. CASE c = v
      BY <1>2, <2>4, <2>11, <3>2 DEF Bit
    <3>3. CASE c # v
      BY <1>2, <1>4, <1>8, <2>10, <3>1, <3>3 DEF Bit
    <3> QED
      BY <3>2, <3>3
  <2>13. c2 \in Seq(Call)
    BY <2>1, <2>2, ConsFacts
  <2> QED
    BY <1>1, <1>2, <1>6, <2>9, <2>12, <2>13 DEF Sound, Counted, os2, cs2
<1>12. CASE ~(v \in Obj /\ os[v].rc <= 1 /\ ~gcrun) /\ ~(v \in Ctx /\ cs[v].rc <= 1)
  <2>1. c2 = cl
    <3>1. Then(os, cs, v) = <<>>
      BY <1>12 DEF Then
    <3> QED
      BY <3>1, ConcatEmptySeq
  <2>2. \A c \in Ctx : cs2[c].live => cs2[c].rc = Count(os2, cs2, ar, c) + Extra(cl, en, c)
    <3> SUFFICES ASSUME NEW c \in Ctx, cs2[c].live
                 PROVE  cs2[c].rc = Count(os2, cs2, ar, c) + Extra(cl, en, c)
      OBVIOUS
    <3>1. cs[c].rc = Count(os, cs, ar, c) + Extra(cl, en, c) + Bit(c = v) /\ cs[c].rc \in Int
      BY <1>5, ContextFields DEF Pending
    <3>2. c = v => cs[c].rc > 1
      BY <1>12, <3>1
    <3> QED
      BY <1>2, <1>4, <1>8, <3>1, <3>2 DEF Bit
  <2> HIDE DEF c2
  <2> QED
    BY <1>1, <1>2, <1>3, <1>6, <2>1, <2>2 DEF Sound, Counted, os2, cs2, c2
<1> QED
  BY <1>10, <1>11, <1>12

---------------------------------------------------------------------------
(* References go away.                                                     *)
Fewer(os, os2) ==
    \A o \in Obj : /\ os2[o].live = os[o].live /\ os2[o].mark = os[o].mark
                   /\ os2[o].done = os[o].done
                   /\ \A f \in Field : os2[o].ref[f] \in {os[o].ref[f], Null}
FewerCtx(cs, cs2) ==
    \A c \in Ctx : /\ cs2[c].live = cs[c].live
                   /\ \A s \in Slot : cs2[c].ref[s] \in {cs[c].ref[s], Null}

LEMMA FewerZero ==
    ASSUME NEW os, NEW os2, NEW cs, NEW cs2, Fewer(os, os2), FewerCtx(cs, cs2),
           NEW ar, NEW ar2 \in {ar, Null}, NEW v, v # Null, Count(os, cs, ar, v) = 0
    PROVE  Count(os2, cs2, ar2, v) = 0
<1>1. NoRefs(os, cs, ar, v)
  BY CountZero
<1>2. NoRefs(os2, cs2, ar2, v)
  BY <1>1 DEF NoRefs, Fewer, FewerCtx
<1> QED
  BY <1>2, CountZero

LEMMA FewerBare ==
    ASSUME NEW cs, NEW cs2, FewerCtx(cs, cs2), NEW st \in Seq(Ctx)
    PROVE  /\ \A c \in Ctx : Bare(cs, c) => Bare(cs2, c)
           /\ AllBare(cs) => AllBare(cs2)
           /\ \A c \in Ctx : BareBefore(cs, st, c) => BareBefore(cs2, st, c)
<1>1. \A c \in Ctx : Bare(cs, c) => Bare(cs2, c)
  BY DEF Bare, FewerCtx
<1>2. \A i \in 1 .. Len(st) : st[i] \in Ctx
  BY ElementOfSeq
<1> QED
  BY <1>1, <1>2 DEF AllBare, BareBefore

LEMMA FewerClean ==
    ASSUME NEW os, NEW os2, NEW cs, NEW cs2, Fewer(os, os2), FewerCtx(cs, cs2),
           NEW ar, NEW ar2 \in {ar, Null}, Clean(os, cs, ar)
    PROVE  Clean(os2, cs2, ar2)
<1>1. \A v : Alive(os, cs, v) => Alive(os2, cs2, v)
  BY DEF Alive, Fewer, FewerCtx
<1>2. Alive(os2, cs2, Null)
  BY Names DEF Alive
<1>3. \A o \in Obj, f \in Field : Alive(os2, cs2, os2[o].ref[f])
  BY <1>1, <1>2 DEF Clean, Fewer
<1>4. \A c \in Ctx, s \in Slot : Alive(os2, cs2, cs2[c].ref[s])
  BY <1>1, <1>2 DEF Clean, FewerCtx
<1>5. Alive(os2, cs2, ar2)
  BY <1>1, <1>2 DEF Clean
<1>6. \A o \in Obj, f \in Field : ~os2[o].live => os2[o].ref[f] = Null
  BY DEF Clean, Fewer
<1>7. \A c \in Ctx, s \in Slot : ~cs2[c].live => cs2[c].ref[s] = Null
  BY DEF Clean, FewerCtx
<1> QED
  BY <1>3, <1>4, <1>5, <1>6, <1>7 DEF Clean

LEMMA FewerMarked ==
    ASSUME NEW os, NEW os2, Fewer(os, os2), NEW rb
    PROVE  /\ Marked(os2, rb) = Marked(os, rb) /\ LiveIn(os2) = LiveIn(os)
           /\ \A S \in SUBSET Obj : Closed(os, S) => Closed(os2, S)
<1>1. Marked(os2, rb) = Marked(os, rb) /\ LiveIn(os2) = LiveIn(os)
  BY DEF Marked, LiveIn, Fewer
<1>2. ASSUME NEW S \in SUBSET Obj, Closed(os, S) PROVE Closed(os2, S)
  BY <1>2, Names DEF Closed, Fewer
<1> QED
  BY <1>1, <1>2

LEMMA FewerColoured ==
    ASSUME NEW os, NEW os2, NEW cs, NEW cs2, Fewer(os, os2), FewerCtx(cs, cs2),
           NEW ar, NEW ar2 \in {ar, Null}, NEW rb, NEW gr \in BOOLEAN, NEW cl,
           Coloured(os, cs, ar, rb, gr, cl)
    PROVE  Coloured(os2, cs2, ar2, rb, gr, cl)
<1>1. CASE gr
  <2>1. Marked(os2, rb) = Marked(os, rb) /\ Marked(os, rb) \in SUBSET Obj
    BY FewerMarked DEF Marked
  <2>2. Closed(os2, Marked(os2, rb))
    BY <1>1, <2>1, FewerMarked DEF Coloured
  <2>3. \A c \in Ctx, s \in Slot : cs2[c].ref[s] \in Obj => cs2[c].ref[s] \in Marked(os2, rb)
    BY <1>1, <2>1, Names DEF Coloured, FewerCtx
  <2>4. ar2 \in Obj => ar2 \in Marked(os2, rb)
    BY <1>1, <2>1, Names DEF Coloured
  <2>5. \A o \in Obj : Visited(os, cl, o) => Visited(os2, cl, o)
    BY DEF Visited, Fewer
  <2>6. \A o \in Obj : os2[o].live /\ os2[o].mark # rb => Visited(os2, cl, o)
    BY <1>1, <2>5 DEF Coloured, Fewer
  <2>7. \A o \in Marked(os2, rb) : ~os2[o].done
    BY <1>1, <2>1 DEF Coloured, Fewer
  <2> QED
    BY <1>1, <2>2, <2>3, <2>4, <2>6, <2>7 DEF Coloured
<1>2. CASE ~gr
  BY <1>2 DEF Coloured, Fewer
<1> QED
  BY <1>1, <1>2

LEMMA FewerLaid ==
    ASSUME NEW os, NEW os2, NEW cs, NEW cs2, Fewer(os, os2), FewerCtx(cs, cs2),
           NEW st \in Seq(Ctx), NEW ar, NEW ar2 \in {ar, Null}, NEW rb, NEW gr \in BOOLEAN,
           NEW cl \in Seq(Call), NEW en, Laid(os, cs, st, ar, rb, gr, cl, en),
           en = "up" => cs2[Root].ref["_G"] = Global,
           Busy(cl, "pick") /\ gr => Grounded(os2, ar2, Marked(os2, rb)),
           TopFits(os2, cs2, st, ar2, cl), Gone(os2, cs2, st, ar2, cl)
    PROVE  Laid(os2, cs2, st, ar2, rb, gr, cl, en)
<1>1. Clean(os2, cs2, ar2)
  BY FewerClean DEF Laid
<1>2. Enlisted(cs2, st, en)
  BY Names DEF Laid, Enlisted, FewerCtx
<1>3. Fits(os2, cs2, st, ar2, rb, gr, cl)
  <2> SUFFICES ASSUME NEW f \in Under(cl) PROVE FrameFits(os2, cs2, st, ar2, rb, gr, f)
    BY DEF Laid, Fits
  <2>1. f \in Call /\ FrameFits(os, cs, st, ar, rb, gr, f)
    BY UnderType DEF Laid, Fits
  <2>2. /\ f.k \in {"destroy", "destruct"} =>
              f.x # Null /\ os2[f.x].live = os[f.x].live /\ os2[f.x].mark = os[f.x].mark
        /\ f.k \in {"free", "safe", "drop", "last", "clear", "next"} =>
              f.x \in Ctx /\ f.x # Null /\ cs2[f.x].live = cs[f.x].live
    BY <2>1, CallFields, Names DEF Fewer, FewerCtx
  <2>3. f.x # Null /\ Count(os, cs, ar, f.x) = 0 => Count(os2, cs2, ar2, f.x) = 0
    BY FewerZero
  <2>4. /\ AllBare(cs) => AllBare(cs2)
        /\ \A c \in Ctx : Bare(cs, c) => Bare(cs2, c)
        /\ \A c \in Ctx : BareBefore(cs, st, c) => BareBefore(cs2, st, c)
    BY FewerBare
  <2>5. \A o \in f.todo : os2[o].live = os[o].live /\ os2[o].mark = os[o].mark
    BY <2>1, CallFields DEF Fewer
  <2>6. (\A o \in Obj, g \in Field : os[o].ref[g] \notin Ctx)
          => (\A o \in Obj, g \in Field : os2[o].ref[g] \notin Ctx)
    BY Names DEF Fewer
  <2>7. f.k = "pick" /\ gr => Grounded(os2, ar2, Marked(os2, rb))
    BY DEF Busy
  <2>8. CASE f.k \in {"destroy", "destruct", "sweep"}
    BY <2>1, <2>2, <2>3, <2>5, <2>8 DEF FrameFits
  <2>9. CASE f.k \in {"free", "drop", "safe", "clear", "next"}
    BY <2>1, <2>2, <2>3, <2>4, <2>9 DEF FrameFits
  <2>10. CASE f.k \in {"last", "pick"}
    BY <2>1, <2>4, <2>6, <2>7, <2>10 DEF FrameFits
  <2>11. CASE f.k \in {"gc", "round", "forced"}
    BY <2>11 DEF FrameFits
  <2> QED
    BY <2>1, <2>8, <2>9, <2>10, <2>11, CallFields
<1>4. Coloured(os2, cs2, ar2, rb, gr, cl)
  BY FewerColoured DEF Laid
<1> QED
  BY <1>1, <1>2, <1>3, <1>4 DEF Laid

---------------------------------------------------------------------------
(* What is referred to is nobody's business yet.                           *)
LEMMA ReferredUntouched ==
    ASSUME NEW os, NEW cs, NEW st, NEW ar, NEW rb, NEW gr, NEW cl \in Seq(Call), NEW en,
           Laid(os, cs, st, ar, rb, gr, cl, en), NEW v, v # Null, ~NoRefs(os, cs, ar, v)
    PROVE  Untouched(cl, v)
<1> SUFFICES ASSUME NEW f \in Under(cl), f.x = v, f.k \in {"destroy", "free", "drop", "last"}
             PROVE  FALSE
  BY DEF Untouched
<1>1. f \in Call /\ FrameFits(os, cs, st, ar, rb, gr, f)
  BY UnderType DEF Laid, Fits
<1>2. CASE f.k \in {"destroy", "free", "drop"}
  BY <1>1, <1>2, CountZero DEF FrameFits
<1>3. CASE f.k = "last"
  <2>1. f.x \in Ctx
    BY <1>1, <1>3, CallFields
  <2>2. ar = Null /\ AllBare(cs) /\ \A o \in Obj, g \in Field : os[o].ref[g] \notin Ctx
    BY <1>1, <1>3 DEF FrameFits
  <2>3. NoRefs(os, cs, ar, v)
    BY <2>1, <2>2 DEF NoRefs, AllBare, Bare
  <2> QED
    BY <2>3
<1> QED
  BY <1>2, <1>3

(* Only the host's own calls are made first in sgs_DestroyEngine.          *)
LEMMA HostCalls ==
    ASSUME NEW cl \in Seq(Call), NEW en, NEW gr, Shape(cl, en, gr), NEW f \in Under(cl),
           f.k \in {"round", "clear", "next", "pick", "forced"}
    PROVE  en = "closing"
<1>1. PICK i \in 1 .. Len(cl) : f = cl[i]
  BY DEF Under
<1>2. Len(cl) \in Nat /\ cl # <<>>
  BY <1>1, LenProperties, EmptySeq
<1>3. CASE i = Len(cl)
  BY <1>1, <1>2, <1>3 DEF Shape, Based, First
<1>4. CASE i # Len(cl)
  <2>1. i \in 1 .. Len(cl) - 1
    BY <1>2, <1>4
  <2>2. Makes(cl[i + 1].k, f.k)
    BY <1>1, <2>1 DEF Shape, Chain
  <2> QED
    BY <2>2 DEF Makes
<1> QED
  BY <1>3, <1>4

(* What a destructor runs on is not reachable from the array interface.    *)
LEMMA TidyHasNoGarbage ==
    ASSUME NEW os, NEW cs, NEW st, NEW ar, NEW rb, NEW gr, NEW cl \in Seq(Call), NEW en,
           Laid(os, cs, st, ar, rb, gr, cl, en), NEW f \in Under(cl),
           f.k \in {"destroy", "destruct"}, Grounded(os, ar, LiveIn(os))
    PROVE  FALSE
<1>1. f \in Call /\ FrameFits(os, cs, st, ar, rb, gr, f)
  BY UnderType DEF Laid, Fits
<1>2. f.x \in Obj /\ f.x \in LiveIn(os)
  BY <1>1, CallFields DEF FrameFits, LiveIn
<1>3. CASE f.k = "destroy"
  <2> DEFINE S == Obj \ {f.x}
  <2>1. NoRefs(os, cs, ar, f.x)
    BY <1>1, <1>3, CountZero DEF FrameFits
  <2>2. Closed(os, S) /\ (ar \in Obj => ar \in S) /\ S \in SUBSET Obj
    BY <2>1 DEF Closed, NoRefs
  <2>3. LiveIn(os) \subseteq S
    BY <2>2 DEF Grounded
  <2> QED
    BY <1>2, <2>3
<1>4. CASE f.k = "destruct"
  <2>1. gr
    BY <1>4, DestructSweeps DEF Busy, Laid
  <2>2. Closed(os, Marked(os, rb)) /\ (ar \in Obj => ar \in Marked(os, rb))
    BY <2>1 DEF Laid, Coloured
  <2>3. Marked(os, rb) \in SUBSET Obj
    BY DEF Marked
  <2>4. LiveIn(os) \subseteq Marked(os, rb)
    BY <2>2, <2>3 DEF Grounded
  <2>5. f.x \notin Marked(os, rb)
    BY <1>1, <1>4 DEF FrameFits, Marked
  <2> QED
    BY <1>2, <2>4, <2>5
<1> QED
  BY <1>3, <1>4

(* A destructor of the collector changes nothing in what was found.        *)
LEMMA GroundedSweep ==
    ASSUME NEW os, NEW os2, NEW ar, NEW M \in SUBSET Obj, Closed(os, M), ar \in Obj => ar \in M,
           \A o \in M : \A f \in Field : os2[o].ref[f] = os[o].ref[f],
           Grounded(os, ar, M)
    PROVE  Grounded(os2, ar, M)
<1> SUFFICES ASSUME NEW S \in SUBSET Obj, ar \in Obj => ar \in S, Closed(os2, S)
             PROVE  M \subseteq S
  BY DEF Grounded
<1>1. Closed(os, S \cap M)
  BY DEF Closed
<1>2. S \cap M \in SUBSET Obj /\ (ar \in Obj => ar \in S \cap M)
  OBVIOUS
<1>3. M \subseteq S \cap M
  BY <1>1, <1>2 DEF Grounded
<1> QED
  BY <1>3

(* While a context still refers to something the root context is listed.   *)
LEMMA RootListed ==
    ASSUME NEW os, NEW cs, NEW st, NEW ar, NEW rb, NEW gr, NEW cl, NEW en,
           Laid(os, cs, st, ar, rb, gr, cl, en),
           NEW c \in Ctx, NEW s \in Slot, cs[c].ref[s] # Null
    PROVE  InList(st, Root)
BY DEF Laid, Gone, AllBare, Bare

(* The counts when a place is cleared.                                     *)
LEMMA ObjDrop ==
    ASSUME NEW os, NEW os2, NEW cs, NEW ar, NEW x \in Obj, NEW f \in Field,
           ObjChanged(os, os2, x, f), os2[x].ref[f] = Null, NEW u, u # Null
    PROVE  Count(os2, cs, ar, u) = Count(os, cs, ar, u) - Bit(os[x].ref[f] = u)
<1> DEFINE m == Cardinality(ObjPlaces(os, u))
           m2 == Cardinality(ObjPlaces(os2, u))
           n == Cardinality(CtxPlaces(cs, u))
           a == IF ar = u THEN 1 ELSE 0
           b == Bit(os[x].ref[f] = u)
<1>1. m \in Nat /\ n \in Nat /\ m2 \in Nat
  BY PlacesNumber
<1>2. m2 = m + Bit(os2[x].ref[f] = u) - b
  BY ObjPlaceChange DEF Bit
<1>3. Bit(os2[x].ref[f] = u) = 0 /\ b \in 0 .. 1 /\ a \in 0 .. 1
  BY DEF Bit
<1>4. Count(os2, cs, ar, u) = m2 + n + a /\ Count(os, cs, ar, u) = m + n + a
  BY DEF Count
<1> HIDE DEF m, m2, n, a, b
<1>5. m2 + n + a = (m + n + a) - b
  BY <1>1, <1>2, <1>3
<1> QED
  BY <1>4, <1>5 DEF b

LEMMA CtxDrop ==
    ASSUME NEW os, NEW cs, NEW cs2, NEW ar, NEW x \in Ctx, NEW s \in Slot,
           CtxChanged(cs, cs2, x, s), cs2[x].ref[s] = Null, NEW u, u # Null
    PROVE  Count(os, cs2, ar, u) = Count(os, cs, ar, u) - Bit(cs[x].ref[s] = u)
<1> DEFINE m == Cardinality(CtxPlaces(cs, u))
           m2 == Cardinality(CtxPlaces(cs2, u))
           n == Cardinality(ObjPlaces(os, u))
           a == IF ar = u THEN 1 ELSE 0
           b == Bit(cs[x].ref[s] = u)
<1>1. m \in Nat /\ n \in Nat /\ m2 \in Nat
  BY PlacesNumber
<1>2. m2 = m - b
  <2> DEFINE S == CtxPlaces(cs, u)
             T == CtxPlaces(cs2, u)
             p == <<x, s>>
  <2>1. IsFiniteSet(S)
    BY PlacesFinite
  <2>2. (p \in S <=> cs[x].ref[s] = u) /\ p \notin T /\ \A q : q # p => (q \in T <=> q \in S)
    BY DEF CtxPlaces, CtxChanged
  <2> HIDE DEF S, T, p
  <2>3. CASE p \in S
    <3>1. T = S \ {p}
      BY <2>2
    <3>2. Cardinality(T) = Cardinality(S) - 1
      BY <2>1, <2>3, <3>1, OneLess
    <3> QED
      BY <2>2, <2>3, <3>2 DEF Bit, S, T
  <2>4. CASE p \notin S
    <3>1. T = S
      BY <2>2, <2>4
    <3> QED
      BY <1>1, <2>2, <2>4, <3>1 DEF Bit, S, T
  <2> QED
    BY <2>3, <2>4
<1>3. b \in 0 .. 1 /\ a \in 0 .. 1
  BY DEF Bit
<1>4. Count(os, cs2, ar, u) = n + m2 + a /\ Count(os, cs, ar, u) = n + m + a
  BY DEF Count
<1> HIDE DEF m, m2, n, a, b
<1>5. n + m2 + a = (n + m + a) - b
  BY <1>1, <1>2, <1>3
<1> QED
  BY <1>4, <1>5 DEF b

---------------------------------------------------------------------------
(* The innermost call.                                                     *)
LEMMA TopFacts ==
    ASSUME HeapInv, Top.k # "none"
    PROVE  /\ calls # <<>> /\ Top = Head(calls) /\ Top \in Call /\ Top = calls[1]
           /\ Top \in Under(calls) /\ Rest \in Seq(Call) /\ calls = <<Top>> \o Rest
           /\ Under(calls) = {Top} \cup Under(Rest)
           /\ Apart(Rest) /\ \A g \in Under(Rest) : ~Clash(Top, g)
           /\ FrameFits(obj, context, states, array, redblue, gcrun, Top)
<1>1. calls # <<>>
  BY DEF Top, Do
<1>2. calls \in Seq(Call) /\ Fits(obj, context, states, array, redblue, gcrun, calls)
  BY DEF HeapInv, TypeOK, Sound, Laid
<1>3. Top = Head(calls)
  BY <1>1 DEF Top
<1>4. /\ Top \in Call /\ Top = calls[1] /\ Top \in Under(calls) /\ Rest \in Seq(Call)
      /\ calls = <<Top>> \o Rest
  BY <1>1, <1>2, <1>3, Unstack DEF Rest
<1>5. Under(calls) = {Top} \cup Under(Rest)
  BY <1>4, UnderCons
<1>6. Apart(calls)
  BY <1>2 DEF Fits
<1>7. Apart(Rest) /\ \A g \in Under(Rest) : ~Clash(Top, g)
  BY <1>4, <1>6, ApartCons
<1> QED
  BY <1>1, <1>2, <1>3, <1>4, <1>5, <1>7 DEF Fits

LEMMA Types ==
    ASSUME HeapInv
    PROVE  /\ obj \in Objects /\ context \in Contexts /\ states \in Seq(Ctx)
           /\ pool \in Seq(Obj) /\ array \in Obj \cup {Null} /\ redblue \in BOOLEAN
           /\ gcrun \in BOOLEAN /\ calls \in Seq(Call)
           /\ engine \in {"up", "closing", "down"}
           /\ Laid(obj, context, states, array, redblue, gcrun, calls, engine)
           /\ Counted(obj, context, array, calls, engine)
           /\ PoolFree(obj, pool)
BY DEF HeapInv, TypeOK, Sound, Objects, Contexts

(* A place is cleared.                                                     *)
ClearField(os, x, f) == [os EXCEPT ![x].ref[f] = Null]
ClearSlot(cs, x, s) == [cs EXCEPT ![x].ref[s] = Null]

LEMMA FieldCleared ==
    ASSUME NEW os \in Objects, NEW x \in Obj, NEW f \in Field
    PROVE  LET os2 == ClearField(os, x, f)
           IN  /\ os2 \in Objects /\ ObjChanged(os, os2, x, f) /\ os2[x].ref[f] = Null
               /\ Fewer(os, os2) /\ \A o \in Obj : os2[o].rc = os[o].rc
               /\ \A o \in Obj : o # x => os2[o] = os[o]
<1> DEFINE os2 == ClearField(os, x, f)
           e == [os[x].ref EXCEPT ![f] = Null]
           r == [os[x] EXCEPT !.ref = e]
<1>1. os2 = [os EXCEPT ![x] = r]
  BY DEF ClearField
<1>2. os[x] \in Object /\ os[x].ref \in [Field -> Val]
  BY ObjectFields
<1>3. e \in [Field -> Val] /\ \A g \in Field : e[g] = IF g = f THEN Null ELSE os[x].ref[g]
  BY <1>2 DEF Val
<1> HIDE DEF e
<1>4. /\ r \in Object /\ r.ref = e /\ r.live = os[x].live /\ r.mark = os[x].mark
      /\ r.done = os[x].done /\ r.rc = os[x].rc
  BY <1>2, <1>3 DEF Object
<1> HIDE DEF r, os2
<1>5. os2 \in Objects /\ \A o \in Obj : os2[o] = IF o = x THEN r ELSE os[o]
  BY <1>1, <1>4 DEF Objects
<1>6. ObjChanged(os, os2, x, f)
  BY <1>3, <1>4, <1>5 DEF ObjChanged
<1>7. Fewer(os, os2)
  BY <1>3, <1>4, <1>5 DEF Fewer
<1> QED
  BY <1>3, <1>4, <1>5, <1>6, <1>7 DEF os2

LEMMA SlotCleared ==
    ASSUME NEW cs \in Contexts, NEW x \in Ctx, NEW f \in Slot
    PROVE  LET cs2 == ClearSlot(cs, x, f)
           IN  /\ cs2 \in Contexts /\ CtxChanged(cs, cs2, x, f) /\ cs2[x].ref[f] = Null
               /\ FewerCtx(cs, cs2) /\ \A c \in Ctx : cs2[c].rc = cs[c].rc
               /\ \A c \in Ctx : c # x => cs2[c] = cs[c]
               /\ \A s \in Slot : s # f => cs2[x].ref[s] = cs[x].ref[s]
<1> DEFINE cs2 == ClearSlot(cs, x, f)
           e == [cs[x].ref EXCEPT ![f] = Null]
           r == [cs[x] EXCEPT !.ref = e]
<1>1. cs2 = [cs EXCEPT ![x] = r]
  BY DEF ClearSlot
<1>2. cs[x] \in Context /\ cs[x].ref \in [Slot -> Val]
  BY ContextFields
<1>3. e \in [Slot -> Val] /\ \A g \in Slot : e[g] = IF g = f THEN Null ELSE cs[x].ref[g]
  BY <1>2 DEF Val
<1> HIDE DEF e
<1>4. r \in Context /\ r.ref = e /\ r.live = cs[x].live /\ r.rc = cs[x].rc
  BY <1>2, <1>3 DEF Context
<1> HIDE DEF r, cs2
<1>5. cs2 \in Contexts /\ \A c \in Ctx : cs2[c] = IF c = x THEN r ELSE cs[c]
  BY <1>1, <1>4 DEF Contexts
<1>6. CtxChanged(cs, cs2, x, f)
  BY <1>3, <1>4, <1>5 DEF CtxChanged
<1>7. FewerCtx(cs, cs2)
  BY <1>3, <1>4, <1>5 DEF FewerCtx
<1> QED
  BY <1>3, <1>4, <1>5, <1>6, <1>7 DEF cs2

LEMMA CtxIsListed ==
    ASSUME NEW os, NEW cs, NEW st \in Seq(Ctx), NEW ar, NEW rb, NEW gr, NEW cl, NEW en,
           Laid(os, cs, st, ar, rb, gr, cl, en), NEW v \in Ctx, cs[v].live
    PROVE  InList(st, v) /\ st # <<>>
<1>1. InList(st, v)
  BY DEF Laid, Enlisted, InList
<1> QED
  BY <1>1, EmptySeq DEF InList

(* A reference was dropped: what is left to show of the step.              *)
LEMMA Dropped ==
    ASSUME HeapInv, NEW os \in Objects, NEW cs \in Contexts,
           NEW ar \in Obj \cup {Null}, NEW cl \in Seq(Call),
           Laid(os, cs, states, ar, redblue, gcrun, cl, engine),
           NEW v \in Val, Alive(os, cs, v), Pending(os, cs, ar, cl, engine, v),
           Untouched(cl, v),
           v \in Obj /\ ~gcrun => MayCall(cl, engine, Do("destroy", v)),
           v \in Ctx => MayCall(cl, engine, Do("free", v)) /\ InList(states, Root),
           \A o \in Obj : os[o].live = obj[o].live,
           Drops(os, cs, v, cl), array' = ar,
           UNCHANGED <<states, pool, redblue, gcrun, engine>>
    PROVE  HeapInv'
<1> DEFINE os2 == Less(os, v)
           cs2 == LessCtx(cs, v)
           c2 == Then(os, cs, v) \o cl
<1>0. states \in Seq(Ctx) /\ redblue \in BOOLEAN /\ gcrun \in BOOLEAN
  BY Types
<1>1. /\ os2 \in Objects /\ cs2 \in Contexts /\ c2 \in Seq(Call)
      /\ Sound(os2, cs2, states, ar, redblue, gcrun, c2, engine)
  BY <1>0, Settles
<1>2. obj' = os2 /\ context' = cs2 /\ calls' = c2
  BY DEF Drops
<1>3. \A o \in Obj : os2[o].live = obj[o].live
  BY LessFacts DEF Alike
<1> HIDE DEF os2, cs2, c2
<1>4. TypeOK'
  BY <1>1, <1>2, Types DEF TypeOK, Objects, Contexts
<1>5. Sound(obj, context, states, array, redblue, gcrun, calls, engine)'
  BY <1>1, <1>2
<1>6. PoolFree(obj, pool)'
  <2>1. PoolFree(os2, pool)
    <3>1. Ordered(pool) /\ \A i \in 1 .. Len(pool) : pool[i] \in Obj /\ ~obj[pool[i]].live
      BY Types, ElementOfSeq DEF PoolFree
    <3> QED
      BY <1>3, <3>1 DEF PoolFree
  <2> QED
    BY <1>2, <2>1
<1> QED
  BY <1>4, <1>5, <1>6 DEF HeapInv
---------------------------------------------------------------------------
(* A destructor drops what its object refers to.                           *)
LEMMA DropFieldKeeps ==
    ASSUME HeapInv, NEW f \in Field, DropField(f)
    PROVE  HeapInv'
<1> DEFINE x == Top.x
           v == obj[x].ref[f]
           os == ClearField(obj, x, f)
<1>0. /\ Top.k \in {"destroy", "destruct"} /\ v # Null
      /\ Drops(os, context, v, calls)
      /\ UNCHANGED <<states, pool, array, redblue, gcrun, engine>>
  BY DEF DropField, ClearField
<1>1. /\ calls # <<>> /\ Top = Head(calls) /\ Top \in Call /\ Top = calls[1]
      /\ Top \in Under(calls)
      /\ FrameFits(obj, context, states, array, redblue, gcrun, Top)
  BY <1>0, TopFacts
<1>2. /\ obj \in Objects /\ context \in Contexts /\ states \in Seq(Ctx)
      /\ array \in Obj \cup {Null} /\ gcrun \in BOOLEAN /\ calls \in Seq(Call)
      /\ Laid(obj, context, states, array, redblue, gcrun, calls, engine)
      /\ Counted(obj, context, array, calls, engine)
  BY Types
<1>3. x \in Obj
  BY <1>0, <1>1, CallFields
<1>4. /\ os \in Objects /\ ObjChanged(obj, os, x, f) /\ os[x].ref[f] = Null
      /\ Fewer(obj, os) /\ \A o \in Obj : os[o].rc = obj[o].rc
      /\ \A o \in Obj : o # x => os[o] = obj[o]
  BY <1>2, <1>3, FieldCleared
<1>5. v \in Val /\ Alive(obj, context, v) /\ ~NoRefs(obj, context, array, v)
  BY <1>2, <1>3, ObjectFields DEF Laid, Clean, NoRefs
<1> HIDE DEF x, v, os
<1>6. \A o \in Obj : os[o].live = obj[o].live
  BY <1>4 DEF Fewer
<1>7. Laid(os, context, states, array, redblue, gcrun, calls, engine)
  <2>1. FewerCtx(context, context)
    BY DEF FewerCtx
  <2>2. engine = "up" => context[Root].ref["_G"] = Global
    BY <1>2 DEF Laid, Enlisted
  <2>3. Busy(calls, "pick") /\ gcrun => Grounded(os, array, Marked(os, redblue))
    <3> SUFFICES ASSUME Busy(calls, "pick"), gcrun
                 PROVE  Grounded(os, array, Marked(os, redblue))
      OBVIOUS
    <3> DEFINE M == Marked(obj, redblue)
    <3>1. ~Busy(calls, "destroy")
      BY <1>2 DEF Laid, Shape
    <3>2. Top.k = "destruct"
      BY <1>0, <1>1, <3>1 DEF Busy
    <3>3. x \notin M
      BY <1>1, <3>2 DEF FrameFits, Marked, x
    <3>4. Grounded(obj, array, M)
      <4>1. PICK g \in Under(calls) : g.k = "pick"
        BY DEF Busy
      <4>2. FrameFits(obj, context, states, array, redblue, gcrun, g)
        BY <1>2 DEF Laid, Fits
      <4> QED
        BY <4>1, <4>2 DEF FrameFits
    <3>5. Closed(obj, M) /\ (array \in Obj => array \in M) /\ M \in SUBSET Obj
      BY <1>2 DEF Laid, Coloured, Marked
    <3>6. Marked(os, redblue) = M
      BY <1>4, FewerMarked
    <3>7. \A o \in M : \A g \in Field : os[o].ref[g] = obj[o].ref[g]
      BY <1>4, <3>3, <3>5
    <3> HIDE DEF M
    <3> QED
      BY <3>4, <3>5, <3>6, <3>7, GroundedSweep
  <2>4. TopFits(os, context, states, array, calls)
    BY <1>0, <1>1 DEF TopFits
  <2>5. Gone(os, context, states, array, calls)
    <3>1. ~Tidy(obj, context, array)
      BY <1>0, <1>1, <1>2, TidyHasNoGarbage DEF Tidy
    <3> QED
      BY <1>2, <3>1 DEF Laid, Gone
  <2> QED
    BY <1>2, <1>4, <2>1, <2>2, <2>3, <2>4, <2>5, FewerLaid
<1>8. Pending(os, context, array, calls, engine, v)
  <2>1. \A u : u # Null =>
           /\ Count(os, context, array, u) = Count(obj, context, array, u) - Bit(v = u)
           /\ Count(obj, context, array, u) \in Nat
    BY <1>3, <1>4, ObjDrop, CountType DEF v
  <2>2. \A o \in Obj : os[o].live =>
           os[o].rc = Count(os, context, array, o) + Bit(o = v)
    <3> SUFFICES ASSUME NEW o \in Obj, os[o].live
                 PROVE  os[o].rc = Count(os, context, array, o) + Bit(o = v)
      OBVIOUS
    <3>1. o # Null /\ os[o].rc = Count(obj, context, array, o)
      BY <1>2, <1>4, <1>6, Names DEF Counted
    <3> QED
      BY <2>1, <3>1 DEF Bit
  <2>3. \A c \in Ctx : context[c].live =>
           context[c].rc = Count(os, context, array, c) + Extra(calls, engine, c) + Bit(c = v)
    <3> SUFFICES ASSUME NEW c \in Ctx, context[c].live
                 PROVE  context[c].rc = Count(os, context, array, c)
                                          + Extra(calls, engine, c) + Bit(c = v)
      OBVIOUS
    <3>1. /\ c # Null
          /\ context[c].rc = Count(obj, context, array, c) + Extra(calls, engine, c)
      BY <1>2, Names DEF Counted
    <3>2. Extra(calls, engine, c) \in 0 .. 2
      BY DEF Extra
    <3> QED
      BY <2>1, <3>1, <3>2 DEF Bit
  <2> QED
    BY <2>2, <2>3 DEF Pending
<1>9. Untouched(calls, v)
  BY <1>0, <1>2, <1>5, ReferredUntouched
<1>10. Alive(os, context, v)
  BY <1>5, <1>6 DEF Alive
<1>11. MayCall(calls, engine, Do("destroy", v)) /\ MayCall(calls, engine, Do("free", v))
  BY <1>0, <1>1, DoFacts DEF MayCall, Makes
<1>12. v \in Ctx => InList(states, Root)
  <2> SUFFICES ASSUME v \in Ctx, ~InList(states, Root) PROVE FALSE
    OBVIOUS
  <2>1. states # <<>>
    BY <1>2, <1>5, CtxIsListed DEF Alive
  <2>2. ~Tidy(obj, context, array)
    BY <1>0, <1>1, <1>2, TidyHasNoGarbage DEF Tidy
  <2>3. Busy(calls, "last")
    BY <1>2, <2>1, <2>2 DEF Laid, Gone
  <2>4. PICK g \in Under(calls) : g.k = "last"
    BY <2>3 DEF Busy
  <2>5. FrameFits(obj, context, states, array, redblue, gcrun, g)
    BY <1>2 DEF Laid, Fits
  <2>6. obj[x].ref[f] \notin Ctx
    BY <1>3, <2>4, <2>5 DEF FrameFits
  <2> QED
    BY <2>6 DEF v
<1> QED
  BY <1>0, <1>2, <1>4, <1>5, <1>6, <1>7, <1>8, <1>9, <1>10, <1>11, <1>12, Dropped

(* ctx_safedestroy drops what its context refers to.                       *)
LEMMA SafeCloses ==
    ASSUME HeapInv, Top.k = "safe"
    PROVE  /\ engine = "closing" /\ Rest # <<>> /\ Head(Rest).k = "next" /\ Head(Rest).x = Top.x
           /\ Tail(Rest) = <<>> /\ Rest \in Seq(Call)
<1>1. /\ Top \in Call /\ Rest \in Seq(Call) /\ calls = <<Top>> \o Rest
  BY TopFacts
<1>2. Shape(<<Top>> \o Rest, engine, gcrun)
  BY <1>1, Types DEF Laid
<1>3. Rest # <<>>
  BY <1>1, <1>2, LowCall DEF First
<1>4. Head(Rest).k = "next" /\ Head(Rest).x = Top.x /\ Chain(Rest) /\ Based(Rest, engine)
  BY <1>1, <1>2, <1>3, LowCall DEF Makes
<1>5. Rest = <<Head(Rest)>> \o Tail(Rest) /\ Head(Rest) \in Call /\ Tail(Rest) \in Seq(Call)
  BY <1>1, <1>3, Unstack
<1>6. MayCall(Tail(Rest), engine, Head(Rest))
  BY <1>4, <1>5, ChainCons
<1>7. Tail(Rest) = <<>> /\ engine = "closing"
  BY <1>4, <1>6 DEF MayCall, Makes, First
<1> QED
  BY <1>1, <1>3, <1>4, <1>7

LEMMA ClearedIsNotRoot ==
    ASSUME HeapInv, Top.k \in {"free", "safe"}
    PROVE  /\ Top.x \in Ctx /\ context[Top.x].live
           /\ engine = "up" => Top.x # Root
<1>1. Top \in Call /\ FrameFits(obj, context, states, array, redblue, gcrun, Top)
  BY TopFacts
<1>2. Top.x \in Ctx
  BY <1>1, CallFields
<1>3. CASE Top.k = "free"
  BY <1>1, <1>2, <1>3 DEF FrameFits
<1>4. CASE Top.k = "safe"
  BY <1>1, <1>2, <1>4, SafeCloses DEF FrameFits
<1> QED
  BY <1>3, <1>4

LEMMA DropSlotKeeps ==
    ASSUME HeapInv, NEW s \in Slot, DropSlot(s)
    PROVE  HeapInv'
<1> DEFINE x == Top.x
           v == context[x].ref[s]
           cs == ClearSlot(context, x, s)
<1>0. /\ Top.k \in {"free", "safe"} /\ v # Null
      /\ Drops(obj, cs, v, calls)
      /\ UNCHANGED <<states, pool, array, redblue, gcrun, engine>>
  BY DEF DropSlot, ClearSlot
<1>1. /\ calls # <<>> /\ Top = Head(calls) /\ Top \in Call /\ Top = calls[1]
      /\ Top \in Under(calls)
  BY <1>0, TopFacts
<1>2. /\ obj \in Objects /\ context \in Contexts /\ states \in Seq(Ctx)
      /\ array \in Obj \cup {Null} /\ gcrun \in BOOLEAN /\ calls \in Seq(Call)
      /\ Laid(obj, context, states, array, redblue, gcrun, calls, engine)
      /\ Counted(obj, context, array, calls, engine)
  BY Types
<1>3. x \in Ctx /\ (engine = "up" => x # Root)
  BY <1>0, ClearedIsNotRoot
<1>4. /\ cs \in Contexts /\ CtxChanged(context, cs, x, s) /\ cs[x].ref[s] = Null
      /\ FewerCtx(context, cs) /\ \A c \in Ctx : cs[c].rc = context[c].rc
      /\ \A c \in Ctx : c # x => cs[c] = context[c]
  BY <1>2, <1>3, SlotCleared
<1>5. v \in Val /\ Alive(obj, context, v) /\ ~NoRefs(obj, context, array, v)
  BY <1>2, <1>3, ContextFields DEF Laid, Clean, NoRefs
<1>6. InList(states, Root)
  BY <1>0, <1>2, <1>3, RootListed
<1> HIDE DEF x, v, cs
<1>7. Laid(obj, cs, states, array, redblue, gcrun, calls, engine)
  <2>1. Fewer(obj, obj)
    BY DEF Fewer
  <2>2. engine = "up" => cs[Root].ref["_G"] = Global
    BY <1>2, <1>3, <1>4, Names DEF Laid, Enlisted
  <2>3. Busy(calls, "pick") /\ gcrun => Grounded(obj, array, Marked(obj, redblue))
    <3> SUFFICES ASSUME Busy(calls, "pick"), gcrun
                 PROVE  Grounded(obj, array, Marked(obj, redblue))
      OBVIOUS
    <3>1. PICK g \in Under(calls) : g.k = "pick"
      BY DEF Busy
    <3>2. FrameFits(obj, context, states, array, redblue, gcrun, g)
      BY <1>2 DEF Laid, Fits
    <3> QED
      BY <3>1, <3>2 DEF FrameFits
  <2>4. TopFits(obj, cs, states, array, calls)
    BY <1>0, <1>1 DEF TopFits
  <2>5. Gone(obj, cs, states, array, calls)
    BY <1>6 DEF Gone
  <2> QED
    BY <1>2, <1>4, <2>1, <2>2, <2>3, <2>4, <2>5, FewerLaid
<1>8. Pending(obj, cs, array, calls, engine, v)
  <2>1. \A u : u # Null =>
           /\ Count(obj, cs, array, u) = Count(obj, context, array, u) - Bit(v = u)
           /\ Count(obj, context, array, u) \in Nat
    BY <1>3, <1>4, CtxDrop, CountType DEF v
  <2>2. \A o \in Obj : obj[o].live =>
           obj[o].rc = Count(obj, cs, array, o) + Bit(o = v)
    <3> SUFFICES ASSUME NEW o \in Obj, obj[o].live
                 PROVE  obj[o].rc = Count(obj, cs, array, o) + Bit(o = v)
      OBVIOUS
    <3>1. o # Null /\ obj[o].rc = Count(obj, context, array, o)
      BY <1>2, Names DEF Counted
    <3> QED
      BY <2>1, <3>1 DEF Bit
  <2>3. \A c \in Ctx : cs[c].live =>
           cs[c].rc = Count(obj, cs, array, c) + Extra(calls, engine, c) + Bit(c = v)
    <3> SUFFICES ASSUME NEW c \in Ctx, cs[c].live
                 PROVE  cs[c].rc = Count(obj, cs, array, c)
                                          + Extra(calls, engine, c) + Bit(c = v)
      OBVIOUS
    <3>1. /\ c # Null
          /\ cs[c].rc = Count(obj, context, array, c) + Extra(calls, engine, c)
      BY <1>2, <1>4, Names DEF Counted, FewerCtx
    <3>2. Extra(calls, engine, c) \in 0 .. 2
      BY DEF Extra
    <3> QED
      BY <2>1, <3>1, <3>2 DEF Bit
  <2> QED
    BY <2>2, <2>3 DEF Pending
<1>9. Untouched(calls, v)
  BY <1>0, <1>2, <1>5, ReferredUntouched
<1>10. Alive(obj, cs, v)
  BY <1>4, <1>5 DEF Alive, FewerCtx
<1>11. MayCall(calls, engine, Do("destroy", v)) /\ MayCall(calls, engine, Do("free", v))
  BY <1>0, <1>1, DoFacts DEF MayCall, Makes
<1> QED
  BY <1>0, <1>2, <1>4, <1>5, <1>6, <1>7, <1>8, <1>9, <1>10, <1>11, Dropped
---------------------------------------------------------------------------
(* Calls end and calls are made.                                           *)
Framed(os, cs, st, ar, rb, gr, cl, en) ==
    /\ Chain(cl) /\ (cl # <<>> => Based(cl, en))
    /\ (gr <=> Busy(cl, "sweep")) /\ (gr => ~Busy(cl, "destroy"))
    /\ Fits(os, cs, st, ar, rb, gr, cl) /\ Coloured(os, cs, ar, rb, gr, cl)

LEMMA LaidIsFramed ==
    ASSUME NEW os, NEW cs, NEW st, NEW ar, NEW rb, NEW gr, NEW cl, NEW en
    PROVE  Laid(os, cs, st, ar, rb, gr, cl, en)
             <=> /\ Clean(os, cs, ar) /\ Enlisted(cs, st, en)
                 /\ Framed(os, cs, st, ar, rb, gr, cl, en)
                 /\ cl = <<>> => en \in {"up", "down"}
                 /\ TopFits(os, cs, st, ar, cl) /\ Gone(os, cs, st, ar, cl)
BY DEF Laid, Framed, Shape, Based

LEMMA FramedPop ==
    ASSUME NEW os, NEW cs, NEW st, NEW ar, NEW rb, NEW gr \in BOOLEAN, NEW f \in Call,
           NEW cl \in Seq(Call), NEW en,
           Framed(os, cs, st, ar, rb, gr, <<f>> \o cl, en), f.k # "sweep",
           f.k = "destruct" => \A g \in Field : os[f.x].ref[g] = Null
    PROVE  Framed(os, cs, st, ar, rb, gr, cl, en)
<1> DEFINE c2 == <<f>> \o cl
<1>1. /\ c2 \in Seq(Call) /\ c2 # <<>> /\ Under(c2) = {f} \cup Under(cl)
      /\ \A k : Busy(c2, k) <=> f.k = k \/ Busy(cl, k)
      /\ Apart(c2) <=> Apart(cl) /\ \A g \in Under(cl) : ~Clash(f, g)
  BY ConsFacts, UnderCons, BusyCons, ApartCons
<1>2. Chain(c2) /\ Based(c2, en)
  BY <1>1 DEF Framed
<1>3. Chain(cl) /\ (cl # <<>> => Based(cl, en))
  BY <1>2, ChainCons
<1> HIDE DEF c2
<1>4. Framed(os, cs, st, ar, rb, gr, c2, en)
  BY DEF c2
<1>5. Fits(os, cs, st, ar, rb, gr, cl)
  BY <1>1, <1>4 DEF Framed, Fits
<1>6. Coloured(os, cs, ar, rb, gr, cl)
  <2>1. \A o : Visited(os, c2, o) => Visited(os, cl, o)
    BY <1>1 DEF Visited
  <2> QED
    BY <1>4, <2>1 DEF Framed, Coloured
<1> QED
  BY <1>1, <1>3, <1>4, <1>5, <1>6 DEF Framed

LEMMA FramedPush ==
    ASSUME NEW os, NEW cs, NEW st, NEW ar, NEW rb, NEW gr \in BOOLEAN, NEW f \in Call,
           NEW cl \in Seq(Call), NEW en,
           Framed(os, cs, st, ar, rb, gr, cl, en), f.k # "sweep", f.k = "destroy" => ~gr,
           MayCall(cl, en, f), FrameFits(os, cs, st, ar, rb, gr, f),
           \A g \in Under(cl) : ~Clash(f, g)
    PROVE  Framed(os, cs, st, ar, rb, gr, <<f>> \o cl, en)
<1> DEFINE c2 == <<f>> \o cl
<1>1. /\ c2 \in Seq(Call) /\ c2 # <<>> /\ Under(c2) = {f} \cup Under(cl)
      /\ \A k : Busy(c2, k) <=> f.k = k \/ Busy(cl, k)
      /\ Apart(c2) <=> Apart(cl) /\ \A g \in Under(cl) : ~Clash(f, g)
  BY ConsFacts, UnderCons, BusyCons, ApartCons
<1>2. Chain(c2) /\ Based(c2, en)
  BY ChainCons DEF Framed
<1> HIDE DEF c2
<1>3. Fits(os, cs, st, ar, rb, gr, c2)
  BY <1>1 DEF Framed, Fits
<1>4. Coloured(os, cs, ar, rb, gr, c2)
  <2>1. \A o : Visited(os, cl, o) => Visited(os, c2, o)
    BY <1>1 DEF Visited
  <2> QED
    BY <2>1 DEF Framed, Coloured
<1> QED
  BY <1>1, <1>2, <1>3, <1>4 DEF Framed, c2

(* A step whose next state is sound.                                       *)
LEMMA Stepped ==
    ASSUME NEW os \in Objects, NEW cs \in Contexts, NEW st \in Seq(Ctx), NEW p \in Seq(Obj),
           NEW ar \in Obj \cup {Null}, NEW rb \in BOOLEAN, NEW gr \in BOOLEAN,
           NEW cl \in Seq(Call), NEW en \in {"up", "closing", "down"},
           Laid(os, cs, st, ar, rb, gr, cl, en), Counted(os, cs, ar, cl, en), PoolFree(os, p),
           obj' = os, context' = cs, states' = st, pool' = p, array' = ar, redblue' = rb,
           gcrun' = gr, calls' = cl, engine' = en
    PROVE  HeapInv'
<1>1. TypeOK'
  BY DEF TypeOK, Objects, Contexts
<1>2. Sound(os, cs, st, ar, rb, gr, cl, en)
  BY DEF Sound
<1>3. Sound(obj, context, states, array, redblue, gcrun, calls, engine)'
  BY <1>2
<1>4. PoolFree(obj, pool)'
  OBVIOUS
<1> QED
  BY <1>1, <1>3, <1>4 DEF HeapInv

LEMMA ExtraCons ==
    ASSUME NEW cl \in Seq(Call), NEW f \in Call, NEW en
    PROVE  /\ f.k \notin {"free", "safe", "clear", "next", "pick"} =>
                 \A c : Extra(<<f>> \o cl, en, c) = Extra(cl, en, c)
           /\ \A c : Extra(cl, en, c) \in 0 .. 2
<1>1. \A c : Extra(cl, en, c) \in 0 .. 2
  BY DEF Extra
<1>2. ASSUME f.k \notin {"free", "safe", "clear", "next", "pick"}, NEW c
      PROVE  Extra(<<f>> \o cl, en, c) = Extra(cl, en, c)
  BY <1>2, BusyCons DEF Extra
<1> QED
  BY <1>1, <1>2

LEMMA CountedSame ==
    ASSUME NEW os, NEW cs, NEW ar, NEW cl, NEW c2, NEW en, NEW e2, Counted(os, cs, ar, cl, en),
           \A c \in Ctx : Extra(c2, e2, c) = Extra(cl, en, c)
    PROVE  Counted(os, cs, ar, c2, e2)
BY DEF Counted

---------------------------------------------------------------------------
(* sgsSTD_ThreadsFree takes the context out of the list of its owner.      *)
LEMMA LeaveOwnerKeeps ==
    ASSUME HeapInv, NEW p \in Ctx, LeaveOwner(p)
    PROVE  HeapInv'
<1> DEFINE x == Top.x
           n == context[x].rc - 1
           cs == ClearSlot(context, p, "sub")
           cs2 == SetRc(cs, x, n)
<1>0. /\ Top.k \in {"free", "safe"} /\ Cleared(x) /\ context[p].ref["sub"] = x
      /\ context' = [context EXCEPT ![p].ref["sub"] = Null, ![x].rc = @ - 1]
      /\ UNCHANGED <<obj, states, pool, array, redblue, gcrun, calls, engine>>
  BY DEF LeaveOwner, Owners
<1>1. /\ calls # <<>> /\ Top \in Call /\ Top = calls[1] /\ Top \in Under(calls)
      /\ FrameFits(obj, context, states, array, redblue, gcrun, Top)
  BY <1>0, TopFacts
<1>2. /\ obj \in Objects /\ context \in Contexts /\ states \in Seq(Ctx) /\ pool \in Seq(Obj)
      /\ array \in Obj \cup {Null} /\ redblue \in BOOLEAN /\ gcrun \in BOOLEAN
      /\ calls \in Seq(Call) /\ engine \in {"up", "closing", "down"}
      /\ Laid(obj, context, states, array, redblue, gcrun, calls, engine)
      /\ Counted(obj, context, array, calls, engine) /\ PoolFree(obj, pool)
  BY Types
<1>3. x \in Ctx /\ context[x].live /\ x # Null
  BY <1>0, ClearedIsNotRoot, Names
<1>4. p # x /\ "sub" \in Slot
  BY <1>0, <1>3, Names DEF Cleared
<1>5. engine = "closing"
  <2>1. ~NoRefs(obj, context, array, x)
    BY <1>0, <1>4 DEF NoRefs
  <2>2. Top.k # "free"
    BY <1>1, <2>1, CountZero DEF FrameFits
  <2> QED
    BY <1>0, <2>2, SafeCloses
<1>6. /\ cs \in Contexts /\ CtxChanged(context, cs, p, "sub") /\ cs[p].ref["sub"] = Null
      /\ FewerCtx(context, cs) /\ \A c \in Ctx : cs[c].rc = context[c].rc
  BY <1>2, <1>4, SlotCleared
<1>7. n \in Int
  BY <1>2, <1>3, ContextFields
<1>8. context' = cs2
  <2>1. cs[x].rc = context[x].rc
    BY <1>3, <1>6
  <2>2. context' = [cs EXCEPT ![x].rc = cs[x].rc - 1]
    BY <1>0 DEF ClearSlot
  <2> QED
    BY <2>1, <2>2 DEF SetRc
<1>9. /\ cs2 \in Contexts /\ AlikeCtx(cs, cs2)
      /\ \A d \in Ctx : cs2[d].rc = IF d = x THEN n ELSE cs[d].rc
  <2> HIDE DEF cs, x, n
  <2> QED
    BY <1>3, <1>6, <1>7, ContextRc
<1> HIDE DEF x, cs, cs2
<1>10. Laid(obj, cs, states, array, redblue, gcrun, calls, engine)
  <2>1. Fewer(obj, obj)
    BY DEF Fewer
  <2>2. Busy(calls, "pick") /\ gcrun => Grounded(obj, array, Marked(obj, redblue))
    <3> SUFFICES ASSUME Busy(calls, "pick"), gcrun
                 PROVE  Grounded(obj, array, Marked(obj, redblue))
      OBVIOUS
    <3>1. PICK g \in Under(calls) : g.k = "pick"
      BY DEF Busy
    <3>2. FrameFits(obj, context, states, array, redblue, gcrun, g)
      BY <1>2 DEF Laid, Fits
    <3> QED
      BY <3>1, <3>2 DEF FrameFits
  <2>3. TopFits(obj, cs, states, array, calls)
    BY <1>0, <1>1 DEF TopFits
  <2>4. InList(states, Root)
    BY <1>0, <1>2, <1>3, <1>4, RootListed
  <2>5. Gone(obj, cs, states, array, calls)
    BY <2>4 DEF Gone
  <2> QED
    BY <1>2, <1>5, <1>6, <2>1, <2>2, <2>3, <2>5, FewerLaid
<1>11. Laid(obj, cs2, states, array, redblue, gcrun, calls, engine)
  <2>1. Alike(obj, obj)
    BY DEF Alike
  <2> QED
    BY <1>2, <1>9, <1>10, <2>1, LaidAlike
<1>12. Counted(obj, cs2, array, calls, engine)
  <2>1. \A u : u # Null =>
           /\ Count(obj, cs, array, u) = Count(obj, context, array, u) - Bit(x = u)
           /\ Count(obj, context, array, u) \in Nat
    <3> SUFFICES ASSUME NEW u, u # Null
                 PROVE  /\ Count(obj, cs, array, u) = Count(obj, context, array, u) - Bit(x = u)
                        /\ Count(obj, context, array, u) \in Nat
      OBVIOUS
    <3>1. Count(obj, cs, array, u)
            = Count(obj, context, array, u) - Bit(context[p].ref["sub"] = u)
      BY <1>4, <1>6, CtxDrop
    <3> QED
      BY <1>0, <3>1, CountType DEF x
  <2>2. \A u : Count(obj, cs2, array, u) = Count(obj, cs, array, u)
    <3>1. Alike(obj, obj)
      BY DEF Alike
    <3> QED
      BY <1>9, <3>1, CountAlike
  <2>3. \A o \in Obj : obj[o].live => obj[o].rc = Count(obj, cs2, array, o)
    <3> SUFFICES ASSUME NEW o \in Obj, obj[o].live PROVE obj[o].rc = Count(obj, cs2, array, o)
      OBVIOUS
    <3>1. o # Null /\ o # x /\ obj[o].rc = Count(obj, context, array, o)
      BY <1>2, <1>3, Names DEF Counted
    <3> QED
      BY <2>1, <2>2, <3>1 DEF Bit
  <2>4. \A c \in Ctx : cs2[c].live =>
           cs2[c].rc = Count(obj, cs2, array, c) + Extra(calls, engine, c)
    <3> SUFFICES ASSUME NEW c \in Ctx, cs2[c].live
                 PROVE  cs2[c].rc = Count(obj, cs2, array, c) + Extra(calls, engine, c)
      OBVIOUS
    <3>1. /\ c # Null
          /\ context[c].rc = Count(obj, context, array, c) + Extra(calls, engine, c)
      BY <1>2, <1>6, <1>9, Names DEF Counted, FewerCtx, AlikeCtx
    <3>2. Extra(calls, engine, c) \in 0 .. 2
      BY DEF Extra
    <3> QED
      BY <1>6, <1>9, <2>1, <2>2, <3>1, <3>2 DEF Bit
  <2> QED
    BY <2>3, <2>4 DEF Counted
<1>13. /\ obj' = obj /\ context' = cs2 /\ states' = states /\ pool' = pool /\ array' = array
       /\ redblue' = redblue /\ gcrun' = gcrun /\ calls' = calls /\ engine' = engine
  BY <1>0, <1>8
<1> QED
  BY <1>2, <1>9, <1>11, <1>12, <1>13, Stepped
---------------------------------------------------------------------------
(* The stack of a context is cleared: sgsCTX_FreeState goes on to destroy  *)
(* it, the first part of a round goes on to the next one.                  *)
LEMMA ContextClearedKeeps ==
    ASSUME HeapInv, ContextCleared
    PROVE  HeapInv'
<1> DEFINE x == Top.x
           n == context[x].rc - 1
           cs == SetRc(context, x, n)
           g == Do("drop", x)
           c2 == IF Top.k = "free" THEN <<g>> \o Rest ELSE Rest
<1>0. /\ Top.k \in {"free", "safe"} /\ Cleared(x)
      /\ context' = cs /\ calls' = c2
      /\ UNCHANGED <<obj, states, pool, array, redblue, gcrun, engine>>
  BY DEF ContextCleared, Finished, SetRc
<1>1. /\ calls # <<>> /\ Top \in Call /\ Top = calls[1] /\ Top \in Under(calls)
      /\ Rest \in Seq(Call) /\ calls = <<Top>> \o Rest
      /\ Under(calls) = {Top} \cup Under(Rest) /\ Apart(Rest)
      /\ \A h \in Under(Rest) : ~Clash(Top, h)
      /\ FrameFits(obj, context, states, array, redblue, gcrun, Top)
  BY <1>0, TopFacts
<1>2. /\ obj \in Objects /\ context \in Contexts /\ states \in Seq(Ctx) /\ pool \in Seq(Obj)
      /\ array \in Obj \cup {Null} /\ redblue \in BOOLEAN /\ gcrun \in BOOLEAN
      /\ calls \in Seq(Call) /\ engine \in {"up", "closing", "down"}
      /\ Laid(obj, context, states, array, redblue, gcrun, calls, engine)
      /\ Counted(obj, context, array, calls, engine) /\ PoolFree(obj, pool)
  BY Types
<1>3. x \in Ctx /\ context[x].live
  BY <1>0, ClearedIsNotRoot
<1>4. n \in Int
  BY <1>2, <1>3, ContextFields
<1>5. /\ cs \in Contexts /\ AlikeCtx(context, cs)
      /\ \A d \in Ctx : cs[d].rc = IF d = x THEN n ELSE context[d].rc
  <2> HIDE DEF x, n
  <2> QED
    BY <1>2, <1>3, <1>4, ContextRc
<1>6. Bare(context, x)
  BY <1>0 DEF Cleared, Bare
<1>7. g \in Call /\ g.k = "drop" /\ g.x = x
  BY <1>3, DoFacts
<1>8. Framed(obj, context, states, array, redblue, gcrun, Rest, engine)
  <2>1. Framed(obj, context, states, array, redblue, gcrun, <<Top>> \o Rest, engine)
    BY <1>1, <1>2, LaidIsFramed
  <2> QED
    BY <1>0, <1>1, <1>2, <2>1, FramedPop
<1>9. Shape(<<Top>> \o Rest, engine, gcrun)
  BY <1>1, <1>2 DEF Laid
<1> HIDE DEF x, g, n
<1>10. /\ c2 \in Seq(Call)
       /\ Laid(obj, context, states, array, redblue, gcrun, c2, engine)
       /\ \A c \in Ctx : Extra(c2, engine, c) = Extra(calls, engine, c) - Bit(c = x)
  <2>1. CASE Top.k = "free"
    <3>1. c2 = <<g>> \o Rest /\ c2 \in Seq(Call) /\ c2 # <<>> /\ c2[1] = g
          /\ (Len(c2) > 1 => c2[2] = Head(Rest) /\ Rest # <<>>)
      <4>1. /\ Len(c2) = Len(Rest) + 1 /\ Len(Rest) \in Nat
            /\ \A i \in 1 .. Len(Rest) : c2[i + 1] = Rest[i]
            /\ c2 = <<g>> \o Rest /\ c2 \in Seq(Call) /\ c2 # <<>> /\ c2[1] = g
        BY <1>1, <1>7, <2>1, ConsFacts
      <4>2. Len(c2) > 1 => c2[1 + 1] = Rest[1] /\ Rest # <<>>
        BY <4>1, EmptySeq
      <4>3. Rest # <<>> => Head(Rest) = Rest[1]
        BY <1>1, Unstack
      <4> QED
        BY <4>1, <4>2, <4>3
    <3>2. Count(obj, context, array, x) = 0 /\ InList(states, Root) /\ x # Root
      BY <1>1, <2>1 DEF FrameFits, x
    <3>3. FrameFits(obj, context, states, array, redblue, gcrun, g)
      BY <1>3, <1>6, <1>7, <3>2 DEF FrameFits
    <3>4. MayCall(Rest, engine, g)
      <4>1. Rest = <<>> => First("free", engine)
        BY <1>1, <1>9, <2>1, LowCall
      <4>2. Rest # <<>> => Makes(Head(Rest).k, "free")
        BY <1>1, <1>9, <2>1, LowCall
      <4> QED
        BY <1>7, <4>1, <4>2 DEF MayCall, First, Makes
    <3>5. \A h \in Under(Rest) : ~Clash(g, h)
      BY <1>1, <1>7, <2>1 DEF Clash, x
    <3>6. Framed(obj, context, states, array, redblue, gcrun, c2, engine)
      BY <1>1, <1>2, <1>7, <1>8, <3>1, <3>3, <3>4, <3>5, FramedPush
    <3>7. TopFits(obj, context, states, array, c2)
      <4>1. Rest # <<>> => Head(Rest).k # "round"
        BY <1>1, <1>9, <2>1, LowCall DEF Makes
      <4> QED
        BY <1>7, <3>1, <3>2, <4>1 DEF TopFits
    <3>8. Gone(obj, context, states, array, c2)
      BY <3>2 DEF Gone
    <3>9. Laid(obj, context, states, array, redblue, gcrun, c2, engine)
      BY <1>2, <3>1, <3>6, <3>7, <3>8, LaidIsFramed
    <3>10. \A c \in Ctx : Extra(c2, engine, c) = Extra(calls, engine, c) - Bit(c = x)
      <4>1. /\ \A c : Kept(c2, c) <=> Kept(Rest, c)
            /\ Holds(c2, engine) <=> Holds(Rest, engine)
        BY <1>1, <1>7, <3>1, BusyCons
      <4>2. /\ \A c : Kept(calls, c) <=> c = x \/ Kept(Rest, c)
            /\ Holds(calls, engine) <=> Holds(Rest, engine)
        BY <1>1, <2>1, BusyCons DEF x
      <4>3. ~Kept(Rest, x)
        BY <1>1, <2>1 DEF Kept, Clash, x
      <4> QED
        BY <3>2, <4>1, <4>2, <4>3 DEF Extra, Bit
    <3> QED
      BY <3>1, <3>9, <3>10
  <2>2. CASE Top.k = "safe"
    <3>1. /\ c2 = Rest /\ engine = "closing" /\ Rest # <<>>
          /\ Head(Rest).k = "next" /\ Head(Rest).x = x
      BY <2>2, SafeCloses DEF x
    <3>2. Head(Rest) = Rest[1] /\ Head(Rest) \in Under(Rest)
      BY <1>1, <3>1, Unstack
    <3>3. TopFits(obj, context, states, array, Rest)
      BY <1>6, <3>1, <3>2 DEF TopFits
    <3>4. Gone(obj, context, states, array, Rest)
      BY <1>1, <1>2, <2>2 DEF Laid, Gone, Busy
    <3>5. Laid(obj, context, states, array, redblue, gcrun, c2, engine)
      BY <1>2, <1>8, <3>1, <3>3, <3>4, LaidIsFramed
    <3>6. \A c \in Ctx : Extra(c2, engine, c) = Extra(calls, engine, c) - Bit(c = x)
      <4>1. /\ \A c : Kept(calls, c) <=> c = x \/ Kept(Rest, c)
            /\ Holds(calls, engine) <=> Holds(Rest, engine)
        BY <1>1, <2>2, BusyCons DEF x
      <4>2. ~Kept(Rest, x)
        BY <1>1, <2>2 DEF Kept, Clash, x
      <4> QED
        BY <3>1, <4>1, <4>2 DEF Extra, Bit
    <3> QED
      BY <1>1, <3>1, <3>5, <3>6
  <2> QED
    BY <1>0, <2>1, <2>2
<1> HIDE DEF cs, c2
<1>11. Laid(obj, cs, states, array, redblue, gcrun, c2, engine)
  <2>1. Alike(obj, obj)
    BY DEF Alike
  <2> QED
    BY <1>2, <1>5, <1>10, <2>1, LaidAlike
<1>12. Counted(obj, cs, array, c2, engine)
  <2>1. \A u : Count(obj, cs, array, u) = Count(obj, context, array, u)
               /\ Count(obj, context, array, u) \in Nat
    <3>1. Alike(obj, obj)
      BY DEF Alike
    <3> QED
      BY <1>5, <3>1, CountAlike, CountType
  <2>2. \A c \in Ctx : cs[c].live => cs[c].rc = Count(obj, cs, array, c) + Extra(c2, engine, c)
    <3> SUFFICES ASSUME NEW c \in Ctx, cs[c].live
                 PROVE  cs[c].rc = Count(obj, cs, array, c) + Extra(c2, engine, c)
      OBVIOUS
    <3>1. context[c].rc = Count(obj, context, array, c) + Extra(calls, engine, c)
      BY <1>2, <1>5 DEF Counted, AlikeCtx
    <3>2. Extra(calls, engine, c) \in 0 .. 2
      BY DEF Extra
    <3> QED
      BY <1>5, <1>10, <2>1, <3>1, <3>2 DEF Bit, n
  <2> QED
    BY <1>2, <2>1, <2>2 DEF Counted
<1>13. /\ obj' = obj /\ context' = cs /\ states' = states /\ pool' = pool /\ array' = array
       /\ redblue' = redblue /\ gcrun' = gcrun /\ calls' = c2 /\ engine' = engine
  BY <1>0
<1>14. /\ cs \in Contexts /\ c2 \in Seq(Call)
  BY <1>5, <1>10
<1> QED
  BY <1>2, <1>11, <1>12, <1>13, <1>14, Stepped

(* The destructor that a sweep called ends.                                *)
LEMMA DestructedKeeps ==
    ASSUME HeapInv, Destructed
    PROVE  HeapInv'
<1> DEFINE x == Top.x
           os == [obj EXCEPT ![x].done = TRUE]
<1>0. /\ Top.k = "destruct" /\ NoFields /\ obj' = os /\ calls' = Rest
      /\ UNCHANGED <<context, states, pool, array, redblue, gcrun, engine>>
  BY DEF Destructed
<1>1. /\ calls # <<>> /\ Top \in Call /\ Top = calls[1] /\ Top \in Under(calls)
      /\ Rest \in Seq(Call) /\ calls = <<Top>> \o Rest
      /\ Under(calls) = {Top} \cup Under(Rest)
      /\ FrameFits(obj, context, states, array, redblue, gcrun, Top)
  BY <1>0, TopFacts
<1>2. /\ obj \in Objects /\ context \in Contexts /\ states \in Seq(Ctx) /\ pool \in Seq(Obj)
      /\ array \in Obj \cup {Null} /\ redblue \in BOOLEAN /\ gcrun \in BOOLEAN
      /\ calls \in Seq(Call) /\ engine \in {"up", "closing", "down"}
      /\ Laid(obj, context, states, array, redblue, gcrun, calls, engine)
      /\ Counted(obj, context, array, calls, engine) /\ PoolFree(obj, pool)
  BY Types
<1>3. x \in Obj /\ obj[x].live /\ obj[x].mark # redblue
  BY <1>0, <1>1, CallFields DEF FrameFits
<1>4. gcrun
  BY <1>0, <1>1, <1>2, DestructSweeps DEF Busy, Laid
<1>5. \A f \in Field : obj[x].ref[f] = Null
  BY <1>0 DEF NoFields
<1>6. Laid(obj, context, states, array, redblue, gcrun, Rest, engine)
  <2>1. Framed(obj, context, states, array, redblue, gcrun, <<Top>> \o Rest, engine)
    BY <1>1, <1>2, LaidIsFramed
  <2>2. Framed(obj, context, states, array, redblue, gcrun, Rest, engine)
    BY <1>0, <1>1, <1>2, <1>5, <2>1, FramedPop
  <2>3. Shape(<<Top>> \o Rest, engine, gcrun)
    BY <1>1, <1>2 DEF Laid
  <2>4. Rest # <<>> /\ Head(Rest).k = "sweep"
    <3>1. Rest = <<>> => First(Top.k, engine)
      BY <1>1, <2>3, LowCall
    <3>2. Rest # <<>> => Makes(Head(Rest).k, Top.k)
      BY <1>1, <2>3, LowCall
    <3> QED
      BY <1>0, <3>1, <3>2 DEF First, Makes
  <2>5. TopFits(obj, context, states, array, Rest)
    <3>1. Head(Rest) = Rest[1]
      BY <1>1, <2>4, Unstack
    <3> QED
      BY <2>4, <3>1 DEF TopFits
  <2>6. Gone(obj, context, states, array, Rest)
    BY <1>0, <1>1, <1>2 DEF Laid, Gone, Busy
  <2> QED
    BY <1>2, <2>2, <2>4, <2>5, <2>6, LaidIsFramed
<1>7. Counted(obj, context, array, Rest, engine)
  <2>1. \A c : Extra(<<Top>> \o Rest, engine, c) = Extra(Rest, engine, c)
    <3>1. Top \in Call /\ Rest \in Seq(Call)
          /\ Top.k \notin {"free", "safe", "clear", "next", "pick"}
      BY <1>0, <1>1
    <3> QED
      BY <3>1, ExtraCons
  <2>2. \A c \in Ctx : Extra(Rest, engine, c) = Extra(calls, engine, c)
    BY <1>1, <2>1
  <2> QED
    BY <1>2, <2>2, CountedSame
<1> HIDE DEF x
<1>8. /\ os \in Objects /\ \A o \in Obj : o # x => os[o] = obj[o]
      /\ os[x].live = obj[x].live /\ os[x].mark = obj[x].mark /\ os[x].rc = obj[x].rc
      /\ os[x].ref = obj[x].ref
  <2> DEFINE r == [obj[x] EXCEPT !.done = TRUE]
  <2>1. os = [obj EXCEPT ![x] = r]
    OBVIOUS
  <2>2. obj[x] \in Object
    BY <1>2, <1>3, ObjectFields
  <2>3. r \in Object /\ r.live = obj[x].live /\ r.mark = obj[x].mark /\ r.rc = obj[x].rc
        /\ r.ref = obj[x].ref
    BY <2>2 DEF Object
  <2> HIDE DEF r
  <2>4. os \in Objects /\ \A o \in Obj : os[o] = IF o = x THEN r ELSE obj[o]
    BY <1>2, <2>1, <2>3 DEF Objects
  <2> QED
    BY <1>3, <2>3, <2>4
<1> HIDE DEF os
<1>9. \A o \in Obj : /\ os[o].live = obj[o].live /\ os[o].mark = obj[o].mark
                     /\ os[o].rc = obj[o].rc /\ os[o].ref = obj[o].ref
  BY <1>8
<1>10. Laid(os, context, states, array, redblue, gcrun, Rest, engine)
  <2> DEFINE M == Marked(obj, redblue)
  <2>1. Marked(os, redblue) = M /\ LiveIn(os) = LiveIn(obj) /\ M \in SUBSET Obj
    BY <1>9 DEF Marked, LiveIn
  <2>2. \A S \in SUBSET Obj : Closed(os, S) <=> Closed(obj, S)
    BY <1>9 DEF Closed
  <2>3. \A N : Grounded(os, array, N) <=> Grounded(obj, array, N)
    BY <2>2 DEF Grounded
  <2>4. \A u : Count(os, context, array, u) = Count(obj, context, array, u)
    <3>1. \A u : ObjPlaces(os, u) = ObjPlaces(obj, u)
      BY <1>9 DEF ObjPlaces
    <3> QED
      BY <3>1 DEF Count
  <2>5. Clean(os, context, array)
    <3>1. \A v : Alive(os, context, v) <=> Alive(obj, context, v)
      BY <1>9 DEF Alive
    <3> QED
      BY <1>2, <1>9, <3>1 DEF Laid, Clean
  <2>6. Fits(os, context, states, array, redblue, gcrun, Rest)
    <3> SUFFICES ASSUME NEW f \in Under(Rest)
                 PROVE  FrameFits(os, context, states, array, redblue, gcrun, f)
      BY <1>6 DEF Laid, Fits
    <3>1. f \in Call /\ FrameFits(obj, context, states, array, redblue, gcrun, f)
      BY <1>1, <1>6, UnderType DEF Laid, Fits
    <3>2. f.k \in {"destroy", "destruct"} =>
              os[f.x].live = obj[f.x].live /\ os[f.x].mark = obj[f.x].mark
      BY <1>9, <3>1, CallFields
    <3>3. \A o \in f.todo : os[o].live = obj[o].live /\ os[o].mark = obj[o].mark
      BY <1>9, <3>1, CallFields
    <3>4. (\A o \in Obj, g \in Field : os[o].ref[g] \notin Ctx)
            <=> (\A o \in Obj, g \in Field : obj[o].ref[g] \notin Ctx)
      BY <1>9
    <3> QED
      BY <2>1, <2>3, <2>4, <3>1, <3>2, <3>3, <3>4 DEF FrameFits
  <2>7. Coloured(os, context, array, redblue, gcrun, Rest)
    <3>1. Closed(os, M)
      BY <1>4, <1>6, <2>1, <2>2 DEF Laid, Coloured
    <3>2. \A o \in Obj : Visited(obj, Rest, o) => Visited(os, Rest, o)
      BY <1>9 DEF Visited
    <3>3. x \notin M
      BY <1>3 DEF Marked
    <3>4. \A o \in M : ~os[o].done
      BY <1>4, <1>6, <1>8, <2>1, <3>3 DEF Laid, Coloured
    <3>5. Coloured(obj, context, array, redblue, gcrun, Rest)
      BY <1>6 DEF Laid
    <3> HIDE DEF M
    <3>6. \A c \in Ctx, s \in Slot : context[c].ref[s] \in Obj => context[c].ref[s] \in M
      BY <1>4, <3>5 DEF Coloured, M
    <3>7. array \in Obj => array \in M
      BY <1>4, <3>5 DEF Coloured, M
    <3>8. \A o \in Obj : os[o].live /\ os[o].mark # redblue => Visited(os, Rest, o)
      BY <1>4, <1>9, <3>2, <3>5 DEF Coloured
    <3> QED
      BY <1>4, <2>1, <3>1, <3>4, <3>6, <3>7, <3>8 DEF Coloured
  <2>8. Tidy(os, context, array) <=> Tidy(obj, context, array)
    BY <2>1, <2>3 DEF Tidy
  <2> QED
    BY <1>6, <2>5, <2>6, <2>7, <2>8 DEF Laid, TopFits, Gone
<1>11. Counted(os, context, array, Rest, engine)
  <2>1. \A u : ObjPlaces(os, u) = ObjPlaces(obj, u)
    BY <1>9 DEF ObjPlaces
  <2>2. \A u : Count(os, context, array, u) = Count(obj, context, array, u)
    BY <2>1 DEF Count
  <2> QED
    BY <1>7, <1>9, <2>2 DEF Counted
<1>12. PoolFree(os, pool)
  <2>1. Ordered(pool) /\ \A i \in 1 .. Len(pool) : pool[i] \in Obj /\ ~obj[pool[i]].live
    BY <1>2, ElementOfSeq DEF PoolFree
  <2> QED
    BY <1>9, <2>1 DEF PoolFree
<1>13. /\ obj' = os /\ context' = context /\ states' = states /\ pool' = pool /\ array' = array
       /\ redblue' = redblue /\ gcrun' = gcrun /\ calls' = Rest /\ engine' = engine
  BY <1>0
<1> QED
  BY <1>1, <1>2, <1>8, <1>10, <1>11, <1>12, <1>13, Stepped
---------------------------------------------------------------------------
(* The pool.                                                               *)
LEMMA LeastNatural ==
    ASSUME NEW T, T \subseteq Nat, T # {}
    PROVE  \E x \in T : \A y \in T : x <= y
<1> DEFINE B == {p \in Nat \X Nat : p[1] < p[2]}
<1>1. IsWellFoundedOn(B, Nat)
  BY NatLessThanWellFounded DEF OpToRel
<1> HIDE DEF B
<1>2. PICK x \in T : \A y \in T : <<y, x>> \notin B
  BY <1>1, WFMin
<1>3. \A y \in T : <<y, x>> \in Nat \X Nat
  OBVIOUS
<1>4. \A y \in T : ~(y < x)
  BY <1>2, <1>3 DEF B
<1> QED
  BY <1>4

LEMMA Middle ==
    ASSUME NEW lo \in Nat, NEW hi \in Nat, lo <= hi
    PROVE  LET mid == (lo + hi) \div 2
           IN  mid \in Nat /\ lo <= mid /\ mid <= hi
OBVIOUS

(* One step of objpool_binary_search.                                      *)
Probe(p, size, g, lo, hi) ==
    IF lo > hi THEN lo
    ELSE LET mid == (lo + hi) \div 2
         IN  IF Size[p[mid]] = size THEN mid
             ELSE IF Size[p[mid]] < size THEN g[<<mid + 1, hi>>]
             ELSE g[<<lo, mid - 1>>]
Lows(p) == 1 .. Len(p) + 1
Highs(p) == 0 .. Len(p)
Ranges(p) == Lows(p) \X Highs(p)

(* It looks at shorter ranges only.                                        *)
LEMMA ProbeShorter ==
    ASSUME NEW p, Len(p) \in Nat, NEW size, NEW g, NEW h,
           NEW lo \in Lows(p), NEW hi \in Highs(p),
           \A l \in Lows(p), k \in Highs(p) : k - l < hi - lo => g[<<l, k>>] = h[<<l, k>>]
    PROVE  Probe(p, size, g, lo, hi) = Probe(p, size, h, lo, hi)
<1>1. CASE lo > hi
  BY <1>1 DEF Probe
<1>2. CASE ~(lo > hi)
  <2> DEFINE mid == (lo + hi) \div 2
  <2>1. lo \in Nat /\ hi \in Nat /\ lo <= hi
    BY <1>2 DEF Lows, Highs
  <2>2. mid \in Nat /\ lo <= mid /\ mid <= hi
    BY <2>1, Middle
  <2> HIDE DEF mid
  <2>3. mid + 1 \in Lows(p) /\ mid - 1 \in Highs(p)
        /\ hi - (mid + 1) < hi - lo /\ (mid - 1) - lo < hi - lo
    BY <2>1, <2>2 DEF Lows, Highs
  <2>4. g[<<mid + 1, hi>>] = h[<<mid + 1, hi>>] /\ g[<<lo, mid - 1>>] = h[<<lo, mid - 1>>]
    BY <2>3
  <2> QED
    BY <1>2, <2>4 DEF Probe, mid
<1> QED
  BY <1>1, <1>2

(* The search is defined: by the least length of a range for which it      *)
(* would not be.                                                           *)
LEMMA SearchDefined ==
    ASSUME NEW p, Len(p) \in Nat, NEW size
    PROVE  \E g : g = [r \in Ranges(p) |-> Probe(p, size, g, r[1], r[2])]
<1> DEFINE Solves(g, n) ==
              \A lo \in Lows(p), hi \in Highs(p) :
                 hi - lo < n => g[<<lo, hi>>] = Probe(p, size, g, lo, hi)
           T == {n \in Nat : ~ \E g : Solves(g, n)}
<1>0. \A lo \in Lows(p), hi \in Highs(p) : lo \in Nat /\ hi \in Nat /\ lo > 0 /\ hi <= Len(p)
  BY DEF Lows, Highs
<1>1. T = {}
  <2> SUFFICES ASSUME T # {} PROVE FALSE
    OBVIOUS
  <2>1. PICK n \in T : \A m \in T : n <= m
    <3>1. T \subseteq Nat
      OBVIOUS
    <3> HIDE DEF T
    <3> QED
      BY <3>1, LeastNatural
  <2>2. n \in Nat /\ ~ \E g : Solves(g, n)
    BY <2>1
  <2>3. CASE n = 0
    <3> DEFINE g == [r \in Ranges(p) |-> r[1]]
    <3>1. \A lo \in Lows(p), hi \in Highs(p) : g[<<lo, hi>>] = lo
      BY DEF Ranges
    <3> HIDE DEF g
    <3>2. ASSUME NEW lo \in Lows(p), NEW hi \in Highs(p), hi - lo < n
          PROVE  g[<<lo, hi>>] = Probe(p, size, g, lo, hi)
      <4>1. lo > hi
        BY <1>0, <2>3, <3>2
      <4> QED
        BY <3>1, <4>1 DEF Probe
    <3>3. Solves(g, n)
      BY <3>2
    <3> HIDE DEF Solves
    <3> QED
      BY <2>2, <3>3
  <2>4. CASE n # 0
    <3>1. n - 1 \in Nat /\ n - 1 \notin T
      <4>1. n - 1 \in Nat /\ ~(n <= n - 1)
        BY <2>2, <2>4
      <4> HIDE DEF T
      <4> QED
        BY <2>1, <4>1
    <3>2. PICK h : Solves(h, n - 1)
      BY <3>1
    <3> DEFINE g == [r \in Ranges(p) |->
                       IF r[2] - r[1] < n - 1 THEN h[r] ELSE Probe(p, size, h, r[1], r[2])]
    <3>3. \A lo \in Lows(p), hi \in Highs(p) :
             g[<<lo, hi>>] = IF hi - lo < n - 1 THEN h[<<lo, hi>>] ELSE Probe(p, size, h, lo, hi)
      BY DEF Ranges
    <3> HIDE DEF g
    <3>4. ASSUME NEW lo \in Lows(p), NEW hi \in Highs(p), hi - lo < n
          PROVE  g[<<lo, hi>>] = Probe(p, size, g, lo, hi)
      <4>1. \A l \in Lows(p), k \in Highs(p) : k - l < hi - lo => g[<<l, k>>] = h[<<l, k>>]
        <5> SUFFICES ASSUME NEW l \in Lows(p), NEW k \in Highs(p), k - l < hi - lo
                     PROVE  g[<<l, k>>] = h[<<l, k>>]
          OBVIOUS
        <5>1. k - l < n - 1
          BY <1>0, <2>2, <3>4
        <5> QED
          BY <3>3, <5>1
      <4>2. Probe(p, size, g, lo, hi) = Probe(p, size, h, lo, hi)
        BY <4>1, ProbeShorter
      <4>3. g[<<lo, hi>>] = Probe(p, size, h, lo, hi)
        BY <3>2, <3>3
      <4> QED
        BY <4>2, <4>3
    <3>5. Solves(g, n)
      BY <3>4
    <3> HIDE DEF Solves
    <3> QED
      BY <2>2, <3>5
  <2> QED
    BY <2>3, <2>4
<1>2. PICK h : Solves(h, Len(p))
  BY <1>1
<1> DEFINE g == [r \in Ranges(p) |-> h[r]]
<1>3. \A lo \in Lows(p), hi \in Highs(p) : g[<<lo, hi>>] = h[<<lo, hi>>]
  BY DEF Ranges
<1>4. \A lo \in Lows(p), hi \in Highs(p) : Probe(p, size, g, lo, hi) = Probe(p, size, h, lo, hi)
  <2> HIDE DEF g
  <2> QED
    BY <1>3, ProbeShorter
<1>5. \A lo \in Lows(p), hi \in Highs(p) : h[<<lo, hi>>] = Probe(p, size, h, lo, hi)
  <2> SUFFICES ASSUME NEW lo \in Lows(p), NEW hi \in Highs(p)
               PROVE  h[<<lo, hi>>] = Probe(p, size, h, lo, hi)
    OBVIOUS
  <2>1. hi - lo < Len(p)
    BY <1>0
  <2> QED
    BY <1>2, <2>1
<1>6. g = [r \in Ranges(p) |-> Probe(p, size, g, r[1], r[2])]
  <2>1. \A lo \in Lows(p), hi \in Highs(p) : h[<<lo, hi>>] = Probe(p, size, g, lo, hi)
    BY <1>4, <1>5
  <2>2. \A r \in Ranges(p) : h[r] = Probe(p, size, g, r[1], r[2])
    <3> HIDE DEF g
    <3> QED
      BY <2>1 DEF Ranges
  <2> QED
    BY <2>2
<1> QED
  BY <1>6

(* In a sorted pool the search ends where the block belongs.               *)
Below(p, size, n) == \A i \in 1 .. Len(p) : i < n => Size[p[i]] <= size
Above(p, size, n) == \A i \in 1 .. Len(p) : n <= i => size <= Size[p[i]]

LEMMA SearchFinds ==
    ASSUME NEW p \in Seq(Obj), Ordered(p), NEW size \in Nat
    PROVE  /\ Search(p, size) \in 1 .. Len(p) + 1
           /\ Below(p, size, Search(p, size)) /\ Above(p, size, Search(p, size))
<1> DEFINE find == CHOOSE g : g = [r \in Ranges(p) |-> Probe(p, size, g, r[1], r[2])]
           Fine(n) == n \in 1 .. Len(p) + 1 /\ Below(p, size, n) /\ Above(p, size, n)
           Bad(n) == \E lo \in Lows(p), hi \in Highs(p) :
                        /\ hi - lo + 1 = n /\ Below(p, size, lo) /\ Above(p, size, hi + 1)
                        /\ ~Fine(find[<<lo, hi>>])
           T == {n \in Nat : Bad(n)}
<1>0. /\ Len(p) \in Nat /\ \A i \in 1 .. Len(p) : p[i] \in Obj /\ Size[p[i]] \in Nat
      /\ \A i, j \in 1 .. Len(p) : i <= j => Size[p[i]] <= Size[p[j]]
  <2>1. Len(p) \in Nat /\ \A i \in 1 .. Len(p) : p[i] \in Obj /\ Size[p[i]] \in Nat
    BY SizeAssumption, ElementOfSeq, LenProperties
  <2>2. \A i, j \in 1 .. Len(p) : i <= j => i = j \/ i < j
    OBVIOUS
  <2> QED
    BY <2>1, <2>2 DEF Ordered
<1>1. find = [r \in Ranges(p) |-> Probe(p, size, find, r[1], r[2])]
  BY <1>0, SearchDefined
<1>2. Search(p, size) = find[<<1, Len(p)>>]
  BY DEF Search, Probe, Lows, Highs, Ranges
<1> HIDE DEF find
<1>3. \A lo \in Lows(p), hi \in Highs(p) : find[<<lo, hi>>] = Probe(p, size, find, lo, hi)
  BY <1>1 DEF Ranges
<1>4. T = {}
  <2> SUFFICES ASSUME T # {} PROVE FALSE
    OBVIOUS
  <2>1. PICK n \in T : \A m \in T : n <= m
    <3>1. T \subseteq Nat
      OBVIOUS
    <3> HIDE DEF T
    <3> QED
      BY <3>1, LeastNatural
  <2>2. n \in Nat /\ Bad(n)
    BY <2>1
  <2>3. PICK lo \in Lows(p), hi \in Highs(p) :
           /\ hi - lo + 1 = n /\ Below(p, size, lo) /\ Above(p, size, hi + 1)
           /\ ~Fine(find[<<lo, hi>>])
    BY <2>2
  <2>4. lo \in 1 .. Len(p) + 1 /\ hi \in 0 .. Len(p) /\ lo <= hi + 1
    BY <1>0, <2>2, <2>3 DEF Lows, Highs
  <2>5. find[<<lo, hi>>] = Probe(p, size, find, lo, hi)
    BY <1>3
  <2>6. CASE lo > hi
    <3>1. lo = hi + 1
      BY <1>0, <2>4, <2>6
    <3>2. find[<<lo, hi>>] = lo
      BY <2>5, <2>6 DEF Probe
    <3>3. Fine(lo)
      BY <2>3, <2>4, <3>1
    <3> QED
      BY <2>3, <3>2, <3>3
  <2>7. CASE ~(lo > hi)
    <3> DEFINE mid == (lo + hi) \div 2
    <3>1. mid \in Nat /\ lo <= mid /\ mid <= hi
      BY <1>0, <2>4, <2>7, Middle
    <3>2. find[<<lo, hi>>] = IF Size[p[mid]] = size THEN mid
                         ELSE IF Size[p[mid]] < size THEN find[<<mid + 1, hi>>]
                         ELSE find[<<lo, mid - 1>>]
      BY <2>5, <2>7 DEF Probe
    <3> HIDE DEF mid
    <3>3. mid \in 1 .. Len(p) /\ mid + 1 \in Lows(p) /\ mid - 1 \in Highs(p)
          /\ hi - (mid + 1) + 1 \in Nat /\ hi - (mid + 1) + 1 < n
          /\ (mid - 1) - lo + 1 \in Nat /\ (mid - 1) - lo + 1 < n /\ (mid - 1) + 1 = mid
      BY <1>0, <2>3, <2>4, <3>1 DEF Lows, Highs
    <3>4. /\ Size[p[mid]] <= size => Below(p, size, mid + 1)
          /\ size <= Size[p[mid]] => Above(p, size, mid)
          /\ Size[p[mid]] = size => Below(p, size, mid)
      <4> DEFINE q == Size[p[mid]]
      <4>1. q \in Nat /\ \A i \in 1 .. Len(p) :
               /\ Size[p[i]] \in Nat
               /\ i < mid + 1 => Size[p[i]] <= q
               /\ mid <= i => q <= Size[p[i]]
               /\ i < mid => i < mid + 1
        BY <1>0, <3>3
      <4> HIDE DEF q
      <4>2. q <= size => Below(p, size, mid + 1)
        BY <4>1 DEF Below
      <4>3. size <= q => Above(p, size, mid)
        BY <4>1 DEF Above
      <4>4. q = size => Below(p, size, mid)
        BY <4>1 DEF Below
      <4> QED
        BY <4>2, <4>3, <4>4 DEF q
    <3>5. \A m \in Nat : m < n => ~Bad(m)
      <4> SUFFICES ASSUME NEW m \in Nat, m < n, m \in T PROVE FALSE
        OBVIOUS
      <4> HIDE DEF T
      <4> QED
        BY <2>1, <2>2
    <3>6. CASE Size[p[mid]] = size
      BY <1>0, <2>3, <3>2, <3>3, <3>4, <3>6
    <3>7. CASE Size[p[mid]] < size
      <4>1. ~Bad(hi - (mid + 1) + 1)
        BY <3>3, <3>5
      <4>2. Below(p, size, mid + 1) /\ Above(p, size, hi + 1)
        BY <1>0, <2>3, <3>3, <3>4, <3>7
      <4>3. Fine(find[<<mid + 1, hi>>])
        BY <3>3, <4>1, <4>2
      <4>4. find[<<lo, hi>>] = find[<<mid + 1, hi>>]
        BY <1>0, <3>2, <3>3, <3>7
      <4> HIDE DEF Fine
      <4> QED
        BY <2>3, <4>3, <4>4
    <3>8. CASE size < Size[p[mid]]
      <4>1. ~Bad((mid - 1) - lo + 1)
        BY <3>3, <3>5
      <4>2. Below(p, size, lo) /\ Above(p, size, (mid - 1) + 1)
        BY <1>0, <2>3, <3>3, <3>4, <3>8
      <4>3. Fine(find[<<lo, mid - 1>>])
        BY <3>3, <4>1, <4>2
      <4>4. find[<<lo, hi>>] = find[<<lo, mid - 1>>]
        BY <1>0, <3>2, <3>3, <3>8
      <4> HIDE DEF Fine
      <4> QED
        BY <2>3, <4>3, <4>4
    <3> QED
      BY <1>0, <3>3, <3>6, <3>7, <3>8
  <2> QED
    BY <2>6, <2>7
<1>5. Fine(find[<<1, Len(p)>>])
  <2>1. 1 \in Lows(p) /\ Len(p) \in Highs(p) /\ Len(p) - 1 + 1 \in Nat
    BY <1>0 DEF Lows, Highs
  <2>2. ~Bad(Len(p) - 1 + 1)
    BY <1>4, <2>1
  <2>3. Below(p, size, 1) /\ Above(p, size, Len(p) + 1)
    BY <1>0 DEF Below, Above
  <2> QED
    BY <2>1, <2>2, <2>3
<1> QED
  BY <1>2, <1>5
(* Putting a block into a pool at a position, or in the place of another.  *)
Inserted(p, at, o) == SubSeq(p, 1, at - 1) \o <<o>> \o SubSeq(p, at, Len(p))

LEMMA InsertedFacts ==
    ASSUME NEW p \in Seq(Obj), NEW at \in 1 .. Len(p) + 1, NEW o \in Obj
    PROVE  LET q == Inserted(p, at, o)
           IN  /\ q \in Seq(Obj) /\ Len(q) = Len(p) + 1
               /\ \A i \in 1 .. Len(p) + 1 :
                     q[i] = IF i < at THEN p[i] ELSE IF i = at THEN o ELSE p[i - 1]
<1> DEFINE a == SubSeq(p, 1, at - 1)
           b == SubSeq(p, at, Len(p))
           c == a \o <<o>>
           q == c \o b
<1>0. Len(p) \in Nat /\ \A i \in 1 .. Len(p) : p[i] \in Obj
  BY LenProperties, ElementOfSeq
<1>1. at \in Int /\ at - 1 \in Int /\ 1 \in Int /\ Len(p) \in Int
  BY <1>0
<1>2. a \in Seq(Obj) /\ Len(a) = at - 1 /\ \A i \in 1 .. at - 1 : a[i] = p[i]
  <2>1. \A i \in 1 .. at - 1 : p[i] \in Obj
    BY <1>0
  <2>2. /\ a \in Seq(Obj) /\ Len(a) = IF 1 <= at - 1 THEN (at - 1) - 1 + 1 ELSE 0
        /\ \A i \in 1 .. (at - 1) - 1 + 1 : a[i] = p[1 + i - 1]
    BY <1>1, <2>1, SubSeqProperties
  <2> HIDE DEF a
  <2>3. \A i \in 1 .. at - 1 : i \in 1 .. (at - 1) - 1 + 1 /\ 1 + i - 1 = i
    BY <1>0
  <2>4. Len(a) = at - 1
    BY <1>0, <2>2
  <2> QED
    BY <2>2, <2>3, <2>4
<1>3. b \in Seq(Obj) /\ Len(b) = Len(p) + 1 - at
      /\ \A i \in 1 .. Len(p) + 1 - at : b[i] = p[at + i - 1]
  <2>1. \A i \in at .. Len(p) : p[i] \in Obj
    BY <1>0
  <2>2. /\ b \in Seq(Obj) /\ Len(b) = IF at <= Len(p) THEN Len(p) - at + 1 ELSE 0
        /\ \A i \in 1 .. Len(p) - at + 1 : b[i] = p[at + i - 1]
    BY <1>1, <2>1, SubSeqProperties
  <2> HIDE DEF b
  <2> QED
    BY <1>0, <2>2
<1>4. <<o>> \in Seq(Obj) /\ Len(<<o>>) = 1 /\ <<o>>[1] = o
  OBVIOUS
<1> HIDE DEF a, b
<1>5. c \in Seq(Obj) /\ Len(c) = at
      /\ \A i \in 1 .. at : c[i] = IF i < at THEN p[i] ELSE o
  <2>1. c \in Seq(Obj) /\ Len(c) = Len(a) + Len(<<o>>)
        /\ \A i \in 1 .. Len(a) + Len(<<o>>) :
              c[i] = IF i <= Len(a) THEN a[i] ELSE <<o>>[i - Len(a)]
    BY <1>2, <1>4, ConcatProperties
  <2>2. Len(c) = at
    BY <1>0, <1>2, <1>4, <2>1
  <2> HIDE DEF c
  <2>3. ASSUME NEW i \in 1 .. at PROVE c[i] = IF i < at THEN p[i] ELSE o
    <3>1. i \in 1 .. Len(a) + Len(<<o>>) /\ (i <= Len(a) <=> i < at)
          /\ (i < at => i \in 1 .. at - 1) /\ (~(i < at) => i - Len(a) = 1)
      BY <1>0, <1>2, <1>4
    <3> QED
      BY <1>2, <1>4, <2>1, <3>1
  <2> QED
    BY <2>1, <2>2, <2>3
<1> HIDE DEF c
<1>6. q \in Seq(Obj) /\ Len(q) = Len(c) + Len(b)
      /\ \A i \in 1 .. Len(c) + Len(b) : q[i] = IF i <= Len(c) THEN c[i] ELSE b[i - Len(c)]
  BY <1>3, <1>5, ConcatProperties
<1>7. Len(c) + Len(b) = Len(p) + 1
  BY <1>0, <1>3, <1>5
<1>8. q = Inserted(p, at, o)
  BY DEF Inserted, a, b, c
<1> HIDE DEF q
<1>9. ASSUME NEW i \in 1 .. Len(p) + 1
      PROVE  q[i] = IF i < at THEN p[i] ELSE IF i = at THEN o ELSE p[i - 1]
  <2>1. i \in 1 .. Len(c) + Len(b)
    BY <1>7
  <2>2. CASE i <= at
    <3>1. q[i] = c[i] /\ i \in 1 .. at
      BY <1>0, <1>5, <1>6, <2>1, <2>2
    <3> QED
      BY <1>0, <1>5, <2>2, <3>1
  <2>3. CASE ~(i <= at)
    <3>1. i - at \in 1 .. Len(p) + 1 - at /\ at + (i - at) - 1 = i - 1
      BY <1>0, <2>3
    <3>2. q[i] = b[i - at]
      BY <1>0, <1>5, <1>6, <2>1, <2>3
    <3>3. b[i - at] = p[at + (i - at) - 1]
      BY <1>3, <3>1
    <3> QED
      BY <1>0, <2>3, <3>1, <3>2, <3>3
  <2> QED
    BY <2>2, <2>3
<1> QED
  BY <1>6, <1>7, <1>8, <1>9

LEMMA PooledFacts ==
    ASSUME NEW p \in Seq(Obj), Ordered(p), NEW o \in Obj, \A i \in 1 .. Len(p) : p[i] # o
    PROVE  LET q == Pooled(p, o)
           IN  /\ q \in Seq(Obj) /\ Ordered(q)
               /\ \A i \in 1 .. Len(q) : q[i] = o \/ \E j \in 1 .. Len(p) : q[i] = p[j]
<1> DEFINE at == Search(p, Size[o])
           size == Size[o]
           q == Pooled(p, o)
<1>0. /\ Len(p) \in Nat /\ size \in Nat /\ PoolMax \in Nat \ {0} /\ MaxApp \in Nat
      /\ \A i \in 1 .. Len(p) : p[i] \in Obj /\ Size[p[i]] \in Nat
  BY SizeAssumption, LenProperties, ElementOfSeq
<1>1. /\ at \in 1 .. Len(p) + 1 /\ Below(p, size, at) /\ Above(p, size, at)
  BY <1>0, SearchFinds
<1>2. q = IF size > MaxApp THEN p
          ELSE IF Len(p) < PoolMax THEN Inserted(p, at, o)
          ELSE [p EXCEPT ![IF at > PoolMax THEN PoolMax ELSE at] = o]
  BY DEF Pooled, Inserted
<1>3. Len(p) <= PoolMax
  BY DEF Ordered
<1> HIDE DEF at, size, q
<1>4. CASE size > MaxApp
  BY <1>2, <1>4 DEF q
<1>5. CASE ~(size > MaxApp) /\ Len(p) < PoolMax
  <2>1. /\ q = Inserted(p, at, o) /\ q \in Seq(Obj) /\ Len(q) = Len(p) + 1
        /\ \A i \in 1 .. Len(p) + 1 :
              q[i] = IF i < at THEN p[i] ELSE IF i = at THEN o ELSE p[i - 1]
    <3>1. q = Inserted(p, at, o)
      BY <1>2, <1>5
    <3>2. at \in 1 .. Len(p) + 1
      BY <1>1
    <3>3. p \in Seq(Obj) /\ o \in Obj
      BY <1>0
    <3>4. /\ Inserted(p, at, o) \in Seq(Obj) /\ Len(Inserted(p, at, o)) = Len(p) + 1
          /\ \A i \in 1 .. Len(p) + 1 :
                Inserted(p, at, o)[i] = IF i < at THEN p[i] ELSE IF i = at THEN o ELSE p[i - 1]
      BY <3>2, <3>3, InsertedFacts
    <3> QED
      BY <3>1, <3>4
  <2>2. ASSUME NEW i \in 1 .. Len(q)
        PROVE  \/ i < at /\ i \in 1 .. Len(p) /\ q[i] = p[i]
               \/ i = at /\ q[i] = o
               \/ at < i /\ i - 1 \in 1 .. Len(p) /\ at <= i - 1 /\ q[i] = p[i - 1]
    <3>1. i \in 1 .. Len(p) + 1
      BY <2>1
    <3>2. CASE i < at
      BY <1>0, <1>1, <2>1, <3>1, <3>2
    <3>3. CASE i = at
      BY <1>0, <1>1, <2>1, <3>1, <3>3
    <3>4. CASE at < i
      BY <1>0, <1>1, <2>1, <3>1, <3>4
    <3> QED
      BY <1>1, <3>1, <3>2, <3>3, <3>4
  <2>3. \A i \in 1 .. Len(q) : q[i] = o \/ \E j \in 1 .. Len(p) : q[i] = p[j]
    BY <2>2
  <2>4. ASSUME NEW i \in 1 .. Len(q), NEW j \in 1 .. Len(q), i < j
        PROVE  Size[q[i]] <= Size[q[j]] /\ q[i] # q[j]
    <3>1. \A k, l \in 1 .. Len(p) : k < l => Size[p[k]] <= Size[p[l]] /\ p[k] # p[l]
      BY DEF Ordered
    <3>2. CASE j < at
      BY <1>1, <2>2, <2>4, <3>1, <3>2
    <3>3. CASE j = at
      <4>1. i < at /\ i \in 1 .. Len(p) /\ q[i] = p[i] /\ q[j] = o
        BY <1>1, <2>2, <2>4, <3>3
      <4> QED
        BY <1>1, <4>1 DEF Below, size
    <3>4. CASE at < j
      <4>1. j - 1 \in 1 .. Len(p) /\ at <= j - 1 /\ q[j] = p[j - 1]
        BY <1>1, <2>2, <3>4
      <4>2. CASE i < at
        <5>1. i \in 1 .. Len(p) /\ q[i] = p[i] /\ i < j - 1
          BY <1>1, <2>2, <4>1, <4>2
        <5> QED
          BY <3>1, <4>1, <5>1
      <4>3. CASE i = at
        <5>1. q[i] = o
          BY <1>1, <2>2, <4>3
        <5> QED
          BY <1>1, <4>1, <5>1 DEF Above, size
      <4>4. CASE at < i
        <5>1. i - 1 \in 1 .. Len(p) /\ q[i] = p[i - 1] /\ i - 1 < j - 1
          BY <1>1, <2>2, <2>4, <4>4
        <5> QED
          BY <3>1, <4>1, <5>1
      <4> QED
        BY <1>1, <4>2, <4>3, <4>4
    <3> QED
      BY <1>1, <3>2, <3>3, <3>4
  <2>5. Ordered(q)
    BY <1>0, <1>5, <2>1, <2>4 DEF Ordered
  <2> QED
    BY <2>1, <2>3, <2>5 DEF q
<1>6. CASE ~(size > MaxApp) /\ ~(Len(p) < PoolMax)
  <2> DEFINE n == IF at > PoolMax THEN PoolMax ELSE at
  <2>1. Len(p) = PoolMax /\ n \in 1 .. Len(p) /\ n <= at /\ (n = at \/ n + 1 = at)
        /\ (n # at => n = Len(p))
    BY <1>0, <1>1, <1>3, <1>6
  <2>2. q = [p EXCEPT ![n] = o]
    BY <1>2, <1>6
  <2> HIDE DEF n
  <2>3. /\ q \in Seq(Obj) /\ Len(q) = Len(p)
        /\ \A i \in 1 .. Len(p) : q[i] = IF i = n THEN o ELSE p[i]
    BY <2>1, <2>2, ExceptSeq
  <2>4. \A i \in 1 .. Len(q) : q[i] = o \/ \E j \in 1 .. Len(p) : q[i] = p[j]
    BY <2>3
  <2>5. ASSUME NEW i \in 1 .. Len(q), NEW j \in 1 .. Len(q), i < j
        PROVE  Size[q[i]] <= Size[q[j]] /\ q[i] # q[j]
    <3>1. \A k, l \in 1 .. Len(p) : k < l => Size[p[k]] <= Size[p[l]] /\ p[k] # p[l]
      BY DEF Ordered
    <3>2. i \in 1 .. Len(p) /\ j \in 1 .. Len(p)
      BY <2>3
    <3>3. CASE i # n /\ j # n
      BY <2>3, <2>5, <3>1, <3>2, <3>3
    <3>4. CASE j = n
      <4>1. i < at /\ q[i] = p[i] /\ q[j] = o
        BY <1>1, <2>1, <2>3, <2>5, <3>2, <3>4
      <4> QED
        BY <1>1, <3>2, <4>1 DEF Below, size
    <3>5. CASE i = n
      <4>1. at <= j /\ q[j] = p[j] /\ q[i] = o
        BY <1>0, <1>1, <2>1, <2>3, <2>5, <3>2, <3>5
      <4> QED
        BY <1>1, <3>2, <4>1 DEF Above, size
    <3> QED
      BY <3>3, <3>4, <3>5
  <2>6. Ordered(q)
    BY <1>3, <2>3, <2>5 DEF Ordered
  <2> QED
    BY <2>3, <2>4, <2>6 DEF q
<1> QED
  BY <1>4, <1>5, <1>6

LEMMA WithoutFacts ==
    ASSUME NEW S, NEW p \in Seq(S), NEW o
    PROVE  LET q == Without(p, o)
           IN  /\ q \in Seq(S) /\ Len(q) <= Len(p) /\ Len(p) \in Nat /\ Len(q) \in Nat
               /\ \A i, j \in 1 .. Len(q) : i < j =>
                     \E k, l \in 1 .. Len(p) : k < l /\ q[i] = p[k] /\ q[j] = p[l]
               /\ \A i \in 1 .. Len(q) : \E k \in 1 .. Len(p) : q[i] = p[k]
               /\ \A k \in 1 .. Len(p) : p[k] # o => \E i \in 1 .. Len(q) : q[i] = p[k]
               /\ (\A i, j \in 1 .. Len(p) : p[i] = p[j] => i = j)
                     => \A i \in 1 .. Len(q) : q[i] # o
<1> DEFINE q == Without(p, o)
<1>0. Len(p) \in Nat /\ \A i \in 1 .. Len(p) : p[i] \in S
  BY LenProperties, ElementOfSeq
<1>1. CASE \A i \in 1 .. Len(p) : p[i] # o
  <2>1. q = p
    BY <1>1 DEF Without
  <2> HIDE DEF q
  <2> QED
    BY <1>0, <1>1, <2>1 DEF q
<1>2. CASE \E i \in 1 .. Len(p) : p[i] = o
  <2> DEFINE at == CHOOSE i \in 1 .. Len(p) : p[i] = o
             n == Len(p) - 1
  <2>1. at \in 1 .. Len(p) /\ p[at] = o
    BY <1>2
  <2>2. q = [i \in 1 .. n |-> p[IF i < at THEN i ELSE i + 1]]
    BY <1>2 DEF Without
  <2> HIDE DEF q, at
  <2>3. n \in Nat /\ Len(p) = n + 1
    BY <1>0, <2>1
  <2> HIDE DEF n
  <2> DEFINE h(i) == IF i < at THEN i ELSE i + 1
  <2>4. /\ \A i \in 1 .. n : h(i) \in 1 .. Len(p) /\ h(i) # at
        /\ \A i, j \in 1 .. n : i < j => h(i) < h(j)
    BY <1>0, <2>1, <2>3
  <2>5. \A i \in 1 .. n : q[i] = p[h(i)]
    BY <2>2
  <2>6. q \in Seq(S) /\ Len(q) = n
    <3>1. q \in [1 .. n -> S]
      BY <1>0, <2>2, <2>4
    <3> QED
      BY <2>3, <3>1
  <2>7. ASSUME NEW k \in 1 .. Len(p), p[k] # o PROVE \E i \in 1 .. n : q[i] = p[k]
    <3>1. k # at
      BY <2>1, <2>7
    <3>2. CASE k < at
      <4>1. k \in 1 .. n /\ h(k) = k
        BY <1>0, <2>1, <2>3, <3>2
      <4> QED
        BY <2>5, <4>1
    <3>3. CASE at < k
      <4>1. k - 1 \in 1 .. n /\ h(k - 1) = k
        BY <1>0, <2>1, <2>3, <3>3
      <4> QED
        BY <2>5, <4>1
    <3> QED
      BY <1>0, <2>1, <3>1, <3>2, <3>3
  <2> HIDE DEF h
  <2>8. \A i, j \in 1 .. n : i < j =>
           \E k, l \in 1 .. Len(p) : k < l /\ q[i] = p[k] /\ q[j] = p[l]
    BY <2>4, <2>5
  <2>9. \A i \in 1 .. n : \E k \in 1 .. Len(p) : q[i] = p[k]
    BY <2>4, <2>5
  <2>10. (\A i, j \in 1 .. Len(p) : p[i] = p[j] => i = j) => \A i \in 1 .. n : q[i] # o
    BY <2>1, <2>4, <2>5
  <2>11. Len(q) <= Len(p) /\ Len(q) \in Nat
    BY <2>3, <2>6
  <2> QED
    BY <1>0, <2>6, <2>7, <2>8, <2>9, <2>10, <2>11 DEF q
<1> QED
  BY <1>1, <1>2

LEMMA WithoutOrdered ==
    ASSUME NEW p \in Seq(Obj), Ordered(p), NEW o
    PROVE  /\ Without(p, o) \in Seq(Obj) /\ Ordered(Without(p, o))
           /\ \A i \in 1 .. Len(Without(p, o)) :
                 Without(p, o)[i] # o /\ \E k \in 1 .. Len(p) : Without(p, o)[i] = p[k]
<1> DEFINE q == Without(p, o)
<1>1. \A i, j \in 1 .. Len(p) : i < j => Size[p[i]] <= Size[p[j]] /\ p[i] # p[j]
  BY DEF Ordered
<1>2. Len(p) \in Nat /\ Len(p) <= PoolMax /\ PoolMax \in Nat
  BY LenProperties, SizeAssumption DEF Ordered
<1>3. \A i, j \in 1 .. Len(p) : p[i] = p[j] => i = j
  <2>1. \A i, j \in 1 .. Len(p) : i < j \/ j < i \/ i = j
    OBVIOUS
  <2> QED
    BY <1>1, <2>1
<1>4. /\ q \in Seq(Obj) /\ Len(q) <= Len(p) /\ Len(q) \in Nat
      /\ \A i, j \in 1 .. Len(q) : i < j =>
            \E k, l \in 1 .. Len(p) : k < l /\ q[i] = p[k] /\ q[j] = p[l]
      /\ \A i \in 1 .. Len(q) : \E k \in 1 .. Len(p) : q[i] = p[k]
      /\ (\A i, j \in 1 .. Len(p) : p[i] = p[j] => i = j) => \A i \in 1 .. Len(q) : q[i] # o
  BY WithoutFacts, SMTT(30)
<1> HIDE DEF q
<1>5. Len(q) <= PoolMax
  BY <1>2, <1>4
<1>6. ASSUME NEW i \in 1 .. Len(q), NEW j \in 1 .. Len(q), i < j
      PROVE  Size[q[i]] <= Size[q[j]] /\ q[i] # q[j]
  <2>1. PICK k \in 1 .. Len(p), l \in 1 .. Len(p) : k < l /\ q[i] = p[k] /\ q[j] = p[l]
    BY <1>4, <1>6
  <2> QED
    BY <1>1, <2>1
<1>7. Ordered(q)
  BY <1>5, <1>6 DEF Ordered
<1> QED
  BY <1>3, <1>4, <1>7 DEF q
---------------------------------------------------------------------------
(* The block of an object is given up.                                     *)
ObjFreed(os, x) == [os EXCEPT ![x] = NoObject]

LEMMA ObjFreedFacts ==
    ASSUME NEW os \in Objects, NEW x \in Obj
    PROVE  LET os2 == ObjFreed(os, x)
           IN  /\ os2 \in Objects /\ \A o \in Obj : o # x => os2[o] = os[o]
               /\ ~os2[x].live /\ \A f \in Field : os2[x].ref[f] = Null
<1>1. NoObject \in Object /\ ~NoObject.live /\ \A f \in Field : NoObject.ref[f] = Null
  BY DEF NoObject, Object, Val
<1> HIDE DEF NoObject
<1> QED
  BY <1>1 DEF ObjFreed, Objects

LEMMA FreedLaid ==
    ASSUME NEW os \in Objects, NEW cs, NEW st, NEW ar \in Obj \cup {Null}, NEW rb,
           NEW gr \in BOOLEAN, NEW cl \in Seq(Call), NEW en,
           Laid(os, cs, st, ar, rb, gr, cl, en),
           NEW x \in Obj, NoRefs(os, cs, ar, x), \A f \in Field : os[x].ref[f] = Null,
           \A f \in Under(cl) : /\ f.k \in {"destroy", "destruct"} => f.x # x
                                /\ f.k = "sweep" => x \notin f.todo,
           gr => x \notin Marked(os, rb)
    PROVE  /\ Laid(ObjFreed(os, x), cs, st, ar, rb, gr, cl, en)
           /\ Counted(os, cs, ar, cl, en) => Counted(ObjFreed(os, x), cs, ar, cl, en)
<1> DEFINE os2 == ObjFreed(os, x)
           M == Marked(os, rb)
<1>1. /\ \A o \in Obj : o # x => os2[o] = os[o]
      /\ ~os2[x].live /\ \A f \in Field : os2[x].ref[f] = Null
  BY ObjFreedFacts
<1> HIDE DEF os2
<1>2. \A o \in Obj, f \in Field : os2[o].ref[f] = os[o].ref[f]
  BY <1>1
<1>3. \A u : Count(os2, cs, ar, u) = Count(os, cs, ar, u)
  <2>1. \A u : ObjPlaces(os2, u) = ObjPlaces(os, u)
    BY <1>2 DEF ObjPlaces
  <2> QED
    BY <2>1 DEF Count
<1>4. \A S \in SUBSET Obj : Closed(os2, S) <=> Closed(os, S)
  BY <1>2 DEF Closed
<1>5. \A N : Grounded(os2, ar, N) <=> Grounded(os, ar, N)
  BY <1>4 DEF Grounded
<1>6. (gr => Marked(os2, rb) = M) /\ LiveIn(os2) \subseteq LiveIn(os) /\ M \in SUBSET Obj
  BY <1>1 DEF Marked, LiveIn
<1>7. Clean(os2, cs, ar)
  <2>1. \A v : v # x /\ Alive(os, cs, v) => Alive(os2, cs, v)
    BY <1>1 DEF Alive
  <2>2. \A o \in Obj, f \in Field : Alive(os2, cs, os2[o].ref[f])
    BY <1>2, <2>1 DEF Laid, Clean, NoRefs
  <2>3. \A c \in Ctx, s \in Slot : Alive(os2, cs, cs[c].ref[s])
    BY <2>1 DEF Laid, Clean, NoRefs
  <2>4. Alive(os2, cs, ar)
    BY <2>1 DEF Laid, Clean, NoRefs
  <2>5. \A o \in Obj, f \in Field : ~os2[o].live => os2[o].ref[f] = Null
    BY <1>1 DEF Laid, Clean
  <2>6. \A c \in Ctx, s \in Slot : ~cs[c].live => cs[c].ref[s] = Null
    BY DEF Laid, Clean
  <2> QED
    BY <2>2, <2>3, <2>4, <2>5, <2>6 DEF Clean
<1>8. Fits(os2, cs, st, ar, rb, gr, cl)
  <2> SUFFICES ASSUME NEW f \in Under(cl) PROVE FrameFits(os2, cs, st, ar, rb, gr, f)
    BY DEF Laid, Fits
  <2>1. f \in Call /\ FrameFits(os, cs, st, ar, rb, gr, f)
    BY UnderType DEF Laid, Fits
  <2>2. f.k \in {"destroy", "destruct"} =>
            os2[f.x].live = os[f.x].live /\ os2[f.x].mark = os[f.x].mark
    BY <1>1, <2>1, CallFields
  <2>3. f.k = "sweep" =>
           \A o \in f.todo : os2[o].live = os[o].live /\ os2[o].mark = os[o].mark
    BY <1>1, <2>1, CallFields
  <2>4. (\A o \in Obj, g \in Field : os2[o].ref[g] \notin Ctx)
          <=> (\A o \in Obj, g \in Field : os[o].ref[g] \notin Ctx)
    BY <1>2
  <2>5. f.k = "pick" => FrameFits(os2, cs, st, ar, rb, gr, f)
    BY <1>5, <1>6, <2>1 DEF FrameFits
  <2>6. CASE f.k \in {"destroy", "destruct", "free", "drop", "safe"}
    BY <1>3, <2>1, <2>2, <2>6 DEF FrameFits
  <2>7. CASE f.k \in {"last", "clear", "next", "sweep", "gc", "round", "forced"}
    BY <2>1, <2>3, <2>4, <2>7 DEF FrameFits
  <2> QED
    BY <2>1, <2>5, <2>6, <2>7, CallFields
<1>9. Coloured(os2, cs, ar, rb, gr, cl)
  <2>1. Coloured(os, cs, ar, rb, gr, cl)
    BY DEF Laid
  <2>2. CASE gr
    <3>1. Closed(os2, M) /\ \A o \in M : ~os[o].done
      BY <1>4, <1>6, <2>1, <2>2 DEF Coloured
    <3>2. \A o \in M : ~os2[o].done
      BY <1>1, <1>6, <2>2, <3>1
    <3>3. \A o \in Obj : Visited(os, cl, o) => Visited(os2, cl, o)
      BY <1>2 DEF Visited
    <3>4. \A o \in Obj : os2[o].live /\ os2[o].mark # rb => Visited(os2, cl, o)
      BY <1>1, <2>1, <2>2, <3>3 DEF Coloured
    <3>5. /\ \A c \in Ctx, s \in Slot : cs[c].ref[s] \in Obj => cs[c].ref[s] \in M
          /\ ar \in Obj => ar \in M
      BY <2>1, <2>2 DEF Coloured
    <3> HIDE DEF M
    <3> QED
      BY <1>6, <2>2, <3>1, <3>2, <3>4, <3>5 DEF Coloured
  <2>3. CASE ~gr
    BY <1>1, <2>1, <2>3 DEF Coloured
  <2> QED
    BY <2>2, <2>3
<1>10. Tidy(os, cs, ar) => Tidy(os2, cs, ar)
  <2>1. Grounded(os, ar, LiveIn(os)) => Grounded(os, ar, LiveIn(os2))
    BY <1>6 DEF Grounded
  <2> QED
    BY <1>5, <2>1 DEF Tidy
<1>11. TopFits(os2, cs, st, ar, cl) /\ Gone(os2, cs, st, ar, cl)
  BY <1>10 DEF Laid, TopFits, Gone
<1>12. Laid(os2, cs, st, ar, rb, gr, cl, en)
  BY <1>7, <1>8, <1>9, <1>11 DEF Laid
<1>13. Counted(os, cs, ar, cl, en) => Counted(os2, cs, ar, cl, en)
  BY <1>1, <1>3 DEF Counted
<1> QED
  BY <1>12, <1>13 DEF os2

LEMMA FreedPool ==
    ASSUME NEW os \in Objects, NEW p \in Seq(Obj), PoolFree(os, p), NEW x \in Obj, os[x].live
    PROVE  Pooled(p, x) \in Seq(Obj) /\ PoolFree(ObjFreed(os, x), Pooled(p, x))
<1> DEFINE q == Pooled(p, x)
           os2 == ObjFreed(os, x)
<1>1. \A o \in Obj : ~os[o].live => ~os2[o].live
  BY ObjFreedFacts
<1>2. ~os2[x].live
  BY ObjFreedFacts
<1>3. \A i \in 1 .. Len(p) : p[i] \in Obj /\ p[i] # x /\ ~os[p[i]].live
  BY ElementOfSeq DEF PoolFree
<1>4. /\ q \in Seq(Obj) /\ Ordered(q)
      /\ \A i \in 1 .. Len(q) : q[i] = x \/ \E j \in 1 .. Len(p) : q[i] = p[j]
  BY <1>3, PooledFacts DEF PoolFree
<1> HIDE DEF q, os2
<1>5. \A i \in 1 .. Len(q) : ~os2[q[i]].live
  BY <1>1, <1>2, <1>3, <1>4
<1> QED
  BY <1>4, <1>5 DEF PoolFree, q, os2

(* sgsVM_VarDestroyObject frees the object.                                *)
LEMMA FreeObjectKeeps ==
    ASSUME HeapInv, FreeObject
    PROVE  HeapInv'
<1> DEFINE x == Top.x
           os == ObjFreed(obj, x)
           p == Pooled(pool, x)
<1>0. /\ Top.k = "destroy" /\ NoFields /\ obj' = os /\ pool' = p /\ calls' = Rest
      /\ UNCHANGED <<context, states, array, redblue, gcrun, engine>>
  BY DEF FreeObject, ObjFreed
<1>1. /\ calls # <<>> /\ Top \in Call /\ Top = calls[1] /\ Top \in Under(calls)
      /\ Rest \in Seq(Call) /\ calls = <<Top>> \o Rest
      /\ Under(calls) = {Top} \cup Under(Rest)
      /\ \A h \in Under(Rest) : ~Clash(Top, h)
      /\ FrameFits(obj, context, states, array, redblue, gcrun, Top)
  BY <1>0, TopFacts
<1>2. /\ obj \in Objects /\ context \in Contexts /\ states \in Seq(Ctx) /\ pool \in Seq(Obj)
      /\ array \in Obj \cup {Null} /\ redblue \in BOOLEAN /\ gcrun \in BOOLEAN
      /\ calls \in Seq(Call) /\ engine \in {"up", "closing", "down"}
      /\ Laid(obj, context, states, array, redblue, gcrun, calls, engine)
      /\ Counted(obj, context, array, calls, engine) /\ PoolFree(obj, pool)
  BY Types
<1>3. x \in Obj /\ obj[x].live /\ NoRefs(obj, context, array, x)
  BY <1>0, <1>1, CallFields, CountZero DEF FrameFits
<1>4. ~gcrun
  BY <1>0, <1>1, <1>2 DEF Busy, Laid, Shape
<1>5. \A f \in Field : obj[x].ref[f] = Null
  BY <1>0 DEF NoFields
<1>6. Laid(obj, context, states, array, redblue, gcrun, Rest, engine)
  <2>1. Framed(obj, context, states, array, redblue, gcrun, <<Top>> \o Rest, engine)
    BY <1>1, <1>2, LaidIsFramed
  <2>2. Framed(obj, context, states, array, redblue, gcrun, Rest, engine)
    BY <1>0, <1>1, <1>2, <2>1, FramedPop
  <2>3. Shape(<<Top>> \o Rest, engine, gcrun)
    BY <1>1, <1>2 DEF Laid
  <2>4. Rest = <<>> => First(Top.k, engine)
    BY <1>1, <2>3, LowCall
  <2>5. Rest # <<>> => Makes(Head(Rest).k, Top.k)
    BY <1>1, <2>3, LowCall
  <2>6. Rest # <<>> => Head(Rest) = Rest[1]
    BY <1>1, Unstack
  <2>7. TopFits(obj, context, states, array, Rest)
    BY <1>0, <2>5, <2>6 DEF TopFits, Makes
  <2>8. Gone(obj, context, states, array, Rest)
    BY <1>0, <1>1, <1>2 DEF Laid, Gone, Busy
  <2>9. Rest = <<>> => engine \in {"up", "down"}
    BY <1>0, <2>4 DEF First
  <2> QED
    BY <1>2, <2>2, <2>7, <2>8, <2>9, LaidIsFramed
<1>7. Counted(obj, context, array, Rest, engine)
  <2>1. \A c : Extra(<<Top>> \o Rest, engine, c) = Extra(Rest, engine, c)
    <3>1. Top \in Call /\ Rest \in Seq(Call)
          /\ Top.k \notin {"free", "safe", "clear", "next", "pick"}
      BY <1>0, <1>1
    <3> QED
      BY <3>1, ExtraCons
  <2>2. \A c \in Ctx : Extra(Rest, engine, c) = Extra(calls, engine, c)
    BY <1>1, <2>1
  <2> QED
    BY <1>2, <2>2, CountedSame
<1>8. \A f \in Under(Rest) : /\ f.k \in {"destroy", "destruct"} => f.x # x
                             /\ f.k = "sweep" => x \notin f.todo
  <2> SUFFICES ASSUME NEW f \in Under(Rest)
               PROVE  /\ f.k \in {"destroy", "destruct"} => f.x # x
                      /\ f.k = "sweep" => x \notin f.todo
    OBVIOUS
  <2>1. f.k # "sweep" /\ ~Clash(Top, f)
    BY <1>1, <1>2, <1>4 DEF Laid, Shape, Busy
  <2> QED
    BY <1>0, <2>1 DEF Clash
<1> HIDE DEF x
<1>9. Laid(os, context, states, array, redblue, gcrun, Rest, engine)
      /\ Counted(os, context, array, Rest, engine)
  <2>1. /\ obj \in Objects /\ array \in Obj \cup {Null} /\ gcrun \in BOOLEAN
        /\ Rest \in Seq(Call) /\ x \in Obj /\ NoRefs(obj, context, array, x)
        /\ gcrun => x \notin Marked(obj, redblue)
    BY <1>1, <1>2, <1>3, <1>4
  <2> QED
    BY <2>1, <1>5, <1>6, <1>7, <1>8, FreedLaid
<1>10. os \in Objects /\ p \in Seq(Obj) /\ PoolFree(os, p)
  BY <1>2, <1>3, FreedPool, ObjFreedFacts
<1> HIDE DEF os, p
<1>11. /\ obj' = os /\ context' = context /\ states' = states /\ pool' = p /\ array' = array
       /\ redblue' = redblue /\ gcrun' = gcrun /\ calls' = Rest /\ engine' = engine
  BY <1>0
<1>12. os \in Objects /\ p \in Seq(Obj) /\ Rest \in Seq(Call)
  BY <1>1, <1>10
<1>13. /\ context \in Contexts /\ states \in Seq(Ctx) /\ array \in Obj \cup {Null}
       /\ redblue \in BOOLEAN /\ gcrun \in BOOLEAN /\ engine \in {"up", "closing", "down"}
  BY <1>2
<1>14. PoolFree(os, p)
  BY <1>10
<1> QED
  BY <1>9, <1>11, <1>12, <1>13, <1>14, Stepped
---------------------------------------------------------------------------
(* The sweep.                                                              *)
LEMMA TwoCons ==
    ASSUME NEW f \in Call, NEW g \in Call, NEW cl \in Seq(Call)
    PROVE  <<f, g>> \o cl = <<f>> \o (<<g>> \o cl)
<1>1. <<f>> \in Seq(Call) /\ <<g>> \in Seq(Call)
  OBVIOUS
<1> DEFINE a == <<f, g>> \o cl
           b == <<f>> \o (<<g>> \o cl)
<1>2. /\ <<g>> \o cl \in Seq(Call) /\ Len(<<g>> \o cl) = Len(cl) + 1 /\ Len(cl) \in Nat
      /\ (<<g>> \o cl)[1] = g /\ \A i \in 1 .. Len(cl) : (<<g>> \o cl)[i + 1] = cl[i]
  BY ConsFacts
<1>3. /\ b \in Seq(Call) /\ Len(b) = Len(cl) + 2 /\ b[1] = f
      /\ \A i \in 1 .. Len(cl) + 1 : b[i + 1] = (<<g>> \o cl)[i]
  <2> DEFINE c == <<g>> \o cl
  <2>1. c \in Seq(Call) /\ Len(c) = Len(cl) + 1 /\ Len(cl) \in Nat
    BY <1>2
  <2> HIDE DEF c
  <2>2. /\ <<f>> \o c \in Seq(Call) /\ Len(<<f>> \o c) = Len(c) + 1 /\ (<<f>> \o c)[1] = f
        /\ \A i \in 1 .. Len(c) : (<<f>> \o c)[i + 1] = c[i]
    BY <2>1, ConsFacts
  <2>3. /\ <<f>> \o c \in Seq(Call) /\ Len(<<f>> \o c) = Len(cl) + 2 /\ (<<f>> \o c)[1] = f
        /\ \A i \in 1 .. Len(cl) + 1 : (<<f>> \o c)[i + 1] = c[i]
    BY <2>1, <2>2
  <2> QED
    BY <2>3 DEF c
<1>4. <<f, g>> \in Seq(Call) /\ Len(<<f, g>>) = 2 /\ <<f, g>>[1] = f /\ <<f, g>>[2] = g
  OBVIOUS
<1>5. a \in Seq(Call) /\ Len(a) = Len(cl) + 2
  BY <1>2, <1>4, ConcatProperties
<1>6. ASSUME NEW i \in 1 .. Len(cl) + 2 PROVE a[i] = b[i]
  <2>1. a[i] = IF i <= 2 THEN <<f, g>>[i] ELSE cl[i - 2]
    BY <1>2, <1>4, ConcatProperties
  <2>2. CASE i = 1
    BY <1>3, <1>4, <2>1, <2>2
  <2>3. CASE i = 2
    <3>1. b[1 + 1] = (<<g>> \o cl)[1]
      BY <1>2, <1>3
    <3> QED
      BY <1>2, <1>4, <2>1, <2>3, <3>1
  <2>4. CASE i > 2
    <3>1. i - 1 \in 1 .. Len(cl) + 1 /\ i - 2 \in 1 .. Len(cl)
          /\ (i - 1) + 1 = i /\ (i - 2) + 1 = i - 1
      BY <1>2, <2>4
    <3>2. b[(i - 1) + 1] = (<<g>> \o cl)[i - 1]
      BY <1>3, <3>1
    <3>3. (<<g>> \o cl)[(i - 2) + 1] = cl[i - 2]
      BY <1>2, <3>1
    <3> QED
      BY <2>1, <2>4, <3>1, <3>2, <3>3
  <2> QED
    BY <2>2, <2>3, <2>4
<1> HIDE DEF a, b
<1>7. a = b
  BY <1>2, <1>3, <1>5, <1>6, SeqEqual
<1> QED
  BY <1>7 DEF a, b

LEMMA SweepFacts ==
    ASSUME HeapInv, Top.k \in {"gc", "sweep"}
    PROVE  /\ Top \in Call /\ Top = calls[1] /\ Top \in Under(calls)
           /\ Rest \in Seq(Call) /\ calls = <<Top>> \o Rest
           /\ Under(calls) = {Top} \cup Under(Rest)
           /\ FrameFits(obj, context, states, array, redblue, gcrun, Top)
           /\ \A g \in Under(Rest) : g.k \in {"pick", "last", "round"}
           /\ Rest # <<>> => Rest[1].k \in {"pick", "last"} /\ Rest[1] \in Under(Rest)
           /\ Rest = <<>> => engine = "up"
           /\ MayCall(Rest, engine, Top) /\ Chain(Rest) /\ (Rest # <<>> => Based(Rest, engine))
           /\ gcrun <=> Top.k = "sweep"
           /\ Top.x = Null
<1>1. /\ Top \in Call /\ Top = calls[1] /\ Top \in Under(calls)
      /\ Rest \in Seq(Call) /\ calls = <<Top>> \o Rest
      /\ Under(calls) = {Top} \cup Under(Rest)
      /\ FrameFits(obj, context, states, array, redblue, gcrun, Top)
  BY TopFacts
<1>2. Shape(<<Top>> \o Rest, engine, gcrun)
  BY <1>1, Types DEF Laid
<1>3. \A g \in Under(Rest) : g.k \in {"pick", "last", "round"}
  BY <1>1, <1>2, CollectorLow
<1>4. Rest # <<>> => Head(Rest).k \in {"pick", "last"}
  BY <1>1, <1>2, CollectorLow
<1>5. Rest # <<>> => Head(Rest) = Rest[1] /\ Head(Rest) \in Under(Rest)
  BY <1>1, Unstack
<1>6. Rest = <<>> => engine = "up"
  BY <1>1, <1>2, CollectorLow
<1>7. Chain(<<Top>> \o Rest) /\ Based(<<Top>> \o Rest, engine)
  BY <1>2 DEF Shape
<1>8. MayCall(Rest, engine, Top) /\ Chain(Rest) /\ (Rest # <<>> => Based(Rest, engine))
  BY <1>1, <1>7, ChainCons
<1>9. gcrun <=> Busy(calls, "sweep")
  BY Types DEF Laid, Shape
<1>10. gcrun <=> Top.k = "sweep"
  BY <1>1, <1>3, <1>9 DEF Busy
<1>11. Top.x = Null
  BY <1>1, CallFields
<1> QED
  BY <1>1, <1>3, <1>4, <1>5, <1>6, <1>8, <1>10, <1>11

LEMMA SweepFreeKeeps ==
    ASSUME HeapInv, NEW x \in Obj, SweepFree(x)
    PROVE  HeapInv'
<1> DEFINE os == ObjFreed(obj, x)
           p == Pooled(pool, x)
           M == Marked(obj, redblue)
<1>0. /\ Top.k = "sweep" /\ Top.todo = {} /\ obj[x].live /\ obj[x].mark # redblue
      /\ obj' = os /\ pool' = p
      /\ UNCHANGED <<context, states, array, redblue, gcrun, calls, engine>>
  BY DEF SweepFree, ObjFreed, Unmarked
<1>1. /\ Top \in Under(calls) /\ Under(calls) = {Top} \cup Under(Rest) /\ gcrun
      /\ \A g \in Under(Rest) : g.k \in {"pick", "last", "round"}
  BY <1>0, SweepFacts
<1>2. /\ obj \in Objects /\ context \in Contexts /\ states \in Seq(Ctx) /\ pool \in Seq(Obj)
      /\ array \in Obj \cup {Null} /\ redblue \in BOOLEAN /\ gcrun \in BOOLEAN
      /\ calls \in Seq(Call) /\ engine \in {"up", "closing", "down"}
      /\ Laid(obj, context, states, array, redblue, gcrun, calls, engine)
      /\ Counted(obj, context, array, calls, engine) /\ PoolFree(obj, pool)
  BY Types
<1>3. \A o \in Obj : obj[o].live /\ obj[o].mark # redblue => \A f \in Field : obj[o].ref[f] = Null
  <2>1. \A o \in Obj : obj[o].live /\ obj[o].mark # redblue => Visited(obj, calls, o)
    BY <1>1, <1>2 DEF Laid, Coloured
  <2>2. \A o : Visited(obj, calls, o) => \A f \in Field : obj[o].ref[f] = Null
    BY <1>0, <1>1 DEF Visited
  <2> QED
    BY <2>1, <2>2
<1>4. x \notin M
  BY <1>0 DEF Marked
<1>5. NoRefs(obj, context, array, x)
  <2>1. /\ Closed(obj, M) /\ (array \in Obj => array \in M)
        /\ \A c \in Ctx, s \in Slot : context[c].ref[s] \in Obj => context[c].ref[s] \in M
    BY <1>1, <1>2 DEF Laid, Coloured
  <2>2. ASSUME NEW o \in Obj, NEW f \in Field PROVE obj[o].ref[f] # x
    <3>1. CASE o \in M
      BY <1>4, <2>1, <3>1 DEF Closed
    <3>2. CASE o \notin M
      <4>1. obj[o].ref[f] = Null
        BY <1>2, <1>3, <3>2 DEF Laid, Clean, Marked
      <4> QED
        BY <4>1, Names
    <3> QED
      BY <3>1, <3>2
  <2> QED
    BY <1>4, <2>1, <2>2 DEF NoRefs
<1>6. Laid(os, context, states, array, redblue, gcrun, calls, engine)
      /\ Counted(os, context, array, calls, engine)
  <2>1. \A f \in Under(calls) : /\ f.k \in {"destroy", "destruct"} => f.x # x
                                /\ f.k = "sweep" => x \notin f.todo
    BY <1>0, <1>1
  <2>2. \A f \in Field : obj[x].ref[f] = Null
    BY <1>0, <1>3
  <2>3. gcrun => x \notin Marked(obj, redblue)
    BY <1>4
  <2> QED
    BY <1>2, <1>5, <2>1, <2>2, <2>3, FreedLaid
<1>7. os \in Objects /\ p \in Seq(Obj) /\ PoolFree(os, p)
  BY <1>0, <1>2, FreedPool, ObjFreedFacts
<1> HIDE DEF os, p
<1>8. /\ obj' = os /\ context' = context /\ states' = states /\ pool' = p /\ array' = array
      /\ redblue' = redblue /\ gcrun' = gcrun /\ calls' = calls /\ engine' = engine
  BY <1>0
<1> QED
  BY <1>2, <1>6, <1>7, <1>8, Stepped

LEMMA SweepDestructKeeps ==
    ASSUME HeapInv, NEW x \in Obj, SweepDestruct(x)
    PROVE  HeapInv'
<1> DEFINE d == Do("destruct", x)
           g == [Top EXCEPT !.todo = @ \ {x}]
           c1 == <<g>> \o Rest
           c2 == <<d>> \o c1
<1>0. /\ Top.k = "sweep" /\ x \in Top.todo /\ calls' = <<d, g>> \o Rest
      /\ UNCHANGED <<obj, context, states, pool, array, redblue, gcrun, engine>>
  BY DEF SweepDestruct
<1>1. /\ Top \in Call /\ Rest \in Seq(Call) /\ Top \in Under(calls)
      /\ Under(calls) = {Top} \cup Under(Rest) /\ gcrun
      /\ FrameFits(obj, context, states, array, redblue, gcrun, Top)
      /\ \A h \in Under(Rest) : h.k \in {"pick", "last", "round"}
      /\ MayCall(Rest, engine, Top) /\ Chain(Rest) /\ (Rest # <<>> => Based(Rest, engine))
      /\ calls = <<Top>> \o Rest /\ Top.x = Null
  BY <1>0, SweepFacts
<1>2. /\ obj \in Objects /\ context \in Contexts /\ states \in Seq(Ctx) /\ pool \in Seq(Obj)
      /\ array \in Obj \cup {Null} /\ redblue \in BOOLEAN /\ gcrun \in BOOLEAN
      /\ calls \in Seq(Call) /\ engine \in {"up", "closing", "down"}
      /\ Laid(obj, context, states, array, redblue, gcrun, calls, engine)
      /\ Counted(obj, context, array, calls, engine) /\ PoolFree(obj, pool)
  BY Types
<1>3. g \in Call /\ g.k = "sweep" /\ g.x = Null /\ g.todo = Top.todo \ {x}
  BY <1>0, <1>1 DEF Call
<1>4. d \in Call /\ d.k = "destruct" /\ d.x = x
  BY DoFacts
<1> HIDE DEF d, g
<1>5. /\ c1 \in Seq(Call) /\ c1 # <<>> /\ Head(c1) = g
      /\ Under(c1) = {g} \cup Under(Rest)
      /\ Apart(c1) <=> Apart(Rest) /\ \A h \in Under(Rest) : ~Clash(g, h)
      /\ \A k : Busy(c1, k) <=> g.k = k \/ Busy(Rest, k)
  BY <1>1, <1>3, ConsFacts, UnderCons, ApartCons, BusyCons
<1>6. Chain(c1) /\ Based(c1, engine)
  <2>1. MayCall(Rest, engine, g)
    BY <1>0, <1>1, <1>3 DEF MayCall
  <2> QED
    BY <1>1, <1>3, <2>1, ChainCons
<1> HIDE DEF c1
<1>7. /\ c2 \in Seq(Call) /\ c2 # <<>> /\ c2[1] = d
      /\ Under(c2) = {d} \cup Under(c1)
      /\ Apart(c2) <=> Apart(c1) /\ \A h \in Under(c1) : ~Clash(d, h)
      /\ \A k : Busy(c2, k) <=> d.k = k \/ Busy(c1, k)
  BY <1>4, <1>5, ConsFacts, UnderCons, ApartCons, BusyCons
<1>8. Chain(c2) /\ Based(c2, engine)
  <2>1. MayCall(c1, engine, d)
    BY <1>3, <1>4, <1>5 DEF MayCall, Makes
  <2> QED
    BY <1>4, <1>5, <1>6, <2>1, ChainCons
<1>9. calls' = c2
  <2>1. <<d, g>> \o Rest = <<d>> \o (<<g>> \o Rest)
    BY <1>1, <1>3, <1>4, TwoCons
  <2> QED
    BY <1>0, <2>1 DEF c1
<1> HIDE DEF c2
<1>10. Shape(c2, engine, gcrun)
  BY <1>1, <1>3, <1>4, <1>5, <1>7, <1>8 DEF Shape, Busy
<1>11. Fits(obj, context, states, array, redblue, gcrun, c2)
  <2>1. Apart(Rest) /\ \A f \in Under(calls) :
           FrameFits(obj, context, states, array, redblue, gcrun, f)
    BY <1>0, <1>2, TopFacts DEF Laid, Fits
  <2>2. Apart(c2)
    BY <1>1, <1>3, <1>4, <1>5, <1>7, <2>1 DEF Clash
  <2>3. FrameFits(obj, context, states, array, redblue, gcrun, d)
    BY <1>0, <1>1, <1>4 DEF FrameFits
  <2>4. FrameFits(obj, context, states, array, redblue, gcrun, g)
    BY <1>0, <1>1, <1>3 DEF FrameFits
  <2> QED
    BY <1>1, <1>5, <1>7, <2>1, <2>2, <2>3, <2>4 DEF Fits
<1>12. Coloured(obj, context, array, redblue, gcrun, c2)
  <2>1. \A o \in Obj : Visited(obj, calls, o) => Visited(obj, c2, o)
    <3> SUFFICES ASSUME NEW o \in Obj, Visited(obj, calls, o) PROVE Visited(obj, c2, o)
      OBVIOUS
    <3>1. d \in Under(c2) /\ g \in Under(c2)
      BY <1>5, <1>7
    <3>2. \/ \A f \in Field : obj[o].ref[f] = Null
          \/ o \in Top.todo
      BY <1>0, <1>1 DEF Visited
    <3> QED
      BY <1>3, <1>4, <3>1, <3>2 DEF Visited
  <2> QED
    BY <1>2, <2>1 DEF Laid, Coloured
<1>13. TopFits(obj, context, states, array, c2)
  BY <1>4, <1>7 DEF TopFits
<1>14. Gone(obj, context, states, array, c2)
  <2>1. Busy(calls, "last") => Busy(c2, "last")
    BY <1>0, <1>1, <1>5, <1>7 DEF Busy
  <2> QED
    BY <1>2, <2>1 DEF Laid, Gone
<1>15. Laid(obj, context, states, array, redblue, gcrun, c2, engine)
  BY <1>2, <1>10, <1>11, <1>12, <1>13, <1>14 DEF Laid
<1>16. Counted(obj, context, array, c2, engine)
  <2>1. \A c : Extra(<<Top>> \o Rest, engine, c) = Extra(Rest, engine, c)
    <3>1. Top \in Call /\ Rest \in Seq(Call)
          /\ Top.k \notin {"free", "safe", "clear", "next", "pick"}
      BY <1>0, <1>1
    <3> QED
      BY <3>1, ExtraCons
  <2>2. \A c : Extra(c1, engine, c) = Extra(Rest, engine, c)
    <3>1. g \in Call /\ Rest \in Seq(Call)
          /\ g.k \notin {"free", "safe", "clear", "next", "pick"}
      BY <1>1, <1>3
    <3> QED
      BY <3>1, ExtraCons DEF c1
  <2>3. \A c : Extra(c2, engine, c) = Extra(c1, engine, c)
    <3>1. d \in Call /\ c1 \in Seq(Call)
          /\ d.k \notin {"free", "safe", "clear", "next", "pick"}
      BY <1>4, <1>5
    <3> QED
      BY <3>1, ExtraCons DEF c2
  <2>4. \A c \in Ctx : Extra(c2, engine, c) = Extra(calls, engine, c)
    BY <1>1, <2>1, <2>2, <2>3
  <2> QED
    BY <1>2, <2>4, CountedSame
<1>17. /\ obj' = obj /\ context' = context /\ states' = states /\ pool' = pool /\ array' = array
       /\ redblue' = redblue /\ gcrun' = gcrun /\ calls' = c2 /\ engine' = engine
  BY <1>0, <1>9
<1>18. c2 \in Seq(Call)
  BY <1>7
<1> QED
  BY <1>2, <1>15, <1>16, <1>17, <1>18, Stepped, SMTT(30)

LEMMA SweepEndsKeeps ==
    ASSUME HeapInv, SweepEnds
    PROVE  HeapInv'
<1>0. /\ Top.k = "sweep" /\ \A o \in Obj : obj[o].live => obj[o].mark = redblue
      /\ gcrun' = FALSE /\ calls' = Rest
      /\ UNCHANGED <<obj, context, states, pool, array, redblue, engine>>
  BY DEF SweepEnds, Unmarked
<1>1. /\ Top \in Call /\ Rest \in Seq(Call) /\ Top \in Under(calls)
      /\ Under(calls) = {Top} \cup Under(Rest) /\ gcrun
      /\ \A h \in Under(Rest) : h.k \in {"pick", "last", "round"}
      /\ Rest # <<>> => Rest[1].k \in {"pick", "last"} /\ Rest[1] \in Under(Rest)
      /\ Rest = <<>> => engine = "up"
      /\ Chain(Rest) /\ (Rest # <<>> => Based(Rest, engine))
      /\ calls = <<Top>> \o Rest
  BY <1>0, SweepFacts
<1>2. /\ obj \in Objects /\ context \in Contexts /\ states \in Seq(Ctx) /\ pool \in Seq(Obj)
      /\ array \in Obj \cup {Null} /\ redblue \in BOOLEAN
      /\ calls \in Seq(Call) /\ engine \in {"up", "closing", "down"}
      /\ Laid(obj, context, states, array, redblue, gcrun, calls, engine)
      /\ Counted(obj, context, array, calls, engine) /\ PoolFree(obj, pool)
  BY Types
<1>3. Shape(Rest, engine, FALSE)
  BY <1>1 DEF Shape, Based, Busy
<1>4. \A f \in Under(Rest) : FrameFits(obj, context, states, array, redblue, TRUE, f)
  BY <1>1, <1>2 DEF Laid, Fits
<1>5. Fits(obj, context, states, array, redblue, FALSE, Rest)
  <2>1. Apart(Rest)
    BY <1>0, TopFacts
  <2>2. \A f \in Under(Rest) : FrameFits(obj, context, states, array, redblue, FALSE, f)
    BY <1>1, <1>4 DEF FrameFits
  <2> QED
    BY <2>1, <2>2 DEF Fits
<1>6. Coloured(obj, context, array, redblue, FALSE, Rest)
  BY <1>0, <1>1, <1>2 DEF Laid, Coloured, Marked
<1>7. TopFits(obj, context, states, array, Rest)
  <2> SUFFICES ASSUME Rest # <<>>, Rest[1].k = "pick" PROVE Tidy(obj, context, array)
    BY <1>1 DEF TopFits
  <2>1. AllBare(context) /\ Grounded(obj, array, Marked(obj, redblue))
    BY <1>1, <1>4 DEF FrameFits
  <2>2. Marked(obj, redblue) = LiveIn(obj)
    BY <1>0 DEF Marked, LiveIn
  <2> QED
    BY <2>1, <2>2 DEF Tidy
<1>8. Gone(obj, context, states, array, Rest)
  <2>1. Busy(calls, "last") => Busy(Rest, "last")
    BY <1>0, <1>1 DEF Busy
  <2> QED
    BY <1>2, <2>1 DEF Laid, Gone
<1>9. Laid(obj, context, states, array, redblue, FALSE, Rest, engine)
  BY <1>2, <1>3, <1>5, <1>6, <1>7, <1>8 DEF Laid
<1>10. Counted(obj, context, array, Rest, engine)
  <2>1. \A c : Extra(<<Top>> \o Rest, engine, c) = Extra(Rest, engine, c)
    <3>1. Top \in Call /\ Rest \in Seq(Call)
          /\ Top.k \notin {"free", "safe", "clear", "next", "pick"}
      BY <1>0, <1>1
    <3> QED
      BY <3>1, ExtraCons
  <2>2. \A c \in Ctx : Extra(Rest, engine, c) = Extra(calls, engine, c)
    BY <1>1, <2>1
  <2> QED
    BY <1>2, <2>2, CountedSame
<1>11. /\ obj' = obj /\ context' = context /\ states' = states /\ pool' = pool /\ array' = array
       /\ redblue' = redblue /\ gcrun' = FALSE /\ calls' = Rest /\ engine' = engine
  BY <1>0
<1>12. Rest \in Seq(Call)
  BY <1>1
<1> QED
  BY <1>2, <1>9, <1>10, <1>11, <1>12, Stepped
---------------------------------------------------------------------------
(* The destruction of a context.                                           *)
CtxFreed(cs, x) == [cs EXCEPT ![x] = NoContext]
SameRefs(cs, cs2) == \A c \in Ctx, s \in Slot : cs2[c].ref[s] = cs[c].ref[s]

LEMMA CtxFreedFacts ==
    ASSUME NEW cs \in Contexts, NEW x \in Ctx, Bare(cs, x)
    PROVE  LET cs2 == CtxFreed(cs, x)
           IN  /\ cs2 \in Contexts /\ \A c \in Ctx : c # x => cs2[c] = cs[c]
               /\ ~cs2[x].live /\ SameRefs(cs, cs2)
<1> DEFINE cs2 == CtxFreed(cs, x)
<1>1. NoContext \in Context /\ ~NoContext.live /\ \A s \in Slot : NoContext.ref[s] = Null
  BY DEF NoContext, Context, Val
<1>2. cs2 \in Contexts /\ cs2[x] = NoContext /\ \A c \in Ctx : c # x => cs2[c] = cs[c]
  BY <1>1 DEF CtxFreed, Contexts
<1> HIDE DEF cs2
<1>3. SameRefs(cs, cs2)
  BY <1>1, <1>2 DEF SameRefs, Bare
<1> QED
  BY <1>1, <1>2, <1>3 DEF cs2

LEMMA SameRefsFacts ==
    ASSUME NEW cs, NEW cs2, SameRefs(cs, cs2), NEW st \in Seq(Ctx)
    PROVE  /\ \A os, ar, v : Count(os, cs2, ar, v) = Count(os, cs, ar, v)
           /\ \A c \in Ctx : Bare(cs2, c) <=> Bare(cs, c)
           /\ AllBare(cs2) <=> AllBare(cs)
           /\ \A c \in Ctx : BareBefore(cs, st, c) => BareBefore(cs2, st, c)
<1>1. \A v : CtxPlaces(cs2, v) = CtxPlaces(cs, v)
  BY DEF SameRefs, CtxPlaces
<1>2. \A os, ar, v : Count(os, cs2, ar, v) = Count(os, cs, ar, v)
  BY <1>1 DEF Count
<1>3. \A c \in Ctx : Bare(cs2, c) <=> Bare(cs, c)
  BY DEF SameRefs, Bare
<1>4. \A i \in 1 .. Len(st) : st[i] \in Ctx
  BY ElementOfSeq
<1> QED
  BY <1>2, <1>3, <1>4 DEF AllBare, BareBefore

LEMMA ContextGone ==
    ASSUME NEW os, NEW cs \in Contexts, NEW st \in Seq(Ctx), NEW st2 \in Seq(Ctx), NEW ar,
           NEW rb, NEW gr \in BOOLEAN, NEW cl \in Seq(Call), NEW en,
           Framed(os, cs, st, ar, rb, gr, cl, en), Clean(os, cs, ar),
           NEW x \in Ctx, NoRefs(os, cs, ar, x), Bare(cs, x),
           \A f \in Under(cl) : f.x # x /\ f.k # "last",
           Busy(cl, "free") => InList(st2, Root),
           \A c \in Ctx : BareBefore(cs, st, c) => BareBefore(cs, st2, c)
    PROVE  /\ Framed(os, CtxFreed(cs, x), st2, ar, rb, gr, cl, en)
           /\ Clean(os, CtxFreed(cs, x), ar)
<1> DEFINE cs2 == CtxFreed(cs, x)
<1>1. /\ cs2 \in Contexts /\ \A c \in Ctx : c # x => cs2[c] = cs[c]
      /\ ~cs2[x].live /\ SameRefs(cs, cs2)
  BY CtxFreedFacts
<1> HIDE DEF cs2
<1>2. /\ \A a, v : Count(os, cs2, a, v) = Count(os, cs, a, v)
      /\ \A c \in Ctx : Bare(cs2, c) <=> Bare(cs, c)
      /\ AllBare(cs2) <=> AllBare(cs)
      /\ \A c \in Ctx : BareBefore(cs, st2, c) => BareBefore(cs2, st2, c)
  BY <1>1, SameRefsFacts
<1>3. Clean(os, cs2, ar)
  <2>1. \A v : v # x /\ Alive(os, cs, v) => Alive(os, cs2, v)
    BY <1>1 DEF Alive
  <2>2. \A o \in Obj, f \in Field : Alive(os, cs2, os[o].ref[f])
    BY <2>1 DEF Clean, NoRefs
  <2>3. \A c \in Ctx, s \in Slot : Alive(os, cs2, cs2[c].ref[s])
    BY <1>1, <2>1 DEF Clean, NoRefs, SameRefs
  <2>4. Alive(os, cs2, ar)
    BY <2>1 DEF Clean, NoRefs
  <2>5. \A c \in Ctx, s \in Slot : ~cs2[c].live => cs2[c].ref[s] = Null
    BY <1>1 DEF Clean, SameRefs, Bare
  <2> QED
    BY <2>2, <2>3, <2>4, <2>5 DEF Clean
<1>4. Fits(os, cs2, st2, ar, rb, gr, cl)
  <2> SUFFICES ASSUME NEW f \in Under(cl) PROVE FrameFits(os, cs2, st2, ar, rb, gr, f)
    BY DEF Framed, Fits
  <2>1. f \in Call /\ f.x # x /\ f.k # "last" /\ FrameFits(os, cs, st, ar, rb, gr, f)
    BY UnderType DEF Framed, Fits
  <2>2. /\ f.k \in {"destroy", "destruct"} => f.x \in Obj
        /\ f.k \in {"free", "safe", "drop", "clear", "next"} => f.x \in Ctx
    BY <2>1, CallFields
  <2>3. f.k = "free" => InList(st2, Root)
    BY DEF Busy
  <2>4. CASE f.k = "destroy"
    BY <1>2, <2>1, <2>4 DEF FrameFits
  <2>5. CASE f.k = "destruct"
    BY <2>1, <2>5 DEF FrameFits
  <2>6. CASE f.k = "free"
    BY <1>1, <1>2, <2>1, <2>2, <2>3, <2>6 DEF FrameFits
  <2>7. CASE f.k = "drop"
    BY <1>1, <1>2, <2>1, <2>2, <2>7 DEF FrameFits
  <2>8. CASE f.k = "safe"
    BY <1>1, <2>1, <2>2, <2>8 DEF FrameFits
  <2>9. CASE f.k \in {"clear", "next"}
    BY <1>1, <1>2, <2>1, <2>2, <2>9 DEF FrameFits
  <2>10. CASE f.k \in {"sweep", "pick"}
    BY <1>2, <2>1, <2>10 DEF FrameFits
  <2>11. CASE f.k \in {"gc", "round", "forced"}
    BY <2>11 DEF FrameFits
  <2>12. f.k \in {"destroy", "destruct", "free", "safe", "drop", "last", "clear", "next",
                  "gc", "sweep", "round", "pick", "forced"}
    BY <2>1, CallFields
  <2> QED
    BY <2>1, <2>4, <2>5, <2>6, <2>7, <2>8, <2>9, <2>10, <2>11, <2>12
<1>5. Coloured(os, cs2, ar, rb, gr, cl)
  <2>1. Coloured(os, cs, ar, rb, gr, cl)
    BY DEF Framed
  <2> QED
    BY <1>1, <2>1 DEF Coloured, SameRefs
<1> QED
  BY <1>3, <1>4, <1>5 DEF Framed, cs2

LEMMA DropFacts ==
    ASSUME HeapInv, Top.k = "drop"
    PROVE  /\ Top.x \in Ctx /\ context[Top.x].live /\ Bare(context, Top.x)
           /\ NoRefs(obj, context, array, Top.x)
           /\ InList(states, Top.x)
           /\ \A f \in Under(Rest) : f.x # Top.x /\ f.k # "last"
           /\ Rest # <<>> =>
                 /\ Head(Rest).k \in {"destroy", "destruct", "free", "safe", "round"}
                 /\ Head(Rest) = Rest[1] /\ Head(Rest) \in Call
           /\ Rest # <<>> /\ Head(Rest).k = "round" =>
                 Tail(Rest) = <<>> /\ Under(Rest) = {Head(Rest)} /\ Tidy(obj, context, array)
           /\ Rest = <<>> \/ Head(Rest).k # "round" => InList(states, Root) /\ Top.x # Root
           /\ Framed(obj, context, states, array, redblue, gcrun, Rest, engine)
           /\ Rest = <<>> => engine = "up"
           /\ engine = "up" => Top.x # Root
<1> DEFINE x == Top.x
<1>1. /\ calls # <<>> /\ Top \in Call /\ Top = calls[1] /\ Top \in Under(calls)
      /\ Rest \in Seq(Call) /\ calls = <<Top>> \o Rest
      /\ Under(calls) = {Top} \cup Under(Rest) /\ Apart(Rest)
      /\ \A h \in Under(Rest) : ~Clash(Top, h)
      /\ FrameFits(obj, context, states, array, redblue, gcrun, Top)
  BY TopFacts
<1>2. /\ obj \in Objects /\ context \in Contexts /\ states \in Seq(Ctx)
      /\ gcrun \in BOOLEAN /\ calls \in Seq(Call) /\ engine \in {"up", "closing", "down"}
      /\ Laid(obj, context, states, array, redblue, gcrun, calls, engine)
  BY Types
<1>3. x \in Ctx
  BY <1>1, CallFields
<1>4. context[x].live /\ Bare(context, x) /\ NoRefs(obj, context, array, x)
  BY <1>1, CountZero DEF FrameFits
<1>5. InList(states, x)
  BY <1>2, <1>3, <1>4, CtxIsListed
<1>6. Shape(<<Top>> \o Rest, engine, gcrun)
  BY <1>1, <1>2 DEF Laid
<1>7. /\ Rest = <<>> => First("drop", engine)
      /\ Rest # <<>> => Makes(Head(Rest).k, "drop") /\ Chain(Rest) /\ Based(Rest, engine)
  <2>1. /\ Rest = <<>> => First(Top.k, engine)
        /\ Rest # <<>> => Makes(Head(Rest).k, Top.k) /\ Chain(Rest) /\ Based(Rest, engine)
    BY <1>1, <1>6, LowCall
  <2> QED
    BY <2>1
<1>8. Rest # <<>> =>
         /\ Head(Rest).k \in {"destroy", "destruct", "free", "safe", "round"}
         /\ Head(Rest) = Rest[1] /\ Head(Rest) \in Call
         /\ Rest = <<Head(Rest)>> \o Tail(Rest) /\ Tail(Rest) \in Seq(Call)
  BY <1>1, <1>7, Unstack DEF Makes
<1>9. Framed(obj, context, states, array, redblue, gcrun, Rest, engine)
  <2>1. Framed(obj, context, states, array, redblue, gcrun, <<Top>> \o Rest, engine)
    BY <1>1, <1>2, LaidIsFramed
  <2> QED
    BY <1>1, <1>2, <2>1, FramedPop
<1>10. Rest # <<>> /\ Head(Rest).k = "round" => Tail(Rest) = <<>> /\ Under(Rest) = {Head(Rest)}
  <2> SUFFICES ASSUME Rest # <<>>, Head(Rest).k = "round"
               PROVE  Tail(Rest) = <<>> /\ Under(Rest) = {Head(Rest)}
    OBVIOUS
  <2> DEFINE h == Head(Rest)
             t == Tail(Rest)
  <2>1. h \in Call /\ t \in Seq(Call) /\ h.k = "round" /\ Rest = <<h>> \o t
    BY <1>8
  <2>2. Shape(<<h>> \o t, engine, gcrun)
    BY <1>7, <1>9, <2>1 DEF Shape, Framed
  <2> HIDE DEF h, t
  <2>3. t = <<>>
    BY <2>1, <2>2, LowCall
  <2>4. Under(Rest) = {h}
    BY <2>1, <2>3, UnderCons, UnderNone, ZenonT(60)
  <2> QED
    BY <2>3, <2>4 DEF h, t
<1>11. Rest # <<>> => Len(calls) > 1 /\ calls[2] = Head(Rest)
  <2>1. /\ Len(<<Top>> \o Rest) = Len(Rest) + 1 /\ Len(Rest) \in Nat
        /\ \A i \in 1 .. Len(Rest) : (<<Top>> \o Rest)[i + 1] = Rest[i]
    BY <1>1, ConsFacts
  <2>2. Rest # <<>> => Len(Rest) > 0
    BY <1>1, <2>1, EmptySeq
  <2>3. Rest # <<>> => (<<Top>> \o Rest)[1 + 1] = Rest[1]
    BY <2>1, <2>2
  <2> QED
    BY <1>1, <1>8, <2>1, <2>2, <2>3
<1>12. Rest = <<>> => Len(calls) = 1
  BY <1>1
<1>13. IF Len(calls) > 1 /\ calls[2].k = "round" THEN Tidy(obj, context, array)
       ELSE InList(states, Root) /\ x # Root
  BY <1>1, <1>2 DEF Laid, TopFits
<1>14. \A f \in Under(Rest) : f.k # "last"
  <2> SUFFICES ASSUME NEW f \in Under(Rest), f.k = "last" PROVE FALSE
    OBVIOUS
  <2>1. states = <<f.x>> /\ f.x # x
    <3>1. FrameFits(obj, context, states, array, redblue, gcrun, f)
      BY <1>9 DEF Framed, Fits
    <3> QED
      BY <1>1, <3>1 DEF FrameFits, Clash
  <2> QED
    BY <1>5, <2>1 DEF InList
<1>15. ASSUME NEW f \in Under(Rest), f.x = x PROVE FALSE
  <2>1. f \in Call
    BY <1>1, UnderType
  <2>2. f.k \in {"clear", "next"}
    <3>1. f.k \notin {"free", "safe", "drop", "last"}
      BY <1>1, <1>15 DEF Clash
    <3>2. x \notin Obj /\ x # Null
      BY <1>3, Names
    <3> QED
      BY <1>15, <2>1, <3>1, <3>2, CallFields
  <2>3. PICK i \in 1 .. Len(calls) : calls[i] = f
    BY <1>1 DEF Under
  <2>4. i # 1 /\ Len(calls) \in Nat
    BY <1>1, <1>2, <2>2, <2>3
  <2>5. i - 1 \in 1 .. Len(calls) - 1 /\ (i - 1) + 1 = i /\ i - 1 \in 1 .. Len(calls)
    BY <2>3, <2>4
  <2>6. Makes(calls[i].k, calls[i - 1].k) /\ (calls[i - 1].k = "safe" => calls[i].x = calls[i - 1].x)
    BY <1>2, <2>5 DEF Laid, Shape, Chain
  <2>7. calls[i - 1].k = "safe" /\ calls[i - 1].x = x
    BY <1>15, <2>2, <2>3, <2>6 DEF Makes
  <2>8. calls[i - 1] \in Under(Rest)
    BY <1>1, <2>5, <2>7 DEF Under
  <2> QED
    BY <1>1, <2>7, <2>8 DEF Clash
<1>16. Rest = <<>> => engine = "up"
  BY <1>2, <1>7 DEF First
<1>17. engine = "up" => x # Root
  <2>1. ASSUME Rest # <<>>, Head(Rest).k = "round" PROVE engine = "closing"
    <3>1. Head(Rest) \in Under(calls)
      BY <1>1, <1>10, <2>1
    <3> QED
      BY <1>2, <2>1, <3>1, HostCalls DEF Laid
  <2> QED
    BY <1>11, <1>12, <1>13, <2>1
<1> HIDE DEF x
<1> QED
  <2>1. \A f \in Under(Rest) : f.x # x /\ f.k # "last"
    BY <1>14, <1>15
  <2>2. Rest # <<>> /\ Head(Rest).k = "round" => Tidy(obj, context, array)
    BY <1>11, <1>13
  <2>3. Rest = <<>> \/ Head(Rest).k # "round" => InList(states, Root) /\ x # Root
    BY <1>11, <1>12, <1>13
  <2> QED
    BY <1>3, <1>4, <1>5, <1>8, <1>9, <1>10, <1>16, <1>17, <2>1, <2>2, <2>3 DEF x

LEMMA DestroyContextKeeps ==
    ASSUME HeapInv, DestroyContext
    PROVE  HeapInv'
<1> DEFINE x == Top.x
           cs == CtxFreed(context, x)
           st == Without(states, x)
<1>0. /\ Top.k = "drop" /\ states' = st /\ context' = cs /\ calls' = Rest
      /\ UNCHANGED <<obj, pool, array, redblue, gcrun, engine>>
  BY DEF DestroyContext, CtxFreed
<1>1. Top \in Call /\ Rest \in Seq(Call) /\ calls = <<Top>> \o Rest
      /\ Under(calls) = {Top} \cup Under(Rest)
  BY <1>0, TopFacts
<1>2. /\ obj \in Objects /\ context \in Contexts /\ states \in Seq(Ctx) /\ pool \in Seq(Obj)
      /\ array \in Obj \cup {Null} /\ redblue \in BOOLEAN /\ gcrun \in BOOLEAN
      /\ calls \in Seq(Call) /\ engine \in {"up", "closing", "down"}
      /\ Laid(obj, context, states, array, redblue, gcrun, calls, engine)
      /\ Counted(obj, context, array, calls, engine) /\ PoolFree(obj, pool)
  BY Types
<1>3. /\ x \in Ctx /\ context[x].live /\ Bare(context, x)
      /\ NoRefs(obj, context, array, x)
      /\ \A f \in Under(Rest) : f.x # x /\ f.k # "last"
      /\ Rest # <<>> =>
            /\ Head(Rest).k \in {"destroy", "destruct", "free", "safe", "round"}
            /\ Head(Rest) = Rest[1]
      /\ Rest # <<>> /\ Head(Rest).k = "round" =>
            Under(Rest) = {Head(Rest)} /\ Tidy(obj, context, array)
      /\ Rest = <<>> \/ Head(Rest).k # "round" => InList(states, Root) /\ x # Root
      /\ Framed(obj, context, states, array, redblue, gcrun, Rest, engine)
      /\ Rest = <<>> => engine = "up"
      /\ engine = "up" => x # Root
  BY <1>0, DropFacts
<1>3a. InList(states, x)
  BY <1>0, DropFacts
<1>4. /\ cs \in Contexts /\ \A c \in Ctx : c # x => cs[c] = context[c]
      /\ ~cs[x].live /\ SameRefs(context, cs)
  BY <1>2, <1>3, CtxFreedFacts
<1>5. \A i, j \in 1 .. Len(states) : states[i] = states[j] => i = j
  BY <1>2 DEF Laid, Enlisted
<1>6. /\ st \in Seq(Ctx)
      /\ \A i, j \in 1 .. Len(st) : i < j =>
            \E k, l \in 1 .. Len(states) : k < l /\ st[i] = states[k] /\ st[j] = states[l]
      /\ \A i \in 1 .. Len(st) : \E k \in 1 .. Len(states) : st[i] = states[k]
      /\ \A k \in 1 .. Len(states) : states[k] # x => \E i \in 1 .. Len(st) : st[i] = states[k]
      /\ \A i \in 1 .. Len(st) : st[i] # x
  <2> DEFINE q == Without(states, x)
  <2>1. states \in Seq(Ctx)
    BY <1>2
  <2>2. /\ q \in Seq(Ctx)
        /\ \A i, j \in 1 .. Len(q) : i < j =>
              \E k, l \in 1 .. Len(states) : k < l /\ q[i] = states[k] /\ q[j] = states[l]
    BY <2>1, WithoutFacts
  <2>3. \A i \in 1 .. Len(q) : \E k \in 1 .. Len(states) : q[i] = states[k]
    BY <2>1, WithoutFacts
  <2>4. \A k \in 1 .. Len(states) : states[k] # x => \E i \in 1 .. Len(q) : q[i] = states[k]
    BY <2>1, WithoutFacts
  <2>5. \A i \in 1 .. Len(q) : q[i] # x
    BY <1>5, <2>1, WithoutFacts
  <2> HIDE DEF q
  <2> QED
    BY <2>2, <2>3, <2>4, <2>5 DEF q
<1> HIDE DEF x, cs, st
<1>7. \A c \in Ctx : InList(st, c) <=> InList(states, c) /\ c # x
  <2>1. ASSUME NEW c \in Ctx, InList(st, c) PROVE InList(states, c) /\ c # x
    <3>1. PICK i \in 1 .. Len(st) : st[i] = c
      BY <2>1 DEF InList
    <3>2. PICK k \in 1 .. Len(states) : st[i] = states[k]
      BY <1>6
    <3> QED
      BY <1>6, <3>1, <3>2 DEF InList
  <2>2. ASSUME NEW c \in Ctx, InList(states, c), c # x PROVE InList(st, c)
    <3>1. PICK k \in 1 .. Len(states) : states[k] = c
      BY <2>2 DEF InList
    <3> QED
      BY <1>6, <2>2, <3>1 DEF InList
  <2> QED
    BY <2>1, <2>2
<1>8. Enlisted(cs, st, engine)
  <2>1. \A i, j \in 1 .. Len(st) : st[i] = st[j] => i = j
    <3> SUFFICES ASSUME NEW i \in 1 .. Len(st), NEW j \in 1 .. Len(st), st[i] = st[j], i < j
                 PROVE  FALSE
      OBVIOUS
    <3>1. PICK k, l \in 1 .. Len(states) : k < l /\ st[i] = states[k] /\ st[j] = states[l]
      BY <1>6
    <3>2. k = l
      BY <1>5, <3>1
    <3> QED
      BY <3>1, <3>2
  <2>2. \A c \in Ctx : context[c].live <=> InList(states, c)
    BY <1>2 DEF Laid, Enlisted, InList
  <2>3. \A c \in Ctx : cs[c].live <=> InList(st, c)
    BY <1>4, <1>7, <2>2
  <2>4. engine = "up" => cs[Root].live /\ cs[Root].ref["_G"] = Global
    BY <1>2, <1>3, <1>4, Names DEF Laid, Enlisted
  <2> QED
    BY <2>1, <2>3, <2>4 DEF Enlisted, InList
<1>9. Framed(obj, cs, st, array, redblue, gcrun, Rest, engine) /\ Clean(obj, cs, array)
  <2>1. Busy(Rest, "free") => InList(st, Root)
    <3> SUFFICES ASSUME Busy(Rest, "free") PROVE InList(st, Root)
      OBVIOUS
    <3>1. Rest # <<>> => Head(Rest).k # "round"
      BY <1>3 DEF Busy
    <3> QED
      BY <1>3, <1>7, <3>1, Names
  <2>2. \A c \in Ctx : BareBefore(context, states, c) => BareBefore(context, st, c)
    <3> SUFFICES ASSUME NEW c \in Ctx, BareBefore(context, states, c),
                        NEW i \in 1 .. Len(st), NEW j \in 1 .. Len(st), i < j, st[j] = c
                 PROVE  Bare(context, st[i])
      BY DEF BareBefore
    <3>1. PICK k, l \in 1 .. Len(states) : k < l /\ st[i] = states[k] /\ st[j] = states[l]
      BY <1>6
    <3> QED
      BY <3>1 DEF BareBefore
  <2>3. Clean(obj, context, array)
    BY <1>2 DEF Laid
  <2> QED
    BY <1>1, <1>2, <1>3, <1>6, <2>1, <2>2, <2>3, ContextGone DEF cs
<1>10. /\ \A os, ar, v : Count(os, cs, ar, v) = Count(os, context, ar, v)
       /\ AllBare(cs) <=> AllBare(context)
  BY <1>2, <1>4, SameRefsFacts
<1>11. TopFits(obj, cs, st, array, Rest)
  BY <1>3 DEF TopFits
<1>12. Gone(obj, cs, st, array, Rest)
  <2> SUFFICES ASSUME ~InList(st, Root)
               PROVE  AllBare(context) /\ Tidy(obj, context, array)
    BY <1>10 DEF Gone, Tidy
  <2>1. CASE x = Root
    BY <1>3, <2>1 DEF Tidy
  <2>2. CASE x # Root
    <3>1. ~InList(states, Root)
      BY <1>7, <2>2, Names
    <3>2. states # <<>>
      BY <1>3a DEF InList
    <3>3. ~Busy(calls, "last")
      BY <1>0, <1>1, <1>3 DEF Busy
    <3> QED
      BY <1>2, <3>1, <3>2, <3>3 DEF Laid, Gone
  <2> QED
    BY <2>1, <2>2
<1>13. Laid(obj, cs, st, array, redblue, gcrun, Rest, engine)
  BY <1>3, <1>8, <1>9, <1>11, <1>12, LaidIsFramed
<1>14. Counted(obj, cs, array, Rest, engine)
  <2>1. \A c : Extra(calls, engine, c) = Extra(Rest, engine, c)
    <3>1. Top \in Call /\ Rest \in Seq(Call)
          /\ Top.k \notin {"free", "safe", "clear", "next", "pick"}
      BY <1>0, <1>1
    <3>2. \A c : Extra(<<Top>> \o Rest, engine, c) = Extra(Rest, engine, c)
      BY <3>1, ExtraCons
    <3> QED
      BY <1>1, <3>2
  <2>2. \A c \in Ctx : cs[c].live => cs[c].rc = context[c].rc /\ context[c].live
    BY <1>4
  <2> QED
    BY <1>2, <1>10, <2>1, <2>2 DEF Counted
<1>15. /\ obj' = obj /\ context' = cs /\ states' = st /\ pool' = pool /\ array' = array
       /\ redblue' = redblue /\ gcrun' = gcrun /\ calls' = Rest /\ engine' = engine
  BY <1>0
<1>16. cs \in Contexts /\ st \in Seq(Ctx) /\ Rest \in Seq(Call)
  BY <1>1, <1>4, <1>6
<1> QED
  <2>1. /\ obj \in Objects /\ pool \in Seq(Obj)
        /\ array \in Obj \cup {Null} /\ redblue \in BOOLEAN /\ gcrun \in BOOLEAN
        /\ engine \in {"up", "closing", "down"} /\ PoolFree(obj, pool)
    BY <1>2
  <2> QED
    BY <2>1, <1>13, <1>14, <1>15, <1>16, Stepped

LEMMA LastDestroyedKeeps ==
    ASSUME HeapInv, LastDestroyed
    PROVE  HeapInv'
<1> DEFINE x == Top.x
           cs == CtxFreed(context, x)
<1>0. /\ Top.k = "last" /\ states' = <<>> /\ context' = cs /\ calls' = Rest
      /\ UNCHANGED <<obj, pool, array, redblue, gcrun, engine>>
  BY DEF LastDestroyed, CtxFreed
<1>1. /\ Top \in Call /\ Rest \in Seq(Call) /\ calls = <<Top>> \o Rest
      /\ Under(calls) = {Top} \cup Under(Rest)
      /\ FrameFits(obj, context, states, array, redblue, gcrun, Top)
  BY <1>0, TopFacts
<1>2. /\ obj \in Objects /\ context \in Contexts /\ states \in Seq(Ctx) /\ pool \in Seq(Obj)
      /\ array \in Obj \cup {Null} /\ redblue \in BOOLEAN /\ gcrun \in BOOLEAN
      /\ calls \in Seq(Call) /\ engine \in {"up", "closing", "down"}
      /\ Laid(obj, context, states, array, redblue, gcrun, calls, engine)
      /\ Counted(obj, context, array, calls, engine) /\ PoolFree(obj, pool)
  BY Types
<1>3. x \in Ctx
  BY <1>0, <1>1, CallFields
<1>4. /\ states = <<x>> /\ array = Null /\ AllBare(context)
      /\ \A o \in Obj, g \in Field : obj[o].ref[g] \notin Ctx
  BY <1>0, <1>1 DEF FrameFits
<1>5. NoRefs(obj, context, array, x) /\ Bare(context, x)
  BY <1>3, <1>4, Names DEF NoRefs, AllBare, Bare
<1>6. /\ cs \in Contexts /\ \A c \in Ctx : c # x => cs[c] = context[c]
      /\ ~cs[x].live /\ SameRefs(context, cs)
  BY <1>2, <1>3, <1>5, CtxFreedFacts
<1>7. Shape(<<Top>> \o Rest, engine, gcrun)
  BY <1>1, <1>2 DEF Laid
<1>8. /\ Rest # <<>> /\ Head(Rest).k = "round"
  <2>1. Rest = <<>> => First(Top.k, engine)
    BY <1>1, <1>7, LowCall
  <2>2. Rest # <<>> => Makes(Head(Rest).k, Top.k)
    BY <1>1, <1>7, LowCall
  <2> QED
    BY <1>0, <2>1, <2>2 DEF First, Makes
<1>9. /\ Head(Rest) \in Call /\ Tail(Rest) \in Seq(Call) /\ Rest = <<Head(Rest)>> \o Tail(Rest)
      /\ Head(Rest) = Rest[1] /\ Head(Rest) \in Under(Rest) /\ Head(Rest).x = Null
  BY <1>1, <1>8, Unstack, CallFields
<1>10. Framed(obj, context, states, array, redblue, gcrun, Rest, engine)
  <2>1. Framed(obj, context, states, array, redblue, gcrun, <<Top>> \o Rest, engine)
    BY <1>1, <1>2, LaidIsFramed
  <2> QED
    BY <1>0, <1>1, <1>2, <2>1, FramedPop
<1>11. Tail(Rest) = <<>> /\ Under(Rest) = {Head(Rest)}
  <2> DEFINE h == Head(Rest)
             t == Tail(Rest)
  <2>1. h \in Call /\ t \in Seq(Call) /\ h.k = "round" /\ Rest = <<h>> \o t
    BY <1>8, <1>9
  <2>2. Shape(<<h>> \o t, engine, gcrun)
    BY <1>8, <1>10, <2>1 DEF Shape, Framed
  <2> HIDE DEF h, t
  <2>3. t = <<>>
    BY <2>1, <2>2, LowCall
  <2>4. Under(Rest) = {h}
    BY <2>1, <2>3, UnderCons, UnderNone, ZenonT(60)
  <2> QED
    BY <2>3, <2>4 DEF h, t
<1>12. engine = "closing"
  BY <1>1, <1>2, <1>8, <1>9, HostCalls DEF Laid
<1>13. <<>> \in Seq(Ctx)
  OBVIOUS
<1> HIDE DEF x, cs
<1>14. Framed(obj, cs, <<>>, array, redblue, gcrun, Rest, engine) /\ Clean(obj, cs, array)
  <2>1. \A f \in Under(Rest) : f.x # x /\ f.k # "last"
    BY <1>3, <1>8, <1>9, <1>11, Names
  <2>2. ~Busy(Rest, "free")
    BY <1>8, <1>11 DEF Busy
  <2>3. \A c \in Ctx : BareBefore(context, <<>>, c)
    BY DEF BareBefore
  <2>4. Clean(obj, context, array)
    BY <1>2 DEF Laid
  <2>5. context \in Contexts /\ states \in Seq(Ctx) /\ Rest \in Seq(Call) /\ gcrun \in BOOLEAN
    BY <1>1, <1>2
  <2> DEFINE none == <<>>
  <2>6. /\ none \in Seq(Ctx) /\ (Busy(Rest, "free") => InList(none, Root))
        /\ \A c \in Ctx : BareBefore(context, states, c) => BareBefore(context, none, c)
    BY <1>13, <2>2, <2>3
  <2> HIDE DEF none
  <2>7. /\ Framed(obj, CtxFreed(context, x), none, array, redblue, gcrun, Rest, engine)
        /\ Clean(obj, CtxFreed(context, x), array)
    BY <1>3, <1>5, <1>10, <2>1, <2>4, <2>5, <2>6, ContextGone
  <2> QED
    BY <2>7 DEF cs, none
<1>15. Enlisted(cs, <<>>, engine)
  <2>1. \A c \in Ctx : context[c].live => c = x
    BY <1>2, <1>4 DEF Laid, Enlisted
  <2>2. \A c \in Ctx : ~cs[c].live
    BY <1>6, <2>1
  <2> QED
    BY <1>12, <2>2 DEF Enlisted
<1>16. TopFits(obj, cs, <<>>, array, Rest)
  BY <1>8, <1>9 DEF TopFits
<1>17. Gone(obj, cs, <<>>, array, Rest)
  <2>1. AllBare(cs)
    BY <1>2, <1>4, <1>6, SameRefsFacts
  <2> QED
    BY <2>1 DEF Gone
<1>18. Laid(obj, cs, <<>>, array, redblue, gcrun, Rest, engine)
  BY <1>8, <1>14, <1>15, <1>16, <1>17, LaidIsFramed
<1>19. Counted(obj, cs, array, Rest, engine)
  <2>1. \A u : Count(obj, cs, array, u) = Count(obj, context, array, u)
    BY <1>2, <1>6, SameRefsFacts
  <2>2. \A c \in Ctx : ~cs[c].live
    BY <1>15 DEF Enlisted
  <2> QED
    BY <1>2, <2>1, <2>2 DEF Counted
<1>20. /\ obj' = obj /\ context' = cs /\ states' = <<>> /\ pool' = pool /\ array' = array
       /\ redblue' = redblue /\ gcrun' = gcrun /\ calls' = Rest /\ engine' = engine
  BY <1>0
<1>21. cs \in Contexts /\ Rest \in Seq(Call)
  BY <1>1, <1>6
<1> QED
  <2>1. /\ obj \in Objects /\ pool \in Seq(Obj)
        /\ array \in Obj \cup {Null} /\ redblue \in BOOLEAN /\ gcrun \in BOOLEAN
        /\ engine \in {"up", "closing", "down"} /\ PoolFree(obj, pool)
    BY <1>2
  <2> QED
    BY <2>1, <1>13, <1>18, <1>19, <1>20, <1>21, Stepped, ZenonT(60)

LEMMA DestroyLastKeeps ==
    ASSUME HeapInv, DestroyLast
    PROVE  HeapInv'
<1> DEFINE x == Top.x
           g == Do("gc", Null)
           l == Do("last", x)
           c1 == <<l>> \o Rest
           c2 == <<g>> \o c1
<1>0. /\ Top.k = "drop" /\ states = <<x>> /\ array # Null /\ array' = Null
      /\ Drops(obj, context, array, <<g, l>> \o Rest)
      /\ UNCHANGED <<states, pool, redblue, gcrun, engine>>
  BY DEF DestroyLast
<1>1. Top \in Call /\ Rest \in Seq(Call) /\ calls = <<Top>> \o Rest
      /\ Under(calls) = {Top} \cup Under(Rest)
  BY <1>0, TopFacts
<1>2. /\ obj \in Objects /\ context \in Contexts /\ states \in Seq(Ctx)
      /\ array \in Obj /\ redblue \in BOOLEAN /\ gcrun \in BOOLEAN
      /\ calls \in Seq(Call) /\ engine \in {"up", "closing", "down"}
      /\ Laid(obj, context, states, array, redblue, gcrun, calls, engine)
      /\ Counted(obj, context, array, calls, engine)
  BY <1>0, Types
<1>3. /\ x \in Ctx /\ NoRefs(obj, context, array, x)
      /\ Rest = <<>> \/ Head(Rest).k # "round" => InList(states, Root) /\ x # Root
      /\ Rest # <<>> => Head(Rest) = Rest[1] /\ Head(Rest) \in Call
      /\ Rest # <<>> /\ Head(Rest).k = "round" =>
            Under(Rest) = {Head(Rest)} /\ Tidy(obj, context, array)
      /\ Framed(obj, context, states, array, redblue, gcrun, Rest, engine)
  BY <1>0, DropFacts
<1>4. /\ Rest # <<>> /\ Head(Rest).k = "round" /\ Under(Rest) = {Head(Rest)}
      /\ Tidy(obj, context, array) /\ Head(Rest) \in Call /\ Head(Rest).x = Null
  <2>1. InList(states, Root) => x = Root
    BY <1>0 DEF InList
  <2> QED
    BY <1>3, <2>1, CallFields
<1>5. engine = "closing"
  BY <1>1, <1>2, <1>4, HostCalls DEF Laid
<1>6. /\ g \in Call /\ g.k = "gc" /\ g.x = Null /\ l \in Call /\ l.k = "last" /\ l.x = x
  BY <1>3, DoFacts
<1> HIDE DEF g, l, x
<1>7. Clean(obj, context, Null) /\ Coloured(obj, context, Null, redblue, gcrun, Rest)
  <2>1. Fewer(obj, obj) /\ FewerCtx(context, context)
    BY DEF Fewer, FewerCtx
  <2>2. Clean(obj, context, array) /\ Coloured(obj, context, array, redblue, gcrun, Rest)
    BY <1>2, <1>3 DEF Laid, Framed
  <2>3. Clean(obj, context, Null)
    BY <2>1, <2>2, FewerClean
  <2>4. Coloured(obj, context, Null, redblue, gcrun, Rest)
    BY <1>2, <2>1, <2>2, FewerColoured
  <2> QED
    BY <2>3, <2>4
<1>8. Framed(obj, context, states, Null, redblue, gcrun, Rest, engine)
  <2>1. Fits(obj, context, states, Null, redblue, gcrun, Rest)
    BY <1>3, <1>4 DEF Framed, Fits, FrameFits
  <2> QED
    BY <1>3, <1>7, <2>1 DEF Framed
<1>9. FrameFits(obj, context, states, Null, redblue, gcrun, l)
  <2>1. AllBare(context)
    BY <1>4 DEF Tidy
  <2>2. ASSUME NEW o \in Obj, NEW f \in Field PROVE obj[o].ref[f] \notin Ctx
    <3>1. Alive(obj, context, obj[o].ref[f])
      BY <1>7 DEF Clean
    <3>2. \A c \in Ctx : context[c].live => c = x
      BY <1>0, <1>2 DEF Laid, Enlisted
    <3> QED
      BY <1>3, <3>1, <3>2 DEF Alive, NoRefs
  <2> QED
    BY <1>0, <1>6, <2>1, <2>2 DEF FrameFits
<1>10. Framed(obj, context, states, Null, redblue, gcrun, c1, engine)
  <2>1. MayCall(Rest, engine, l)
    BY <1>4, <1>6 DEF MayCall, Makes
  <2>2. \A h \in Under(Rest) : ~Clash(l, h)
    BY <1>3, <1>4, <1>6, Names DEF Clash
  <2>3. l.k # "sweep" /\ l.k # "destroy"
    BY <1>6
  <2> QED
    BY <1>1, <1>2, <1>6, <1>8, <1>9, <2>1, <2>2, <2>3, FramedPush
<1>11. /\ c1 \in Seq(Call) /\ c1 # <<>> /\ Head(c1) = l /\ Under(c1) = {l} \cup Under(Rest)
  BY <1>1, <1>6, ConsFacts, UnderCons
<1> HIDE DEF c1
<1>12. Framed(obj, context, states, Null, redblue, gcrun, c2, engine)
  <2>1. MayCall(c1, engine, g)
    BY <1>6, <1>11 DEF MayCall, Makes
  <2>2. \A h \in Under(c1) : ~Clash(g, h)
    BY <1>6 DEF Clash
  <2>3. g.k # "sweep" /\ g.k # "destroy" /\ FrameFits(obj, context, states, Null, redblue, gcrun, g)
    BY <1>6 DEF FrameFits
  <2> QED
    BY <1>2, <1>6, <1>10, <1>11, <2>1, <2>2, <2>3, FramedPush
<1>13. /\ c2 \in Seq(Call) /\ c2 # <<>> /\ c2[1] = g /\ Head(c2) = g
       /\ Under(c2) = {g} \cup Under(c1)
  BY <1>6, <1>11, ConsFacts, UnderCons
<1>14. <<g, l>> \o Rest = c2
  <2>1. <<g, l>> \o Rest = <<g>> \o (<<l>> \o Rest)
    BY <1>1, <1>6, TwoCons
  <2> QED
    BY <2>1 DEF c1
<1>15. \A c : Extra(c2, engine, c) = Extra(calls, engine, c)
  <2>1. \A c : Extra(<<Top>> \o Rest, engine, c) = Extra(Rest, engine, c)
    <3>1. Top \in Call /\ Rest \in Seq(Call)
          /\ Top.k \notin {"free", "safe", "clear", "next", "pick"}
      BY <1>0, <1>1
    <3> QED
      BY <3>1, ExtraCons
  <2>2. \A c : Extra(c1, engine, c) = Extra(Rest, engine, c)
    <3>1. l \in Call /\ Rest \in Seq(Call)
          /\ l.k \notin {"free", "safe", "clear", "next", "pick"}
      BY <1>1, <1>6
    <3> QED
      BY <3>1, ExtraCons DEF c1
  <2>3. \A c : Extra(c2, engine, c) = Extra(c1, engine, c)
    <3>1. g \in Call /\ c1 \in Seq(Call)
          /\ g.k \notin {"free", "safe", "clear", "next", "pick"}
      BY <1>6, <1>11
    <3> QED
      BY <3>1, ExtraCons
  <2> QED
    BY <1>1, <2>1, <2>2, <2>3
<1> HIDE DEF c2
<1>16. TopFits(obj, context, states, Null, c2)
  BY <1>6, <1>13 DEF TopFits
<1>17. Gone(obj, context, states, Null, c2)
  <2>1. Busy(c2, "last")
    BY <1>6, <1>11, <1>13 DEF Busy
  <2> QED
    BY <1>4, <2>1 DEF Gone, Tidy
<1>18. Laid(obj, context, states, Null, redblue, gcrun, c2, engine)
  BY <1>2, <1>7, <1>12, <1>13, <1>16, <1>17, LaidIsFramed DEF Laid
<1>19. Pending(obj, context, Null, c2, engine, array)
  <2>1. \A u : u # Null =>
           /\ Count(obj, context, array, u) = Count(obj, context, Null, u) + Bit(u = array)
           /\ Count(obj, context, Null, u) \in Nat
    BY <1>0, CountType, PlacesNumber DEF Count, Bit
  <2>2. \A o \in Obj : obj[o].live =>
           obj[o].rc = Count(obj, context, Null, o) + Bit(o = array)
    BY <1>2, <2>1, Names DEF Counted
  <2>3. \A c \in Ctx : context[c].live =>
           context[c].rc = Count(obj, context, Null, c) + Extra(c2, engine, c) + Bit(c = array)
    <3> SUFFICES ASSUME NEW c \in Ctx, context[c].live
                 PROVE  context[c].rc
                          = Count(obj, context, Null, c) + Extra(c2, engine, c) + Bit(c = array)
      OBVIOUS
    <3>1. context[c].rc = Count(obj, context, array, c) + Extra(calls, engine, c)
      BY <1>2 DEF Counted
    <3>2. c # array /\ c # Null
      BY <1>2, Names
    <3>3. Extra(calls, engine, c) \in 0 .. 2
      BY DEF Extra
    <3> QED
      BY <1>15, <2>1, <3>1, <3>2, <3>3 DEF Bit
  <2> QED
    BY <2>2, <2>3 DEF Pending
<1>20. Untouched(c2, array)
  <2>1. \A h \in Under(c2) : h.x # array
    BY <1>2, <1>3, <1>4, <1>6, <1>11, <1>13, Names
  <2> QED
    BY <2>1 DEF Untouched
<1>21. MayCall(c2, engine, Do("destroy", array))
  <2>1. Do("destroy", array).k = "destroy"
    BY DoFacts
  <2> QED
    BY <1>6, <1>13, <2>1 DEF MayCall, Makes
<1>22. /\ Alive(obj, context, array) /\ array \in Val /\ array \notin Ctx
       /\ Null \in Obj \cup {Null}
  BY <1>2, Names DEF Laid, Clean, Val
<1>23. Drops(obj, context, array, c2) /\ array' = Null
       /\ UNCHANGED <<states, pool, redblue, gcrun, engine>>
  BY <1>0, <1>14
<1>24. c2 \in Seq(Call)
  BY <1>13
<1>25. \A o \in Obj : obj[o].live = obj[o].live
  OBVIOUS
<1> QED
  BY <1>2, <1>18, <1>19, <1>20, <1>21, <1>22, <1>23, <1>24, <1>25, Dropped
---------------------------------------------------------------------------
(* The rounds of sgs_DestroyEngine.                                        *)
LEMMA OneCall ==
    ASSUME NEW f \in Call
    PROVE  /\ <<f>> \in Seq(Call) /\ <<f>> # <<>> /\ Len(<<f>>) = 1 /\ <<f>>[1] = f
           /\ Head(<<f>>) = f /\ Under(<<f>>) = {f} /\ Chain(<<f>>) /\ Apart(<<f>>)
<1>1. <<f>> \in Seq(Call) /\ <<f>> # <<>> /\ Len(<<f>>) = 1 /\ <<f>>[1] = f /\ Head(<<f>>) = f
  OBVIOUS
<1>2. Under(<<f>>) = {f}
  <2>1. \A i \in 1 .. 1 : i = 1
    OBVIOUS
  <2> QED
    BY <1>1, <2>1 DEF Under
<1>3. Chain(<<f>>) /\ Apart(<<f>>)
  BY <1>1 DEF Chain, Apart
<1> QED
  BY <1>1, <1>2, <1>3

LEMMA TwoCalls ==
    ASSUME NEW f \in Call, NEW g \in Call, Makes(g.k, f.k), f.k = "safe" => g.x = f.x,
           ~Clash(f, g)
    PROVE  LET c2 == <<f, g>>
           IN  /\ c2 \in Seq(Call) /\ c2 # <<>> /\ Len(c2) = 2 /\ c2[1] = f /\ c2[2] = g
               /\ Under(c2) = {f, g} /\ Chain(c2) /\ Apart(c2)
<1> DEFINE c2 == <<f, g>>
<1>1. c2 \in Seq(Call) /\ c2 # <<>> /\ Len(c2) = 2 /\ c2[1] = f /\ c2[2] = g
  OBVIOUS
<1> HIDE DEF c2
<1>2. \A i \in 1 .. 2 : i = 1 \/ i = 2
  OBVIOUS
<1>3. Under(c2) = {f, g}
  BY <1>1, <1>2 DEF Under
<1>4. Chain(c2)
  <2>1. \A i \in 1 .. Len(c2) - 1 : i = 1 /\ i + 1 = 2
    BY <1>1
  <2> QED
    BY <1>1, <2>1 DEF Chain
<1>5. ~Clash(g, f)
  BY DEF Clash
<1>6. Apart(c2)
  BY <1>1, <1>2, <1>5 DEF Apart
<1> QED
  BY <1>1, <1>3, <1>4, <1>6 DEF c2

LEMMA IdleFacts ==
    ASSUME HeapInv, Idle
    PROVE  /\ calls = <<>> /\ engine = "up" /\ gcrun = FALSE /\ Under(calls) = {}
           /\ context[Root].live /\ InList(states, Root)
           /\ \A c : Extra(calls, engine, c) = Bit(c = Root)
<1>1. calls = <<>> /\ engine = "up" /\ Under(calls) = {}
  BY UnderNone DEF Idle
<1>2. gcrun \in BOOLEAN /\ Laid(obj, context, states, array, redblue, gcrun, calls, engine)
  BY Types
<1>3. gcrun = FALSE
  BY <1>1, <1>2 DEF Laid, Shape, Busy
<1>4. context[Root].live /\ InList(states, Root)
  BY <1>1, <1>2, Names DEF Laid, Enlisted, InList
<1>5. \A c : Extra(calls, engine, c) = Bit(c = Root)
  BY <1>1 DEF Extra, Kept, Holds, Bit
<1> QED
  BY <1>1, <1>3, <1>4, <1>5

LEMMA HostFacts ==
    ASSUME HeapInv, Top.k \in {"round", "clear", "next", "pick"}
    PROVE  /\ Top \in Call /\ Rest = <<>> /\ Under(calls) = {Top} /\ engine = "closing"
           /\ gcrun = FALSE /\ calls # <<>> /\ Top = calls[1] /\ calls = <<Top>>
           /\ FrameFits(obj, context, states, array, redblue, gcrun, Top)
           /\ \A c : Extra(calls, engine, c) = Bit(c = Root /\ Top.k # "round")
<1>1. /\ calls # <<>> /\ Top \in Call /\ Top = calls[1] /\ Rest \in Seq(Call)
      /\ calls = <<Top>> \o Rest /\ Under(calls) = {Top} \cup Under(Rest)
      /\ FrameFits(obj, context, states, array, redblue, gcrun, Top)
  BY TopFacts
<1>2. gcrun \in BOOLEAN /\ Laid(obj, context, states, array, redblue, gcrun, calls, engine)
  BY Types
<1>3. Shape(<<Top>> \o Rest, engine, gcrun)
  BY <1>1, <1>2 DEF Laid
<1>4. Rest = <<>> /\ engine = "closing"
  BY <1>1, <1>3, LowCall
<1>5. Under(calls) = {Top}
  BY <1>1, <1>4, UnderNone
<1>6. gcrun = FALSE
  BY <1>2, <1>5 DEF Laid, Shape, Busy
<1>7. calls = <<Top>>
  BY <1>1, <1>4
<1>8. \A c : Extra(calls, engine, c) = Bit(c = Root /\ Top.k # "round")
  BY <1>4, <1>5 DEF Extra, Kept, Holds, Bit
<1> QED
  BY <1>1, <1>4, <1>5, <1>6, <1>7, <1>8

(* What the host's calls become when one of them takes a step.             *)
LEMMA HostStep ==
    ASSUME HeapInv, gcrun = FALSE, NEW cs \in Contexts, AlikeCtx(context, cs),
           NEW cl \in Seq(Call), NEW en \in {"up", "closing"}, en = "up" => engine = "up",
           cl # <<>>, Chain(cl), First(cl[Len(cl)].k, en), Apart(cl),
           \A f \in Under(cl) : /\ f.k # "sweep"
                                /\ FrameFits(obj, context, states, array, redblue, FALSE, f),
           TopFits(obj, context, states, array, cl), Gone(obj, context, states, array, cl),
           \A c \in Ctx : cs[c].rc - Extra(cl, en, c) = context[c].rc - Extra(calls, engine, c),
           context' = cs, calls' = cl, engine' = en,
           UNCHANGED <<obj, states, pool, array, redblue, gcrun>>
    PROVE  HeapInv'
<1>1. /\ obj \in Objects /\ context \in Contexts /\ states \in Seq(Ctx) /\ pool \in Seq(Obj)
      /\ array \in Obj \cup {Null} /\ redblue \in BOOLEAN /\ gcrun \in BOOLEAN
      /\ Laid(obj, context, states, array, redblue, gcrun, calls, engine)
      /\ Counted(obj, context, array, calls, engine) /\ PoolFree(obj, pool)
  BY Types
<1>2. Shape(cl, en, FALSE)
  BY DEF Shape, Based, Busy
<1>3. Fits(obj, context, states, array, redblue, FALSE, cl)
  BY DEF Fits
<1>4. Coloured(obj, context, array, redblue, FALSE, cl)
  BY <1>1 DEF Laid, Coloured
<1>5. Enlisted(context, states, en)
  BY <1>1 DEF Laid, Enlisted
<1>6. Laid(obj, context, states, array, redblue, FALSE, cl, en)
  BY <1>1, <1>2, <1>3, <1>4, <1>5 DEF Laid
<1>7. Alike(obj, obj)
  BY DEF Alike
<1>8. Laid(obj, cs, states, array, redblue, FALSE, cl, en)
  <2>1. FALSE \in BOOLEAN
    OBVIOUS
  <2> QED
    BY <1>1, <1>6, <1>7, <2>1, LaidAlike
<1>9. \A u : Count(obj, cs, array, u) = Count(obj, context, array, u)
             /\ Count(obj, context, array, u) \in Nat
  BY <1>7, CountAlike, CountType
<1>10. \A c \in Ctx : cs[c].live => cs[c].rc = Count(obj, cs, array, c) + Extra(cl, en, c)
  <2> SUFFICES ASSUME NEW c \in Ctx, cs[c].live
               PROVE  cs[c].rc = Count(obj, cs, array, c) + Extra(cl, en, c)
    OBVIOUS
  <2>1. context[c].rc = Count(obj, context, array, c) + Extra(calls, engine, c)
    BY <1>1 DEF Counted, AlikeCtx
  <2>2. Extra(calls, engine, c) \in 0 .. 2 /\ Extra(cl, en, c) \in 0 .. 2
    BY DEF Extra
  <2>3. cs[c].rc \in Int
    BY ContextFields
  <2>4. cs[c].rc - Extra(cl, en, c) = context[c].rc - Extra(calls, engine, c)
    OBVIOUS
  <2> QED
    BY <1>9, <2>1, <2>2, <2>3, <2>4
<1>11. Counted(obj, cs, array, cl, en)
  BY <1>1, <1>9, <1>10 DEF Counted
<1>12. /\ obj' = obj /\ context' = cs /\ states' = states /\ pool' = pool /\ array' = array
       /\ redblue' = redblue /\ gcrun' = FALSE /\ calls' = cl /\ engine' = en
  OBVIOUS
<1>13. FALSE \in BOOLEAN /\ en \in {"up", "closing", "down"}
  OBVIOUS
<1> QED
  <2>1. /\ obj \in Objects /\ states \in Seq(Ctx) /\ pool \in Seq(Obj)
        /\ array \in Obj \cup {Null} /\ redblue \in BOOLEAN /\ PoolFree(obj, pool)
    BY <1>1
  <2> QED
    BY <1>8, <1>11, <1>12, <1>13, <2>1, Stepped, ZenonT(60)

LEMMA CollectKeeps ==
    ASSUME HeapInv, Collect
    PROVE  HeapInv'
<1> DEFINE g == Do("gc", Null)
           cl == <<g>>
<1>1. /\ gcrun = FALSE /\ engine = "up" /\ InList(states, Root)
      /\ \A c : Extra(calls, engine, c) = Bit(c = Root)
  BY IdleFacts DEF Collect
<1>2. g \in Call /\ g.k = "gc"
  BY DoFacts
<1>3. calls' = cl /\ UNCHANGED <<obj, context, states, pool, array, redblue, gcrun, engine>>
  BY DEF Collect
<1> HIDE DEF g
<1>4. /\ cl \in Seq(Call) /\ cl # <<>> /\ Len(cl) = 1 /\ cl[1] = g
      /\ Under(cl) = {g} /\ Chain(cl) /\ Apart(cl)
  BY <1>2, OneCall
<1> HIDE DEF cl
<1>5. First(cl[Len(cl)].k, engine)
  BY <1>1, <1>2, <1>4 DEF First
<1>6. \A f \in Under(cl) : f.k # "sweep"
                           /\ FrameFits(obj, context, states, array, redblue, FALSE, f)
  BY <1>2, <1>4 DEF FrameFits
<1>7. TopFits(obj, context, states, array, cl) /\ Gone(obj, context, states, array, cl)
  BY <1>1, <1>2, <1>4 DEF TopFits, Gone
<1>8. \A c : Extra(cl, engine, c) = Extra(calls, engine, c)
  BY <1>1, <1>2, <1>4, SMTT(30) DEF Extra, Kept, Holds, Bit
<1>9. context \in Contexts /\ AlikeCtx(context, context)
  BY Types DEF AlikeCtx
<1>10. engine \in {"up", "closing"} /\ context' = context /\ engine' = engine
       /\ UNCHANGED <<obj, states, pool, array, redblue, gcrun>>
  BY <1>1, <1>3
<1>11. \A c \in Ctx :
          context[c].rc - Extra(cl, engine, c) = context[c].rc - Extra(calls, engine, c)
  BY <1>8
<1> QED
  BY <1>1, <1>3, <1>4, <1>5, <1>6, <1>7, <1>9, <1>10, <1>11, HostStep

LEMMA DestroyKeeps ==
    ASSUME HeapInv, Destroy
    PROVE  HeapInv'
<1> DEFINE g == Do("round", Null)
           cl == <<g>>
           n == context[Root].rc - 1
           cs == SetRc(context, Root, n)
<1>1. /\ gcrun = FALSE /\ engine = "up" /\ InList(states, Root)
      /\ \A c : Extra(calls, engine, c) = Bit(c = Root)
  BY IdleFacts DEF Destroy
<1>2. g \in Call /\ g.k = "round"
  BY DoFacts
<1>3. calls' = cl /\ context' = cs /\ engine' = "closing"
      /\ UNCHANGED <<obj, states, pool, array, redblue, gcrun>>
  BY DEF Destroy, SetRc
<1>4. context \in Contexts /\ n \in Int
  BY Types, ContextFields, Names
<1> HIDE DEF g, n
<1>5. /\ cs \in Contexts /\ AlikeCtx(context, cs)
      /\ \A d \in Ctx : cs[d].rc = IF d = Root THEN n ELSE context[d].rc
  BY <1>4, Names, ContextRc
<1>6. /\ cl \in Seq(Call) /\ cl # <<>> /\ Len(cl) = 1 /\ cl[1] = g
      /\ Under(cl) = {g} /\ Chain(cl) /\ Apart(cl)
  BY <1>2, OneCall
<1> HIDE DEF cl, cs
<1>7. First(cl[Len(cl)].k, "closing")
  BY <1>2, <1>6 DEF First
<1>8. \A f \in Under(cl) : f.k # "sweep"
                           /\ FrameFits(obj, context, states, array, redblue, FALSE, f)
  BY <1>2, <1>6 DEF FrameFits
<1>9. TopFits(obj, context, states, array, cl) /\ Gone(obj, context, states, array, cl)
  BY <1>1, <1>2, <1>6 DEF TopFits, Gone
<1>10. \A c : Extra(cl, "closing", c) = 0
  BY <1>2, <1>6 DEF Extra, Kept, Holds
<1>11. \A c \in Ctx :
          cs[c].rc - Extra(cl, "closing", c) = context[c].rc - Extra(calls, engine, c)
  BY <1>1, <1>4, <1>5, <1>10, ContextFields DEF Bit, n
<1> QED
  BY <1>1, <1>3, <1>5, <1>6, <1>7, <1>8, <1>9, <1>11, HostStep

LEMMA RoundKeeps ==
    ASSUME HeapInv, Round
    PROVE  HeapInv'
<1> DEFINE h == Head(states)
           g == Do("clear", h)
           cl == <<g>>
           n == context[Root].rc + 1
           cs == SetRc(context, Root, n)
<1>0. Top.k = "round" /\ states # <<>> /\ calls' = <<g>> \o Rest /\ context' = cs
      /\ UNCHANGED <<obj, states, pool, array, redblue, gcrun, engine>>
  BY DEF Round, SetRc
<1>1. /\ Rest = <<>> /\ Under(calls) = {Top} /\ engine = "closing" /\ gcrun = FALSE
      /\ \A c : Extra(calls, engine, c) = Bit(c = Root /\ Top.k # "round")
  BY <1>0, HostFacts
<1>2. /\ context \in Contexts /\ states \in Seq(Ctx)
      /\ Laid(obj, context, states, array, redblue, gcrun, calls, engine)
  BY Types
<1>3. h \in Ctx /\ h = states[1] /\ 1 \in 1 .. Len(states)
  BY <1>0, <1>2
<1>4. g \in Call /\ g.k = "clear" /\ g.x = h
  BY <1>3, DoFacts
<1>5. n \in Int
  BY <1>2, ContextFields, Names
<1> HIDE DEF g, h, n
<1>6. /\ cs \in Contexts /\ AlikeCtx(context, cs)
      /\ \A d \in Ctx : cs[d].rc = IF d = Root THEN n ELSE context[d].rc
  BY <1>2, <1>5, Names, ContextRc
<1>7. /\ cl \in Seq(Call) /\ cl # <<>> /\ Len(cl) = 1 /\ cl[1] = g
      /\ Under(cl) = {g} /\ Chain(cl) /\ Apart(cl)
  BY <1>4, OneCall
<1>8. calls' = cl
  <2>1. <<g>> \o <<>> = <<g>>
    BY <1>7, ConcatEmptySeq
  <2> QED
    BY <1>0, <1>1, <2>1
<1> HIDE DEF cl, cs
<1>9. First(cl[Len(cl)].k, engine)
  BY <1>1, <1>4, <1>7 DEF First
<1>10. \A f \in Under(cl) : f.k # "sweep"
                           /\ FrameFits(obj, context, states, array, redblue, FALSE, f)
  <2>1. context[h].live
    BY <1>2, <1>3 DEF Laid, Enlisted
  <2>2. \A i, j \in 1 .. Len(states) : states[i] = states[j] => i = j
    BY <1>2 DEF Laid, Enlisted
  <2>3. \A i, j \in 1 .. Len(states) : i < j => states[j] # h
    BY <1>2, <1>3, <2>2
  <2>4. BareBefore(context, states, h)
    BY <2>3 DEF BareBefore
  <2> QED
    BY <1>4, <1>7, <2>1, <2>4 DEF FrameFits
<1>11. TopFits(obj, context, states, array, cl)
  BY <1>4, <1>7 DEF TopFits
<1>12. Gone(obj, context, states, array, cl)
  BY <1>0, <1>1, <1>2 DEF Laid, Gone, Busy
<1>13. \A c : Extra(cl, engine, c) = Bit(c = Root)
  BY <1>1, <1>4, <1>7 DEF Extra, Kept, Holds, Bit
<1>14. \A c \in Ctx :
          cs[c].rc - Extra(cl, engine, c) = context[c].rc - Extra(calls, engine, c)
  <2> SUFFICES ASSUME NEW c \in Ctx
               PROVE  cs[c].rc - Extra(cl, engine, c) = context[c].rc - Extra(calls, engine, c)
    OBVIOUS
  <2>1. context[c].rc \in Int
    BY <1>2, ContextFields
  <2>2. cs[c].rc = context[c].rc + Bit(c = Root)
    BY <1>6, <2>1 DEF Bit, n
  <2>3. Extra(cl, engine, c) = Bit(c = Root) /\ Extra(calls, engine, c) = 0
    BY <1>0, <1>1, <1>13 DEF Bit
  <2> QED
    BY <2>1, <2>2, <2>3 DEF Bit
<1>15. engine \in {"up", "closing"} /\ context' = cs /\ engine' = engine
       /\ UNCHANGED <<obj, states, pool, array, redblue, gcrun>>
  BY <1>0, <1>1
<1> QED
  BY <1>1, <1>6, <1>7, <1>8, <1>9, <1>10, <1>11, <1>12, <1>14, <1>15, HostStep

LEMMA ClearOneKeeps ==
    ASSUME HeapInv, ClearOne
    PROVE  HeapInv'
<1> DEFINE x == Top.x
           f == Do("safe", x)
           g == Do("next", x)
           cl == <<f, g>>
           cs == [context EXCEPT ![x].rc = @ + 1, ![x].destroying = TRUE]
<1>0. Top.k = "clear" /\ calls' = <<f, g>> \o Rest /\ context' = cs
      /\ UNCHANGED <<obj, states, pool, array, redblue, gcrun, engine>>
  BY DEF ClearOne
<1>1. /\ Top \in Call /\ Rest = <<>> /\ Under(calls) = {Top} /\ engine = "closing"
      /\ gcrun = FALSE /\ FrameFits(obj, context, states, array, redblue, gcrun, Top)
      /\ \A c : Extra(calls, engine, c) = Bit(c = Root /\ Top.k # "round")
  BY <1>0, HostFacts
<1>2. /\ context \in Contexts /\ states \in Seq(Ctx)
      /\ Laid(obj, context, states, array, redblue, gcrun, calls, engine)
  BY Types
<1>3. x \in Ctx /\ context[x].live /\ BareBefore(context, states, x)
  BY <1>0, <1>1, CallFields DEF FrameFits
<1>4. f \in Call /\ f.k = "safe" /\ f.x = x /\ g \in Call /\ g.k = "next" /\ g.x = x
  BY <1>3, DoFacts
<1>5. /\ cs \in Contexts /\ AlikeCtx(context, cs)
      /\ \A d \in Ctx : cs[d].rc = IF d = x THEN context[d].rc + 1 ELSE context[d].rc
  <2> HIDE DEF x
  <2>1. cs[x] = [context[x] EXCEPT !.rc = @ + 1, !.destroying = TRUE]
        /\ \A d \in Ctx : d # x => cs[d] = context[d]
    BY <1>2, <1>3 DEF Contexts
  <2>2. context[x] \in Context
    BY <1>2, <1>3, ContextFields
  <2> DEFINE old == context[x]
             r == [old EXCEPT !.rc = old.rc + 1]
             new == [r EXCEPT !.destroying = TRUE]
  <2> HIDE DEF old, cs
  <2>2a. old \in Context /\ old.rc + 1 \in Int
    BY <2>2 DEF Context, old
  <2>2b. r \in Context /\ r.live = old.live /\ r.ref = old.ref /\ r.rc = old.rc + 1
    BY <2>2a DEF Context
  <2>2d. cs[x] = new
    BY <2>1 DEF old
  <2> HIDE DEF r
  <2>2c. new \in Context /\ new.live = old.live /\ new.ref = old.ref /\ new.rc = old.rc + 1
    BY <2>2b DEF Context
  <2>3. cs[x] \in Context /\ cs[x].live = context[x].live /\ cs[x].ref = context[x].ref
        /\ cs[x].rc = context[x].rc + 1
    BY <2>2c, <2>2d DEF old
  <2>4. cs \in Contexts
    BY <1>2, <2>1, <2>3 DEF Contexts, cs
  <2> QED
    BY <2>1, <2>3, <2>4 DEF AlikeCtx
<1> HIDE DEF f, g, x
<1>6. /\ cl \in Seq(Call) /\ cl # <<>> /\ Len(cl) = 2 /\ cl[1] = f /\ cl[2] = g
      /\ Under(cl) = {f, g} /\ Chain(cl) /\ Apart(cl)
  <2>1. Makes(g.k, f.k) /\ (f.k = "safe" => g.x = f.x) /\ ~Clash(f, g)
    BY <1>4 DEF Makes, Clash
  <2> QED
    BY <1>4, <2>1, TwoCalls
<1>7. calls' = cl
  <2>1. <<f, g>> \o <<>> = <<f, g>>
    BY <1>6, ConcatEmptySeq
  <2> QED
    BY <1>0, <1>1, <2>1
<1> HIDE DEF cl, cs
<1>8. First(cl[Len(cl)].k, engine)
  BY <1>1, <1>4, <1>6 DEF First
<1>9. \A h \in Under(cl) : h.k # "sweep"
                           /\ FrameFits(obj, context, states, array, redblue, FALSE, h)
  BY <1>3, <1>4, <1>6 DEF FrameFits
<1>10. TopFits(obj, context, states, array, cl)
  BY <1>4, <1>6 DEF TopFits
<1>11. Gone(obj, context, states, array, cl)
  BY <1>0, <1>1, <1>2 DEF Laid, Gone, Busy
<1>12. \A c : Extra(cl, engine, c) = Bit(c = x) + Bit(c = Root)
  BY <1>1, <1>4, <1>6 DEF Extra, Kept, Holds, Bit
<1>13. \A c \in Ctx :
          cs[c].rc - Extra(cl, engine, c) = context[c].rc - Extra(calls, engine, c)
  <2> SUFFICES ASSUME NEW c \in Ctx
               PROVE  cs[c].rc - Extra(cl, engine, c) = context[c].rc - Extra(calls, engine, c)
    OBVIOUS
  <2>1. context[c].rc \in Int
    BY <1>2, ContextFields
  <2>2. cs[c].rc = context[c].rc + Bit(c = x)
    BY <1>5, <2>1 DEF Bit
  <2>3. /\ Extra(cl, engine, c) = Bit(c = x) + Bit(c = Root)
        /\ Extra(calls, engine, c) = Bit(c = Root)
    BY <1>0, <1>1, <1>12 DEF Bit
  <2> QED
    BY <2>1, <2>2, <2>3 DEF Bit
<1>14. engine \in {"up", "closing"} /\ context' = cs /\ engine' = engine
       /\ UNCHANGED <<obj, states, pool, array, redblue, gcrun>>
  BY <1>0, <1>1
<1> QED
  BY <1>1, <1>5, <1>6, <1>7, <1>8, <1>9, <1>10, <1>11, <1>13, <1>14, HostStep

LEMMA ClearNextKeeps ==
    ASSUME HeapInv, ClearNext
    PROVE  HeapInv'
<1> DEFINE x == Top.x
           y == Following(x)
           f == Do("gc", Null)
           g == Do("pick", Null)
           h == Do("clear", y)
           cl == IF y # Null THEN <<h>> ELSE <<f, g>>
<1>0. Top.k = "next" /\ calls' = cl \o Rest
      /\ UNCHANGED <<obj, context, states, pool, array, redblue, gcrun, engine>>
  BY DEF ClearNext
<1>1. /\ Top \in Call /\ Rest = <<>> /\ Under(calls) = {Top} /\ engine = "closing"
      /\ gcrun = FALSE /\ FrameFits(obj, context, states, array, redblue, gcrun, Top)
      /\ calls # <<>> /\ Top = calls[1]
      /\ \A c : Extra(calls, engine, c) = Bit(c = Root /\ Top.k # "round")
  BY <1>0, HostFacts
<1>2. /\ context \in Contexts /\ states \in Seq(Ctx)
      /\ Laid(obj, context, states, array, redblue, gcrun, calls, engine)
  BY Types
<1>3. /\ x \in Ctx /\ context[x].live /\ BareBefore(context, states, x) /\ Bare(context, x)
  BY <1>0, <1>1, <1>2, CallFields DEF FrameFits, Laid, TopFits
<1>4. /\ \A i, j \in 1 .. Len(states) : states[i] = states[j] => i = j
      /\ \A c \in Ctx : context[c].live <=> \E i \in 1 .. Len(states) : states[i] = c
      /\ \A i \in 1 .. Len(states) : states[i] \in Ctx
      /\ Len(states) \in Nat
  BY <1>2, ElementOfSeq DEF Laid, Enlisted
<1> HIDE DEF x
<1>5. PICK i \in 1 .. Len(states) : states[i] = x /\
         y = (IF i = Len(states) THEN Null ELSE states[i + 1])
  <2> DEFINE i == CHOOSE i \in 1 .. Len(states) : states[i] = x
  <2>1. i \in 1 .. Len(states) /\ states[i] = x
    BY <1>3, <1>4
  <2>2. y = IF i = Len(states) THEN Null ELSE states[i + 1]
    BY DEF Following
  <2> HIDE DEF i, y
  <2> QED
    BY <2>1, <2>2
<1>6. \A k \in 1 .. i : Bare(context, states[k])
  <2> SUFFICES ASSUME NEW k \in 1 .. i PROVE Bare(context, states[k])
    OBVIOUS
  <2>1. CASE k = i
    BY <1>3, <1>5, <2>1
  <2>2. CASE k < i
    <3>1. k \in 1 .. Len(states)
      BY <1>4, <1>5
    <3> QED
      BY <1>3, <1>5, <2>2, <3>1 DEF BareBefore
  <2> QED
    BY <1>4, <2>1, <2>2
<1> HIDE DEF y
<1>7. /\ cl \in Seq(Call) /\ cl # <<>> /\ Chain(cl) /\ Apart(cl) /\ First(cl[Len(cl)].k, engine)
      /\ \A e \in Under(cl) : e.k # "sweep"
                              /\ FrameFits(obj, context, states, array, redblue, FALSE, e)
      /\ TopFits(obj, context, states, array, cl)
      /\ \A c : Extra(cl, engine, c) = Bit(c = Root)
  <2>1. CASE i = Len(states)
    <3>1. cl = <<f, g>>
      BY <1>5, <2>1
    <3>2. f \in Call /\ f.k = "gc" /\ f.x = Null /\ g \in Call /\ g.k = "pick" /\ g.x = Null
      BY DoFacts
    <3>3. AllBare(context)
      <4> SUFFICES ASSUME NEW c \in Ctx PROVE Bare(context, c)
        BY DEF AllBare
      <4>1. CASE context[c].live
        BY <1>4, <1>6, <2>1, <4>1
      <4>2. CASE ~context[c].live
        BY <1>2, <4>2 DEF Laid, Clean, Bare
      <4> QED
        BY <4>1, <4>2
    <3> HIDE DEF f, g, cl
    <3>4. /\ <<f, g>> \in Seq(Call) /\ <<f, g>> # <<>> /\ Len(<<f, g>>) = 2
          /\ <<f, g>>[1] = f /\ <<f, g>>[2] = g
          /\ Under(<<f, g>>) = {f, g} /\ Chain(<<f, g>>) /\ Apart(<<f, g>>)
      <4>1. Makes(g.k, f.k) /\ (f.k = "safe" => g.x = f.x) /\ ~Clash(f, g)
        BY <3>2 DEF Makes, Clash
      <4> QED
        BY <3>2, <4>1, TwoCalls
    <3>5. /\ cl \in Seq(Call) /\ cl # <<>> /\ Chain(cl) /\ Apart(cl)
          /\ cl[1] = f /\ cl[2] = g /\ Len(cl) = 2 /\ Under(cl) = {f, g}
      BY <3>1, <3>4
    <3>6. First(cl[Len(cl)].k, engine)
      BY <1>1, <3>2, <3>5 DEF First
    <3>7. \A e \in Under(cl) : e.k # "sweep"
                              /\ FrameFits(obj, context, states, array, redblue, FALSE, e)
      BY <3>2, <3>3, <3>5 DEF FrameFits
    <3>8. TopFits(obj, context, states, array, cl)
      BY <3>2, <3>5 DEF TopFits
    <3>9. \A c : Extra(cl, engine, c) = Bit(c = Root)
      BY <1>1, <3>2, <3>5 DEF Extra, Kept, Holds, Bit
    <3> QED
      BY <3>5, <3>6, <3>7, <3>8, <3>9
  <2>2. CASE i # Len(states)
    <3>1. i + 1 \in 1 .. Len(states) /\ y = states[i + 1] /\ y \in Ctx /\ y # Null
      BY <1>4, <1>5, <2>2, Names
    <3>2. cl = <<h>> /\ h \in Call /\ h.k = "clear" /\ h.x = y
      BY <3>1, DoFacts
    <3>3. context[y].live
      BY <1>4, <3>1
    <3>4. BareBefore(context, states, y)
      <4> SUFFICES ASSUME NEW k \in 1 .. Len(states), NEW l \in 1 .. Len(states), k < l,
                          states[l] = y
                   PROVE  Bare(context, states[k])
        BY DEF BareBefore
      <4>1. l = i + 1
        BY <1>4, <3>1
      <4>2. k \in 1 .. i
        BY <1>4, <1>5, <4>1
      <4> QED
        BY <1>6, <4>2
    <3> HIDE DEF h, cl
    <3>5. /\ <<h>> \in Seq(Call) /\ <<h>> # <<>> /\ Len(<<h>>) = 1 /\ <<h>>[1] = h
          /\ Under(<<h>>) = {h} /\ Chain(<<h>>) /\ Apart(<<h>>)
      BY <3>2, OneCall
    <3>6. /\ cl \in Seq(Call) /\ cl # <<>> /\ Chain(cl) /\ Apart(cl)
          /\ cl[1] = h /\ Len(cl) = 1 /\ Under(cl) = {h}
      BY <3>2, <3>5
    <3>7. First(cl[Len(cl)].k, engine)
      BY <1>1, <3>2, <3>6 DEF First
    <3>8. \A e \in Under(cl) : e.k # "sweep"
                              /\ FrameFits(obj, context, states, array, redblue, FALSE, e)
      BY <3>2, <3>3, <3>4, <3>6 DEF FrameFits
    <3>9. TopFits(obj, context, states, array, cl)
      BY <3>2, <3>6 DEF TopFits
    <3>10. \A c : Extra(cl, engine, c) = Bit(c = Root)
      BY <1>1, <3>2, <3>6 DEF Extra, Kept, Holds, Bit
    <3> QED
      BY <3>6, <3>7, <3>8, <3>9, <3>10
  <2> QED
    BY <2>1, <2>2
<1> HIDE DEF cl
<1>8. calls' = cl
  BY <1>0, <1>1, <1>7, ConcatEmptySeq
<1>9. Gone(obj, context, states, array, cl)
  BY <1>0, <1>1, <1>2 DEF Laid, Gone, Busy
<1>10. context \in Contexts /\ AlikeCtx(context, context)
  BY <1>2 DEF AlikeCtx
<1>11. \A c \in Ctx :
          context[c].rc - Extra(cl, engine, c) = context[c].rc - Extra(calls, engine, c)
  BY <1>0, <1>1, <1>7 DEF Bit
<1>12. engine \in {"up", "closing"} /\ context' = context /\ engine' = engine
       /\ UNCHANGED <<obj, states, pool, array, redblue, gcrun>>
  BY <1>0, <1>1
<1> QED
  BY <1>1, <1>7, <1>8, <1>9, <1>10, <1>11, <1>12, HostStep
LEMMA PickKeeps ==
    ASSUME HeapInv, Pick
    PROVE  HeapInv'
<1> DEFINE n == context[Root].rc - 1
           cs == SetRc(context, Root, n)
           U == {i \in 1 .. Len(states) : cs[states[i]].rc <= 0}
           i == CHOOSE i \in U : \A j \in U : i <= j
           r == Do("round", Null)
           e == Do("forced", Null)
           d == Do("drop", states[i])
           cl == IF U = {} THEN <<e>> ELSE <<d, r>>
<1>0. Top.k = "pick" /\ context' = cs /\ calls' = cl \o Rest
      /\ UNCHANGED <<obj, states, pool, array, redblue, gcrun, engine>>
  BY DEF Pick, Unused, SetRc
<1>1. /\ Rest = <<>> /\ Under(calls) = {Top} /\ engine = "closing" /\ gcrun = FALSE
      /\ calls # <<>> /\ Top = calls[1]
      /\ \A c : Extra(calls, engine, c) = Bit(c = Root /\ Top.k # "round")
  BY <1>0, HostFacts
<1>2. /\ context \in Contexts /\ states \in Seq(Ctx)
      /\ Laid(obj, context, states, array, redblue, gcrun, calls, engine)
      /\ Counted(obj, context, array, calls, engine)
  BY Types
<1>3. Tidy(obj, context, array)
  BY <1>0, <1>1, <1>2 DEF Laid, TopFits
<1>4. n \in Int
  BY <1>2, ContextFields, Names
<1>5. /\ r \in Call /\ r.k = "round" /\ r.x = Null /\ e \in Call /\ e.k = "forced"
  BY DoFacts
<1>6. \A j \in 1 .. Len(states) : states[j] \in Ctx /\ context[states[j]].live
  BY <1>2, ElementOfSeq DEF Laid, Enlisted
<1> HIDE DEF n, r, e
<1>7. /\ cs \in Contexts /\ AlikeCtx(context, cs)
      /\ \A c \in Ctx : cs[c].rc = IF c = Root THEN n ELSE context[c].rc
  BY <1>2, <1>4, Names, ContextRc
<1> HIDE DEF cs
<1>8. \A c \in Ctx : cs[c].rc = context[c].rc - Bit(c = Root)
  <2> SUFFICES ASSUME NEW c \in Ctx PROVE cs[c].rc = context[c].rc - Bit(c = Root)
    OBVIOUS
  <2>1. context[c].rc \in Int
    BY <1>2, ContextFields
  <2> QED
    BY <1>7, <2>1 DEF Bit, n
<1>9. \A c \in Ctx : context[c].live => cs[c].rc = Count(obj, context, array, c)
  <2> SUFFICES ASSUME NEW c \in Ctx, context[c].live
               PROVE  cs[c].rc = Count(obj, context, array, c)
    OBVIOUS
  <2>1. context[c].rc = Count(obj, context, array, c) + Extra(calls, engine, c)
    BY <1>2 DEF Counted
  <2>2. Extra(calls, engine, c) = Bit(c = Root)
    BY <1>0, <1>1
  <2>3. Count(obj, context, array, c) \in Nat
    BY CountType
  <2> QED
    BY <1>8, <2>1, <2>2, <2>3 DEF Bit
<1>10. /\ cl \in Seq(Call) /\ cl # <<>> /\ Chain(cl) /\ Apart(cl) /\ First(cl[Len(cl)].k, engine)
       /\ \A f \in Under(cl) : f.k # "sweep"
                               /\ FrameFits(obj, context, states, array, redblue, FALSE, f)
       /\ TopFits(obj, context, states, array, cl)
       /\ \A c : Extra(cl, engine, c) = 0
  <2>1. CASE U = {}
    <3>1. cl = <<e>>
      BY <2>1
    <3> HIDE DEF cl, U
    <3>2. /\ <<e>> \in Seq(Call) /\ <<e>> # <<>> /\ Len(<<e>>) = 1 /\ <<e>>[1] = e
          /\ Under(<<e>>) = {e} /\ Chain(<<e>>) /\ Apart(<<e>>)
      BY <1>5, OneCall
    <3>3. /\ cl \in Seq(Call) /\ cl # <<>> /\ Chain(cl) /\ Apart(cl)
          /\ cl[1] = e /\ Len(cl) = 1 /\ Under(cl) = {e}
      BY <3>1, <3>2
    <3>4. First(cl[Len(cl)].k, engine)
      BY <1>1, <1>5, <3>3 DEF First
    <3>5. \A f \in Under(cl) : f.k # "sweep"
                               /\ FrameFits(obj, context, states, array, redblue, FALSE, f)
      BY <1>5, <3>3 DEF FrameFits
    <3>6. TopFits(obj, context, states, array, cl)
      BY <1>5, <3>3 DEF TopFits
    <3>7. \A c : Extra(cl, engine, c) = 0
      BY <1>1, <1>5, <3>3 DEF Extra, Kept, Holds
    <3> QED
      BY <3>3, <3>4, <3>5, <3>6, <3>7
  <2>2. CASE U # {}
    <3>1. cl = <<d, r>>
      BY <2>2
    <3>2. i \in U
      <4>1. U \subseteq Nat
        OBVIOUS
      <4> HIDE DEF U
      <4>2. \E j \in U : \A l \in U : j <= l
        BY <2>2, <4>1, LeastNatural
      <4> QED
        BY <4>2
    <3> DEFINE c == states[i]
    <3>3. c \in Ctx /\ context[c].live /\ cs[c].rc <= 0
      BY <1>6, <3>2
    <3>4. d \in Call /\ d.k = "drop" /\ d.x = c
      BY <3>3, DoFacts
    <3> HIDE DEF cl, U, d, c
    <3>5. Count(obj, context, array, c) = 0
      <4>1. Count(obj, context, array, c) \in Nat
        BY CountType
      <4> QED
        BY <1>9, <3>3, <4>1
    <3>6. /\ <<d, r>> \in Seq(Call) /\ <<d, r>> # <<>> /\ Len(<<d, r>>) = 2
          /\ <<d, r>>[1] = d /\ <<d, r>>[2] = r
          /\ Under(<<d, r>>) = {d, r} /\ Chain(<<d, r>>) /\ Apart(<<d, r>>)
      <4>1. Makes(r.k, d.k) /\ (d.k = "safe" => r.x = d.x) /\ ~Clash(d, r)
        BY <1>5, <3>4 DEF Makes, Clash
      <4> QED
        BY <1>5, <3>4, <4>1, TwoCalls
    <3>7. /\ cl \in Seq(Call) /\ cl # <<>> /\ Chain(cl) /\ Apart(cl)
          /\ cl[1] = d /\ cl[2] = r /\ Len(cl) = 2 /\ Under(cl) = {d, r}
      BY <3>1, <3>6
    <3>8. First(cl[Len(cl)].k, engine)
      BY <1>1, <1>5, <3>7 DEF First
    <3>9. \A f \in Under(cl) : f.k # "sweep"
                               /\ FrameFits(obj, context, states, array, redblue, FALSE, f)
      <4>1. Bare(context, c)
        BY <1>3, <3>3 DEF Tidy, AllBare
      <4>2. FrameFits(obj, context, states, array, redblue, FALSE, d)
        BY <3>3, <3>4, <3>5, <4>1 DEF FrameFits
      <4>3. FrameFits(obj, context, states, array, redblue, FALSE, r)
        BY <1>5 DEF FrameFits
      <4> QED
        BY <1>5, <3>4, <3>7, <4>2, <4>3
    <3>10. TopFits(obj, context, states, array, cl)
      BY <1>3, <1>5, <3>4, <3>7 DEF TopFits
    <3>11. \A b : Extra(cl, engine, b) = 0
      BY <1>1, <1>5, <3>4, <3>7 DEF Extra, Kept, Holds
    <3> QED
      BY <3>7, <3>8, <3>9, <3>10, <3>11
  <2> QED
    BY <2>1, <2>2
<1> HIDE DEF cl
<1>11. calls' = cl
  BY <1>0, <1>1, <1>10, ConcatEmptySeq
<1>12. Gone(obj, context, states, array, cl)
  BY <1>3 DEF Gone, Tidy
<1>13. \A c \in Ctx :
          cs[c].rc - Extra(cl, engine, c) = context[c].rc - Extra(calls, engine, c)
  <2> SUFFICES ASSUME NEW c \in Ctx
               PROVE  cs[c].rc - Extra(cl, engine, c) = context[c].rc - Extra(calls, engine, c)
    OBVIOUS
  <2>1. context[c].rc \in Int
    BY <1>2, ContextFields
  <2>2. Extra(cl, engine, c) = 0 /\ Extra(calls, engine, c) = Bit(c = Root)
    BY <1>0, <1>1, <1>10
  <2> QED
    BY <1>8, <2>1, <2>2 DEF Bit
<1>14. engine \in {"up", "closing"} /\ context' = cs /\ engine' = engine
       /\ UNCHANGED <<obj, states, pool, array, redblue, gcrun>>
  BY <1>0, <1>1
<1> QED
  BY <1>1, <1>7, <1>10, <1>11, <1>12, <1>13, <1>14, HostStep

LEMMA DownKeeps ==
    ASSUME HeapInv, Down
    PROVE  HeapInv'
<1>0. /\ Top.k = "round" /\ states = <<>> /\ engine' = "down" /\ pool' = <<>> /\ calls' = <<>>
      /\ UNCHANGED <<obj, context, states, array, redblue, gcrun>>
  BY DEF Down
<1>1. gcrun = FALSE /\ engine = "closing" /\ Under(calls) = {Top}
  BY <1>0, HostFacts
<1>2. /\ obj \in Objects /\ context \in Contexts /\ states \in Seq(Ctx)
      /\ array \in Obj \cup {Null} /\ redblue \in BOOLEAN
      /\ Laid(obj, context, states, array, redblue, gcrun, calls, engine)
      /\ Counted(obj, context, array, calls, engine)
  BY Types
<1> DEFINE cl == <<>>
           p == <<>>
<1>3. cl \in Seq(Call) /\ Under(cl) = {} /\ Chain(cl) /\ Apart(cl) /\ Based(cl, "down")
      /\ cl = <<>>
  BY UnderNone DEF Chain, Apart, Based
<1>4. p \in Seq(Obj) /\ PoolFree(obj, p)
  BY SizeAssumption DEF PoolFree, Ordered
<1>5. calls' = cl /\ pool' = p
  BY <1>0
<1> HIDE DEF cl, p
<1>6. Shape(cl, "down", FALSE)
  BY <1>3 DEF Shape, Busy
<1>7. /\ Fits(obj, context, states, array, redblue, FALSE, cl)
      /\ TopFits(obj, context, states, array, cl)
      /\ Gone(obj, context, states, array, cl)
  <2>1. AllBare(context)
    BY <1>0, <1>1, <1>2 DEF Laid, Gone, InList
  <2> QED
    BY <1>0, <1>3, <2>1 DEF Fits, TopFits, Gone
<1>8. Coloured(obj, context, array, redblue, FALSE, cl)
  BY <1>1, <1>2 DEF Laid, Coloured
<1>9. Enlisted(context, states, "down")
  BY <1>2 DEF Laid, Enlisted
<1>10. Laid(obj, context, states, array, redblue, FALSE, cl, "down")
  BY <1>2, <1>6, <1>7, <1>8, <1>9 DEF Laid
<1>11. Counted(obj, context, array, cl, "down")
  <2>1. \A c \in Ctx : ~context[c].live
    BY <1>0, <1>9 DEF Enlisted
  <2> QED
    BY <1>2, <2>1 DEF Counted
<1>12. /\ obj' = obj /\ context' = context /\ states' = states /\ pool' = p /\ array' = array
       /\ redblue' = redblue /\ gcrun' = FALSE /\ calls' = cl /\ engine' = "down"
  BY <1>0, <1>1, <1>5
<1>13. FALSE \in BOOLEAN /\ "down" \in {"up", "closing", "down"}
  OBVIOUS
<1> QED
  <2>1. /\ obj \in Objects /\ context \in Contexts /\ states \in Seq(Ctx)
        /\ array \in Obj \cup {Null} /\ redblue \in BOOLEAN
    BY <1>2
  <2> QED
    BY <1>3, <1>4, <1>10, <1>11, <1>12, <1>13, <2>1, Stepped
=============================================================================
