-------------------------- MODULE ObjectHeapProofs --------------------------
(***************************************************************************)
(* What scripts do, the marking phase, and the theorems about ObjectHeap:  *)
(* every count is exact, nothing dangles, what a script can reach stays,   *)
(* the pool stays sound and a collection leaves no garbage, for any number *)
(* of objects, contexts and fields, any pool and whatever the scripts do.  *)
(***************************************************************************)
EXTENDS HeapReleaseProofs

---------------------------------------------------------------------------
(* What is reachable: the smallest set that holds the values it starts     *)
(* from and is closed under references.                                    *)
LEMMA AllNaturals ==
    ASSUME NEW T, 0 \in T, \A i \in Nat : i \in T => i + 1 \in T
    PROVE  \A i \in Nat : i \in T
<1> SUFFICES ASSUME Nat \ T # {} PROVE FALSE
  OBVIOUS
<1>1. PICK x \in Nat \ T : \A y \in Nat \ T : x <= y
  <2>1. Nat \ T \subseteq Nat
    OBVIOUS
  <2> QED
    BY <2>1, LeastNatural
<1>2. x # 0 /\ x \in Nat
  BY <1>1
<1>3. x - 1 \in Nat /\ ~(x <= x - 1) /\ (x - 1) + 1 = x
  BY <1>2
<1>4. x - 1 \in T
  BY <1>1, <1>3
<1> QED
  BY <1>1, <1>3, <1>4

Grow(W, B) == W \cup ((UNION {Refs(x) : x \in W}) \cap B)
Wave(V, B, g) ==
    [i \in 0 .. Cardinality(B) |-> IF i = 0 THEN V \cap B ELSE Grow(g[i - 1], B)]

LEMMA GrowFacts ==
    ASSUME NEW W, NEW B
    PROVE  /\ W \subseteq Grow(W, B)
           /\ W \subseteq B => Grow(W, B) \subseteq B
           /\ \A S : W \subseteq S /\ (\A x \in S : Refs(x) \cap B \subseteq S)
                     => Grow(W, B) \subseteq S
           /\ Grow(W, B) = W => \A x \in W : Refs(x) \cap B \subseteq W
           /\ W = B => Grow(W, B) = W
<1>1. \A y : y \in Grow(W, B) <=> y \in W \/ (y \in B /\ \E x \in W : y \in Refs(x))
  <2> DEFINE F == {Refs(x) : x \in W}
  <2>1. \A s : s \in F <=> \E x \in W : s = Refs(x)
    OBVIOUS
  <2> HIDE DEF F
  <2>2. \A y : y \in UNION F <=> \E x \in W : y \in Refs(x)
    BY <2>1
  <2>3. Grow(W, B) = W \cup ((UNION F) \cap B)
    BY DEF Grow, F
  <2> QED
    BY <2>2, <2>3
<1>2. W \subseteq Grow(W, B) /\ (W \subseteq B => Grow(W, B) \subseteq B)
  BY <1>1
<1>3. ASSUME NEW S, W \subseteq S, \A x \in S : Refs(x) \cap B \subseteq S, NEW y \in Grow(W, B)
      PROVE  y \in S
  <2>1. CASE y \in W
    BY <1>3, <2>1
  <2>2. CASE y \in B /\ \E x \in W : y \in Refs(x)
    <3>1. PICK x \in W : y \in Refs(x)
      BY <2>2
    <3>2. x \in S /\ y \in Refs(x) \cap B
      BY <1>3, <2>2, <3>1
    <3> QED
      BY <1>3, <3>2
  <2> QED
    BY <1>1, <1>3, <2>1, <2>2
<1>4. ASSUME Grow(W, B) = W, NEW x \in W, NEW y \in Refs(x) \cap B PROVE y \in W
  BY <1>1, <1>4
<1>5. ASSUME W = B PROVE Grow(W, B) = W
  BY <1>1, <1>5
<1> QED
  BY <1>2, <1>3, <1>4, <1>5

LEMMA WaveDefined ==
    ASSUME NEW V, NEW B, Cardinality(B) \in Nat
    PROVE  \E g : g = Wave(V, B, g)
<1> DEFINE N == Cardinality(B)
           Solves(g, n) == /\ g[0] = V \cap B
                           /\ \A i \in 1 .. n : g[i] = Grow(g[i - 1], B)
           T == {n \in Nat : \E g : Solves(g, n)}
<1>1. 0 \in T
  <2> DEFINE g == [i \in {0} |-> V \cap B]
  <2>1. g[0] = V \cap B
    OBVIOUS
  <2> HIDE DEF g
  <2>2. Solves(g, 0)
    BY <2>1
  <2> QED
    BY <2>2
<1>2. ASSUME NEW n \in Nat, n \in T PROVE n + 1 \in T
  <2>1. PICK h : Solves(h, n)
    BY <1>2
  <2> DEFINE g == [i \in 0 .. n + 1 |-> IF i <= n THEN h[i] ELSE Grow(h[n], B)]
  <2>2. /\ \A i \in 0 .. n : g[i] = h[i]
        /\ g[n + 1] = Grow(h[n], B)
    OBVIOUS
  <2> HIDE DEF g
  <2>3. g[0] = V \cap B
    BY <2>1, <2>2
  <2>4. ASSUME NEW i \in 1 .. n + 1 PROVE g[i] = Grow(g[i - 1], B)
    <3>1. CASE i = n + 1
      <4>1. g[n] = h[n] /\ i - 1 = n
        BY <2>2, <3>1
      <4> QED
        BY <2>2, <3>1, <4>1
    <3>2. CASE i # n + 1
      <4>1. i \in 1 .. n /\ i \in 0 .. n /\ i - 1 \in 0 .. n
        BY <3>2
      <4> QED
        BY <2>1, <2>2, <4>1
    <3> QED
      BY <3>1, <3>2
  <2>5. Solves(g, n + 1)
    BY <2>3, <2>4
  <2> HIDE DEF Solves
  <2> QED
    BY <2>5
<1>3. N \in T
  <2> HIDE DEF T
  <2> QED
    BY <1>1, <1>2, AllNaturals
<1>4. PICK h : Solves(h, N)
  BY <1>3
<1> DEFINE g == [i \in 0 .. N |-> h[i]]
<1>5. \A i \in 0 .. N : g[i] = IF i = 0 THEN V \cap B ELSE Grow(g[i - 1], B)
  <2>0. \A i \in 0 .. N : g[i] = h[i]
    OBVIOUS
  <2> HIDE DEF g
  <2> SUFFICES ASSUME NEW i \in 0 .. N
               PROVE  g[i] = IF i = 0 THEN V \cap B ELSE Grow(g[i - 1], B)
    OBVIOUS
  <2>1. i # 0 => i \in 1 .. N /\ i - 1 \in 0 .. N
    OBVIOUS
  <2> QED
    BY <1>4, <2>0, <2>1
<1>6. g = [i \in 0 .. N |-> g[i]]
  OBVIOUS
<1> HIDE DEF g, N
<1>7. g = [i \in 0 .. N |-> IF i = 0 THEN V \cap B ELSE Grow(g[i - 1], B)]
  BY <1>5, <1>6
<1> QED
  BY <1>7 DEF Wave, N

LEMMA ReachFacts ==
    ASSUME NEW V, NEW B, IsFiniteSet(B)
    PROVE  LET R == Reach(V, B)
           IN  /\ R \subseteq B /\ V \cap B \subseteq R
               /\ \A x \in R : Refs(x) \cap B \subseteq R
               /\ \A S : V \cap B \subseteq S /\ (\A x \in S : Refs(x) \cap B \subseteq S)
                           => R \subseteq S
<1> DEFINE N == Cardinality(B)
           g == CHOOSE g : g = Wave(V, B, g)
<1>0. N \in Nat
  BY FS_CardinalityType
<1>1. Reach(V, B) = g[N]
  BY DEF Reach, Wave, Grow
<1>2. g = Wave(V, B, g)
  BY <1>0, WaveDefined
<1> HIDE DEF g
<1>3. /\ g[0] = V \cap B
      /\ \A i \in 0 .. N : i # 0 => g[i] = Grow(g[i - 1], B)
  <2>1. g = [i \in 0 .. N |-> IF i = 0 THEN V \cap B ELSE Grow(g[i - 1], B)]
    BY <1>2 DEF Wave
  <2> HIDE DEF N
  <2>2. 0 \in 0 .. N
    BY <1>0
  <2>3. g[0] = V \cap B
    BY <2>1, <2>2
  <2>4. ASSUME NEW i \in 0 .. N, i # 0 PROVE g[i] = Grow(g[i - 1], B)
    BY <2>1, <2>4
  <2> QED
    BY <2>3, <2>4
<1> HIDE DEF N
<1>4. \A i \in Nat : i < N => g[i + 1] = Grow(g[i], B)
  <2> SUFFICES ASSUME NEW i \in Nat, i < N PROVE g[i + 1] = Grow(g[i], B)
    OBVIOUS
  <2>1. i + 1 \in 0 .. N /\ i + 1 # 0 /\ (i + 1) - 1 = i
    BY <1>0
  <2> QED
    BY <1>3, <2>1
<1>5. \A i \in Nat : i <= N => g[i] \subseteq B /\ V \cap B \subseteq g[i]
  <2> DEFINE T == {i \in Nat : i <= N => g[i] \subseteq B /\ V \cap B \subseteq g[i]}
  <2>1. 0 \in T
    BY <1>3
  <2>2. ASSUME NEW i \in Nat, i \in T PROVE i + 1 \in T
    <3> SUFFICES ASSUME i + 1 <= N PROVE g[i + 1] \subseteq B /\ V \cap B \subseteq g[i + 1]
      OBVIOUS
    <3>1. i < N /\ i <= N
      BY <1>0
    <3>2. g[i] \subseteq B /\ V \cap B \subseteq g[i] /\ g[i + 1] = Grow(g[i], B)
      BY <1>4, <2>2, <3>1
    <3> QED
      BY <3>2, GrowFacts
  <2> HIDE DEF T
  <2>3. \A i \in Nat : i \in T
    BY <2>1, <2>2, AllNaturals
  <2> QED
    BY <2>3 DEF T
<1>6. ASSUME NEW S, V \cap B \subseteq S, \A x \in S : Refs(x) \cap B \subseteq S
      PROVE  g[N] \subseteq S
  <2> DEFINE T == {i \in Nat : i <= N => g[i] \subseteq S}
  <2>1. 0 \in T
    BY <1>3, <1>6
  <2>2. ASSUME NEW i \in Nat, i \in T PROVE i + 1 \in T
    <3> SUFFICES ASSUME i + 1 <= N PROVE g[i + 1] \subseteq S
      OBVIOUS
    <3>1. i < N /\ i <= N
      BY <1>0
    <3>2. g[i] \subseteq S /\ g[i + 1] = Grow(g[i], B)
      BY <1>4, <2>2, <3>1
    <3> QED
      BY <1>6, <3>2, GrowFacts
  <2> HIDE DEF T
  <2>3. \A i \in Nat : i \in T
    BY <2>1, <2>2, AllNaturals
  <2> QED
    BY <1>0, <2>3 DEF T
<1>7. Grow(g[N], B) = g[N]
  <2> DEFINE T == {i \in Nat : i <= N => i <= Cardinality(g[i]) \/ Grow(g[i], B) = g[i]}
  <2>0. \A i \in Nat : i <= N =>
           IsFiniteSet(g[i]) /\ Cardinality(g[i]) \in Nat /\ Cardinality(g[i]) <= N
    BY <1>5, FS_Subset, FS_CardinalityType DEF N
  <2>1. 0 \in T
    BY <1>0, <2>0
  <2>2. ASSUME NEW i \in Nat, i \in T PROVE i + 1 \in T
    <3> SUFFICES ASSUME i + 1 <= N
                 PROVE  i + 1 <= Cardinality(g[i + 1]) \/ Grow(g[i + 1], B) = g[i + 1]
      OBVIOUS
    <3>1. i < N /\ i <= N /\ i + 1 \in Nat
      BY <1>0
    <3>2. g[i + 1] = Grow(g[i], B)
      BY <1>4, <3>1
    <3>3. CASE Grow(g[i], B) = g[i]
      BY <3>2, <3>3
    <3>4. CASE Grow(g[i], B) # g[i]
      <4>1. i <= Cardinality(g[i])
        BY <2>2, <3>1, <3>4
      <4>2. g[i] \subseteq g[i + 1] /\ g[i] # g[i + 1]
        BY <3>2, <3>4, GrowFacts
      <4>3. /\ IsFiniteSet(g[i + 1]) /\ Cardinality(g[i + 1]) \in Nat
            /\ Cardinality(g[i]) \in Nat
        BY <2>0, <3>1
      <4>4. Cardinality(g[i]) < Cardinality(g[i + 1])
        BY <4>2, <4>3, FS_Subset
      <4> QED
        BY <4>1, <4>3, <4>4
    <3> QED
      BY <3>3, <3>4
  <2> HIDE DEF T
  <2>3. \A i \in Nat : i \in T
    BY <2>1, <2>2, AllNaturals
  <2>4. N <= Cardinality(g[N]) \/ Grow(g[N], B) = g[N]
    BY <1>0, <2>3 DEF T
  <2>5. CASE N <= Cardinality(g[N])
    <3>1. g[N] \subseteq B /\ Cardinality(g[N]) \in Nat
      BY <1>0, <1>5, <2>0
    <3>2. g[N] = B
      <4>1. Cardinality(g[N]) <= Cardinality(B) /\ (Cardinality(B) = Cardinality(g[N]) => B = g[N])
        BY <3>1, FS_Subset
      <4>2. N = Cardinality(B)
        BY DEF N
      <4> QED
        BY <1>0, <2>5, <3>1, <4>1, <4>2
    <3> QED
      BY <3>2, GrowFacts
  <2> QED
    BY <2>4, <2>5
<1>8. g[N] \subseteq B /\ V \cap B \subseteq g[N]
  BY <1>0, <1>5
<1>9. \A x \in g[N] : Refs(x) \cap B \subseteq g[N]
  BY <1>7, GrowFacts
<1> QED
  BY <1>1, <1>6, <1>8, <1>9
---------------------------------------------------------------------------
(* The marking phase.                                                      *)
LEMMA RefsFacts ==
    /\ \A x \in Obj, f \in Field : obj[x].ref[f] \in Refs(x)
    /\ \A x \in Obj : \A v \in Refs(x) : \E f \in Field : v = obj[x].ref[f]
    /\ \A c \in Ctx, s \in Slot : context[c].ref[s] \in Refs(c)
    /\ \A c \in Ctx : \A v \in Refs(c) : \E s \in Slot : v = context[c].ref[s]
BY Names DEF Refs

LEMMA EntriesFacts ==
    ASSUME states \in Seq(Ctx)
    PROVE  /\ array \in Entries
           /\ \A i \in 1 .. Len(states) : Refs(states[i]) \subseteq Entries
           /\ \A v \in Entries : v = array \/ \E i \in 1 .. Len(states) : v \in Refs(states[i])
<1> DEFINE F == {Refs(c) : c \in Listed}
<1>1. Entries = (UNION F) \cup {array}
  BY DEF Entries
<1>2. \A s : s \in F <=> \E c \in Listed : s = Refs(c)
  OBVIOUS
<1> HIDE DEF F
<1>3. \A c : c \in Listed <=> \E i \in 1 .. Len(states) : c = states[i]
  BY DEF Listed
<1>4. \A v : v \in UNION F <=> \E i \in 1 .. Len(states) : v \in Refs(states[i])
  BY <1>2, <1>3
<1> QED
  BY <1>1, <1>4

(* What the marking phase finds.                                           *)
LEMMA FoundFacts ==
    ASSUME HeapInv
    PROVE  LET R == Reach(Entries, Obj)
           IN  /\ R \subseteq LiveIn(obj) /\ Closed(obj, R)
               /\ \A c \in Ctx, s \in Slot : context[c].ref[s] \in Obj => context[c].ref[s] \in R
               /\ array \in Obj => array \in R
               /\ AllBare(context) => Grounded(obj, array, R)
               /\ \A S \in SUBSET Obj :
                     /\ array \in Obj => array \in S
                     /\ Closed(obj, S)
                     /\ \A c \in Ctx, s \in Slot : context[c].ref[s] \in Obj => context[c].ref[s] \in S
                     => R \subseteq S
<1> DEFINE R == Reach(Entries, Obj)
<1>1. /\ states \in Seq(Ctx) /\ context \in Contexts
      /\ Clean(obj, context, array) /\ Enlisted(context, states, engine)
  BY Types DEF Laid
<1>2. /\ R \subseteq Obj /\ Entries \cap Obj \subseteq R
      /\ \A x \in R : Refs(x) \cap Obj \subseteq R
      /\ \A S : Entries \cap Obj \subseteq S /\ (\A x \in S : Refs(x) \cap Obj \subseteq S)
                  => R \subseteq S
  BY FiniteAssumption, ReachFacts
<1> HIDE DEF R
<1>3. /\ array \in Entries
      /\ \A i \in 1 .. Len(states) : Refs(states[i]) \subseteq Entries
      /\ \A v \in Entries : v = array \/ \E i \in 1 .. Len(states) : v \in Refs(states[i])
  BY <1>1, EntriesFacts
<1>4. Closed(obj, R)
  BY <1>2, RefsFacts DEF Closed
<1>5. array \in Obj => array \in R
  BY <1>2, <1>3
<1>6. ASSUME NEW c \in Ctx, NEW s \in Slot, context[c].ref[s] \in Obj
      PROVE  context[c].ref[s] \in R
  <2>1. context[c].live
    BY <1>1, <1>6, Names DEF Clean
  <2>2. PICK i \in 1 .. Len(states) : states[i] = c
    BY <1>1, <2>1 DEF Enlisted
  <2>3. context[c].ref[s] \in Entries
    BY <1>3, <2>2, RefsFacts
  <2> QED
    BY <1>2, <1>6, <2>3
<1>7. ASSUME NEW S \in SUBSET Obj, array \in Obj => array \in S, Closed(obj, S),
             \A c \in Ctx, s \in Slot : context[c].ref[s] \in Obj => context[c].ref[s] \in S
      PROVE  R \subseteq S
  <2>1. \A i \in 1 .. Len(states) : states[i] \in Ctx
    BY <1>1, ElementOfSeq
  <2>2. Entries \cap Obj \subseteq S
    <3> SUFFICES ASSUME NEW v \in Entries, v \in Obj PROVE v \in S
      OBVIOUS
    <3>1. CASE v = array
      BY <1>7, <3>1
    <3>2. CASE \E i \in 1 .. Len(states) : v \in Refs(states[i])
      <4>1. PICK i \in 1 .. Len(states) : v \in Refs(states[i])
        BY <3>2
      <4>2. PICK s \in Slot : v = context[states[i]].ref[s]
        BY <2>1, <4>1, RefsFacts
      <4> QED
        BY <1>7, <2>1, <4>2
    <3> QED
      BY <1>3, <3>1, <3>2
  <2>3. \A x \in S : Refs(x) \cap Obj \subseteq S
    BY <1>7, RefsFacts DEF Closed
  <2> QED
    BY <1>2, <2>2, <2>3
<1>8. R \subseteq LiveIn(obj)
  <2>1. LiveIn(obj) \in SUBSET Obj /\ (array \in Obj => array \in LiveIn(obj))
    BY <1>1 DEF LiveIn, Clean, Alive
  <2>2. Closed(obj, LiveIn(obj))
    BY <1>1 DEF LiveIn, Clean, Alive, Closed
  <2>3. \A c \in Ctx, s \in Slot : context[c].ref[s] \in Obj => context[c].ref[s] \in LiveIn(obj)
    BY <1>1 DEF LiveIn, Clean, Alive
  <2> QED
    BY <1>7, <2>1, <2>2, <2>3
<1>9. AllBare(context) => Grounded(obj, array, R)
  <2> SUFFICES ASSUME AllBare(context), NEW S \in SUBSET Obj,
                      array \in Obj => array \in S, Closed(obj, S)
               PROVE  R \subseteq S
    BY DEF Grounded
  <2>1. \A c \in Ctx, s \in Slot : context[c].ref[s] \notin Obj
    BY Names DEF AllBare, Bare
  <2> QED
    BY <1>7, <2>1
<1> QED
  BY <1>4, <1>5, <1>6, <1>7, <1>8, <1>9 DEF R

(* Tables of objects that differ in their colours.                         *)
Recoloured(os, os2) ==
    \A o \in Obj : /\ os2[o].live = os[o].live /\ os2[o].done = os[o].done
                   /\ os2[o].rc = os[o].rc /\ os2[o].ref = os[o].ref

LEMMA RecolouredFacts ==
    ASSUME NEW os, NEW os2, Recoloured(os, os2)
    PROVE  /\ \A cs, ar, v : Count(os2, cs, ar, v) = Count(os, cs, ar, v)
           /\ \A S \in SUBSET Obj : Closed(os2, S) <=> Closed(os, S)
           /\ \A ar, M : Grounded(os2, ar, M) <=> Grounded(os, ar, M)
           /\ LiveIn(os2) = LiveIn(os)
           /\ \A cs, ar : Clean(os, cs, ar) => Clean(os2, cs, ar)
           /\ \A p \in Seq(Obj) : PoolFree(os, p) => PoolFree(os2, p)
<1>1. \A v : ObjPlaces(os2, v) = ObjPlaces(os, v)
  BY DEF Recoloured, ObjPlaces
<1>2. \A cs, ar, v : Count(os2, cs, ar, v) = Count(os, cs, ar, v)
  BY <1>1 DEF Count
<1>3. \A S \in SUBSET Obj : Closed(os2, S) <=> Closed(os, S)
  BY DEF Recoloured, Closed
<1>4. \A ar, M : Grounded(os2, ar, M) <=> Grounded(os, ar, M)
  BY <1>3 DEF Grounded
<1>5. LiveIn(os2) = LiveIn(os)
  BY DEF Recoloured, LiveIn
<1>6. \A cs, ar : Clean(os, cs, ar) => Clean(os2, cs, ar)
  <2>1. \A cs, v : Alive(os, cs, v) => Alive(os2, cs, v)
    BY DEF Recoloured, Alive
  <2>2. \A cs, ar : Clean(os, cs, ar) => \A o \in Obj, f \in Field : Alive(os2, cs, os2[o].ref[f])
    BY <2>1 DEF Clean, Recoloured
  <2>3. \A cs, ar : Clean(os, cs, ar) =>
           \A o \in Obj, f \in Field : ~os2[o].live => os2[o].ref[f] = Null
    BY DEF Clean, Recoloured
  <2> QED
    BY <2>1, <2>2, <2>3 DEF Clean
<1>7. \A p \in Seq(Obj) : PoolFree(os, p) => PoolFree(os2, p)
  BY ElementOfSeq DEF PoolFree, Recoloured
<1> QED
  BY <1>2, <1>3, <1>4, <1>5, <1>6, <1>7

Coloring(os, R, rb) == [o \in Obj |-> IF o \in R THEN [os[o] EXCEPT !.mark = rb] ELSE os[o]]

LEMMA ColoringFacts ==
    ASSUME NEW os \in Objects, NEW R, NEW rb \in BOOLEAN
    PROVE  /\ Coloring(os, R, rb) \in Objects /\ Recoloured(os, Coloring(os, R, rb))
           /\ \A o \in Obj : Coloring(os, R, rb)[o].mark = IF o \in R THEN rb ELSE os[o].mark
<1> DEFINE os2 == Coloring(os, R, rb)
<1>1. ASSUME NEW o \in Obj
      PROVE  /\ os2[o] \in Object /\ os2[o].live = os[o].live /\ os2[o].done = os[o].done
             /\ os2[o].rc = os[o].rc /\ os2[o].ref = os[o].ref
             /\ os2[o].mark = IF o \in R THEN rb ELSE os[o].mark
  <2> DEFINE r == [os[o] EXCEPT !.mark = rb]
  <2>1. os[o] \in Object
    BY ObjectFields
  <2>2. /\ r \in Object /\ r.live = os[o].live /\ r.done = os[o].done
        /\ r.rc = os[o].rc /\ r.ref = os[o].ref /\ r.mark = rb
    BY <2>1 DEF Object
  <2>3. os2[o] = IF o \in R THEN r ELSE os[o]
    BY DEF Coloring
  <2> HIDE DEF r, os2
  <2> QED
    BY <2>1, <2>2, <2>3
<1>2. os2 \in Objects
  <2>1. os2 = [o \in Obj |-> os2[o]]
    BY DEF Coloring
  <2> HIDE DEF os2
  <2> QED
    BY <1>1, <2>1 DEF Objects
<1> HIDE DEF os2
<1>3. Recoloured(os, os2)
  BY <1>1 DEF Recoloured
<1> QED
  BY <1>1, <1>2, <1>3 DEF os2

LEMMA MarkFacts ==
    ASSUME HeapInv, Mark
    PROVE  LET R == Reach(Entries, Obj)
               rb == ~redblue
           IN  /\ Top.k = "gc" /\ gcrun = FALSE /\ gcrun' = TRUE /\ redblue' = rb
               /\ obj' = Coloring(obj, R, rb) /\ obj' \in Objects /\ Recoloured(obj, obj')
               /\ Marked(obj', rb) = R /\ rb \in BOOLEAN
               /\ \A o \in R : ~obj'[o].done
               /\ calls' = <<[k |-> "sweep", x |-> Null, todo |-> LiveIn(obj) \ R]>> \o Rest
               /\ UNCHANGED <<context, states, pool, array, engine>>
<1> DEFINE R == Reach(Entries, Obj)
           rb == ~redblue
           os == Coloring(obj, R, rb)
<1>0. /\ Top.k = "gc" /\ redblue' = rb /\ gcrun' = TRUE /\ obj' = os
      /\ calls' = <<[k |-> "sweep", x |-> Null,
                     todo |-> {o \in Obj : obj'[o].live /\ obj'[o].mark # rb}]>> \o Rest
      /\ UNCHANGED <<context, states, pool, array, engine>>
  BY DEF Mark, Coloring
<1>1. obj \in Objects /\ redblue \in BOOLEAN /\ gcrun \in BOOLEAN
      /\ Coloured(obj, context, array, redblue, gcrun, calls)
  BY Types DEF Laid
<1>2. gcrun = FALSE
  BY <1>0, <1>1, SweepFacts
<1>3. \A o \in Obj : obj[o].live => obj[o].mark = redblue /\ ~obj[o].done
  BY <1>1, <1>2 DEF Coloured
<1>4. R \subseteq LiveIn(obj)
  BY FoundFacts
<1> HIDE DEF R
<1>5. rb \in BOOLEAN /\ rb # redblue
  BY <1>1
<1> HIDE DEF rb
<1>6. /\ os \in Objects /\ Recoloured(obj, os)
      /\ \A o \in Obj : os[o].mark = IF o \in R THEN rb ELSE obj[o].mark
  BY <1>1, <1>5, ColoringFacts
<1> HIDE DEF os
<1>7. Marked(os, rb) = R
  BY <1>3, <1>4, <1>5, <1>6 DEF Marked, LiveIn, Recoloured
<1>8. {o \in Obj : os[o].live /\ os[o].mark # rb} = LiveIn(obj) \ R
  BY <1>3, <1>4, <1>5, <1>6 DEF LiveIn, Recoloured
<1>9. \A o \in R : ~os[o].done
  BY <1>3, <1>4, <1>6 DEF LiveIn, Recoloured
<1> QED
  BY <1>0, <1>2, <1>5, <1>6, <1>7, <1>8, <1>9 DEF R, rb, os

LEMMA MarkKeeps ==
    ASSUME HeapInv, Mark
    PROVE  HeapInv'
<1> DEFINE R == Reach(Entries, Obj)
           rb == ~redblue
           os == Coloring(obj, R, rb)
           w == [k |-> "sweep", x |-> Null, todo |-> LiveIn(obj) \ R]
           c2 == <<w>> \o Rest
<1>0. /\ Top.k = "gc" /\ gcrun = FALSE /\ gcrun' = TRUE /\ redblue' = rb
      /\ obj' = os /\ os \in Objects /\ Recoloured(obj, os)
      /\ Marked(os, rb) = R /\ rb \in BOOLEAN /\ \A o \in R : ~os[o].done
      /\ calls' = c2 /\ UNCHANGED <<context, states, pool, array, engine>>
  <2> HIDE DEF R, rb, os
  <2> QED
    BY MarkFacts DEF R, rb, os
<1>1. /\ Top \in Call /\ Rest \in Seq(Call) /\ Top \in Under(calls)
      /\ Under(calls) = {Top} \cup Under(Rest)
      /\ \A h \in Under(Rest) : h.k \in {"pick", "last", "round"}
      /\ MayCall(Rest, engine, Top) /\ Chain(Rest) /\ (Rest # <<>> => Based(Rest, engine))
      /\ calls = <<Top>> \o Rest /\ Top.x = Null
  BY <1>0, SweepFacts
<1>2. /\ obj \in Objects /\ context \in Contexts /\ states \in Seq(Ctx) /\ pool \in Seq(Obj)
      /\ array \in Obj \cup {Null} /\ calls \in Seq(Call) /\ engine \in {"up", "closing", "down"}
      /\ Laid(obj, context, states, array, redblue, gcrun, calls, engine)
      /\ Counted(obj, context, array, calls, engine) /\ PoolFree(obj, pool)
  BY Types
<1>3. /\ R \subseteq LiveIn(obj) /\ Closed(obj, R)
      /\ \A c \in Ctx, s \in Slot : context[c].ref[s] \in Obj => context[c].ref[s] \in R
      /\ array \in Obj => array \in R
      /\ AllBare(context) => Grounded(obj, array, R)
  <2> HIDE DEF R
  <2> QED
    BY FoundFacts DEF R
<1> HIDE DEF R, rb, os
<1>4. w \in Call /\ w.k = "sweep" /\ w.x = Null /\ w.todo = LiveIn(obj) \ R
  BY DEF Call, LiveIn
<1>5. /\ \A v : Count(os, context, array, v) = Count(obj, context, array, v)
      /\ Closed(os, R)
      /\ \A M : Grounded(os, array, M) <=> Grounded(obj, array, M)
      /\ LiveIn(os) = LiveIn(obj) /\ Clean(os, context, array) /\ PoolFree(os, pool)
  <2>1. R \in SUBSET Obj /\ Clean(obj, context, array)
    BY <1>2, <1>3 DEF Laid, LiveIn
  <2>2. /\ \A cs, ar, v : Count(os, cs, ar, v) = Count(obj, cs, ar, v)
        /\ \A S \in SUBSET Obj : Closed(os, S) <=> Closed(obj, S)
        /\ \A ar, M : Grounded(os, ar, M) <=> Grounded(obj, ar, M)
        /\ LiveIn(os) = LiveIn(obj)
        /\ \A cs, ar : Clean(obj, cs, ar) => Clean(os, cs, ar)
        /\ \A p \in Seq(Obj) : PoolFree(obj, p) => PoolFree(os, p)
    BY <1>0, RecolouredFacts
  <2> QED
    BY <1>2, <1>3, <2>1, <2>2
<1> HIDE DEF w
<1>6. /\ c2 \in Seq(Call) /\ c2 # <<>> /\ c2[1] = w
      /\ Under(c2) = {w} \cup Under(Rest)
      /\ Apart(c2) <=> Apart(Rest) /\ \A h \in Under(Rest) : ~Clash(w, h)
      /\ \A k : Busy(c2, k) <=> w.k = k \/ Busy(Rest, k)
  BY <1>1, <1>4, ConsFacts, UnderCons, ApartCons, BusyCons
<1>7. Chain(c2) /\ Based(c2, engine)
  <2>1. MayCall(Rest, engine, w)
    BY <1>0, <1>1, <1>4 DEF MayCall, Makes, First
  <2> QED
    BY <1>1, <1>4, <2>1, ChainCons
<1> HIDE DEF c2
<1>8. Shape(c2, engine, TRUE)
  BY <1>1, <1>4, <1>6, <1>7 DEF Shape, Busy
<1>9. Fits(os, context, states, array, rb, TRUE, c2)
  <2>1. Apart(Rest) /\ \A f \in Under(Rest) :
           FrameFits(obj, context, states, array, redblue, gcrun, f)
    BY <1>0, <1>1, <1>2, TopFacts DEF Laid, Fits
  <2>2. Apart(c2)
    BY <1>4, <1>6, <2>1 DEF Clash
  <2>3. FrameFits(os, context, states, array, rb, TRUE, w)
    <3>1. \A o \in LiveIn(obj) \ R : os[o].live /\ os[o].mark # rb
      BY <1>0, <1>5 DEF LiveIn, Marked
    <3> QED
      BY <1>4, <3>1 DEF FrameFits
  <2>4. ASSUME NEW f \in Under(Rest) PROVE FrameFits(os, context, states, array, rb, TRUE, f)
    <3>1. CASE f.k = "pick"
      <4>1. AllBare(context)
        BY <2>1, <3>1 DEF FrameFits
      <4> QED
        BY <1>0, <1>3, <1>5, <3>1, <4>1 DEF FrameFits
    <3>2. CASE f.k = "last"
      BY <1>0, <2>1, <3>2 DEF FrameFits, Recoloured
    <3>3. CASE f.k = "round"
      BY <3>3 DEF FrameFits
    <3> QED
      BY <1>1, <3>1, <3>2, <3>3
  <2> QED
    BY <1>6, <2>2, <2>3, <2>4 DEF Fits
<1>10. Coloured(os, context, array, rb, TRUE, c2)
  <2>1. \A o \in Obj : os[o].live /\ os[o].mark # rb => Visited(os, c2, o)
    <3> SUFFICES ASSUME NEW o \in Obj, os[o].live, os[o].mark # rb PROVE Visited(os, c2, o)
      OBVIOUS
    <3>1. o \in w.todo
      BY <1>0, <1>4, <1>5 DEF LiveIn, Marked
    <3> QED
      BY <1>4, <1>6, <3>1 DEF Visited
  <2> QED
    BY <1>0, <1>3, <1>5, <2>1 DEF Coloured
<1>11. TopFits(os, context, states, array, c2)
  BY <1>4, <1>6 DEF TopFits
<1>12. Gone(os, context, states, array, c2)
  <2>1. Busy(calls, "last") => Busy(c2, "last")
    BY <1>0, <1>1, <1>6 DEF Busy
  <2>2. Tidy(obj, context, array) => Tidy(os, context, array)
    BY <1>5 DEF Tidy
  <2> QED
    BY <1>2, <2>1, <2>2 DEF Laid, Gone
<1>13. Laid(os, context, states, array, rb, TRUE, c2, engine)
  BY <1>2, <1>5, <1>8, <1>9, <1>10, <1>11, <1>12 DEF Laid
<1>14. Counted(os, context, array, c2, engine)
  <2>1. \A c : Extra(<<Top>> \o Rest, engine, c) = Extra(Rest, engine, c)
    <3>1. Top \in Call /\ Rest \in Seq(Call)
          /\ Top.k \notin {"free", "safe", "clear", "next", "pick"}
      BY <1>0, <1>1
    <3> QED
      BY <3>1, ExtraCons
  <2>2. \A c : Extra(c2, engine, c) = Extra(Rest, engine, c)
    <3>1. w \in Call /\ Rest \in Seq(Call)
          /\ w.k \notin {"free", "safe", "clear", "next", "pick"}
      BY <1>1, <1>4
    <3> QED
      BY <3>1, ExtraCons DEF c2
  <2>3. \A c \in Ctx : Extra(c2, engine, c) = Extra(calls, engine, c)
    BY <1>1, <2>1, <2>2
  <2> QED
    BY <1>0, <1>2, <1>5, <2>3 DEF Counted, Recoloured
<1>15. /\ obj' = os /\ context' = context /\ states' = states /\ pool' = pool /\ array' = array
       /\ redblue' = rb /\ gcrun' = TRUE /\ calls' = c2 /\ engine' = engine
  BY <1>0
<1>16. c2 \in Seq(Call) /\ os \in Objects /\ rb \in BOOLEAN /\ TRUE \in BOOLEAN
  BY <1>0, <1>6
<1> QED
  <2>1. /\ context \in Contexts /\ states \in Seq(Ctx) /\ pool \in Seq(Obj)
        /\ array \in Obj \cup {Null} /\ engine \in {"up", "closing", "down"} /\ PoolFree(os, pool)
    BY <1>2, <1>5
  <2> QED
    BY <1>13, <1>14, <1>15, <1>16, <2>1, Stepped
---------------------------------------------------------------------------
(* What scripts do.                                                        *)
SetField(os, x, f, v) == [os EXCEPT ![x].ref[f] = v]
SetSlot(cs, x, s, v) == [cs EXCEPT ![x].ref[s] = v]

LEMMA FieldSet ==
    ASSUME NEW os \in Objects, NEW x \in Obj, NEW f \in Field, NEW v \in Val
    PROVE  LET os2 == SetField(os, x, f, v)
           IN  /\ os2 \in Objects /\ ObjChanged(os, os2, x, f) /\ os2[x].ref[f] = v
               /\ \A o \in Obj : /\ os2[o].live = os[o].live /\ os2[o].done = os[o].done
                                 /\ os2[o].mark = os[o].mark /\ os2[o].rc = os[o].rc
<1> DEFINE r == [os[x].ref EXCEPT ![f] = v]
           t == [os[x] EXCEPT !.ref = r]
           os2 == SetField(os, x, f, v)
<1>1. os[x] \in Object /\ os[x].ref \in [Field -> Val]
  BY ObjectFields
<1>2. r \in [Field -> Val] /\ r[f] = v /\ \A g \in Field : g # f => r[g] = os[x].ref[g]
  BY <1>1
<1> HIDE DEF r
<1>3. /\ t \in Object /\ t.ref = r /\ t.live = os[x].live /\ t.done = os[x].done
      /\ t.mark = os[x].mark /\ t.rc = os[x].rc
  BY <1>1, <1>2 DEF Object
<1>4. os2 = [os EXCEPT ![x] = t]
  BY DEF SetField, r
<1> HIDE DEF t, os2
<1>5. os2 \in Objects /\ \A o \in Obj : os2[o] = IF o = x THEN t ELSE os[o]
  BY <1>3, <1>4 DEF Objects
<1>6. ObjChanged(os, os2, x, f)
  BY <1>2, <1>3, <1>5 DEF ObjChanged
<1> QED
  BY <1>2, <1>3, <1>5, <1>6 DEF os2

LEMMA SlotSet ==
    ASSUME NEW cs \in Contexts, NEW x \in Ctx, NEW f \in Slot, NEW v \in Val
    PROVE  LET cs2 == SetSlot(cs, x, f, v)
           IN  /\ cs2 \in Contexts /\ CtxChanged(cs, cs2, x, f) /\ cs2[x].ref[f] = v
               /\ \A c \in Ctx : cs2[c].live = cs[c].live /\ cs2[c].rc = cs[c].rc
<1> DEFINE r == [cs[x].ref EXCEPT ![f] = v]
           t == [cs[x] EXCEPT !.ref = r]
           cs2 == SetSlot(cs, x, f, v)
<1>1. cs[x] \in Context /\ cs[x].ref \in [Slot -> Val]
  BY ContextFields
<1>2. r \in [Slot -> Val] /\ r[f] = v /\ \A g \in Slot : g # f => r[g] = cs[x].ref[g]
  BY <1>1
<1> HIDE DEF r
<1>3. t \in Context /\ t.ref = r /\ t.live = cs[x].live /\ t.rc = cs[x].rc
  BY <1>1, <1>2 DEF Context
<1>4. cs2 = [cs EXCEPT ![x] = t]
  BY DEF SetSlot, r
<1> HIDE DEF t, cs2
<1>5. cs2 \in Contexts /\ \A c \in Ctx : cs2[c] = IF c = x THEN t ELSE cs[c]
  BY <1>3, <1>4 DEF Contexts
<1>6. CtxChanged(cs, cs2, x, f)
  BY <1>2, <1>3, <1>5 DEF CtxChanged
<1> QED
  BY <1>2, <1>3, <1>5, <1>6 DEF cs2

LEMMA AcquireCtxFacts ==
    ASSUME NEW cs \in Contexts, NEW v
    PROVE  /\ AcquireCtx(cs, v) \in Contexts /\ AlikeCtx(cs, AcquireCtx(cs, v))
           /\ \A c \in Ctx : AcquireCtx(cs, v)[c].rc = cs[c].rc + Bit(c = v)
<1>0. \A c \in Ctx : cs[c].rc \in Int
  BY ContextFields
<1>1. CASE v \notin Ctx
  <2>1. AcquireCtx(cs, v) = cs
    BY <1>1 DEF AcquireCtx
  <2> QED
    BY <1>0, <1>1, <2>1 DEF AlikeCtx, Bit
<1>2. CASE v \in Ctx
  <2> DEFINE n == cs[v].rc + 1
             c2 == AcquireCtx(cs, v)
  <2>1. c2 = SetRc(cs, v, n)
    BY <1>2 DEF AcquireCtx, SetRc
  <2>2. n \in Int
    BY <1>0, <1>2
  <2> HIDE DEF n, c2
  <2>3. /\ c2 \in Contexts /\ AlikeCtx(cs, c2)
        /\ \A d \in Ctx : c2[d].rc = IF d = v THEN n ELSE cs[d].rc
    BY <1>2, <2>1, <2>2, ContextRc
  <2> QED
    BY <1>0, <1>2, <2>3 DEF Bit, n, c2
<1> QED
  BY <1>1, <1>2

Quiet(gr, cl) == gr = FALSE /\ cl = <<>>
LEMMA QuietFacts ==
    ASSUME NEW gr, NEW cl, Quiet(gr, cl)
    PROVE  /\ cl \in Seq(Call) /\ Under(cl) = {} /\ \A c : Extra(cl, "up", c) = Bit(c = Root)
           /\ \A v : /\ Untouched(cl, v) /\ MayCall(cl, "up", Do("destroy", v))
                    /\ MayCall(cl, "up", Do("free", v))
           /\ \A s \in Seq(Call) : s \o cl = s
<1>1. cl \in Seq(Call) /\ Under(cl) = {}
  BY UnderNone DEF Quiet
<1>2. \A v : Do("destroy", v).k = "destroy" /\ Do("free", v).k = "free"
  BY DoFacts
<1>3. \A v : /\ Untouched(cl, v) /\ MayCall(cl, "up", Do("destroy", v))
           /\ MayCall(cl, "up", Do("free", v))
  BY <1>1, <1>2 DEF Quiet, Untouched, MayCall, First
<1>4. \A s \in Seq(Call) : s \o cl = s
  BY ConcatEmptySeq DEF Quiet
<1>5. \A c : Extra(cl, "up", c) = Bit(c = Root)
  BY <1>1 DEF Extra, Kept, Holds, Bit
<1> QED
  BY <1>1, <1>3, <1>4, <1>5

(* Tables that differ in what live blocks refer to, while no call is under *)
(* way.                                                                    *)
Rewritten(os, os2, v) ==
    \A o \in Obj :
        /\ os2[o].live = os[o].live /\ os2[o].done = os[o].done /\ os2[o].mark = os[o].mark
        /\ \A f \in Field :
              os2[o].ref[f] # os[o].ref[f] => os[o].live /\ os2[o].ref[f] = v
RewrittenCtx(cs, cs2, v) ==
    \A c \in Ctx :
        /\ cs2[c].live = cs[c].live
        /\ \A s \in Slot :
              cs2[c].ref[s] # cs[c].ref[s] => cs[c].live /\ s # "_G" /\ cs2[c].ref[s] = v

LEMMA RewrittenLaid ==
    ASSUME NEW os, NEW os2, NEW cs, NEW cs2, NEW st, NEW ar, NEW rb, NEW gr \in BOOLEAN,
           NEW cl, Quiet(gr, cl), Laid(os, cs, st, ar, rb, gr, cl, "up"),
           NEW v, Alive(os, cs, v), Rewritten(os, os2, v), RewrittenCtx(cs, cs2, v)
    PROVE  Laid(os2, cs2, st, ar, rb, gr, cl, "up")
<1>1. /\ \A o \in Obj : os2[o].live = os[o].live
      /\ \A c \in Ctx : cs2[c].live = cs[c].live
  BY DEF Rewritten, RewrittenCtx
<1>2. /\ \A o \in Obj, f \in Field : Alive(os, cs, os[o].ref[f])
      /\ \A c \in Ctx, s \in Slot : Alive(os, cs, cs[c].ref[s])
      /\ Alive(os, cs, ar)
      /\ \A o \in Obj, f \in Field : ~os[o].live => os[o].ref[f] = Null
      /\ \A c \in Ctx, s \in Slot : ~cs[c].live => cs[c].ref[s] = Null
  BY DEF Laid, Clean
<1>3. \A u : Alive(os, cs, u) => Alive(os2, cs2, u)
  BY <1>1 DEF Alive
<1>4. \A o \in Obj, f \in Field : Alive(os2, cs2, os2[o].ref[f])
  BY <1>2, <1>3 DEF Rewritten
<1>5. \A c \in Ctx, s \in Slot : Alive(os2, cs2, cs2[c].ref[s])
  BY <1>2, <1>3 DEF RewrittenCtx
<1>6. /\ \A o \in Obj, f \in Field : ~os2[o].live => os2[o].ref[f] = Null
      /\ \A c \in Ctx, s \in Slot : ~cs2[c].live => cs2[c].ref[s] = Null
  BY <1>2 DEF Rewritten, RewrittenCtx
<1>7. Clean(os2, cs2, ar)
  BY <1>2, <1>3, <1>4, <1>5, <1>6 DEF Clean
<1>8. Enlisted(cs2, st, "up") /\ InList(st, Root)
  BY <1>1, Names DEF Laid, Enlisted, RewrittenCtx, InList
<1>9. Under(cl) = {} /\ cl = <<>>
  BY QuietFacts DEF Quiet
<1>10. Fits(os2, cs2, st, ar, rb, gr, cl)
  BY <1>9 DEF Laid, Fits
<1>11. Coloured(os2, cs2, ar, rb, gr, cl)
  BY DEF Laid, Coloured, Rewritten, Quiet
<1>12. Shape(cl, "up", gr)
  BY DEF Laid
<1> QED
  BY <1>7, <1>8, <1>9, <1>10, <1>11, <1>12 DEF Laid, TopFits, Gone

(* A place that held old holds v.                                          *)
Moved(os, cs, os2, cs2, ar, v, old) ==
    \A u : Count(os2, cs2, ar, u) = Count(os, cs, ar, u) + Bit(v = u) - Bit(old = u)

LEMMA FieldCount ==
    ASSUME NEW os, NEW os2, NEW cs, NEW ar, NEW x \in Obj, NEW f \in Field,
           ObjChanged(os, os2, x, f), NEW u
    PROVE  Count(os2, cs, ar, u)
             = Count(os, cs, ar, u) + Bit(os2[x].ref[f] = u) - Bit(os[x].ref[f] = u)
<1> DEFINE m == Cardinality(ObjPlaces(os, u))
           m2 == Cardinality(ObjPlaces(os2, u))
           n == Cardinality(CtxPlaces(cs, u))
           a == IF ar = u THEN 1 ELSE 0
           b == Bit(os[x].ref[f] = u)
           d == Bit(os2[x].ref[f] = u)
<1>1. m \in Nat /\ n \in Nat /\ m2 \in Nat
  BY PlacesNumber
<1>2. m2 = m + d - b
  BY ObjPlaceChange DEF Bit
<1>3. d \in 0 .. 1 /\ b \in 0 .. 1 /\ a \in 0 .. 1
  BY DEF Bit
<1>4. Count(os2, cs, ar, u) = m2 + n + a /\ Count(os, cs, ar, u) = m + n + a
  BY DEF Count
<1> HIDE DEF m, m2, n, a, b, d
<1>5. m2 + n + a = (m + n + a) + d - b
  BY <1>1, <1>2, <1>3
<1> QED
  BY <1>4, <1>5 DEF b, d

LEMMA SlotCount ==
    ASSUME NEW os, NEW cs, NEW cs2, NEW ar, NEW x \in Ctx, NEW f \in Slot,
           CtxChanged(cs, cs2, x, f), NEW u
    PROVE  Count(os, cs2, ar, u)
             = Count(os, cs, ar, u) + Bit(cs2[x].ref[f] = u) - Bit(cs[x].ref[f] = u)
<1> DEFINE m == Cardinality(CtxPlaces(cs, u))
           m2 == Cardinality(CtxPlaces(cs2, u))
           n == Cardinality(ObjPlaces(os, u))
           a == IF ar = u THEN 1 ELSE 0
           b == Bit(cs[x].ref[f] = u)
           d == Bit(cs2[x].ref[f] = u)
<1>1. m \in Nat /\ n \in Nat /\ m2 \in Nat
  BY PlacesNumber
<1>2. m2 = m + d - b
  BY CtxPlaceChange DEF Bit
<1>3. d \in 0 .. 1 /\ b \in 0 .. 1 /\ a \in 0 .. 1
  BY DEF Bit
<1>4. Count(os, cs2, ar, u) = n + m2 + a /\ Count(os, cs, ar, u) = n + m + a
  BY DEF Count
<1> HIDE DEF m, m2, n, a, b, d
<1>5. n + m2 + a = (n + m + a) + d - b
  BY <1>1, <1>2, <1>3
<1> QED
  BY <1>4, <1>5 DEF b, d

LEMMA FieldWritten ==
    ASSUME NEW os \in Objects, NEW cs, NEW st, NEW ar, NEW rb, NEW gr \in BOOLEAN,
           NEW cl, Quiet(gr, cl), Laid(os, cs, st, ar, rb, gr, cl, "up"),
           NEW x \in Obj, NEW f \in Field, os[x].live, NEW v \in Val, Alive(os, cs, v)
    PROVE  LET os2 == SetField(os, x, f, v)
           IN  /\ os2 \in Objects /\ Laid(os2, cs, st, ar, rb, gr, cl, "up")
               /\ \A o \in Obj : os2[o].live = os[o].live /\ os2[o].rc = os[o].rc
               /\ Moved(os, cs, os2, cs, ar, v, os[x].ref[f])
<1> DEFINE os2 == SetField(os, x, f, v)
<1>1. /\ os2 \in Objects /\ ObjChanged(os, os2, x, f) /\ os2[x].ref[f] = v
      /\ \A o \in Obj : /\ os2[o].live = os[o].live /\ os2[o].done = os[o].done
                        /\ os2[o].mark = os[o].mark /\ os2[o].rc = os[o].rc
  BY FieldSet
<1> HIDE DEF os2
<1>2. Rewritten(os, os2, v)
  BY <1>1 DEF ObjChanged, Rewritten
<1>3. RewrittenCtx(cs, cs, v)
  BY DEF RewrittenCtx
<1>4. Laid(os2, cs, st, ar, rb, gr, cl, "up")
  BY <1>2, <1>3, RewrittenLaid
<1>5. ASSUME NEW u
      PROVE  Count(os2, cs, ar, u) = Count(os, cs, ar, u) + Bit(v = u) - Bit(os[x].ref[f] = u)
  <2>1. ObjChanged(os, os2, x, f)
    BY <1>1
  <2>2. os2[x].ref[f] = v
    BY <1>1
  <2> QED
    BY <2>1, <2>2, FieldCount
<1> QED
  BY <1>1, <1>4, <1>5 DEF os2, Moved

(* "_G" stays what it is.                                                  *)
OwnSlot == Var \cup {"sub"}

LEMMA SlotWritten ==
    ASSUME NEW os, NEW cs \in Contexts, NEW st, NEW ar, NEW rb, NEW gr \in BOOLEAN,
           NEW cl, Quiet(gr, cl), Laid(os, cs, st, ar, rb, gr, cl, "up"),
           NEW x \in Ctx, NEW f \in OwnSlot, cs[x].live,
           NEW v \in Val, Alive(os, cs, v)
    PROVE  LET cs2 == SetSlot(cs, x, f, v)
           IN  /\ cs2 \in Contexts /\ Laid(os, cs2, st, ar, rb, gr, cl, "up")
               /\ \A c \in Ctx : cs2[c].live = cs[c].live /\ cs2[c].rc = cs[c].rc
               /\ Moved(os, cs, os, cs2, ar, v, cs[x].ref[f])
<1> DEFINE cs2 == SetSlot(cs, x, f, v)
<1>0. f \in Slot /\ f # "_G"
  BY Names DEF OwnSlot, Slot
<1>1. /\ cs2 \in Contexts /\ CtxChanged(cs, cs2, x, f) /\ cs2[x].ref[f] = v
      /\ \A c \in Ctx : cs2[c].live = cs[c].live /\ cs2[c].rc = cs[c].rc
  BY <1>0, SlotSet
<1> HIDE DEF cs2
<1>2. RewrittenCtx(cs, cs2, v)
  BY <1>0, <1>1 DEF CtxChanged, RewrittenCtx
<1>3. Rewritten(os, os, v)
  BY DEF Rewritten
<1>4. Laid(os, cs2, st, ar, rb, gr, cl, "up")
  BY <1>2, <1>3, RewrittenLaid
<1>5. ASSUME NEW u
      PROVE  Count(os, cs2, ar, u) = Count(os, cs, ar, u) + Bit(v = u) - Bit(cs[x].ref[f] = u)
  <2>1. CtxChanged(cs, cs2, x, f)
    BY <1>1
  <2>2. cs2[x].ref[f] = v
    BY <1>1
  <2> QED
    BY <1>0, <2>1, <2>2, SlotCount
<1> QED
  BY <1>1, <1>4, <1>5 DEF cs2, Moved

(* The old value is released.                                              *)
LEMMA Released ==
    ASSUME NEW os \in Objects, NEW cs \in Contexts, NEW st \in Seq(Ctx),
           NEW ar \in Obj \cup {Null}, NEW rb \in BOOLEAN, gcrun \in BOOLEAN,
           NEW cl, Quiet(gcrun, cl), Laid(os, cs, st, ar, rb, gcrun, cl, "up"),
           NEW v \in Val, Alive(os, cs, v), Pending(os, cs, ar, cl, "up", v)
    PROVE  /\ Less(os, v) \in Objects /\ LessCtx(cs, v) \in Contexts
           /\ Then(os, cs, v) \in Seq(Call)
           /\ Sound(Less(os, v), LessCtx(cs, v), st, ar, rb, gcrun, Then(os, cs, v), "up")
<1>1. /\ cl \in Seq(Call) /\ Untouched(cl, v) /\ MayCall(cl, "up", Do("destroy", v))
      /\ MayCall(cl, "up", Do("free", v))
  BY QuietFacts
<1>2. InList(st, Root)
  BY Names DEF Laid, Enlisted, InList
<1>3. /\ Less(os, v) \in Objects /\ LessCtx(cs, v) \in Contexts
      /\ Sound(Less(os, v), LessCtx(cs, v), st, ar, rb, gcrun, Then(os, cs, v) \o cl, "up")
  BY <1>1, <1>2, Settles
<1>4. Then(os, cs, v) \in Seq(Call)
  BY DoFacts DEF Then
<1>5. Then(os, cs, v) \o cl = Then(os, cs, v)
  BY <1>4, QuietFacts
<1> QED
  BY <1>3, <1>4, <1>5

(* A place was written: v is acquired and old is released.                 *)
Renewed(os, os2, cs2, v, old, st, ar, rb) ==
    LET os1 == Acquire(os2, v)
        cs1 == AcquireCtx(cs2, v)
    IN  /\ Less(os1, old) \in Objects /\ LessCtx(cs1, old) \in Contexts
        /\ Then(os1, cs1, old) \in Seq(Call)
        /\ Sound(Less(os1, old), LessCtx(cs1, old), st, ar, rb, gcrun,
                 Then(os1, cs1, old), "up")
        /\ \A o \in Obj : Less(os1, old)[o].live = os[o].live

LEMMA Resettled ==
    ASSUME NEW os \in Objects, NEW cs \in Contexts, NEW os2 \in Objects, NEW cs2 \in Contexts,
           NEW st \in Seq(Ctx), NEW ar \in Obj \cup {Null}, NEW rb \in BOOLEAN,
           gcrun \in BOOLEAN, NEW cl, Quiet(gcrun, cl),
           Laid(os2, cs2, st, ar, rb, gcrun, cl, "up"), Clean(os, cs, ar),
           Counted(os, cs, ar, cl, "up"),
           \A o \in Obj : os2[o].live = os[o].live /\ os2[o].rc = os[o].rc,
           \A c \in Ctx : cs2[c].live = cs[c].live /\ cs2[c].rc = cs[c].rc,
           NEW v \in Val, NEW old \in Val, Alive(os, cs, old),
           Moved(os, cs, os2, cs2, ar, v, old)
    PROVE  Renewed(os, os2, cs2, v, old, st, ar, rb)
<1> DEFINE os1 == Acquire(os2, v)
           cs1 == AcquireCtx(cs2, v)
<1>5. /\ os1 \in Objects /\ Alike(os2, os1) /\ \A o \in Obj : os1[o].rc = os2[o].rc + Bit(o = v)
      /\ cs1 \in Contexts /\ AlikeCtx(cs2, cs1)
      /\ \A c \in Ctx : cs1[c].rc = cs2[c].rc + Bit(c = v)
  BY AcquireFacts, AcquireCtxFacts
<1> HIDE DEF os1, cs1
<1>6. cl \in Seq(Call) /\ \A c : Extra(cl, "up", c) = Bit(c = Root)
  BY QuietFacts
<1>7. Laid(os1, cs1, st, ar, rb, gcrun, cl, "up")
  <2>1. Alike(os2, os1) /\ AlikeCtx(cs2, cs1) /\ cl \in Seq(Call)
    BY <1>5, <1>6
  <2> QED
    BY <2>1, LaidAlike
<1>8. \A u : /\ Count(os1, cs1, ar, u)
                   = Count(os, cs, ar, u) + Bit(v = u) - Bit(old = u)
             /\ Count(os, cs, ar, u) \in Nat
  BY <1>5, CountAlike, CountType DEF Moved
<1>9. Pending(os1, cs1, ar, cl, "up", old)
  <2>1. ASSUME NEW o \in Obj, os1[o].live
        PROVE  os1[o].rc = Count(os1, cs1, ar, o) + Bit(o = old)
    <3>1. os[o].rc = Count(os, cs, ar, o)
      BY <1>5, <2>1 DEF Counted, Alike
    <3>2. os1[o].rc = os[o].rc + Bit(o = v)
      BY <1>5
    <3>3. Count(os, cs, ar, o) \in Nat
      BY <1>8
    <3>4. Count(os1, cs1, ar, o) = Count(os, cs, ar, o) + Bit(v = o) - Bit(old = o)
      BY <1>8
    <3> DEFINE n == Count(os, cs, ar, o)
               m == Count(os1, cs1, ar, o)
               r == os1[o].rc
    <3>5. m = n + Bit(v = o) - Bit(old = o) /\ r = n + Bit(o = v) /\ n \in Nat
      BY <3>1, <3>2, <3>3, <3>4
    <3> HIDE DEF n, m, r
    <3>6. r = m + Bit(o = old)
      BY <3>5 DEF Bit
    <3> QED
      BY <3>6 DEF m, r
  <2>2. ASSUME NEW c \in Ctx, cs1[c].live
        PROVE  cs1[c].rc = Count(os1, cs1, ar, c) + Extra(cl, "up", c) + Bit(c = old)
    <3>1. cs[c].rc = Count(os, cs, ar, c) + Extra(cl, "up", c)
      BY <1>5, <1>6, <2>2 DEF Counted, AlikeCtx
    <3>2. cs1[c].rc = cs[c].rc + Bit(c = v)
      BY <1>5
    <3>3. Extra(cl, "up", c) \in Int
      BY <1>6 DEF Bit
    <3> DEFINE e == Extra(cl, "up", c)
    <3> HIDE DEF e
    <3> QED
      BY <1>8, <3>1, <3>2, <3>3 DEF Bit, e
  <2> QED
    BY <2>1, <2>2 DEF Pending
<1>10. Alive(os1, cs1, old)
  BY <1>5 DEF Alive, Alike, AlikeCtx
<1>11. Laid(os1, cs1, st, ar, rb, gcrun, cl, "up") /\ os1 \in Objects /\ cs1 \in Contexts
  BY <1>5, <1>7
<1>12. /\ Less(os1, old) \in Objects /\ LessCtx(cs1, old) \in Contexts
       /\ Then(os1, cs1, old) \in Seq(Call)
       /\ Sound(Less(os1, old), LessCtx(cs1, old), st, ar, rb, gcrun, Then(os1, cs1, old), "up")
  BY <1>9, <1>10, <1>11, Released
<1>15. \A o \in Obj : Less(os1, old)[o].live = os[o].live
  BY <1>5, LessFacts DEF Alike
<1> QED
  BY <1>12, <1>15 DEF Renewed, os1, cs1

LEMMA WriteField ==
    ASSUME NEW os \in Objects, NEW cs \in Contexts, NEW st \in Seq(Ctx),
           NEW ar \in Obj \cup {Null}, NEW rb \in BOOLEAN, gcrun \in BOOLEAN,
           NEW cl, Quiet(gcrun, cl), Sound(os, cs, st, ar, rb, gcrun, cl, "up"),
           NEW x \in Obj, NEW f \in Field, os[x].live, NEW v \in Val, Alive(os, cs, v)
    PROVE  Renewed(os, SetField(os, x, f, v), cs, v, os[x].ref[f], st, ar, rb)
<1> DEFINE os2 == SetField(os, x, f, v)
           old == os[x].ref[f]
<1>1. /\ Laid(os, cs, st, ar, rb, gcrun, cl, "up") /\ Counted(os, cs, ar, cl, "up")
      /\ Clean(os, cs, ar)
  BY DEF Sound, Laid
<1>2. /\ os2 \in Objects /\ Laid(os2, cs, st, ar, rb, gcrun, cl, "up")
      /\ \A o \in Obj : os2[o].live = os[o].live /\ os2[o].rc = os[o].rc
      /\ Moved(os, cs, os2, cs, ar, v, old)
  BY <1>1, FieldWritten
<1>3. old \in Val /\ Alive(os, cs, old)
  BY <1>1, ObjectFields DEF Clean
<1>4. \A c \in Ctx : cs[c].live = cs[c].live /\ cs[c].rc = cs[c].rc
  OBVIOUS
<1> HIDE DEF os2, old
<1>5. Renewed(os, os2, cs, v, old, st, ar, rb)
  BY <1>1, <1>2, <1>3, <1>4, Resettled
<1> QED
  BY <1>5 DEF os2, old

LEMMA WriteSlot ==
    ASSUME NEW os \in Objects, NEW cs \in Contexts, NEW st \in Seq(Ctx),
           NEW ar \in Obj \cup {Null}, NEW rb \in BOOLEAN, gcrun \in BOOLEAN,
           NEW cl, Quiet(gcrun, cl), Sound(os, cs, st, ar, rb, gcrun, cl, "up"),
           NEW x \in Ctx, NEW f \in OwnSlot, cs[x].live, NEW v \in Val, Alive(os, cs, v)
    PROVE  Renewed(os, os, SetSlot(cs, x, f, v), v, cs[x].ref[f], st, ar, rb)
<1> DEFINE cs2 == SetSlot(cs, x, f, v)
           old == cs[x].ref[f]
<1>0. f \in Slot
  BY DEF OwnSlot, Slot
<1>1. /\ Laid(os, cs, st, ar, rb, gcrun, cl, "up") /\ Counted(os, cs, ar, cl, "up")
      /\ Clean(os, cs, ar)
  BY DEF Sound, Laid
<1>2. /\ cs2 \in Contexts /\ Laid(os, cs2, st, ar, rb, gcrun, cl, "up")
      /\ \A c \in Ctx : cs2[c].live = cs[c].live /\ cs2[c].rc = cs[c].rc
      /\ Moved(os, cs, os, cs2, ar, v, old)
  BY <1>1, SlotWritten
<1>3. old \in Val /\ Alive(os, cs, old)
  BY <1>0, <1>1, ContextFields DEF Clean
<1>4. \A o \in Obj : os[o].live = os[o].live /\ os[o].rc = os[o].rc
  OBVIOUS
<1> HIDE DEF cs2, old
<1>5. Renewed(os, os, cs2, v, old, st, ar, rb)
  BY <1>1, <1>2, <1>3, <1>4, Resettled
<1> QED
  BY <1>5 DEF cs2, old
(* What scripts can get at is alive.                                       *)
LEMMA KnownFacts ==
    ASSUME HeapInv, Idle
    PROVE  /\ \A x \in Known : \/ x \in Obj /\ obj[x].live
                               \/ x \in Ctx /\ context[x].live
           /\ \A v \in (Known \ {Root}) \cup {Null} : v \in Val /\ Alive(obj, context, v)
<1> DEFINE B == Obj \cup Ctx
           S == {o \in Obj : obj[o].live} \cup {c \in Ctx : context[c].live}
<1>1. IsFiniteSet(B)
  BY FiniteAssumption, FS_Union
<1>2. context[Root].live /\ Clean(obj, context, array)
  BY IdleFacts, Types DEF Laid
<1>3. {Root} \cap B \subseteq S
  BY <1>2, Names
<1>4. \A x \in S : Refs(x) \cap B \subseteq S
  <2> SUFFICES ASSUME NEW x \in S, NEW y \in Refs(x), y \in B
               PROVE  y \in S
    OBVIOUS
  <2>1. Alive(obj, context, y)
    <3>1. CASE x \in Obj
      BY <1>2, <3>1, RefsFacts DEF Clean
    <3>2. CASE x \in Ctx
      BY <1>2, <3>2, RefsFacts DEF Clean
    <3> QED
      BY <3>1, <3>2
  <2> QED
    BY <2>1 DEF Alive
<1>5. Known \subseteq S
  <2> HIDE DEF B, S
  <2>1. Reach({Root}, B) \subseteq S
    BY <1>1, <1>3, <1>4, ReachFacts
  <2> QED
    BY <2>1 DEF Known, B
<1>6. \A x \in Known : \/ x \in Obj /\ obj[x].live
                       \/ x \in Ctx /\ context[x].live
  BY <1>5
<1>7. \A v \in (Known \ {Root}) \cup {Null} : v \in Val /\ Alive(obj, context, v)
  BY <1>6, Names DEF Val, Alive
<1> QED
  BY <1>6, <1>7

LEMMA PlaceFacts ==
    ASSUME HeapInv, Idle, NEW pl \in Place
    PROVE  \/ \E x \in Obj, f \in Field : /\ pl = <<x, f>> /\ obj[x].live
                                          /\ At(pl) = obj[x].ref[f]
           \/ \E x \in Ctx, f \in Var : /\ pl = <<x, f>> /\ context[x].live
                                        /\ At(pl) = context[x].ref[f]
<1>1. CASE pl \in (Known \cap Ctx) \X Var
  <2>1. PICK x \in Known \cap Ctx, f \in Var : pl = <<x, f>>
    BY <1>1
  <2>2. context[x].live /\ pl[1] = x /\ pl[2] = f
    BY <2>1, KnownFacts, Names
  <2> QED
    BY <2>1, <2>2 DEF At
<1>2. CASE pl \in (Known \cap Obj) \X Field
  <2>1. PICK x \in Known \cap Obj, f \in Field : pl = <<x, f>>
    BY <1>2
  <2>2. obj[x].live /\ pl[1] = x /\ pl[2] = f /\ x \notin Ctx
    BY <2>1, KnownFacts, Names
  <2> QED
    BY <2>1, <2>2 DEF At
<1> QED
  BY <1>1, <1>2 DEF Place

(* A script writes to a place, possibly after it made the new value.       *)
Kin(os, os2) == \A o \in Obj : os[o].live => os2[o].live /\ os2[o].ref = os[o].ref
KinCtx(cs, cs2) == \A c \in Ctx : cs[c].live => cs2[c].live /\ cs2[c].ref = cs[c].ref

LEMMA Written ==
    ASSUME HeapInv, Idle, NEW pl \in Place,
           NEW os \in Objects, NEW cs \in Contexts, NEW st \in Seq(Ctx),
           Kin(obj, os), KinCtx(context, cs),
           Sound(os, cs, st, array, redblue, gcrun, calls, "up"),
           NEW v \in Val, Alive(os, cs, v)
    PROVE  Renewed(os, SetObj(os, pl, v), SetCtx(cs, pl, v), v, At(pl), st, array, redblue)
<1>1. /\ Quiet(gcrun, calls) /\ array \in Obj \cup {Null} /\ redblue \in BOOLEAN
      /\ gcrun \in BOOLEAN
  BY IdleFacts, Types DEF Quiet
<1>2. CASE \E x \in Obj, f \in Field : /\ pl = <<x, f>> /\ obj[x].live
                                       /\ At(pl) = obj[x].ref[f]
  <2>1. PICK x \in Obj, f \in Field : /\ pl = <<x, f>> /\ obj[x].live
                                      /\ At(pl) = obj[x].ref[f]
    BY <1>2
  <2>2. pl[1] = x /\ pl[2] = f /\ os[x].live /\ At(pl) = os[x].ref[f] /\ x \notin Ctx
    BY <2>1, Names DEF Kin
  <2>3. SetObj(os, pl, v) = SetField(os, x, f, v) /\ SetCtx(cs, pl, v) = cs
    BY <2>2 DEF SetObj, SetCtx, SetField
  <2>4. os[x].live
    BY <2>2
  <2>5. Renewed(os, SetField(os, x, f, v), cs, v, os[x].ref[f], st, array, redblue)
    BY <1>1, <2>4, WriteField
  <2> QED
    BY <2>2, <2>3, <2>5
<1>3. CASE \E x \in Ctx, f \in Var : /\ pl = <<x, f>> /\ context[x].live
                                     /\ At(pl) = context[x].ref[f]
  <2>1. PICK x \in Ctx, f \in Var : /\ pl = <<x, f>> /\ context[x].live
                                    /\ At(pl) = context[x].ref[f]
    BY <1>3
  <2>2. pl[1] = x /\ pl[2] = f /\ cs[x].live /\ At(pl) = cs[x].ref[f] /\ x \notin Obj
    BY <2>1, Names DEF KinCtx
  <2>3. SetObj(os, pl, v) = os /\ SetCtx(cs, pl, v) = SetSlot(cs, x, f, v)
    BY <2>2 DEF SetObj, SetCtx, SetSlot
  <2>4. cs[x].live /\ f \in OwnSlot
    BY <2>2 DEF OwnSlot
  <2>5. Renewed(os, os, SetSlot(cs, x, f, v), v, cs[x].ref[f], st, array, redblue)
    BY <1>1, <2>4, WriteSlot
  <2> QED
    BY <2>2, <2>3, <2>5
<1> QED
  BY <1>2, <1>3, PlaceFacts

LEMMA WriteKeeps ==
    ASSUME HeapInv, Idle, NEW pl \in Place,
           NEW os \in Objects, NEW cs \in Contexts, NEW st \in Seq(Ctx), NEW p \in Seq(Obj),
           Kin(obj, os), KinCtx(context, cs),
           Sound(os, cs, st, array, redblue, gcrun, calls, "up"), PoolFree(os, p),
           NEW v \in Val, Alive(os, cs, v),
           Write(os, cs, pl, v), states' = st, pool' = p,
           UNCHANGED <<array, redblue, gcrun, engine>>
    PROVE  HeapInv'
<1> DEFINE os1 == Acquire(SetObj(os, pl, v), v)
           cs1 == AcquireCtx(SetCtx(cs, pl, v), v)
           old == At(pl)
           os2 == Less(os1, old)
           cs2 == LessCtx(cs1, old)
           c2 == Then(os1, cs1, old)
<1>1. /\ os2 \in Objects /\ cs2 \in Contexts /\ c2 \in Seq(Call)
      /\ Sound(os2, cs2, st, array, redblue, gcrun, c2, "up")
      /\ \A o \in Obj : os2[o].live = os[o].live
  BY Written DEF Renewed
<1>2. obj' = os2 /\ context' = cs2 /\ calls' = c2
  BY DEF Write
<1> HIDE DEF os2, cs2, c2
<1>3. PoolFree(os2, p)
  <2>1. \A i \in 1 .. Len(p) : p[i] \in Obj
    OBVIOUS
  <2> QED
    BY <1>1, <2>1 DEF PoolFree
<1>4. Laid(os2, cs2, st, array, redblue, gcrun, c2, "up") /\ Counted(os2, cs2, array, c2, "up")
  BY <1>1 DEF Sound
<1>5. /\ array \in Obj \cup {Null} /\ redblue \in BOOLEAN /\ gcrun \in BOOLEAN
      /\ "up" \in {"up", "closing", "down"}
  BY Types
<1>6. /\ obj' = os2 /\ context' = cs2 /\ states' = st /\ pool' = p /\ array' = array
      /\ redblue' = redblue /\ gcrun' = gcrun /\ calls' = c2 /\ engine' = "up"
  BY <1>2, IdleFacts
<1>7. os2 \in Objects /\ cs2 \in Contexts /\ c2 \in Seq(Call)
  BY <1>1
<1> QED
  BY <1>3, <1>4, <1>5, <1>6, <1>7, Stepped

LEMMA AssignKeeps ==
    ASSUME HeapInv, NEW pl \in Place, NEW v \in (Known \ {Root}) \cup {Null}, Assign(pl, v)
    PROVE  HeapInv'
<1>1. Idle /\ Write(obj, context, pl, v) /\ UNCHANGED <<states, pool, array, redblue, gcrun, engine>>
  BY DEF Assign
<1>2. v \in Val /\ Alive(obj, context, v)
  BY <1>1, KnownFacts
<1>3. Kin(obj, obj) /\ KinCtx(context, context)
  BY DEF Kin, KinCtx
<1>4. /\ obj \in Objects /\ context \in Contexts /\ states \in Seq(Ctx) /\ pool \in Seq(Obj)
      /\ PoolFree(obj, pool)
      /\ Sound(obj, context, states, array, redblue, gcrun, calls, "up")
  BY <1>1, Types, IdleFacts DEF HeapInv
<1>5. states' = states /\ pool' = pool /\ UNCHANGED <<array, redblue, gcrun, engine>>
  BY <1>1
<1> QED
  BY <1>1, <1>2, <1>3, <1>4, <1>5, WriteKeeps

---------------------------------------------------------------------------
(* What scripts make.                                                      *)
Fresh(os, o, rb) == [os EXCEPT ![o] = [NoObject EXCEPT !.live = TRUE, !.mark = rb]]
SameFields(os, os2) == \A o \in Obj, f \in Field : os2[o].ref[f] = os[o].ref[f]

LEMMA FreshFacts ==
    ASSUME NEW os \in Objects, NEW o \in Obj, NEW rb \in BOOLEAN,
           \A f \in Field : os[o].ref[f] = Null
    PROVE  LET os2 == Fresh(os, o, rb)
           IN  /\ os2 \in Objects /\ \A x \in Obj : x # o => os2[x] = os[x]
               /\ os2[o].live /\ ~os2[o].done /\ os2[o].mark = rb /\ os2[o].rc = 0
               /\ SameFields(os, os2)
<1> DEFINE n1 == [NoObject EXCEPT !.live = TRUE]
           n == [n1 EXCEPT !.mark = rb]
           os2 == Fresh(os, o, rb)
<1>1. /\ NoObject \in Object /\ ~NoObject.done /\ NoObject.rc = 0
      /\ \A f \in Field : NoObject.ref[f] = Null
  BY Names DEF NoObject, Object, Val
<1>2. /\ n1 \in Object /\ n1.live /\ ~n1.done /\ n1.rc = 0 /\ n1.ref = NoObject.ref
  BY <1>1 DEF Object
<1> HIDE DEF n1
<1>3. /\ n \in Object /\ n.live /\ ~n.done /\ n.rc = 0 /\ n.ref = NoObject.ref /\ n.mark = rb
  BY <1>2 DEF Object
<1>4. os2 = [os EXCEPT ![o] = n]
  BY DEF Fresh, n1
<1> HIDE DEF n, os2
<1>5. os2 \in Objects /\ \A x \in Obj : os2[x] = IF x = o THEN n ELSE os[x]
  BY <1>3, <1>4 DEF Objects
<1>6. SameFields(os, os2)
  BY <1>1, <1>3, <1>5 DEF SameFields
<1> QED
  BY <1>3, <1>5, <1>6 DEF os2

LEMMA SameFieldsCount ==
    ASSUME NEW os, NEW os2, SameFields(os, os2), NEW cs, NEW cs2, SameRefs(cs, cs2), NEW ar, NEW v
    PROVE  Count(os2, cs2, ar, v) = Count(os, cs, ar, v)
<1>1. ObjPlaces(os2, v) = ObjPlaces(os, v)
  BY DEF ObjPlaces, SameFields
<1>2. CtxPlaces(cs2, v) = CtxPlaces(cs, v)
  BY DEF CtxPlaces, SameRefs
<1> QED
  BY <1>1, <1>2 DEF Count

(* var_create_obj takes memory that is not in use.                         *)
LEMMA ObtainedFree ==
    ASSUME HeapInv, NEW o \in Obj, Obtained(o)
    PROVE  ~obj[o].live
<1> DEFINE at == Search(pool, Size[o])
           hit == at <= Len(pool) /\ Size[pool[at]] = Size[o]
<1>1. pool \in Seq(Obj) /\ Ordered(pool) /\ \A i \in 1 .. Len(pool) : ~obj[pool[i]].live
  BY Types DEF PoolFree
<1>2. Size[o] \in Nat
  BY SizeAssumption
<1>3. at \in 1 .. Len(pool) + 1
  BY <1>1, <1>2, SearchFinds
<1>4. IF hit THEN pool[at] = o ELSE ~obj[o].live /\ o \notin InPool
  BY DEF Obtained
<1> HIDE DEF at
<1>5. CASE hit
  <2>1. at \in 1 .. Len(pool) /\ pool[at] = o
    BY <1>1, <1>3, <1>4, <1>5
  <2> QED
    BY <1>1, <2>1
<1> QED
  BY <1>4, <1>5

LEMMA FreshSound ==
    ASSUME HeapInv, Idle, NEW o \in Obj, ~obj[o].live
    PROVE  LET os == Fresh(obj, o, redblue)
           IN  /\ os \in Objects /\ Kin(obj, os) /\ Alive(os, context, o)
               /\ \A x \in Obj : x # o => os[x] = obj[x]
               /\ Sound(os, context, states, array, redblue, gcrun, calls, "up")
<1> DEFINE os == Fresh(obj, o, redblue)
<1>0. /\ obj \in Objects /\ redblue \in BOOLEAN
      /\ Laid(obj, context, states, array, redblue, gcrun, calls, engine)
      /\ Counted(obj, context, array, calls, engine)
  BY Types
<1>1. calls = <<>> /\ engine = "up" /\ gcrun = FALSE /\ InList(states, Root) /\ Under(calls) = {}
  BY IdleFacts
<1>2. Clean(obj, context, array) /\ Enlisted(context, states, "up") /\ Shape(calls, "up", gcrun)
  BY <1>0, <1>1 DEF Laid
<1>3. /\ os \in Objects /\ \A x \in Obj : x # o => os[x] = obj[x]
      /\ os[o].live /\ ~os[o].done /\ os[o].mark = redblue /\ os[o].rc = 0
      /\ SameFields(obj, os)
  <2>1. \A f \in Field : obj[o].ref[f] = Null
    BY <1>2 DEF Clean
  <2> QED
    BY <1>0, <2>1, FreshFacts
<1> HIDE DEF os
<1>4. \A x \in Obj : obj[x].live => os[x].live
  BY <1>3
<1>5. \A u : Alive(obj, context, u) => Alive(os, context, u)
  BY <1>4 DEF Alive
<1>6. Clean(os, context, array)
  <2>1. \A x \in Obj, f \in Field : os[x].ref[f] = obj[x].ref[f]
    BY <1>3 DEF SameFields
  <2>2. \A x \in Obj, f \in Field : Alive(os, context, os[x].ref[f])
    BY <1>2, <1>5, <2>1 DEF Clean
  <2>3. \A c \in Ctx, s \in Slot : Alive(os, context, context[c].ref[s])
    BY <1>2, <1>5 DEF Clean
  <2>4. \A x \in Obj, f \in Field : ~os[x].live => os[x].ref[f] = Null
    BY <1>2, <1>4, <2>1 DEF Clean
  <2> QED
    BY <1>2, <1>5, <2>2, <2>3, <2>4 DEF Clean
<1>7. Fits(os, context, states, array, redblue, gcrun, calls)
  BY <1>0, <1>1 DEF Laid, Fits
<1>8. Coloured(os, context, array, redblue, gcrun, calls)
  <2>1. \A x \in Obj : obj[x].live => obj[x].mark = redblue /\ ~obj[x].done
    BY <1>0, <1>1 DEF Laid, Coloured
  <2>2. \A x \in Obj : os[x].live => os[x].mark = redblue /\ ~os[x].done
    BY <1>3, <2>1
  <2> QED
    BY <1>1, <2>2 DEF Coloured
<1>9. Laid(os, context, states, array, redblue, gcrun, calls, "up")
  BY <1>1, <1>2, <1>6, <1>7, <1>8 DEF Laid, TopFits, Gone
<1>10. \A v : Count(os, context, array, v) = Count(obj, context, array, v)
  <2>1. SameRefs(context, context)
    BY DEF SameRefs
  <2> QED
    BY <1>3, <2>1, SameFieldsCount
<1>11. Count(obj, context, array, o) = 0
  <2>1. NoRefs(obj, context, array, o)
    BY <1>2 DEF Clean, Alive, NoRefs
  <2> QED
    BY <2>1, CountZero
<1>12. Counted(os, context, array, calls, "up")
  <2>1. ASSUME NEW x \in Obj, os[x].live
        PROVE  os[x].rc = Count(os, context, array, x)
    <3>1. CASE x = o
      BY <1>3, <1>10, <1>11, <3>1
    <3>2. CASE x # o
      BY <1>0, <1>3, <1>10, <2>1, <3>2 DEF Counted
    <3> QED
      BY <3>1, <3>2
  <2>2. ASSUME NEW c \in Ctx, context[c].live
        PROVE  context[c].rc = Count(os, context, array, c) + Extra(calls, "up", c)
    BY <1>0, <1>1, <1>10, <2>2 DEF Counted
  <2> QED
    BY <2>1, <2>2 DEF Counted
<1>13. Kin(obj, os)
  BY <1>3 DEF Kin
<1>14. Alive(os, context, o)
  BY <1>3, Names DEF Alive
<1> QED
  BY <1>3, <1>9, <1>12, <1>13, <1>14 DEF Sound, os

LEMMA NewObjectKeeps ==
    ASSUME HeapInv, NEW pl \in Place, NEW o \in Obj, NewObject(o, pl)
    PROVE  HeapInv'
<1> DEFINE os == Fresh(obj, o, redblue)
           p == Without(pool, o)
<1>1. /\ Idle /\ Obtained(o) /\ Write(os, context, pl, o) /\ pool' = p
      /\ UNCHANGED <<states, array, redblue, gcrun, engine>>
  BY DEF NewObject, Fresh
<1>2. ~obj[o].live
  BY <1>1, ObtainedFree
<1>3. /\ os \in Objects /\ Kin(obj, os) /\ Alive(os, context, o)
      /\ \A x \in Obj : x # o => os[x] = obj[x]
      /\ Sound(os, context, states, array, redblue, gcrun, calls, "up")
  BY <1>1, <1>2, FreshSound
<1>4. /\ context \in Contexts /\ states \in Seq(Ctx) /\ pool \in Seq(Obj) /\ Ordered(pool)
      /\ \A i \in 1 .. Len(pool) : ~obj[pool[i]].live
  BY Types DEF PoolFree
<1>5. /\ p \in Seq(Obj) /\ Ordered(p)
      /\ \A i \in 1 .. Len(p) : p[i] # o /\ \E k \in 1 .. Len(pool) : p[i] = pool[k]
  BY <1>4, WithoutOrdered
<1> HIDE DEF os, p
<1>6. PoolFree(os, p)
  <2>1. ASSUME NEW i \in 1 .. Len(p)
        PROVE  ~os[p[i]].live
    <3>1. p[i] \in Obj /\ p[i] # o
      BY <1>5
    <3>2. ~obj[p[i]].live
      BY <1>4, <1>5
    <3> QED
      BY <1>3, <3>1, <3>2
  <2> QED
    BY <1>5, <2>1 DEF PoolFree
<1>7. KinCtx(context, context) /\ o \in Val
  BY DEF KinCtx, Val
<1>8. /\ os \in Objects /\ context \in Contexts /\ states \in Seq(Ctx) /\ p \in Seq(Obj)
      /\ Kin(obj, os) /\ Alive(os, context, o)
      /\ Sound(os, context, states, array, redblue, gcrun, calls, "up")
  BY <1>3, <1>4, <1>5
<1>9. states' = states /\ pool' = p /\ UNCHANGED <<array, redblue, gcrun, engine>>
  BY <1>1
<1> QED
  BY <1>1, <1>6, <1>7, <1>8, <1>9, WriteKeeps

LEMMA ConsList ==
    ASSUME NEW st \in Seq(Ctx), NEW c \in Ctx
    PROVE  LET s2 == <<c>> \o st
           IN  /\ s2 \in Seq(Ctx) /\ Len(s2) = Len(st) + 1 /\ Len(st) \in Nat /\ s2[1] = c
               /\ \A i \in 1 .. Len(st) : s2[i + 1] = st[i]
               /\ \A i \in 2 .. Len(st) + 1 : s2[i] = st[i - 1] /\ i - 1 \in 1 .. Len(st)
<1>1. <<c>> \in Seq(Ctx) /\ Len(<<c>>) = 1 /\ <<c>>[1] = c /\ Len(st) \in Nat
  OBVIOUS
<1> QED
  BY <1>1

Forked(cs, c) ==
    [cs EXCEPT ![c] = [NoContext EXCEPT !.live = TRUE, !.ref["_G"] = Global]]

LEMMA ForkedFacts ==
    ASSUME NEW cs \in Contexts, NEW c \in Ctx, \A s \in Slot : cs[c].ref[s] = Null
    PROVE  LET cs2 == Forked(cs, c)
           IN  /\ cs2 \in Contexts /\ \A d \in Ctx : d # c => cs2[d] = cs[d]
               /\ cs2[c].live /\ cs2[c].rc = 0 /\ cs2[c].ref["_G"] = Global
               /\ \A s \in Slot : s # "_G" => cs2[c].ref[s] = Null
               /\ CtxChanged(cs, cs2, c, "_G")
<1> DEFINE n1 == [NoContext EXCEPT !.live = TRUE]
           r == [n1.ref EXCEPT !["_G"] = Global]
           n == [n1 EXCEPT !.ref = r]
           cs2 == Forked(cs, c)
<1>1. NoContext \in Context /\ NoContext.rc = 0 /\ NoContext.ref = [s \in Slot |-> Null]
  BY Names DEF NoContext, Context, Val
<1>2. n1 \in Context /\ n1.live /\ n1.rc = 0 /\ n1.ref = [s \in Slot |-> Null]
  BY <1>1 DEF Context
<1> HIDE DEF n1
<1>3. /\ r \in [Slot -> Val] /\ r["_G"] = Global /\ \A s \in Slot : s # "_G" => r[s] = Null
  BY <1>2, Names DEF Val
<1> HIDE DEF r
<1>4. n \in Context /\ n.live /\ n.rc = 0 /\ n.ref = r
  BY <1>2, <1>3 DEF Context
<1>5. cs2 = [cs EXCEPT ![c] = n]
  BY DEF Forked, n1, r
<1> HIDE DEF n, cs2
<1>6. cs2 \in Contexts /\ \A d \in Ctx : cs2[d] = IF d = c THEN n ELSE cs[d]
  BY <1>4, <1>5 DEF Contexts
<1>7. CtxChanged(cs, cs2, c, "_G")
  BY <1>3, <1>4, <1>6 DEF CtxChanged
<1> QED
  BY <1>3, <1>4, <1>6, <1>7 DEF cs2

LEMMA ForkEnlisted ==
    ASSUME NEW cs, NEW cs2, NEW st \in Seq(Ctx), NEW c \in Ctx, Enlisted(cs, st, "up"),
           ~cs[c].live, cs2[c].live, \A d \in Ctx : d # c => cs2[d] = cs[d]
    PROVE  Enlisted(cs2, <<c>> \o st, "up") /\ InList(<<c>> \o st, Root)
<1> DEFINE s2 == <<c>> \o st
<1>1. /\ s2 \in Seq(Ctx) /\ Len(s2) = Len(st) + 1 /\ Len(st) \in Nat /\ s2[1] = c
      /\ \A i \in 1 .. Len(st) : s2[i + 1] = st[i]
      /\ \A i \in 2 .. Len(st) + 1 : s2[i] = st[i - 1] /\ i - 1 \in 1 .. Len(st)
  BY ConsList
<1> HIDE DEF s2
<1>2. /\ \A i, j \in 1 .. Len(st) : st[i] = st[j] => i = j
      /\ \A d \in Ctx : cs[d].live <=> \E i \in 1 .. Len(st) : st[i] = d
      /\ cs[Root].live /\ cs[Root].ref["_G"] = Global
  BY DEF Enlisted
<1>3. \A i \in 1 .. Len(st) : st[i] # c
  BY <1>2
<1>4. \A i \in 1 .. Len(s2) : i = 1 \/ i \in 2 .. Len(st) + 1
  BY <1>1
<1>5. ASSUME NEW i \in 1 .. Len(s2), NEW j \in 1 .. Len(s2), s2[i] = s2[j]
      PROVE  i = j
  <2>1. CASE i = 1 /\ j = 1
    BY <2>1
  <2>2. CASE i = 1 /\ j \in 2 .. Len(st) + 1
    <3>1. s2[j] = st[j - 1] /\ j - 1 \in 1 .. Len(st)
      BY <1>1, <2>2
    <3>2. s2[i] = c
      BY <1>1, <2>2
    <3> QED
      BY <1>3, <1>5, <3>1, <3>2
  <2>3. CASE i \in 2 .. Len(st) + 1 /\ j = 1
    <3>1. s2[i] = st[i - 1] /\ i - 1 \in 1 .. Len(st)
      BY <1>1, <2>3
    <3>2. s2[j] = c
      BY <1>1, <2>3
    <3> QED
      BY <1>3, <1>5, <3>1, <3>2
  <2>4. CASE i \in 2 .. Len(st) + 1 /\ j \in 2 .. Len(st) + 1
    <3>1. i - 1 = j - 1
      <4>1. s2[i] = st[i - 1] /\ i - 1 \in 1 .. Len(st)
        BY <1>1, <2>4
      <4>2. s2[j] = st[j - 1] /\ j - 1 \in 1 .. Len(st)
        BY <1>1, <2>4
      <4>3. st[i - 1] = st[j - 1]
        BY <1>5, <4>1, <4>2
      <4> DEFINE k == i - 1
                 l == j - 1
      <4>4. k \in 1 .. Len(st) /\ l \in 1 .. Len(st) /\ st[k] = st[l]
        BY <4>1, <4>2, <4>3
      <4> HIDE DEF k, l
      <4>5. k = l
        BY <1>2, <4>4
      <4> QED
        BY <4>5 DEF k, l
    <3> QED
      BY <2>4, <3>1
  <2> QED
    BY <1>4, <2>1, <2>2, <2>3, <2>4
<1>6. ASSUME NEW d \in Ctx
      PROVE  cs2[d].live <=> \E i \in 1 .. Len(s2) : s2[i] = d
  <2>1. CASE d = c
    <3>1. 1 \in 1 .. Len(s2)
      BY <1>1
    <3> QED
      BY <1>1, <2>1, <3>1
  <2>2. CASE d # c
    <3>1. cs2[d].live = cs[d].live
      BY <2>2
    <3>2. ASSUME NEW i \in 1 .. Len(st), st[i] = d
          PROVE  \E j \in 1 .. Len(s2) : s2[j] = d
      <4>1. i + 1 \in 1 .. Len(s2) /\ s2[i + 1] = d
        BY <1>1, <3>2
      <4> QED
        BY <4>1
    <3>3. ASSUME NEW j \in 1 .. Len(s2), s2[j] = d
          PROVE  \E i \in 1 .. Len(st) : st[i] = d
      <4>1. j \in 2 .. Len(st) + 1
        BY <1>1, <1>4, <2>2, <3>3
      <4> QED
        BY <1>1, <3>3, <4>1
    <3> QED
      BY <1>2, <3>1, <3>2, <3>3
  <2> QED
    BY <2>1, <2>2
<1>7. cs2[Root].live /\ cs2[Root].ref["_G"] = Global
  BY <1>2, Names
<1>8. Enlisted(cs2, s2, "up")
  BY <1>5, <1>6, <1>7 DEF Enlisted
<1>9. InList(s2, Root)
  BY <1>6, <1>7, Names DEF InList
<1> QED
  BY <1>8, <1>9 DEF s2

LEMMA ForkSound ==
    ASSUME HeapInv, Idle, NEW c \in Ctx, ~context[c].live
    PROVE  LET os == Acquire(obj, Global)
               cs == Forked(context, c)
               st == <<c>> \o states
           IN  /\ os \in Objects /\ cs \in Contexts /\ st \in Seq(Ctx)
               /\ Alike(obj, os) /\ KinCtx(context, cs) /\ Alive(os, cs, c)
               /\ Sound(os, cs, st, array, redblue, gcrun, calls, "up")
<1> DEFINE os == Acquire(obj, Global)
           cs == Forked(context, c)
           st == <<c>> \o states
<1>0. /\ obj \in Objects /\ context \in Contexts /\ states \in Seq(Ctx)
      /\ Laid(obj, context, states, array, redblue, gcrun, calls, engine)
      /\ Counted(obj, context, array, calls, engine)
  BY Types
<1>1. /\ calls = <<>> /\ engine = "up" /\ gcrun = FALSE /\ Under(calls) = {}
      /\ context[Root].live /\ \A d : Extra(calls, engine, d) = Bit(d = Root)
  BY IdleFacts
<1>2. Clean(obj, context, array) /\ Enlisted(context, states, "up") /\ Shape(calls, "up", gcrun)
  BY <1>0, <1>1 DEF Laid
<1>3. os \in Objects /\ Alike(obj, os) /\ \A o \in Obj : os[o].rc = obj[o].rc + Bit(o = Global)
  BY <1>0, AcquireFacts
<1>4. /\ cs \in Contexts /\ \A d \in Ctx : d # c => cs[d] = context[d]
      /\ cs[c].live /\ cs[c].rc = 0 /\ cs[c].ref["_G"] = Global
      /\ \A s \in Slot : s # "_G" => cs[c].ref[s] = Null
      /\ CtxChanged(context, cs, c, "_G")
  <2>1. \A s \in Slot : context[c].ref[s] = Null
    BY <1>2 DEF Clean
  <2> QED
    BY <1>0, <2>1, ForkedFacts
<1>5. st \in Seq(Ctx)
  BY <1>0, ConsList
<1> HIDE DEF os, cs
<1>6. Enlisted(cs, st, "up") /\ InList(st, Root)
  BY <1>0, <1>2, <1>4, ForkEnlisted
<1> HIDE DEF st
<1>7. c # Root
  BY <1>1
<1>8. KinCtx(context, cs)
  BY <1>4 DEF KinCtx
<1>9. \A u : Alive(obj, context, u) => Alive(os, cs, u)
  BY <1>3, <1>8 DEF Alive, Alike, KinCtx
<1>10. Alive(os, cs, Global) /\ Alive(os, cs, Null)
  <2>1. Alive(obj, context, context[Root].ref["_G"])
    BY <1>2, Names DEF Clean
  <2>2. context[Root].ref["_G"] = Global
    BY <1>2 DEF Enlisted
  <2> QED
    BY <1>9, <2>1, <2>2, Names DEF Alive
<1>11. Clean(os, cs, array)
  <2>1. \A x \in Obj, f \in Field : Alive(os, cs, os[x].ref[f])
    BY <1>2, <1>3, <1>9 DEF Clean, Alike
  <2>2. ASSUME NEW d \in Ctx, NEW s \in Slot
        PROVE  Alive(os, cs, cs[d].ref[s])
    <3>1. CASE d = c
      BY <1>4, <1>10, <3>1
    <3>2. CASE d # c
      BY <1>2, <1>4, <1>9, <3>2 DEF Clean
    <3> QED
      BY <3>1, <3>2
  <2>3. \A x \in Obj, f \in Field : ~os[x].live => os[x].ref[f] = Null
    BY <1>2, <1>3 DEF Clean, Alike
  <2>4. \A d \in Ctx, s \in Slot : ~cs[d].live => cs[d].ref[s] = Null
    BY <1>2, <1>4 DEF Clean
  <2> QED
    BY <1>2, <1>9, <2>1, <2>2, <2>3, <2>4 DEF Clean
<1>12. Fits(os, cs, st, array, redblue, gcrun, calls)
  BY <1>0, <1>1 DEF Laid, Fits
<1>13. Coloured(os, cs, array, redblue, gcrun, calls)
  <2>1. \A x \in Obj : obj[x].live => obj[x].mark = redblue /\ ~obj[x].done
    BY <1>0, <1>1 DEF Laid, Coloured
  <2>2. \A x \in Obj : os[x].live => os[x].mark = redblue /\ ~os[x].done
    BY <1>3, <2>1 DEF Alike
  <2> QED
    BY <1>1, <2>2 DEF Coloured
<1>14. Laid(os, cs, st, array, redblue, gcrun, calls, "up")
  BY <1>1, <1>2, <1>6, <1>11, <1>12, <1>13 DEF Laid, TopFits, Gone
<1>15. \A u : u # Null => /\ Count(os, cs, array, u)
                               = Count(obj, context, array, u) + Bit(Global = u)
                          /\ Count(obj, context, array, u) \in Nat
  <2>1. SUFFICES ASSUME NEW u, u # Null
                 PROVE  /\ Count(os, cs, array, u)
                             = Count(obj, context, array, u) + Bit(Global = u)
                        /\ Count(obj, context, array, u) \in Nat
    OBVIOUS
  <2>2. Count(os, cs, array, u) = Count(obj, cs, array, u)
    <3>1. AlikeCtx(cs, cs)
      BY DEF AlikeCtx
    <3> QED
      BY <1>3, <3>1, CountAlike
  <2>3. Count(obj, cs, array, u)
          = Count(obj, context, array, u) + Bit(cs[c].ref["_G"] = u)
            - Bit(context[c].ref["_G"] = u)
    <3>1. "_G" \in Slot /\ CtxChanged(context, cs, c, "_G")
      BY <1>4, Names
    <3> QED
      BY <3>1, SlotCount
  <2>4. Bit(context[c].ref["_G"] = u) = 0 /\ Bit(cs[c].ref["_G"] = u) = Bit(Global = u)
    BY <1>2, <1>4, <2>1, Names DEF Clean, Bit
  <2>5. Count(obj, context, array, u) \in Nat
    BY CountType
  <2>6. Bit(Global = u) \in 0 .. 1
    BY DEF Bit
  <2> QED
    BY <2>2, <2>3, <2>4, <2>5, <2>6
<1>16. Counted(os, cs, array, calls, "up")
  <2>1. ASSUME NEW o \in Obj, os[o].live
        PROVE  os[o].rc = Count(os, cs, array, o)
    <3>1. obj[o].rc = Count(obj, context, array, o)
      BY <1>0, <1>3, <2>1 DEF Counted, Alike
    <3>2. Count(os, cs, array, o) = Count(obj, context, array, o) + Bit(Global = o)
      BY <1>15, Names
    <3>3. os[o].rc = obj[o].rc + Bit(o = Global)
      BY <1>3
    <3> QED
      BY <3>1, <3>2, <3>3 DEF Bit
  <2>2. ASSUME NEW d \in Ctx, cs[d].live
        PROVE  cs[d].rc = Count(os, cs, array, d) + Extra(calls, "up", d)
    <3>1. Bit(Global = d) = 0 /\ d # Null
      BY Names DEF Bit
    <3>2. Count(os, cs, array, d) = Count(obj, context, array, d)
          /\ Count(obj, context, array, d) \in Nat
      BY <1>15, <3>1
    <3>3. CASE d = c
      <4>1. NoRefs(obj, context, array, c)
        BY <1>2 DEF Clean, Alive, NoRefs
      <4>2. Count(obj, context, array, d) = 0
        BY <3>3, <4>1, CountZero
      <4>3. Extra(calls, "up", d) = 0
        BY <1>1, <1>7, <3>3 DEF Bit
      <4> QED
        BY <1>4, <3>2, <3>3, <4>2, <4>3
    <3>4. CASE d # c
      <4>1. context[d].live /\ cs[d].rc = context[d].rc
        BY <1>4, <2>2, <3>4
      <4>2. context[d].rc = Count(obj, context, array, d) + Extra(calls, "up", d)
        BY <1>0, <1>1, <4>1 DEF Counted
      <4> QED
        BY <3>2, <4>1, <4>2
    <3> QED
      BY <3>3, <3>4
  <2> QED
    BY <2>1, <2>2 DEF Counted
<1>17. Alive(os, cs, c)
  BY <1>4, <1>7, Names DEF Alive
<1>18. Sound(os, cs, st, array, redblue, gcrun, calls, "up")
  BY <1>14, <1>16 DEF Sound
<1> QED
  BY <1>3, <1>4, <1>5, <1>8, <1>17, <1>18 DEF os, cs, st

LEMMA ForkKeeps ==
    ASSUME HeapInv, NEW pl \in Place, NEW c \in Ctx, Fork(c, pl)
    PROVE  HeapInv'
<1> DEFINE os == Acquire(obj, Global)
           cs == Forked(context, c)
           st == <<c>> \o states
<1>1. /\ Idle /\ ~context[c].live /\ Write(os, cs, pl, c) /\ states' = st
      /\ UNCHANGED <<pool, array, redblue, gcrun, engine>>
  BY DEF Fork, Forked
<1>2. /\ os \in Objects /\ cs \in Contexts /\ st \in Seq(Ctx)
      /\ Alike(obj, os) /\ KinCtx(context, cs) /\ Alive(os, cs, c)
      /\ Sound(os, cs, st, array, redblue, gcrun, calls, "up")
  BY <1>1, ForkSound
<1> HIDE DEF os, cs, st
<1>3. Kin(obj, os)
  BY <1>2 DEF Kin, Alike
<1>4. pool \in Seq(Obj) /\ PoolFree(os, pool)
  <2>1. pool \in Seq(Obj) /\ PoolFree(obj, pool) /\ \A i \in 1 .. Len(pool) : pool[i] \in Obj
    BY Types
  <2> QED
    BY <1>2, <2>1 DEF PoolFree, Alike
<1>5. c \in Val /\ pool' = pool /\ UNCHANGED <<array, redblue, gcrun, engine>>
  BY <1>1 DEF Val
<1>6. /\ os \in Objects /\ cs \in Contexts /\ st \in Seq(Ctx) /\ KinCtx(context, cs)
      /\ Alive(os, cs, c) /\ Sound(os, cs, st, array, redblue, gcrun, calls, "up")
  BY <1>2
<1> QED
  BY <1>1, <1>3, <1>4, <1>5, <1>6, WriteKeeps

(* A context known to a script becomes the subthread of another.           *)
LEMMA AdoptKeeps ==
    ASSUME HeapInv, NEW p \in Known \cap Ctx, NEW c \in Known \cap Ctx, Adopt(p, c)
    PROVE  HeapInv'
<1> DEFINE cs2 == SetSlot(context, p, "sub", c)
           cs == AcquireCtx(cs2, c)
<1>1. /\ Idle /\ c # Root /\ context[p].ref["sub"] = Null /\ context' = cs
      /\ UNCHANGED <<obj, states, pool, array, redblue, gcrun, calls, engine>>
  BY DEF Adopt, SetSlot
<1>2. /\ obj \in Objects /\ context \in Contexts /\ states \in Seq(Ctx) /\ pool \in Seq(Obj)
      /\ array \in Obj \cup {Null} /\ redblue \in BOOLEAN /\ gcrun \in BOOLEAN
      /\ calls \in Seq(Call) /\ engine \in {"up", "closing", "down"} /\ PoolFree(obj, pool)
      /\ Counted(obj, context, array, calls, engine)
  BY Types
<1>3. /\ engine = "up" /\ Quiet(gcrun, calls)
      /\ Laid(obj, context, states, array, redblue, gcrun, calls, "up")
      /\ \A d : Extra(calls, engine, d) = Bit(d = Root)
  BY <1>1, IdleFacts, Types DEF Quiet
<1>4. /\ p \in Ctx /\ context[p].live /\ c \in Ctx /\ c \in Val /\ Alive(obj, context, c)
      /\ context[c].live
  BY <1>1, KnownFacts, Names DEF Val, Alive
<1>5. /\ cs2 \in Contexts /\ Laid(obj, cs2, states, array, redblue, gcrun, calls, "up")
      /\ \A d \in Ctx : cs2[d].live = context[d].live /\ cs2[d].rc = context[d].rc
      /\ Moved(obj, context, obj, cs2, array, c, context[p].ref["sub"])
  <2>1. "sub" \in OwnSlot /\ p \in Ctx /\ context[p].live /\ c \in Val /\ Alive(obj, context, c)
    BY <1>4 DEF OwnSlot
  <2> QED
    BY <1>2, <1>3, <2>1, SlotWritten
<1> HIDE DEF cs2
<1>6. cs \in Contexts /\ AlikeCtx(cs2, cs) /\ \A d \in Ctx : cs[d].rc = cs2[d].rc + Bit(d = c)
  BY <1>5, AcquireCtxFacts
<1> HIDE DEF cs
<1>7. Alike(obj, obj)
  BY DEF Alike
<1>8. Laid(obj, cs, states, array, redblue, gcrun, calls, "up")
  BY <1>2, <1>5, <1>6, <1>7, LaidAlike
<1>9. \A u : u # Null => /\ Count(obj, cs, array, u)
                              = Count(obj, context, array, u) + Bit(c = u)
                         /\ Count(obj, context, array, u) \in Nat
  <2>1. SUFFICES ASSUME NEW u, u # Null
                 PROVE  /\ Count(obj, cs, array, u)
                             = Count(obj, context, array, u) + Bit(c = u)
                        /\ Count(obj, context, array, u) \in Nat
    OBVIOUS
  <2>2. Count(obj, cs, array, u) = Count(obj, cs2, array, u)
    BY <1>6, <1>7, CountAlike
  <2>3. Count(obj, cs2, array, u) = Count(obj, context, array, u) + Bit(c = u) - Bit(Null = u)
    BY <1>1, <1>5 DEF Moved
  <2>4. Count(obj, context, array, u) \in Nat
    BY CountType
  <2> QED
    BY <2>1, <2>2, <2>3, <2>4 DEF Bit
<1>10. Counted(obj, cs, array, calls, engine)
  <2>1. ASSUME NEW o \in Obj, obj[o].live
        PROVE  obj[o].rc = Count(obj, cs, array, o)
    <3>1. obj[o].rc = Count(obj, context, array, o)
      BY <1>2, <2>1 DEF Counted
    <3>2. Bit(c = o) = 0 /\ o # Null
      BY <1>4, Names DEF Bit
    <3> QED
      BY <1>9, <3>1, <3>2
  <2>2. ASSUME NEW d \in Ctx, cs[d].live
        PROVE  cs[d].rc = Count(obj, cs, array, d) + Extra(calls, engine, d)
    <3>1. context[d].live
      BY <1>5, <1>6, <2>2 DEF AlikeCtx
    <3>2. context[d].rc = Count(obj, context, array, d) + Extra(calls, engine, d)
      BY <1>2, <3>1 DEF Counted
    <3>3. cs[d].rc = context[d].rc + Bit(d = c)
      BY <1>5, <1>6
    <3>4. /\ Count(obj, cs, array, d) = Count(obj, context, array, d) + Bit(c = d)
          /\ Count(obj, context, array, d) \in Nat
      BY <1>9, Names
    <3>5. Extra(calls, engine, d) = Bit(d = Root)
      BY <1>3
    <3> DEFINE n == Count(obj, context, array, d)
               m == Count(obj, cs, array, d)
               e == Extra(calls, engine, d)
    <3>6. cs[d].rc = n + e + Bit(d = c) /\ m = n + Bit(c = d) /\ n \in Nat /\ e = Bit(d = Root)
      BY <3>2, <3>3, <3>4, <3>5
    <3> HIDE DEF n, m, e
    <3>7. cs[d].rc = m + e
      BY <3>6 DEF Bit
    <3> QED
      BY <3>7 DEF m, e
  <2> QED
    BY <2>1, <2>2 DEF Counted
<1>11. Laid(obj, cs, states, array, redblue, gcrun, calls, engine)
  BY <1>3, <1>8
<1>12. /\ obj' = obj /\ context' = cs /\ states' = states /\ pool' = pool /\ array' = array
       /\ redblue' = redblue /\ gcrun' = gcrun /\ calls' = calls /\ engine' = engine
  BY <1>1 DEF cs
<1>13. cs \in Contexts
  BY <1>6
<1> QED
  BY <1>2, <1>10, <1>11, <1>12, <1>13, Stepped

LEMMA ScriptKeeps ==
    ASSUME HeapInv, Script
    PROVE  HeapInv'
<1>1. ASSUME NEW pl \in Place, NEW v \in (Known \ {Root}) \cup {Null}, Assign(pl, v)
      PROVE  HeapInv'
  BY <1>1, AssignKeeps
<1>2. ASSUME NEW pl \in Place, NEW o \in Obj, NewObject(o, pl)
      PROVE  HeapInv'
  BY <1>2, NewObjectKeeps
<1>3. ASSUME NEW pl \in Place, NEW c \in Ctx, Fork(c, pl)
      PROVE  HeapInv'
  BY <1>3, ForkKeeps
<1>4. ASSUME NEW p \in Known \cap Ctx, NEW c \in Known \cap Ctx, Adopt(p, c)
      PROVE  HeapInv'
  BY <1>4, AdoptKeeps
<1>5. Collect => HeapInv'
  BY CollectKeeps
<1>6. Destroy => HeapInv'
  BY DestroyKeeps
<1> QED
  BY <1>1, <1>2, <1>3, <1>4, <1>5, <1>6 DEF Script

LEMMA StepKeeps ==
    ASSUME HeapInv, Step
    PROVE  HeapInv'
<1>1. ASSUME NEW f \in Field, DropField(f)
      PROVE  HeapInv'
  BY <1>1, DropFieldKeeps
<1>2. ASSUME NEW s \in Slot, DropSlot(s)
      PROVE  HeapInv'
  BY <1>2, DropSlotKeeps
<1>3. ASSUME NEW p \in Ctx, LeaveOwner(p)
      PROVE  HeapInv'
  BY <1>3, LeaveOwnerKeeps
<1>4. ASSUME NEW o \in Obj, SweepDestruct(o)
      PROVE  HeapInv'
  BY <1>4, SweepDestructKeeps
<1>5. ASSUME NEW o \in Obj, SweepFree(o)
      PROVE  HeapInv'
  BY <1>5, SweepFreeKeeps
<1>6. FreeObject => HeapInv'
  BY FreeObjectKeeps
<1>7. Destructed => HeapInv'
  BY DestructedKeeps
<1>8. ContextCleared => HeapInv'
  BY ContextClearedKeeps
<1>9. DestroyContext => HeapInv'
  BY DestroyContextKeeps
<1>10. DestroyLast => HeapInv'
  BY DestroyLastKeeps
<1>11. LastDestroyed => HeapInv'
  BY LastDestroyedKeeps
<1>12. Mark => HeapInv'
  BY MarkKeeps
<1>13. SweepEnds => HeapInv'
  BY SweepEndsKeeps
<1>14. Round => HeapInv'
  BY RoundKeeps
<1>15. ClearOne => HeapInv'
  BY ClearOneKeeps
<1>16. ClearNext => HeapInv'
  BY ClearNextKeeps
<1>17. Pick => HeapInv'
  BY PickKeeps
<1>18. Down => HeapInv'
  BY DownKeeps
<1> QED
  BY <1>1, <1>2, <1>3, <1>4, <1>5, <1>6, <1>7, <1>8, <1>9, <1>10, <1>11, <1>12, <1>13,
     <1>14, <1>15, <1>16, <1>17, <1>18 DEF Step

LEMMA StutterKeeps ==
    ASSUME HeapInv, UNCHANGED vars
    PROVE  HeapInv'
<1>1. /\ obj' = obj /\ context' = context /\ states' = states /\ pool' = pool /\ array' = array
      /\ redblue' = redblue /\ gcrun' = gcrun /\ calls' = calls /\ engine' = engine
  BY DEF vars
<1> QED
  BY <1>1, Types, Stepped

---------------------------------------------------------------------------
(* The engine after sgs_CreateEngine.                                      *)
LEMMA InitObjects ==
    ASSUME Init
    PROVE  /\ obj \in Objects
           /\ \A o \in Obj : /\ obj[o].live <=> o \in {Array, Global}
                             /\ ~obj[o].done /\ obj[o].mark = FALSE
                             /\ \A f \in Field :
                                   obj[o].ref[f] = IF o = Global THEN Array ELSE Null
           /\ obj[Array].rc = 1 + Cardinality(Field) /\ obj[Global].rc = 1
<1> DEFINE n == Cardinality(Field)
           a1 == [NoObject EXCEPT !.live = TRUE]
           a == [a1 EXCEPT !.rc = 1 + n]
           r == [f \in Field |-> Array]
           g1 == [a1 EXCEPT !.rc = 1]
           g == [g1 EXCEPT !.ref = r]
<1>1. n \in Nat
  BY FiniteAssumption, FS_CardinalityType
<1>2. /\ NoObject \in Object /\ ~NoObject.live /\ ~NoObject.done /\ NoObject.mark = FALSE
      /\ \A f \in Field : NoObject.ref[f] = Null
  BY Names DEF NoObject, Object, Val
<1>3. /\ a1 \in Object /\ a1.live /\ ~a1.done /\ a1.mark = FALSE /\ a1.ref = NoObject.ref
  BY <1>2 DEF Object
<1>4. r \in [Field -> Val] /\ \A f \in Field : r[f] = Array
  BY Names DEF Val
<1>5. obj = [o \in Obj |-> IF o = Array THEN a ELSE IF o = Global THEN g ELSE NoObject]
  BY DEF Init
<1> HIDE DEF n, a1, r
<1>6. /\ a \in Object /\ a.live /\ ~a.done /\ a.mark = FALSE /\ a.ref = NoObject.ref
      /\ a.rc = 1 + n
  BY <1>1, <1>3 DEF Object
<1>7. /\ g1 \in Object /\ g1.live /\ ~g1.done /\ g1.mark = FALSE /\ g1.rc = 1
  BY <1>3 DEF Object
<1> HIDE DEF g1
<1>8. g \in Object /\ g.live /\ ~g.done /\ g.mark = FALSE /\ g.ref = r /\ g.rc = 1
  BY <1>4, <1>7 DEF Object
<1> HIDE DEF a, g
<1>9. /\ obj \in Objects
      /\ \A o \in Obj : obj[o] = IF o = Array THEN a ELSE IF o = Global THEN g ELSE NoObject
  BY <1>2, <1>5, <1>6, <1>8 DEF Objects
<1>10. Array # Global /\ Array \in Obj /\ Global \in Obj
  BY NameAssumption
<1>11. \A o \in Obj : /\ obj[o].live <=> o \in {Array, Global}
                      /\ ~obj[o].done /\ obj[o].mark = FALSE
  BY <1>2, <1>6, <1>8, <1>9, <1>10
<1>12. \A o \in Obj, f \in Field : obj[o].ref[f] = IF o = Global THEN Array ELSE Null
  BY <1>2, <1>4, <1>6, <1>8, <1>9, <1>10
<1>13. obj[Array].rc = 1 + n /\ obj[Global].rc = 1
  BY <1>6, <1>8, <1>9, <1>10
<1> QED
  BY <1>9, <1>11, <1>12, <1>13 DEF n

LEMMA InitContexts ==
    ASSUME Init
    PROVE  /\ context \in Contexts
           /\ \A c \in Ctx : /\ context[c].live <=> c = Root
                             /\ \A s \in Slot : context[c].ref[s] =
                                   IF c = Root /\ s = "_G" THEN Global ELSE Null
           /\ context[Root].rc = 1
<1> DEFINE n1 == [NoContext EXCEPT !.live = TRUE]
           n2 == [n1 EXCEPT !.rc = 1]
           r == [n2.ref EXCEPT !["_G"] = Global]
           n == [n2 EXCEPT !.ref = r]
<1>1. NoContext \in Context /\ ~NoContext.live /\ NoContext.ref = [s \in Slot |-> Null]
  BY Names DEF NoContext, Context, Val
<1>2. n1 \in Context /\ n1.live /\ n1.ref = NoContext.ref
  BY <1>1 DEF Context
<1> HIDE DEF n1
<1>3. n2 \in Context /\ n2.live /\ n2.rc = 1 /\ n2.ref = NoContext.ref
  BY <1>2 DEF Context
<1>4. context = [c \in Ctx |-> IF c = Root THEN n ELSE NoContext]
  BY DEF Init, n1
<1> HIDE DEF n2
<1>5. /\ r \in [Slot -> Val] /\ r["_G"] = Global /\ \A s \in Slot : s # "_G" => r[s] = Null
  BY <1>1, <1>3, Names DEF Val
<1> HIDE DEF r
<1>6. n \in Context /\ n.live /\ n.rc = 1 /\ n.ref = r
  BY <1>3, <1>5 DEF Context
<1> HIDE DEF n
<1>7. /\ context \in Contexts
      /\ \A c \in Ctx : context[c] = IF c = Root THEN n ELSE NoContext
  BY <1>1, <1>4, <1>6 DEF Contexts
<1>8. \A c \in Ctx, s \in Slot : context[c].ref[s] =
                                    IF c = Root /\ s = "_G" THEN Global ELSE Null
  BY <1>1, <1>5, <1>6, <1>7
<1>9. \A c \in Ctx : context[c].live <=> c = Root
  BY <1>1, <1>6, <1>7
<1>10. context[Root].rc = 1
  BY <1>6, <1>7, Names
<1> QED
  BY <1>7, <1>8, <1>9, <1>10

LEMMA InitCount ==
    ASSUME Init
    PROVE  /\ Count(obj, context, Array, Array) = 1 + Cardinality(Field)
           /\ Count(obj, context, Array, Global) = 1
           /\ Count(obj, context, Array, Root) = 0
<1>1. /\ Array # Global /\ Array # Root /\ Array # Null /\ Global # Root /\ Global # Null
      /\ Root # Null /\ Global \in Obj /\ Root \in Ctx /\ "_G" \in Slot
  BY NameAssumption, Names
<1>2. \A o \in Obj, f \in Field : obj[o].ref[f] = IF o = Global THEN Array ELSE Null
  BY InitObjects
<1>3. \A c \in Ctx, s \in Slot : context[c].ref[s] =
                                    IF c = Root /\ s = "_G" THEN Global ELSE Null
  BY InitContexts
<1>4. ObjPlaces(obj, Array) = {Global} \X Field
  BY <1>1, <1>2 DEF ObjPlaces
<1>5. ObjPlaces(obj, Global) = {} /\ ObjPlaces(obj, Root) = {}
  BY <1>1, <1>2 DEF ObjPlaces
<1>6. CtxPlaces(context, Array) = {} /\ CtxPlaces(context, Root) = {}
  BY <1>1, <1>3 DEF CtxPlaces
<1>7. CtxPlaces(context, Global) = {<<Root, "_G">>}
  BY <1>1, <1>3 DEF CtxPlaces
<1>8. Cardinality({}) = 0 /\ Cardinality({<<Root, "_G">>}) = 1
  BY FS_EmptySet, FS_Singleton
<1>9. Cardinality({Global} \X Field) = Cardinality(Field) /\ Cardinality(Field) \in Nat
  <2>1. IsFiniteSet({Global}) /\ Cardinality({Global}) = 1
    BY FS_Singleton
  <2>2. Cardinality(Field) \in Nat
    BY FiniteAssumption, FS_CardinalityType
  <2>3. Cardinality({Global} \X Field) = Cardinality({Global}) * Cardinality(Field)
    BY <2>1, FiniteAssumption, FS_Product
  <2> QED
    BY <2>1, <2>2, <2>3
<1> QED
  BY <1>1, <1>4, <1>5, <1>6, <1>7, <1>8, <1>9 DEF Count

LEMMA InitInv ==
    ASSUME Init
    PROVE  HeapInv
<1>1. /\ states = <<Root>> /\ pool = <<>> /\ array = Array /\ redblue = FALSE /\ gcrun = FALSE
      /\ calls = <<>> /\ engine = "up"
  BY DEF Init
<1>2. /\ obj \in Objects
      /\ \A o \in Obj : /\ obj[o].live <=> o \in {Array, Global}
                        /\ ~obj[o].done /\ obj[o].mark = FALSE
      /\ \A o \in Obj, f \in Field : obj[o].ref[f] = IF o = Global THEN Array ELSE Null
      /\ obj[Array].rc = 1 + Cardinality(Field) /\ obj[Global].rc = 1
  BY InitObjects
<1>3. /\ context \in Contexts /\ \A c \in Ctx : context[c].live <=> c = Root
      /\ \A c \in Ctx, s \in Slot : context[c].ref[s] =
                                       IF c = Root /\ s = "_G" THEN Global ELSE Null
      /\ context[Root].rc = 1
  BY InitContexts
<1>4. /\ Len(states) = 1 /\ states[1] = Root /\ states \in Seq(Ctx) /\ pool \in Seq(Obj)
      /\ calls \in Seq(Call) /\ Len(pool) = 0
  BY <1>1, Names
<1>5. TypeOK
  BY <1>1, <1>2, <1>3, <1>4, Names DEF TypeOK, Objects, Contexts
<1>6. Clean(obj, context, array)
  <2>1. Alive(obj, context, Array) /\ Alive(obj, context, Global) /\ Alive(obj, context, Null)
    BY <1>2, Names DEF Alive
  <2> QED
    BY <1>1, <1>2, <1>3, <2>1 DEF Clean
<1>7. Enlisted(context, states, "up") /\ InList(states, Root)
  <2>1. \A i \in 1 .. Len(states) : i = 1
    BY <1>4
  <2>2. 1 \in 1 .. Len(states)
    BY <1>4
  <2>3. context[Root].ref["_G"] = Global /\ context[Root].live
    BY <1>3, Names
  <2> QED
    BY <1>3, <1>4, <2>1, <2>2, <2>3 DEF Enlisted, InList
<1>8. Under(calls) = {}
  BY <1>1, UnderNone
<1>9. Shape(calls, "up", gcrun)
  BY <1>1, <1>8 DEF Shape, Chain, Based, Busy
<1>10. Fits(obj, context, states, array, redblue, gcrun, calls)
  BY <1>1, <1>8 DEF Fits, Apart
<1>11. Coloured(obj, context, array, redblue, gcrun, calls)
  BY <1>1, <1>2 DEF Coloured
<1>12. Laid(obj, context, states, array, redblue, gcrun, calls, engine)
  BY <1>1, <1>6, <1>7, <1>9, <1>10, <1>11 DEF Laid, TopFits, Gone
<1>13. Counted(obj, context, array, calls, engine)
  <2>1. \A c : Extra(calls, engine, c) = IF c = Root THEN 1 ELSE 0
    BY <1>1, <1>8 DEF Extra, Kept, Holds
  <2>2. \A o \in Obj : obj[o].live => obj[o].rc = Count(obj, context, array, o)
    BY <1>1, <1>2, InitCount
  <2>3. context[Root].rc = Count(obj, context, array, Root) + Extra(calls, engine, Root)
    BY <1>1, <1>3, <2>1, InitCount
  <2> QED
    BY <1>3, <2>2, <2>3 DEF Counted
<1>14. PoolFree(obj, pool)
  <2>1. \A i \in 1 .. Len(pool) : FALSE
    BY <1>4
  <2>2. Len(pool) <= PoolMax
    BY <1>4, SizeAssumption
  <2> QED
    BY <2>1, <2>2 DEF PoolFree, Ordered
<1> QED
  BY <1>5, <1>12, <1>13, <1>14 DEF HeapInv, Sound

(* Every reachable state satisfies the invariant.                          *)
THEOREM HeapInvariant == Spec => []HeapInv
<1>1. Init => HeapInv
  BY InitInv
<1>2. HeapInv /\ [Next]_vars => HeapInv'
  BY ScriptKeeps, StepKeeps, StutterKeeps DEF Next
<1> QED
  BY <1>1, <1>2, PTL DEF Spec

---------------------------------------------------------------------------
(* The properties.                                                         *)

(* Every variable keeps its type, and no count of a live object or context *)
(* becomes negative: VAR_RELEASE and sgsCTX_FreeState give back what was   *)
(* acquired, once.                                                         *)
CountsNatural ==
    /\ \A o \in LiveObj : obj[o].rc \in Nat
    /\ \A c \in LiveCtx : context[c].rc \in Nat

THEOREM HeapTypes == Spec => [](TypeOK /\ CountsNatural)
<1>1. ASSUME HeapInv
      PROVE  TypeOK /\ CountsNatural
  <2>1. TypeOK /\ Counted(obj, context, array, calls, engine)
    BY <1>1, Types DEF HeapInv
  <2>2. \A v : Count(obj, context, array, v) \in Nat
    BY CountType
  <2>3. \A c : Extra(calls, engine, c) \in Nat
    BY DEF Extra
  <2>4. \A o \in LiveObj : obj[o].rc \in Nat
    BY <2>1, <2>2 DEF Counted, LiveObj
  <2>5. ASSUME NEW c \in LiveCtx PROVE context[c].rc \in Nat
    <3>1. context[c].rc = Count(obj, context, array, c) + Extra(calls, engine, c)
      BY <2>1 DEF Counted, LiveCtx
    <3> QED
      BY <2>2, <2>3, <3>1
  <2> QED
    BY <2>1, <2>4, <2>5 DEF CountsNatural
<1> QED
  BY <1>1, HeapInvariant, PTL

LEMMA ReferencesCount ==
    ASSUME HeapInv, NEW v, v # Null
    PROVE  References(v) = Count(obj, context, array, v)
<1>1. Clean(obj, context, array)
  BY Types DEF Laid
<1>2. {pl \in LiveObj \X Field : obj[pl[1]].ref[pl[2]] = v} = ObjPlaces(obj, v)
  BY <1>1 DEF Clean, LiveObj, ObjPlaces
<1>3. {pl \in LiveCtx \X Slot : context[pl[1]].ref[pl[2]] = v} = CtxPlaces(context, v)
  BY <1>1 DEF Clean, LiveCtx, CtxPlaces
<1> QED
  BY <1>2, <1>3 DEF References, Count

LEMMA FramesCount ==
    ASSUME HeapInv, NEW c \in Ctx
    PROVE  Cardinality(Frames({"free", "safe"}, c)) = IF Kept(calls, c) THEN 1 ELSE 0
<1> DEFINE F == Frames({"free", "safe"}, c)
<1>1. \A i, j \in F : i = j
  <2>1. Apart(calls)
    BY Types DEF Laid, Fits
  <2> QED
    BY <2>1 DEF Frames, Apart, Clash
<1>2. Kept(calls, c) <=> F # {}
  BY DEF Kept, Under, Frames
<1> HIDE DEF F
<1>3. CASE F = {}
  BY <1>2, <1>3, FS_EmptySet DEF F
<1>4. CASE F # {}
  <2>1. PICK i \in F : TRUE
    BY <1>4
  <2>2. F = {i}
    BY <1>1, <2>1
  <2> QED
    BY <1>2, <1>4, <2>2, FS_Singleton DEF F
<1> QED
  BY <1>3, <1>4

(* Every count is exact, in the middle of destructors and sweeps, while    *)
(* contexts are cleared and while the engine is destroyed.                 *)
THEOREM ExactCounts == Spec => []RcExact
<1>1. ASSUME HeapInv
      PROVE  RcExact
  <2>1. Counted(obj, context, array, calls, engine)
    BY <1>1, Types
  <2>2. \A o \in LiveObj : obj[o].rc = References(o)
    BY <1>1, <2>1, ReferencesCount, Names DEF Counted, LiveObj
  <2>3. EngineHolds <=> Holds(calls, engine)
    BY DEF EngineHolds, Holds, Under
  <2>4. ASSUME NEW c \in LiveCtx
        PROVE  context[c].rc = References(c) + Cardinality(Frames({"free", "safe"}, c))
                                 + (IF c = Root /\ EngineHolds THEN 1 ELSE 0)
    <3>1. c \in Ctx /\ context[c].live /\ c # Null
      BY Names DEF LiveCtx
    <3>2. context[c].rc = Count(obj, context, array, c) + Extra(calls, engine, c)
      BY <2>1, <3>1 DEF Counted
    <3>3. References(c) = Count(obj, context, array, c) /\ Count(obj, context, array, c) \in Nat
      BY <1>1, <3>1, ReferencesCount, CountType
    <3>4. Cardinality(Frames({"free", "safe"}, c)) = IF Kept(calls, c) THEN 1 ELSE 0
      BY <1>1, <3>1, FramesCount
    <3> QED
      BY <2>3, <3>2, <3>3, <3>4 DEF Extra
  <2> QED
    BY <2>2, <2>4 DEF RcExact
<1> QED
  BY <1>1, HeapInvariant, PTL

(* No value and no call under way refers to a freed block.                 *)
THEOREM NothingDangles == Spec => []NoDangling
<1>1. ASSUME HeapInv
      PROVE  NoDangling
  <2> DEFINE L == LiveObj \cup LiveCtx \cup {Null}
  <2>1. /\ Clean(obj, context, array) /\ Enlisted(context, states, engine)
        /\ \A f \in Under(calls) : FrameFits(obj, context, states, array, redblue, gcrun, f)
        /\ obj \in Objects /\ context \in Contexts /\ array \in Obj \cup {Null}
        /\ calls \in Seq(Call)
    BY <1>1, Types DEF Laid, Fits
  <2>2. \A v \in Val : Alive(obj, context, v) => v \in L
    BY DEF Val, Alive, LiveObj, LiveCtx
  <2>3. ASSUME NEW x \in LiveObj \cup LiveCtx, NEW v \in Refs(x)
        PROVE  v \in L
    <3>1. CASE x \in Obj
      <4>1. PICK f \in Field : v = obj[x].ref[f]
        BY <3>1, RefsFacts
      <4>2. v \in Val /\ Alive(obj, context, v)
        BY <2>1, <3>1, <4>1, ObjectFields DEF Clean
      <4> QED
        BY <2>2, <4>2
    <3>2. CASE x \in Ctx
      <4>1. PICK s \in Slot : v = context[x].ref[s]
        BY <3>2, RefsFacts
      <4>2. v \in Val /\ Alive(obj, context, v)
        BY <2>1, <3>2, <4>1, ContextFields DEF Clean
      <4> QED
        BY <2>2, <4>2
    <3> QED
      BY <3>1, <3>2 DEF LiveObj, LiveCtx
  <2>4. array \in L
    BY <2>1, <2>2 DEF Clean, Val
  <2>5. ASSUME NEW i \in 1 .. Len(calls)
        PROVE  calls[i].x \in L
    <3> DEFINE f == calls[i]
    <3>1. f \in Under(calls) /\ f \in Call
      BY <2>1 DEF Under
    <3>2. FrameFits(obj, context, states, array, redblue, gcrun, f)
      BY <2>1, <3>1
    <3> HIDE DEF f
    <3>3. CASE f.k \in {"destroy", "destruct"}
      <4>1. f.x \in Obj /\ obj[f.x].live
        BY <3>1, <3>2, <3>3, CallFields DEF FrameFits
      <4> QED
        BY <4>1 DEF LiveObj, f
    <3>4. CASE f.k \in {"free", "safe", "drop", "clear", "next"}
      <4>1. f.x \in Ctx /\ context[f.x].live
        BY <3>1, <3>2, <3>4, CallFields DEF FrameFits
      <4> QED
        BY <4>1 DEF LiveCtx, f
    <3>5. CASE f.k = "last"
      <4>1. f.x \in Ctx /\ states = <<f.x>>
        BY <3>1, <3>2, <3>5, CallFields DEF FrameFits
      <4>2. 1 \in 1 .. Len(states) /\ states[1] = f.x
        BY <4>1
      <4>3. context[f.x].live
        BY <2>1, <4>1, <4>2 DEF Enlisted
      <4> QED
        BY <4>1, <4>3 DEF LiveCtx, f
    <3>6. CASE f.k \in {"gc", "sweep", "round", "pick", "forced"}
      BY <3>1, <3>6, CallFields DEF f
    <3> QED
      BY <3>1, <3>3, <3>4, <3>5, <3>6, CallFields
  <2> HIDE DEF L
  <2> QED
    BY <2>3, <2>4, <2>5 DEF NoDangling, L
<1> QED
  BY <1>1, HeapInvariant, PTL

(* What the collector found, what it would find.                           *)
LEMMA FoundMarked ==
    ASSUME HeapInv
    PROVE  \A o \in Reach(Entries, Obj) : /\ o \in Obj /\ obj[o].live /\ ~obj[o].done
                                          /\ obj[o].mark = redblue
<1> DEFINE R == Reach(Entries, Obj)
           M == Marked(obj, redblue)
<1>1. Coloured(obj, context, array, redblue, gcrun, calls)
  BY Types DEF Laid
<1>2. R \subseteq LiveIn(obj)
  BY FoundFacts
<1>0. \A T \in SUBSET Obj :
        /\ array \in Obj => array \in T
        /\ Closed(obj, T)
        /\ \A c \in Ctx, s \in Slot : context[c].ref[s] \in Obj => context[c].ref[s] \in T
        => R \subseteq T
  BY FoundFacts
<1>3. CASE gcrun
  <2>1. /\ M \in SUBSET Obj
        /\ array \in Obj => array \in M
        /\ Closed(obj, M)
        /\ \A c \in Ctx, s \in Slot : context[c].ref[s] \in Obj => context[c].ref[s] \in M
        /\ \A o \in M : ~obj[o].done
    BY <1>1, <1>3 DEF Coloured, Marked
  <2> HIDE DEF R, M
  <2>2. R \subseteq M
    BY <1>0, <2>1
  <2> QED
    BY <2>1, <2>2 DEF M, R, Marked
<1>4. CASE ~gcrun
  <2>1. \A o \in Obj : obj[o].live => obj[o].mark = redblue /\ ~obj[o].done
    BY <1>1, <1>4 DEF Coloured
  <2> QED
    BY <1>2, <2>1 DEF LiveIn
<1> QED
  BY <1>3, <1>4

LEMMA FoundReferred ==
    ASSUME HeapInv
    PROVE  \A o \in Reach(Entries, Obj) : ~NoRefs(obj, context, array, o)
<1> DEFINE R == Reach(Entries, Obj)
           S == {o \in Obj : ~NoRefs(obj, context, array, o)}
<1>1. /\ S \in SUBSET Obj
      /\ array \in Obj => array \in S
      /\ Closed(obj, S)
      /\ \A c \in Ctx, s \in Slot : context[c].ref[s] \in Obj => context[c].ref[s] \in S
  BY DEF NoRefs, Closed
<1>0. \A T \in SUBSET Obj :
        /\ array \in Obj => array \in T
        /\ Closed(obj, T)
        /\ \A c \in Ctx, s \in Slot : context[c].ref[s] \in Obj => context[c].ref[s] \in T
        => R \subseteq T
  BY FoundFacts
<1> HIDE DEF R, S
<1>2. R \subseteq S
  BY <1>0, <1>1
<1> QED
  BY <1>2 DEF R, S

(* What a script could still reach is not being destructed.                *)
THEOREM ReachableStays == Spec => []ReachableIntact
<1>1. ASSUME HeapInv
      PROVE  ReachableIntact
  <2>1. ASSUME NEW o \in Reach(Entries, Obj)
        PROVE  obj[o].live /\ ~obj[o].done /\ Frames({"destroy", "destruct"}, o) = {}
    <3>1. o \in Obj /\ obj[o].live /\ ~obj[o].done /\ obj[o].mark = redblue
      BY <1>1, <2>1, FoundMarked
    <3>2. ~NoRefs(obj, context, array, o)
      BY <1>1, <2>1, FoundReferred
    <3>3. ASSUME NEW i \in 1 .. Len(calls), calls[i].k \in {"destroy", "destruct"}, calls[i].x = o
          PROVE  FALSE
      <4>1. FrameFits(obj, context, states, array, redblue, gcrun, calls[i])
        BY <1>1, Types DEF Laid, Fits, Under
      <4>2. CASE calls[i].k = "destroy"
        <5>1. Count(obj, context, array, o) = 0
          BY <3>3, <4>1, <4>2 DEF FrameFits
        <5> QED
          BY <3>2, <5>1, CountZero
      <4>3. CASE calls[i].k = "destruct"
        BY <3>1, <3>3, <4>1, <4>3 DEF FrameFits
      <4> QED
        BY <3>3, <4>2, <4>3
    <3> QED
      BY <3>1, <3>3 DEF Frames
  <2> QED
    BY <2>1 DEF ReachableIntact
<1> QED
  BY <1>1, HeapInvariant, PTL

(* The pool is sorted, within its size, and holds free blocks only.        *)
THEOREM PoolStaysSound == Spec => []PoolSound
<1>1. ASSUME HeapInv
      PROVE  PoolSound
  <2>1. Ordered(pool) /\ \A i \in 1 .. Len(pool) : ~obj[pool[i]].live
    BY <1>1, Types DEF PoolFree
  <2>2. InPool \cap LiveObj = {}
    BY <2>1 DEF InPool, LiveObj
  <2> QED
    BY <2>1, <2>2 DEF PoolSound, Ordered
<1> QED
  BY <1>1, HeapInvariant, PTL

---------------------------------------------------------------------------
(* The steps of the calls give no object another colour.                   *)
Fading ==
    /\ redblue' = redblue
    /\ \A o \in Obj : obj'[o].live => obj[o].live /\ obj'[o].mark = obj[o].mark

LEMMA AlikeFades ==
    ASSUME redblue' = redblue, Alike(obj, obj')
    PROVE  Fading
BY DEF Alike, Fading

LEMMA StepFades ==
    ASSUME HeapInv, Step
    PROVE  Mark \/ SweepEnds \/ (gcrun' = gcrun /\ Fading)
<1>0. obj \in Objects /\ \A o \in Obj : obj[o] = obj[o]
  BY Types
<1>1. ASSUME NEW f \in Field, DropField(f)
      PROVE  gcrun' = gcrun /\ Fading
  <2> DEFINE os == ClearField(obj, Top.x, f)
             v == obj[Top.x].ref[f]
  <2>1. /\ Top.k \in {"destroy", "destruct"} /\ obj' = Less(os, v)
        /\ redblue' = redblue /\ gcrun' = gcrun
    BY <1>1 DEF DropField, Drops, ClearField
  <2>2. Top.x \in Obj
    <3>1. Top \in Call
      BY <2>1, TopFacts
    <3> QED
      BY <2>1, <3>1, CallFields
  <2>3. os \in Objects /\ Fewer(obj, os)
    BY <1>0, <2>2, FieldCleared
  <2> HIDE DEF os, v
  <2>4. Alike(os, obj')
    BY <2>1, <2>3, LessFacts
  <2> QED
    BY <2>1, <2>3, <2>4 DEF Fewer, Alike, Fading
<1>2. ASSUME NEW s \in Slot, DropSlot(s)
      PROVE  gcrun' = gcrun /\ Fading
  <2> DEFINE v == context[Top.x].ref[s]
  <2>1. obj' = Less(obj, v) /\ redblue' = redblue /\ gcrun' = gcrun
    BY <1>2 DEF DropSlot, Drops
  <2> HIDE DEF v
  <2>2. Alike(obj, obj')
    BY <1>0, <2>1, LessFacts
  <2> QED
    BY <2>1, <2>2, AlikeFades
<1>3. ASSUME DestroyLast
      PROVE  gcrun' = gcrun /\ Fading
  <2>1. obj' = Less(obj, array) /\ redblue' = redblue /\ gcrun' = gcrun
    BY <1>3 DEF DestroyLast, Drops
  <2>2. Alike(obj, obj')
    BY <1>0, <2>1, LessFacts
  <2> QED
    BY <2>1, <2>2, AlikeFades
<1>4. ASSUME NEW x \in Obj, obj' = ObjFreed(obj, x), redblue' = redblue
      PROVE  Fading
  <2>1. ~obj'[x].live /\ \A o \in Obj : o # x => obj'[o] = obj[o]
    BY <1>0, <1>4, ObjFreedFacts
  <2> QED
    BY <1>4, <2>1 DEF Fading
<1>5. ASSUME NEW x \in Obj, SweepFree(x)
      PROVE  gcrun' = gcrun /\ Fading
  <2>1. obj' = ObjFreed(obj, x) /\ redblue' = redblue /\ gcrun' = gcrun
    BY <1>5 DEF SweepFree, ObjFreed
  <2> QED
    BY <1>4, <2>1
<1>6. ASSUME FreeObject
      PROVE  gcrun' = gcrun /\ Fading
  <2>1. /\ Top.k = "destroy" /\ obj' = ObjFreed(obj, Top.x)
        /\ redblue' = redblue /\ gcrun' = gcrun
    BY <1>6 DEF FreeObject, ObjFreed
  <2>2. Top.x \in Obj
    <3>1. Top \in Call
      BY <2>1, TopFacts
    <3> QED
      BY <2>1, <3>1, CallFields
  <2> QED
    BY <1>4, <2>1, <2>2
<1>7. ASSUME Destructed
      PROVE  gcrun' = gcrun /\ Fading
  <2>1. /\ obj' = [obj EXCEPT ![Top.x].done = TRUE] /\ redblue' = redblue /\ gcrun' = gcrun
    BY <1>7 DEF Destructed
  <2>2. \A o \in Obj : obj'[o].live = obj[o].live /\ obj'[o].mark = obj[o].mark
    BY <1>0, <2>1 DEF Objects, Object
  <2> QED
    BY <2>1, <2>2 DEF Fading
<1>8. ASSUME UNCHANGED <<obj, redblue, gcrun>>
      PROVE  gcrun' = gcrun /\ Fading
  BY <1>8 DEF Fading
<1>9. ASSUME \/ \E p \in Ctx : LeaveOwner(p)
             \/ \E o \in Obj : SweepDestruct(o)
             \/ ContextCleared \/ DestroyContext \/ LastDestroyed
             \/ Round \/ ClearOne \/ ClearNext \/ Pick \/ Down
      PROVE  UNCHANGED <<obj, redblue, gcrun>>
  BY <1>9 DEF LeaveOwner, SweepDestruct, ContextCleared, DestroyContext, LastDestroyed,
              Round, ClearOne, ClearNext, Pick, Down
<1> QED
  BY <1>1, <1>2, <1>3, <1>5, <1>6, <1>7, <1>8, <1>9 DEF Step

---------------------------------------------------------------------------
(* Threads are held: a context whose count is zero has been cleared, and   *)
(* while the engine is up it is about to be destroyed.  The root context   *)
(* is the engine's.                                                        *)
Leaving(cl, c) == \E f \in Under(cl) : f.k = "drop" /\ f.x = c
Owned(cs, cl, en) ==
    \A c \in Ctx \ {Root} : cs[c].live /\ cs[c].rc < 1 =>
        Bare(cs, c) /\ (en = "up" => Leaving(cl, c))
HeldInv == HeapInv /\ Owned(context, calls, engine)

LEMMA OwnedStays ==
    ASSUME NEW cs, NEW cs2, NEW cl, NEW cl2, NEW en, NEW en2, Owned(cs, cl, en),
           \A c \in Ctx \ {Root} : cs2[c].live /\ cs2[c].rc < 1 =>
               /\ cs[c].live /\ cs[c].rc < 1
               /\ Bare(cs, c) => Bare(cs2, c)
               /\ en2 = "up" => en = "up" /\ (Leaving(cl, c) => Leaving(cl2, c))
    PROVE  Owned(cs2, cl2, en2)
BY DEF Owned

LEMMA UnderMore ==
    ASSUME NEW cl \in Seq(Call), NEW new \in Seq(Call)
    PROVE  \A c : Leaving(cl, c) => Leaving(new \o cl, c)
<1>1. \A i \in 1 .. Len(cl) : /\ Len(new) + i \in 1 .. Len(new \o cl)
                              /\ (new \o cl)[Len(new) + i] = cl[i]
  OBVIOUS
<1>2. Under(cl) \subseteq Under(new \o cl)
  BY <1>1 DEF Under
<1> QED
  BY <1>2 DEF Leaving

LEMMA ThenCalls ==
    ASSUME NEW os, NEW cs, NEW v
    PROVE  Then(os, cs, v) \in Seq(Call)
<1>1. v \in Obj => Do("destroy", v) \in Call
  BY DoFacts
<1>2. v \in Ctx => Do("free", v) \in Call
  BY DoFacts
<1> QED
  BY <1>1, <1>2 DEF Then

(* A reference that a call drops takes no count below one.                 *)
LEMMA DropsOwned ==
    ASSUME HeldInv, NEW cs \in Contexts, FewerCtx(context, cs),
           \A c \in Ctx : cs[c].rc = context[c].rc,
           NEW os, NEW v, NEW next \in Seq(Call), context' = LessCtx(cs, v),
           calls' = Then(os, cs, v) \o next, engine' = engine,
           \A c \in Ctx \ {Root} : context[c].live /\ engine = "up" =>
               (Leaving(calls, c) => Leaving(next, c))
    PROVE  Owned(context', calls', engine')
<1>2. \A c : Leaving(next, c) => Leaving(calls', c)
  BY ThenCalls, UnderMore
<1>3. /\ AlikeCtx(cs, context')
      /\ \A c \in Ctx : context'[c].rc = cs[c].rc - Bit(c = v /\ cs[c].rc > 1)
      /\ \A c \in Ctx : cs[c].rc \in Int
  BY LessCtxFacts, ContextFields
<1>4. \A c \in Ctx : context'[c].rc < 1 => context[c].rc < 1
  BY <1>3 DEF Bit
<1>5. \A c \in Ctx : /\ context'[c].live = context[c].live
                     /\ Bare(context, c) => Bare(context', c)
  BY <1>3 DEF AlikeCtx, FewerCtx, Bare
<1>6. Owned(context, calls, engine)
  BY DEF HeldInv
<1>7. \A c \in Ctx \ {Root} : context'[c].live /\ context'[c].rc < 1 =>
         /\ context[c].live /\ context[c].rc < 1
         /\ Bare(context, c) => Bare(context', c)
         /\ engine' = "up" => engine = "up" /\ (Leaving(calls, c) => Leaving(calls', c))
  BY <1>2, <1>4, <1>5
<1> QED
  BY <1>6, <1>7, OwnedStays

(* What a script writes is referred to, and calls nothing before.          *)
LEMMA WriteOwned ==
    ASSUME HeldInv, Idle, NEW pl \in Place, NEW os, NEW cs \in Contexts, NEW v \in Val,
           \A c \in Ctx : cs[c].live => \/ context[c].live /\ cs[c].rc >= context[c].rc
                                        \/ c = v /\ cs[c].rc = 0,
           Write(os, cs, pl, v)
    PROVE  Owned(context', calls', engine')
<1> DEFINE cs1 == SetCtx(cs, pl, v)
           cs2 == AcquireCtx(cs1, v)
<1>1. context' = LessCtx(cs2, At(pl))
  BY DEF Write
<1>2. cs1 \in Contexts /\ \A c \in Ctx : cs1[c].live = cs[c].live /\ cs1[c].rc = cs[c].rc
  <2>1. CASE \E x \in Ctx, f \in Var : pl = <<x, f>>
    <3>1. PICK x \in Ctx, f \in Var : pl = <<x, f>>
      BY <2>1
    <3>2. cs1 = SetSlot(cs, x, f, v)
      BY <3>1 DEF SetCtx, SetSlot
    <3>3. f \in Slot
      BY DEF Slot
    <3> HIDE DEF cs1
    <3> QED
      BY <3>2, <3>3, SlotSet
  <2>2. CASE \E x \in Obj, f \in Field : pl = <<x, f>>
    BY <2>2, Names DEF SetCtx
  <2> QED
    BY <2>1, <2>2, PlaceFacts DEF HeldInv
<1> HIDE DEF cs1
<1>3. /\ cs2 \in Contexts /\ AlikeCtx(cs1, cs2)
      /\ \A c \in Ctx : cs2[c].rc = cs1[c].rc + Bit(c = v)
  BY <1>2, AcquireCtxFacts
<1> HIDE DEF cs2
<1>4. /\ AlikeCtx(cs2, context')
      /\ \A c \in Ctx : context'[c].rc = cs2[c].rc - Bit(c = At(pl) /\ cs2[c].rc > 1)
  BY <1>1, <1>3, LessCtxFacts
<1>5. \A c \in Ctx \ {Root} : context[c].live => context[c].rc >= 1
  <2>1. Owned(context, calls, engine) /\ Under(calls) = {} /\ engine = "up"
        /\ context \in Contexts
    BY IdleFacts, Types DEF HeldInv
  <2> QED
    BY <2>1, ContextFields DEF Owned, Leaving
<1>6. \A c \in Ctx : context[c].rc \in Int /\ cs[c].rc \in Int
  BY Types, ContextFields DEF HeldInv
<1>7. \A c \in Ctx \ {Root} : context'[c].live => context'[c].rc >= 1
  <2> TAKE c \in Ctx \ {Root}
  <2>1. /\ context'[c].live = cs[c].live /\ cs2[c].rc = cs[c].rc + Bit(c = v)
        /\ context'[c].rc = cs2[c].rc - Bit(c = At(pl) /\ cs2[c].rc > 1)
    BY <1>2, <1>3, <1>4 DEF AlikeCtx
  <2>2. cs[c].live => cs2[c].rc >= 1 /\ cs2[c].rc \in Int
    BY <1>5, <1>6, <2>1 DEF Bit
  <2> QED
    BY <2>1, <2>2 DEF Bit
<1>8. \A c \in Ctx : context'[c].rc \in Int
  BY <1>3, <1>4, ContextFields DEF Bit
<1> QED
  BY <1>7, <1>8 DEF Owned

LEMMA ScriptOwned ==
    ASSUME HeldInv, Script
    PROVE  Owned(context', calls', engine')
<1>0. /\ HeapInv /\ Owned(context, calls, engine) /\ context \in Contexts
      /\ \A c \in Ctx : context[c].rc \in Int
      /\ \A c \in Ctx : context[c].rc >= context[c].rc
  BY Types, ContextFields DEF HeldInv
<1>1. ASSUME NEW pl \in Place, NEW v \in (Known \ {Root}) \cup {Null}, Assign(pl, v)
      PROVE  Owned(context', calls', engine')
  <2>1. Idle /\ Write(obj, context, pl, v)
    BY <1>1 DEF Assign
  <2>2. v \in Val
    BY <1>0, <2>1, KnownFacts
  <2>3. \A c \in Ctx : context[c].live => \/ context[c].live /\ context[c].rc >= context[c].rc
                                          \/ c = v /\ context[c].rc = 0
    BY <1>0
  <2>4. context \in Contexts
    BY <1>0
  <2> QED
    BY <2>1, <2>2, <2>3, <2>4, WriteOwned
<1>2. ASSUME NEW pl \in Place, NEW o \in Obj, NewObject(o, pl)
      PROVE  Owned(context', calls', engine')
  <2> DEFINE os == [obj EXCEPT ![o] = [NoObject EXCEPT !.live = TRUE, !.mark = redblue]]
  <2>1. Idle /\ Write(os, context, pl, o)
    BY <1>2 DEF NewObject
  <2> HIDE DEF os
  <2>2. o \in Val
    BY DEF Val
  <2>3. \A c \in Ctx : context[c].live => \/ context[c].live /\ context[c].rc >= context[c].rc
                                          \/ c = o /\ context[c].rc = 0
    BY <1>0
  <2>4. context \in Contexts
    BY <1>0
  <2> QED
    BY <2>1, <2>2, <2>3, <2>4, WriteOwned
<1>3. ASSUME NEW pl \in Place, NEW c \in Ctx, Fork(c, pl)
      PROVE  Owned(context', calls', engine')
  <2> DEFINE os == Acquire(obj, Global)
  <2>1. Idle /\ ~context[c].live /\ Write(os, Forked(context, c), pl, c)
    BY <1>3 DEF Fork, Forked
  <2> HIDE DEF os
  <2>2. c \in Val /\ \A s \in Slot : context[c].ref[s] = Null
    BY <1>0, <2>1, Types DEF Val, Laid, Clean
  <2>3. /\ Forked(context, c) \in Contexts /\ Forked(context, c)[c].rc = 0
        /\ \A d \in Ctx : d # c => Forked(context, c)[d] = context[d]
    BY <1>0, <2>2, ForkedFacts
  <2>4. \A d \in Ctx : Forked(context, c)[d].live =>
           \/ context[d].live /\ Forked(context, c)[d].rc >= context[d].rc
           \/ d = c /\ Forked(context, c)[d].rc = 0
    BY <1>0, <2>3
  <2>5. Forked(context, c) \in Contexts /\ c \in Val
    BY <2>2, <2>3
  <2> DEFINE cs == Forked(context, c)
  <2>6. /\ Idle /\ Write(os, cs, pl, c) /\ cs \in Contexts
        /\ \A d \in Ctx : cs[d].live => \/ context[d].live /\ cs[d].rc >= context[d].rc
                                        \/ d = c /\ cs[d].rc = 0
    BY <2>1, <2>4, <2>5
  <2> HIDE DEF cs
  <2> QED
    BY <2>5, <2>6, WriteOwned
<1>4. ASSUME NEW p \in Known \cap Ctx, NEW c \in Known \cap Ctx, Adopt(p, c)
      PROVE  Owned(context', calls', engine')
  <2> DEFINE cs == SetSlot(context, p, "sub", c)
  <2>1. Idle /\ context' = AcquireCtx(cs, c) /\ UNCHANGED <<calls, engine>>
    BY <1>4 DEF Adopt, SetSlot
  <2>2. "sub" \in Slot /\ c \in Val /\ p \in Ctx
    BY DEF Slot, Val
  <2>3. cs \in Contexts /\ \A d \in Ctx : cs[d].live = context[d].live /\ cs[d].rc = context[d].rc
    BY <1>0, <2>2, SlotSet
  <2> HIDE DEF cs
  <2>4. AlikeCtx(cs, context') /\ \A d \in Ctx : context'[d].rc = cs[d].rc + Bit(d = c)
    BY <2>1, <2>3, AcquireCtxFacts
  <2>5. Under(calls) = {} /\ engine = "up"
    BY <1>0, <2>1, IdleFacts
  <2>6. \A d \in Ctx \ {Root} : context[d].live => context[d].rc >= 1
    BY <1>0, <2>5 DEF Owned, Leaving
  <2>7. \A d \in Ctx \ {Root} : context'[d].live => ~(context'[d].rc < 1)
    BY <1>0, <2>3, <2>4, <2>6 DEF AlikeCtx, Bit
  <2> QED
    BY <2>7 DEF Owned
<1>5. ASSUME Collect
      PROVE  Owned(context', calls', engine')
  <2>1. Idle /\ context' = context /\ engine' = engine
    BY <1>5 DEF Collect
  <2>2. Under(calls) = {} /\ engine = "up"
    BY <1>0, <2>1, IdleFacts
  <2>3. \A c : ~Leaving(calls, c)
    BY <2>2 DEF Leaving
  <2> QED
    BY <1>0, <2>1, <2>3, OwnedStays
<1>6. ASSUME Destroy
      PROVE  Owned(context', calls', engine')
  <2>1. /\ engine' = "closing"
        /\ context' = [context EXCEPT ![Root].rc = @ - 1]
    BY <1>6 DEF Destroy
  <2>2. \A c \in Ctx \ {Root} : context'[c] = context[c]
    BY <1>0, <2>1 DEF Contexts
  <2>3. \A c \in Ctx \ {Root} : Bare(context, c) => Bare(context', c)
    BY <2>2 DEF Bare
  <2>4. \A c \in Ctx \ {Root} : context'[c].live /\ context'[c].rc < 1 => Bare(context', c)
    BY <1>0, <2>2, <2>3 DEF Owned
  <2> QED
    BY <2>1, <2>4 DEF Owned
<1> QED
  BY <1>1, <1>2, <1>3, <1>4, <1>5, <1>6 DEF Script

LEMMA TopPopped ==
    ASSUME HeapInv, Top.k # "none"
    PROVE  /\ Top \in Call /\ Rest \in Seq(Call) /\ Top \in Under(calls)
           /\ \A c : Leaving(calls, c) /\ ~(Top.k = "drop" /\ Top.x = c) => Leaving(Rest, c)
<1>1. /\ Top \in Call /\ Rest \in Seq(Call) /\ Top \in Under(calls)
      /\ Under(calls) = {Top} \cup Under(Rest)
  BY TopFacts
<1> QED
  BY <1>1 DEF Leaving

(* A cleared context gives a reference back: it is on its way out.         *)
LEMMA ContextClearedOwned ==
    ASSUME HeldInv, ContextCleared
    PROVE  Owned(context', calls', engine')
<1> DEFINE x == Top.x
           n == context[x].rc - 1
           new == IF Top.k = "free" THEN <<Do("drop", x)>> ELSE <<>>
<1>0. HeapInv /\ Owned(context, calls, engine) /\ context \in Contexts
  BY Types DEF HeldInv
<1>1. /\ Top.k \in {"free", "safe"} /\ Cleared(x) /\ engine' = engine
      /\ context' = [context EXCEPT ![x].rc = @ - 1]
      /\ calls' = IF Top.k = "free" THEN <<Do("drop", x)>> \o Rest ELSE Rest
  BY DEF ContextCleared, Finished
<1>2. x \in Ctx /\ Bare(context, x)
  BY <1>0, <1>1, ClearedIsNotRoot DEF Cleared, Bare
<1>3. Rest \in Seq(Call) /\ \A c : Leaving(calls, c) => Leaving(Rest, c)
  BY <1>0, <1>1, TopPopped
<1>4. Do("drop", x) \in Call /\ Do("drop", x).k = "drop" /\ Do("drop", x).x = x
  BY <1>2, DoFacts
<1>5. /\ \A c : Leaving(Rest, c) => Leaving(calls', c)
      /\ Top.k = "free" => Leaving(calls', x)
  <2>1. CASE Top.k = "free"
    <3>1. calls' = <<Do("drop", x)>> \o Rest
      BY <1>1, <2>1
    <3>2. Under(calls') = {Do("drop", x)} \cup Under(Rest)
      BY <1>3, <1>4, <3>1, UnderCons
    <3> QED
      BY <1>4, <3>2 DEF Leaving
  <2>2. CASE Top.k # "free"
    BY <1>1, <2>2
  <2> QED
    BY <2>1, <2>2
<1>6. engine = "up" => Top.k = "free"
  BY <1>0, <1>1, SafeCloses
<1>7. n \in Int
  BY <1>0, <1>2, ContextFields
<1>8. /\ AlikeCtx(context, context')
      /\ \A d \in Ctx : d # x => context'[d].rc = context[d].rc
  <2>1. context' = SetRc(context, x, n)
    BY <1>1 DEF SetRc
  <2> HIDE DEF x, n
  <2> QED
    BY <1>0, <1>2, <1>7, <2>1, ContextRc
<1> HIDE DEF x
<1>9. \A c \in Ctx : /\ context'[c].live = context[c].live
                     /\ Bare(context, c) => Bare(context', c)
  BY <1>8 DEF AlikeCtx, Bare
<1>10. ASSUME NEW c \in Ctx \ {Root}, context'[c].live, context'[c].rc < 1
       PROVE  Bare(context', c) /\ (engine' = "up" => Leaving(calls', c))
  <2>1. CASE c = x
    BY <1>1, <1>2, <1>5, <1>6, <1>9, <2>1
  <2>2. CASE c # x
    BY <1>0, <1>1, <1>3, <1>5, <1>8, <1>9, <1>10, <2>2 DEF Owned
  <2> QED
    BY <2>1, <2>2
<1> QED
  BY <1>10 DEF Owned

(* A destroyed context is no context any more.                             *)
LEMMA DestroyedOwned ==
    ASSUME HeldInv, Top.k \in {"drop", "last"}, context' = [context EXCEPT ![Top.x] = NoContext],
           calls' = Rest, engine' = engine
    PROVE  Owned(context', calls', engine')
<1>1. HeapInv /\ Owned(context, calls, engine) /\ context \in Contexts
  BY Types DEF HeldInv
<1>2. /\ Top \in Call
      /\ \A c : Leaving(calls, c) /\ c # Top.x => Leaving(Rest, c)
  BY <1>1, TopPopped
<1>3. Top.x \in Ctx
  BY <1>2, CallFields
<1>4. ~context'[Top.x].live /\ \A c \in Ctx : c # Top.x => context'[c] = context[c]
  BY <1>1, <1>3 DEF Contexts, NoContext
<1>5. \A c \in Ctx \ {Root} : context'[c].live /\ context'[c].rc < 1 =>
         /\ context[c].live /\ context[c].rc < 1 /\ c # Top.x
         /\ Bare(context, c) => Bare(context', c)
         /\ engine' = "up" => engine = "up" /\ (Leaving(calls, c) => Leaving(calls', c))
  BY <1>2, <1>4 DEF Bare
<1>6. Owned(context, calls, engine)
  BY <1>1
<1> QED
  BY <1>5, <1>6 DEF Owned

(* The rounds of sgs_DestroyEngine.                                        *)
LEMMA RoundsOwned ==
    ASSUME HeldInv, Round \/ ClearOne \/ ClearNext \/ Pick \/ Down
    PROVE  Owned(context', calls', engine')
<1>0. HeapInv /\ Owned(context, calls, engine) /\ context \in Contexts
  BY Types DEF HeldInv
<1>1. Top.k \in {"round", "clear", "next", "pick"} /\ engine' \in {engine, "down"}
  BY DEF Round, ClearOne, ClearNext, Pick, Down
<1>2. engine = "closing" /\ Top \in Call
  BY <1>0, <1>1, HostFacts
<1>3. \A c \in Ctx \ {Root} : /\ context'[c].live = context[c].live
                              /\ context'[c].ref = context[c].ref
                              /\ context'[c].rc \in Int
                              /\ context'[c].rc >= context[c].rc
  <2>0. \A c \in Ctx : context[c].rc \in Int
    BY <1>0, ContextFields
  <2>1. CASE Round \/ Pick
    <3>1. \E n : context' = [context EXCEPT ![Root].rc = n]
      BY <2>1 DEF Round, Pick
    <3>2. \A c \in Ctx \ {Root} : context'[c] = context[c]
      BY <1>0, <3>1 DEF Contexts
    <3> QED
      BY <2>0, <3>2
  <2>2. CASE ClearOne
    <3>1. context' = [context EXCEPT ![Top.x].rc = @ + 1, ![Top.x].destroying = TRUE]
          /\ Top.x \in Ctx
      BY <1>2, <2>2, CallFields DEF ClearOne
    <3>2. \A c \in Ctx : /\ context'[c].live = context[c].live
                         /\ context'[c].ref = context[c].ref
                         /\ context'[c].rc = context[c].rc + Bit(c = Top.x)
      BY <1>0, <2>0, <3>1 DEF Contexts, Context, Bit
    <3> QED
      BY <2>0, <3>2 DEF Bit
  <2>3. CASE ClearNext \/ Down
    BY <2>0, <2>3 DEF ClearNext, Down
  <2> QED
    BY <2>1, <2>2, <2>3
<1>4. \A c \in Ctx : context[c].rc \in Int
  BY <1>0, ContextFields
<1>5. ASSUME NEW c \in Ctx \ {Root}, context'[c].live, context'[c].rc < 1
      PROVE  Bare(context', c)
  <2>1. context[c].live /\ ~(context[c].rc >= 1)
    BY <1>3, <1>4, <1>5
  <2>2. Bare(context, c)
    BY <1>0, <1>4, <2>1 DEF Owned
  <2> QED
    BY <1>3, <2>2 DEF Bare
<1> QED
  BY <1>1, <1>2, <1>5 DEF Owned

(* Contexts leave an owner in the rounds of sgs_DestroyEngine only: one    *)
(* that is freed by its count is no longer referred to.                    *)
LEMMA LeavesClosing ==
    ASSUME HeapInv, NEW p \in Ctx, LeaveOwner(p)
    PROVE  engine = "closing" /\ Top.k = "safe"
<1>1. Top.k \in {"free", "safe"} /\ context[p].ref["sub"] = Top.x /\ "sub" \in Slot
  BY DEF LeaveOwner, Owners, Slot
<1>2. ~NoRefs(obj, context, array, Top.x)
  BY <1>1 DEF NoRefs
<1>3. FrameFits(obj, context, states, array, redblue, gcrun, Top)
  BY <1>1, TopFacts
<1>4. Top.k # "free"
  BY <1>2, <1>3, CountZero DEF FrameFits
<1> QED
  BY <1>1, <1>4, SafeCloses

(* The count of an owner that a thread leaves is above zero, so that the   *)
(* code has no owner to free there.                                        *)
LEMMA OwnersAreHeld ==
    ASSUME HeldInv, NEW p \in Ctx, LeaveOwner(p)
    PROVE  p # Top.x /\ context[p].rc > 0
<1>1. /\ HeapInv /\ Owned(context, calls, engine) /\ context \in Contexts
      /\ Counted(obj, context, array, calls, engine) /\ Clean(obj, context, array)
  BY Types DEF HeldInv, Laid
<1>2. /\ Top.k = "safe" /\ Cleared(Top.x) /\ context[p].ref["sub"] = Top.x /\ "sub" \in Slot
  BY <1>1, LeavesClosing DEF LeaveOwner, Owners, Slot
<1>3. Top.x \in Ctx /\ Top.x # Null
  BY <1>1, <1>2, ClearedIsNotRoot, Names
<1>4. ~Bare(context, p) /\ context[p].live /\ p # Top.x
  BY <1>1, <1>2, <1>3 DEF Bare, Cleared, Clean
<1>5. context[p].rc \in Int
  BY <1>1, ContextFields
<1>6. CASE p # Root
  BY <1>1, <1>4, <1>5, <1>6 DEF Owned
<1>7. CASE p = Root
  <2>1. Holds(calls, engine)
    <3>1. Rest # <<>> /\ Head(Rest).k = "next" /\ Rest \in Seq(Call)
      BY <1>1, <1>2, SafeCloses
    <3>2. Head(Rest) \in Under(Rest) /\ Under(calls) = {Top} \cup Under(Rest)
      BY <1>1, <1>2, <3>1, Unstack, TopFacts
    <3> QED
      BY <3>1, <3>2 DEF Holds
  <2>2. Extra(calls, engine, p) \in 1 .. 2
    BY <1>7, <2>1 DEF Extra
  <2>3. Count(obj, context, array, p) \in Nat
    BY <1>4, CountType, Names
  <2> QED
    BY <1>1, <1>4, <2>2, <2>3 DEF Counted
<1> QED
  BY <1>4, <1>6, <1>7

LEMMA StepOwned ==
    ASSUME HeldInv, Step
    PROVE  Owned(context', calls', engine')
<1>0. /\ HeapInv /\ Owned(context, calls, engine) /\ context \in Contexts
      /\ calls \in Seq(Call) /\ array \in Obj \cup {Null}
      /\ \A f \in Under(calls) : FrameFits(obj, context, states, array, redblue, gcrun, f)
      /\ Enlisted(context, states, engine)
  BY Types DEF HeldInv, Laid, Fits
<1>a. FewerCtx(context, context)
  BY DEF FewerCtx
<1>1. ASSUME NEW f \in Field, DropField(f)
      PROVE  Owned(context', calls', engine')
  <2> DEFINE os == [obj EXCEPT ![Top.x].ref[f] = Null]
             v == obj[Top.x].ref[f]
  <2>1. /\ context' = LessCtx(context, v) /\ calls' = Then(os, context, v) \o calls
        /\ engine' = engine
    BY <1>1 DEF DropField, Drops
  <2> HIDE DEF os, v
  <2> QED
    BY <1>0, <1>a, <2>1, DropsOwned
<1>2. ASSUME NEW s \in Slot, DropSlot(s)
      PROVE  Owned(context', calls', engine')
  <2> DEFINE cs == ClearSlot(context, Top.x, s)
             v == context[Top.x].ref[s]
  <2>1. /\ context' = LessCtx(cs, v) /\ calls' = Then(obj, cs, v) \o calls
        /\ engine' = engine /\ Top.k \in {"free", "safe"}
    BY <1>2 DEF DropSlot, Drops, ClearSlot
  <2>2. Top.x \in Ctx
    BY <1>0, <2>1, ClearedIsNotRoot
  <2>3. cs \in Contexts /\ FewerCtx(context, cs) /\ \A c \in Ctx : cs[c].rc = context[c].rc
    BY <1>0, <2>2, SlotCleared
  <2> HIDE DEF cs, v
  <2> QED
    BY <1>0, <2>1, <2>3, DropsOwned
<1>3. ASSUME NEW p \in Ctx, LeaveOwner(p)
      PROVE  Owned(context', calls', engine')
  <2> DEFINE x == Top.x
             cs == ClearSlot(context, p, "sub")
             n == cs[x].rc - 1
  <2>1. /\ Top.k \in {"free", "safe"} /\ Cleared(x) /\ context[p].ref["sub"] = x
        /\ context' = [context EXCEPT ![p].ref["sub"] = Null, ![x].rc = @ - 1]
        /\ UNCHANGED <<calls, engine>>
    BY <1>3 DEF LeaveOwner, Owners
  <2>2. x \in Ctx /\ Bare(context, x) /\ "sub" \in Slot
    BY <1>0, <2>1, ClearedIsNotRoot DEF Cleared, Bare, Slot
  <2>3. engine = "closing"
    BY <1>0, <1>3, LeavesClosing
  <2>4. cs \in Contexts /\ FewerCtx(context, cs) /\ \A c \in Ctx : cs[c].rc = context[c].rc
    BY <1>0, <2>2, SlotCleared
  <2>5. context' = SetRc(cs, x, n)
    BY <2>1 DEF ClearSlot, SetRc
  <2>6. n \in Int
    BY <2>2, <2>4, ContextFields
  <2> HIDE DEF cs, n, x
  <2>7. AlikeCtx(cs, context') /\ \A d \in Ctx : d # x => context'[d].rc = cs[d].rc
    BY <2>2, <2>4, <2>5, <2>6, ContextRc
  <2>8. \A c \in Ctx : /\ context'[c].live = context[c].live
                       /\ Bare(context, c) => Bare(context', c)
    BY <2>4, <2>7 DEF AlikeCtx, FewerCtx, Bare
  <2>9. \A c \in Ctx \ {Root} : context'[c].live /\ context'[c].rc < 1 => Bare(context', c)
    BY <1>0, <2>2, <2>4, <2>7, <2>8 DEF Owned
  <2> QED
    BY <2>1, <2>3, <2>9 DEF Owned
<1>4. ASSUME DestroyLast
      PROVE  Owned(context', calls', engine')
  <2> DEFINE next == <<Do("gc", Null), Do("last", Top.x)>> \o Rest
  <2>1. /\ Top.k = "drop" /\ states = <<Top.x>> /\ engine' = engine
        /\ context' = LessCtx(context, array) /\ calls' = Then(obj, context, array) \o next
    BY <1>4 DEF DestroyLast, Drops
  <2>2. /\ Top \in Call /\ Rest \in Seq(Call)
        /\ \A c : Leaving(calls, c) /\ c # Top.x => Leaving(Rest, c)
    BY <1>0, <2>1, TopPopped
  <2>3. Top.x \in Ctx
    BY <2>1, <2>2, CallFields
  <2>4. Do("gc", Null) \in Call /\ Do("last", Top.x) \in Call
    BY <2>3, DoFacts
  <2> DEFINE new == <<Do("gc", Null), Do("last", Top.x)>>
  <2>a. new \in Seq(Call) /\ next = new \o Rest
    BY <2>4
  <2> HIDE DEF new, next
  <2>5. next \in Seq(Call) /\ \A c : Leaving(Rest, c) => Leaving(next, c)
    BY <2>2, <2>a, UnderMore
  <2>6. engine = "up" => Top.x = Root
    <3>1. engine = "up" => \E i \in 1 .. Len(states) : states[i] = Root
      BY <1>0, Names DEF Enlisted
    <3> QED
      BY <2>1, <3>1
  <2>7. \A c \in Ctx \ {Root} : context[c].live /\ engine = "up" =>
           (Leaving(calls, c) => Leaving(next, c))
    BY <2>2, <2>5, <2>6
  <2> QED
    BY <1>0, <1>a, <2>1, <2>5, <2>7, DropsOwned
<1>5. ASSUME ContextCleared
      PROVE  Owned(context', calls', engine')
  BY <1>5, ContextClearedOwned
<1>6. ASSUME DestroyContext \/ LastDestroyed
      PROVE  Owned(context', calls', engine')
  <2>1. /\ Top.k \in {"drop", "last"} /\ context' = [context EXCEPT ![Top.x] = NoContext]
        /\ calls' = Rest /\ engine' = engine
    BY <1>6 DEF DestroyContext, LastDestroyed
  <2> QED
    BY <2>1, DestroyedOwned
<1>7. ASSUME Round \/ ClearOne \/ ClearNext \/ Pick \/ Down
      PROVE  Owned(context', calls', engine')
  BY <1>7, RoundsOwned
<1>8. ASSUME FreeObject \/ Destructed \/ SweepEnds \/ Mark \/ \E o \in Obj : SweepDestruct(o)
      PROVE  Owned(context', calls', engine')
  <2>1. /\ Top.k \in {"destroy", "destruct", "sweep", "gc"} /\ context' = context
        /\ engine' = engine /\ \E new \in Seq(Call) : calls' = new \o Rest
    <3>0. /\ Top.k \in {"destroy", "destruct", "sweep", "gc"} /\ context' = context
          /\ engine' = engine
      BY <1>8 DEF FreeObject, Destructed, SweepEnds, Mark, SweepDestruct
    <3>1. Top \in Call /\ Rest \in Seq(Call)
      BY <1>0, <3>0, TopPopped
    <3>2. CASE FreeObject \/ Destructed \/ SweepEnds
      <4>1. calls' = Rest /\ <<>> \in Seq(Call) /\ <<>> \o Rest = Rest
        BY <3>1, <3>2 DEF FreeObject, Destructed, SweepEnds
      <4> QED
        BY <3>0, <4>1
    <3>3. CASE Mark
      <4> DEFINE T == {o \in Obj : obj'[o].live /\ obj'[o].mark # ~redblue}
                 g == [k |-> "sweep", x |-> Null, todo |-> T]
      <4>1. calls' = <<g>> \o Rest
        BY <3>3 DEF Mark
      <4>2. T \subseteq Obj
        OBVIOUS
      <4> HIDE DEF T
      <4>3. g \in Call
        BY <4>2 DEF Call
      <4> HIDE DEF g
      <4>4. <<g>> \in Seq(Call)
        BY <4>3
      <4> QED
        BY <3>0, <4>1, <4>4
    <3>4. CASE \E o \in Obj : SweepDestruct(o)
      <4>1. PICK o \in Obj : SweepDestruct(o)
        BY <3>4
      <4> DEFINE g == Do("destruct", o)
                 h == [Top EXCEPT !.todo = @ \ {o}]
      <4>2. calls' = <<g, h>> \o Rest /\ Top.k = "sweep"
        BY <4>1 DEF SweepDestruct
      <4>3. g \in Call
        BY DoFacts
      <4>4. h \in Call
        BY <3>1, <4>2 DEF Call
      <4> HIDE DEF g, h
      <4>5. <<g, h>> \in Seq(Call)
        BY <4>3, <4>4
      <4> QED
        BY <3>0, <4>2, <4>5
    <3> QED
      BY <1>8, <3>2, <3>3, <3>4
  <2>2. PICK new \in Seq(Call) : calls' = new \o Rest
    BY <2>1
  <2>3. Rest \in Seq(Call) /\ \A c : Leaving(calls, c) => Leaving(Rest, c)
    BY <1>0, <2>1, TopPopped
  <2>4. \A c : Leaving(calls, c) => Leaving(calls', c)
    BY <2>2, <2>3, UnderMore
  <2> QED
    BY <1>0, <2>1, <2>4, OwnedStays
<1>9. ASSUME NEW o \in Obj, SweepFree(o)
      PROVE  Owned(context', calls', engine')
  BY <1>0, <1>9 DEF SweepFree
<1> QED
  BY <1>1, <1>2, <1>3, <1>4, <1>5, <1>6, <1>7, <1>8, <1>9 DEF Step

(* Every reachable state satisfies both invariants.                        *)
THEOREM HeldInvariant == Spec => []HeldInv
<1>1. Init => HeldInv
  <2> SUFFICES ASSUME Init PROVE HeldInv
    OBVIOUS
  <2>1. \A c \in Ctx \ {Root} : ~context[c].live
    BY DEF Init, NoContext
  <2> QED
    BY <2>1, InitInv DEF HeldInv, Owned
<1>2. HeldInv /\ [Next]_vars => HeldInv'
  <2> SUFFICES ASSUME HeldInv, [Next]_vars PROVE HeldInv'
    OBVIOUS
  <2>1. HeapInv'
    BY ScriptKeeps, StepKeeps, StutterKeeps DEF HeldInv, Next
  <2>2. Owned(context', calls', engine')
    BY ScriptOwned, StepOwned DEF HeldInv, Next, vars
  <2> QED
    BY <2>1, <2>2 DEF HeldInv
<1> QED
  BY <1>1, <1>2, PTL DEF Spec

(* When a sweep ends nothing is being freed, so that the count of a thread *)
(* that is left is the number of references to it.                         *)
LEMMA SweepHolds ==
    ASSUME HeldInv, SweepEnds, engine = "up"
    PROVE  Held'
<1>1. /\ HeapInv /\ Owned(context, calls, engine) /\ context \in Contexts
      /\ Counted(obj, context, array, calls, engine) /\ Clean(obj, context, array)
      /\ array \in Obj \cup {Null}
  BY Types DEF HeldInv, Laid
<1>2. \A f \in Under(calls) : f.k \in {"sweep", "pick", "last", "round"}
  <2>1. Top.k = "sweep"
    BY DEF SweepEnds
  <2>2. Under(calls) = {Top} \cup Under(Rest) /\ \A g \in Under(Rest) : g.k \in {"pick", "last", "round"}
    BY <1>1, <2>1, SweepFacts
  <2> QED
    BY <2>1, <2>2
<1>3. ASSUME NEW c \in Ctx \ {Root}, context[c].live
      PROVE  \E x \in LiveObj \cup LiveCtx : c \in Refs(x)
  <2>1. context[c].rc >= 1
    <3>1. ~Leaving(calls, c)
      BY <1>2 DEF Leaving
    <3>2. context[c].rc \in Int
      BY <1>1, ContextFields
    <3> QED
      BY <1>1, <1>3, <3>1, <3>2 DEF Owned
  <2>2. Extra(calls, engine, c) = 0
    BY <1>2 DEF Extra, Kept
  <2>3. Count(obj, context, array, c) # 0
    <3>1. context[c].rc = Count(obj, context, array, c) + Extra(calls, engine, c)
      BY <1>1, <1>3 DEF Counted
    <3>2. Count(obj, context, array, c) \in Nat
      BY CountType
    <3> QED
      BY <2>1, <2>2, <3>1, <3>2
  <2>4. ~NoRefs(obj, context, array, c)
    BY <2>3, CountZero
  <2>5. array # c /\ c # Null
    BY <1>1, Names
  <2>6. CASE \E o \in Obj, f \in Field : obj[o].ref[f] = c
    <3>1. PICK o \in Obj, f \in Field : obj[o].ref[f] = c
      BY <2>6
    <3>2. o \in LiveObj
      BY <1>1, <2>5, <3>1 DEF Clean, LiveObj
    <3> QED
      BY <3>1, <3>2, RefsFacts
  <2>7. CASE \E d \in Ctx, s \in Slot : context[d].ref[s] = c
    <3>1. PICK d \in Ctx, s \in Slot : context[d].ref[s] = c
      BY <2>7
    <3>2. d \in LiveCtx
      BY <1>1, <2>5, <3>1 DEF Clean, LiveCtx
    <3> QED
      BY <3>1, <3>2, RefsFacts
  <2> QED
    BY <2>4, <2>5, <2>6, <2>7 DEF NoRefs
<1>4. Held
  BY <1>3 DEF Held, LiveCtx
<1>5. obj' = obj /\ context' = context
  BY DEF SweepEnds
<1> QED
  BY <1>4, <1>5 DEF Held, LiveObj, LiveCtx, Refs

(* A collection leaves nothing that was out of reach when it began, and no *)
(* thread but those that something it leaves refers to.                    *)
THEOREM CyclesCollected == Spec => CollectsCycles
<1> DEFINE A == /\ ~gcrun /\ gcrun' => Found' \subseteq Reach(Entries, Obj)
                /\ gcrun /\ gcrun' => Found' \subseteq Found
                /\ gcrun /\ ~gcrun' => LiveObj' \subseteq Found /\ (engine = "up" => Held')
<1>1. ASSUME HeldInv, [Next]_vars
      PROVE  [A]_vars
  <2>0. HeapInv
    BY <1>1 DEF HeldInv
  <2>1. CASE Script
    <3>1. gcrun = FALSE /\ gcrun' = gcrun
      <4>1. Idle /\ gcrun' = gcrun
        BY <2>1 DEF Script, Assign, NewObject, Fork, Adopt, Collect, Destroy
      <4> QED
        BY <2>0, <4>1, IdleFacts
    <3> QED
      BY <3>1
  <2>2. CASE Mark
    <3> DEFINE R == Reach(Entries, Obj)
    <3>1. /\ gcrun = FALSE /\ gcrun' = TRUE /\ redblue' = ~redblue
          /\ Marked(obj', ~redblue) = R
      BY <2>0, <2>2, MarkFacts
    <3>2. Found' = Marked(obj', redblue')
      BY DEF Found, LiveObj, Marked
    <3> HIDE DEF R
    <3>3. Found' \subseteq R
      BY <3>1, <3>2
    <3> QED
      BY <3>1, <3>3 DEF R
  <2>3. CASE SweepEnds
    <3>1. gcrun' = FALSE /\ obj' = obj /\ Unmarked = {}
      BY <2>3 DEF SweepEnds
    <3>2. LiveObj' \subseteq Found
      BY <3>1 DEF LiveObj, Found, Unmarked
    <3>3. engine = "up" => Held'
      BY <1>1, <2>3, SweepHolds
    <3> QED
      BY <3>1, <3>2, <3>3
  <2>4. CASE gcrun' = gcrun /\ Fading
    <3>1. Found' \subseteq Found
      BY <2>4 DEF Found, LiveObj, Fading
    <3> QED
      BY <2>4, <3>1
  <2>5. CASE UNCHANGED vars
    BY <2>5
  <2> QED
    BY <1>1, <2>0, <2>1, <2>2, <2>3, <2>4, <2>5, StepFades DEF Next
<1> QED
  BY <1>1, HeldInvariant, PTL DEF Spec, CollectsCycles

=============================================================================
