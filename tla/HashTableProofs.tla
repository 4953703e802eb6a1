-------------------------- MODULE HashTableProofs --------------------------
(***************************************************************************)
(* Proofs about HashTable: for every set of keys and their hashes, its     *)
(* index leads to each item from the item's hash, whatever insertions have *)
(* displaced, removals marked and moved, and rehashes rebuilt.  So the     *)
(* table is the dictionary that sgs_vht_get and sgs_vht_set promise.       *)
(*                                                                         *)
(* Two conditions: a key is equal to itself alone (no NaN), and the first  *)
(* index is of odd size or has at most four slots, as those of dicts, maps *)
(* and every table after its first rehash.                                 *)
(***************************************************************************)
EXTENDS HashTable, FiniteSetTheorems, SequenceTheorems, WellFoundedInduction, TLAPS

(* A number is a multiple of m and a remainder, which % gives.             *)
LEMMA ModParts ==
    ASSUME NEW a \in Nat, NEW m \in Nat \ {0}
    PROVE  \E q \in Nat : \E r \in 0 .. m - 1 : a = m * q + r /\ a % m = r
<1>1. a % m \in 0 .. m - 1 /\ a \div m \in Nat /\ a = m * (a \div m) + (a % m)
  OBVIOUS
<1> QED
  BY <1>1, Zenon

(* The remainder is the only one of its kind.                              *)
LEMMA ModUnique ==
    ASSUME NEW k \in Nat, NEW m \in Nat \ {0}, NEW r \in 0 .. m - 1
    PROVE  (m * k + r) % m = r
  OBVIOUS

(* A whole turn does not change the remainder.                             *)
LEMMA ModTurn ==
    ASSUME NEW a \in Nat, NEW m \in Nat \ {0}
    PROVE  (a + m) % m = a % m
<1>1. PICK q \in Nat, r \in 0 .. m - 1 : a = m * q + r /\ a % m = r
  BY ModParts, Zenon
<1>2. a + m = m * (q + 1) + r /\ q + 1 \in Nat
  BY <1>1
<1>3. (m * (q + 1) + r) % m = r
  BY <1>2, ModUnique, Zenon
<1> QED
  BY <1>1, <1>2, <1>3, Zenon

(* Two slots on, as SGS_VHT_PROBE_ADV goes.                                *)
LEMMA ModStep ==
    ASSUME NEW a \in Nat, NEW m \in Nat, m >= 2
    PROVE  (a + 2) % m = IF (a % m) + 2 < m THEN (a % m) + 2 ELSE (a % m) + 2 - m
<1>0. m \in Nat \ {0}
  OBVIOUS
<1>1. PICK q \in Nat, r \in 0 .. m - 1 : a = m * q + r /\ a % m = r
  BY <1>0, ModParts, Zenon
<1>2. CASE r + 2 < m
  <2>1. a + 2 = m * q + (r + 2) /\ r + 2 \in 0 .. m - 1
    BY <1>1, <1>2
  <2>2. (m * q + (r + 2)) % m = r + 2
    BY <2>1, <1>0, ModUnique, Zenon
  <2> QED
    BY <2>1, <2>2, <1>1, <1>2, Zenon
<1>3. CASE ~(r + 2 < m)
  <2>1. a + 2 = m * (q + 1) + (r + 2 - m) /\ r + 2 - m \in 0 .. m - 1 /\ q + 1 \in Nat
    BY <1>1, <1>3
  <2>2. (m * (q + 1) + (r + 2 - m)) % m = r + 2 - m
    BY <2>1, <1>0, ModUnique, Zenon
  <2> QED
    BY <2>1, <2>2, <1>1, <1>3, Zenon
<1> QED
  BY <1>2, <1>3

(* Two numbers of a remainder that are less than two turns apart are one   *)
(* turn apart.                                                             *)
LEMMA ModEqual ==
    ASSUME NEW a \in Nat, NEW b \in Nat, NEW m \in Nat \ {0},
           a % m = b % m, a < b, b < a + 2 * m
    PROVE  b = a + m
<1>1. PICK q \in Nat, r \in 0 .. m - 1 : a = m * q + r /\ a % m = r
  BY ModParts, Zenon
<1>2. PICK k \in Nat, s \in 0 .. m - 1 : b = m * k + s /\ b % m = s
  BY ModParts, Zenon
<1>3. r = s
  BY <1>1, <1>2, Zenon
<1>4. b - a = m * (k - q)
  BY <1>1, <1>2, <1>3
<1>5. k - q > 0
  <2>1. SUFFICES ASSUME k - q <= 0 PROVE FALSE
    OBVIOUS
  <2>2. m * (k - q) <= 0
    BY <2>1
  <2> QED
    BY <2>2, <1>4
<1>6. k - q < 2
  <2>1. SUFFICES ASSUME k - q >= 2 PROVE FALSE
    OBVIOUS
  <2>2. m * (k - q) >= 2 * m
    BY <2>1
  <2> QED
    BY <2>2, <1>4
<1>7. k - q = 1
  BY <1>5, <1>6
<1> QED
  BY <1>4, <1>7

(* The sizes of an index whose probes come to enough of its slots, and the *)
(* slots.                                                                  *)
Probes(m) == m \in Nat /\ m >= 2 /\ (m % 2 = 1 \/ m <= 4)
Slots(m) == 0 .. m - 1

(* A probe takes at most as many steps as there are slots.                 *)
LEMMA StepsRange ==
    ASSUME NEW m, Probes(m)
    PROVE  /\ Steps(m) \in Nat \ {0} /\ Steps(m) <= m
           /\ 2 * Steps(m) = m \/ (m % 2 = 1 /\ Steps(m) = m)
  BY DEF Probes, Steps

(* A probe stays inside the index.                                         *)
LEMMA SlotRange ==
    ASSUME NEW h \in Nat, NEW m, Probes(m), NEW j \in Nat
    PROVE  Slot(h, m, j) \in Slots(m)
<1>1. h + 2 * j \in Nat /\ m \in Nat \ {0}
  BY DEF Probes
<1>2. PICK q \in Nat, r \in 0 .. m - 1 : (h + 2 * j) % m = r
  BY <1>1, ModParts, Zenon
<1> QED
  BY <1>2 DEF Slot, Slots

(* The next slot of a probe depends on its slot alone.                     *)
LEMMA SlotStep ==
    ASSUME NEW h \in Nat, NEW m, Probes(m), NEW j \in Nat
    PROVE  Slot(h, m, j + 1) = IF Slot(h, m, j) + 2 < m THEN Slot(h, m, j) + 2
                               ELSE Slot(h, m, j) + 2 - m
<1>1. h + 2 * (j + 1) = (h + 2 * j) + 2 /\ h + 2 * j \in Nat
  OBVIOUS
<1>2. m \in Nat /\ m >= 2
  BY DEF Probes
<1>3. ((h + 2 * j) + 2) % m = IF ((h + 2 * j) % m) + 2 < m THEN ((h + 2 * j) % m) + 2
                              ELSE ((h + 2 * j) % m) + 2 - m
  BY <1>1, <1>2, ModStep, Zenon
<1> QED
  BY <1>1, <1>3, Zenon DEF Slot

(* After its steps a probe is back where it began.                         *)
LEMMA SlotWraps ==
    ASSUME NEW h \in Nat, NEW m, Probes(m), NEW j \in Nat
    PROVE  Slot(h, m, j + Steps(m)) = Slot(h, m, j)
<1>1. Steps(m) \in Nat /\ h + 2 * j \in Nat /\ m \in Nat \ {0}
  BY StepsRange DEF Probes
<1>2. ((h + 2 * j) + m) % m = (h + 2 * j) % m
  BY <1>1, ModTurn, Zenon
<1>3. CASE 2 * Steps(m) = m
  <2>1. h + 2 * (j + Steps(m)) = (h + 2 * j) + m
    BY <1>1, <1>3
  <2> QED
    BY <2>1, <1>2, Zenon DEF Slot
<1>4. CASE Steps(m) = m
  <2>1. h + 2 * (j + Steps(m)) = ((h + 2 * j) + m) + m /\ (h + 2 * j) + m \in Nat
    BY <1>1, <1>4
  <2>2. (((h + 2 * j) + m) + m) % m = ((h + 2 * j) + m) % m
    BY <1>1, <2>1, ModTurn, Zenon
  <2> QED
    BY <2>1, <2>2, <1>2, Zenon DEF Slot
<1> QED
  BY <1>3, <1>4, StepsRange

(* It comes to no slot twice before.                                       *)
LEMMA SlotsDiffer ==
    ASSUME NEW h \in Nat, NEW m, Probes(m),
           NEW i \in 0 .. Steps(m) - 1, NEW j \in 0 .. Steps(m) - 1,
           Slot(h, m, i) = Slot(h, m, j)
    PROVE  i = j
<1>1. ASSUME NEW x \in 0 .. Steps(m) - 1, NEW y \in 0 .. Steps(m) - 1,
             Slot(h, m, x) = Slot(h, m, y), x < y
      PROVE  FALSE
  <2>0. Steps(m) \in Nat /\ x \in Nat /\ y \in Nat /\ m \in Nat \ {0}
    BY StepsRange, <1>1 DEF Probes
  <2>1. 2 * y < 2 * x + 2 * m
    BY <2>0, StepsRange, <1>1
  <2>2. h + 2 * y = (h + 2 * x) + m
    <3> DEFINE a == h + 2 * x
               b == h + 2 * y
    <3>1. a \in Nat /\ b \in Nat /\ a < b /\ b < a + 2 * m
      BY <2>0, <2>1, <1>1
    <3>2. a % m = b % m
      BY <1>1 DEF Slot
    <3> HIDE DEF a, b
    <3>3. b = a + m
      BY <3>1, <3>2, <2>0, ModEqual, Zenon
    <3> QED
      BY <3>3 DEF a, b
  <2>3. m = 2 * (y - x)
    BY <2>2, <2>0
  <2>4. m % 2 = 0
    BY <2>3, <2>0
  <2> QED
    BY <2>3, <2>4, <2>0, <1>1, StepsRange
<1> QED
  BY <1>1, StepsRange

---------------------------------------------------------------------------
(* Every set of numbers has a least one.                                   *)
LEMMA LeastNatural ==
    ASSUME NEW T, T \subseteq Nat, T # {}
    PROVE  \E x \in T : \A y \in T : x <= y
<1> DEFINE B == {p \in Nat \X Nat : p[1] < p[2]}
<1>1. IsWellFoundedOn(B, Nat)
  BY NatLessThanWellFounded DEF OpToRel
<1> HIDE DEF B
<1>2. PICK x \in T : \A y \in T : <<y, x>> \notin B
  BY <1>1, WFMin
<1>3. \A y \in T : <<y, x>> \in Nat \X Nat
  OBVIOUS
<1>4. \A y \in T : ~(y < x)
  BY <1>2, <1>3 DEF B
<1> QED
  BY <1>4

(* Induction, with the numbers for which a statement holds as a set.       *)
LEMMA Induction ==
    ASSUME NEW T, 0 \in T, \A n \in Nat : n \in T => n + 1 \in T
    PROVE  Nat \subseteq T
<1> DEFINE F == {n \in Nat : n \notin T}
<1>1. SUFFICES ASSUME F # {} PROVE FALSE
  OBVIOUS
<1>2. F \subseteq Nat
  OBVIOUS
<1>3. PICK x \in F : \A y \in F : x <= y
  <2> HIDE DEF F
  <2> QED
    BY <1>1, <1>2, LeastNatural
<1>4. x # 0 /\ x - 1 \in Nat /\ ~(x <= x - 1)
  BY <1>3
<1>5. x - 1 \in T
  BY <1>3, <1>4
<1> QED
  BY <1>3, <1>4, <1>5

(* Division without remainder, and what % has to do with it.               *)
Divides(d, n) == \E k \in Nat : n = d * k

(* It is what Prime asks with %.                                           *)
LEMMA DividesIsMod ==
    ASSUME NEW n \in Nat, NEW d \in Nat \ {0}
    PROVE  Divides(d, n) <=> n % d = 0
<1>1. ASSUME NEW k \in Nat, n = d * k PROVE n % d = 0
  <2>1. n = d * k + 0 /\ 0 \in 0 .. d - 1
    BY <1>1
  <2>2. (d * k + 0) % d = 0
    BY <2>1, ModUnique, Zenon
  <2> QED
    BY <2>1, <2>2, Zenon
<1>2. ASSUME n % d = 0 PROVE \E k \in Nat : n = d * k
  <2>1. PICK q \in Nat, r \in 0 .. d - 1 : n = d * q + r /\ n % d = r
    BY ModParts, Zenon
  <2>2. n = d * q
    BY <2>1, <1>2
  <2> QED
    BY <2>2
<1> QED
  BY <1>1, <1>2 DEF Divides

(* Some number is a multiple of all numbers up to n.                       *)
LEMMA CommonMultiple ==
    ASSUME NEW n \in Nat
    PROVE  \E c \in Nat \ {0} : \A d \in 1 .. n : Divides(d, c)
<1> DEFINE T == {i \in Nat : \E c \in Nat \ {0} : \A d \in 1 .. i : Divides(d, c)}
<1>1. 0 \in T
  <2>1. \A d \in 1 .. 0 : Divides(d, 1)
    OBVIOUS
  <2> QED
    BY <2>1
<1>2. ASSUME NEW i \in Nat, i \in T PROVE i + 1 \in T
  <2>1. PICK c \in Nat \ {0} : \A d \in 1 .. i : Divides(d, c)
    BY <1>2
  <2>2. c * (i + 1) \in Nat \ {0}
    OBVIOUS
  <2>3. ASSUME NEW d \in 1 .. i + 1 PROVE Divides(d, c * (i + 1))
    <3>1. CASE d = i + 1
      <4>1. c * (i + 1) = d * c
        BY <3>1
      <4> QED
        BY <4>1 DEF Divides
    <3>2. CASE d # i + 1
      <4>0. Divides(d, c)
        BY <2>1, <3>2
      <4>1. PICK k \in Nat : c = d * k
        BY <4>0, Zenon DEF Divides
      <4>2. c * (i + 1) = d * (k * (i + 1)) /\ k * (i + 1) \in Nat
        BY <4>1
      <4> QED
        BY <4>2 DEF Divides
    <3> QED
      BY <3>1, <3>2
  <2> QED
    BY <2>2, <2>3
<1> HIDE DEF T
<1>3. Nat \subseteq T
  BY <1>1, <1>2, Induction
<1> QED
  BY <1>3 DEF T

(* Euclid: there is a prime that is not smaller than n.                    *)
LEMMA PrimeExists ==
    ASSUME NEW n \in Nat, n >= 2
    PROVE  \E p \in Nat : p >= n /\ Prime(p)
<1>1. PICK c \in Nat \ {0} : \A d \in 1 .. n : Divides(d, c)
  BY CommonMultiple
<1> DEFINE D == {d \in Nat : d >= 2 /\ Divides(d, c + 1)}
<1>2. c + 1 \in D
  <2>1. c + 1 = (c + 1) * 1
    OBVIOUS
  <2> QED
    BY <2>1 DEF Divides
<1>3. PICK p \in D : \A d \in D : p <= d
  <2>1. D \subseteq Nat /\ D # {}
    BY <1>2
  <2> HIDE DEF D
  <2> QED
    BY <2>1, LeastNatural
<1>4. PICK k \in Nat : c + 1 = p * k
  BY <1>3 DEF Divides
<1>5. ASSUME p <= n PROVE FALSE
  <2>0. Divides(p, c)
    BY <1>1, <1>3, <1>5
  <2>1. PICK l \in Nat : c = p * l
    BY <2>0, Zenon DEF Divides
  <2>2. 1 = p * (k - l)
    BY <1>4, <2>1
  <2>3. p >= 2 /\ k - l \in Int
    BY <1>3
  <2>4. CASE k - l <= 0
    <3>1. p * (k - l) <= 0
      BY <2>3, <2>4
    <3> QED
      BY <3>1, <2>2
  <2>5. CASE k - l >= 1
    <3>1. p * (k - l) >= p
      BY <2>3, <2>5
    <3> QED
      BY <3>1, <2>2, <2>3
  <2> QED
    BY <2>3, <2>4, <2>5
<1>6. ASSUME NEW d \in 2 .. p - 1 PROVE p % d # 0
  <2>1. SUFFICES ASSUME p % d = 0 PROVE FALSE
    OBVIOUS
  <2>2. Divides(d, p)
    BY <2>1, <1>3, DividesIsMod
  <2>3. PICK l \in Nat : p = d * l
    BY <2>2 DEF Divides
  <2>4. c + 1 = d * (l * k) /\ l * k \in Nat
    BY <1>4, <2>3
  <2>5. Divides(d, c + 1)
    BY <2>4, Zenon DEF Divides
  <2>6. d \in D
    BY <2>5
  <2> QED
    BY <2>6, <1>3
<1>7. Prime(p)
  BY <1>6, Zenon DEF Prime
<1>8. p \in Nat /\ p >= n
  BY <1>3, <1>5
<1> QED
  BY <1>7, <1>8

(* sgs_next_prime returns an odd number that is not smaller.               *)
LEMMA NextPrimeIs ==
    ASSUME NEW n \in Nat, n >= 4
    PROVE  NextPrime(n) \in Nat /\ NextPrime(n) >= n /\ NextPrime(n) % 2 = 1
<1> DEFINE P == {p \in Nat : Prime(p)}
           Behind(q) == {p \in P : p >= q}
           First(q) == CHOOSE p \in Behind(q) : \A r \in Behind(q) : p <= r
           g == [q \in Nat |-> First(q)]
           from == CHOOSE f : f = [q \in Nat |-> IF Prime(q) THEN q ELSE f[q + 1]]
<1>1. ASSUME NEW q \in Nat
      PROVE  /\ g[q] \in Behind(q)
             /\ \A r \in Behind(q) : g[q] <= r
  <2>1. PICK big \in Nat : big >= q + 2 /\ Prime(big)
    BY PrimeExists
  <2>2. Behind(q) # {} /\ Behind(q) \subseteq Nat
    BY <2>1
  <2>3. \E p \in Behind(q) : \A r \in Behind(q) : p <= r
    <3> DEFINE B == Behind(q)
    <3> HIDE DEF B
    <3>1. \E p \in B : \A r \in B : p <= r
      BY <2>2, LeastNatural DEF B
    <3> QED
      BY <3>1 DEF B
  <2>4. g[q] = CHOOSE p \in Behind(q) : \A r \in Behind(q) : p <= r
    OBVIOUS
  <2> QED
    BY <2>3, <2>4, Zenon
<1>2. ASSUME NEW q \in Nat PROVE g[q] = IF Prime(q) THEN q ELSE g[q + 1]
  <2>1. CASE Prime(q)
    <3>1. q \in Behind(q)
      BY <2>1
    <3>2. g[q] <= q /\ g[q] >= q /\ g[q] \in Nat
      BY <1>1, <3>1
    <3> QED
      BY <3>2, <2>1
  <2>2. CASE ~Prime(q)
    <3>1. Behind(q) = Behind(q + 1)
      BY <2>2
    <3>2. g[q] \in Behind(q + 1) /\ g[q + 1] \in Behind(q) /\ q + 1 \in Nat
      BY <1>1, <3>1
    <3>3. g[q] <= g[q + 1] /\ g[q + 1] <= g[q] /\ g[q] \in Nat /\ g[q + 1] \in Nat
      BY <1>1, <3>1, <3>2
    <3> QED
      BY <3>3, <2>2
  <2> QED
    BY <2>1, <2>2
<1>3. g = [q \in Nat |-> IF Prime(q) THEN q ELSE g[q + 1]]
  <2> HIDE DEF First
  <2>1. g = [q \in Nat |-> g[q]]
    BY Zenon
  <2> HIDE DEF g
  <2> QED
    BY <1>2, <2>1
<1>4. from = [q \in Nat |-> IF Prime(q) THEN q ELSE from[q + 1]]
  <2> HIDE DEF g
  <2> QED
    BY <1>3, Zenon
<1>5. NextPrime(n) = from[n]
  BY Zenon DEF NextPrime
<1> HIDE DEF from
<1>6. \A q \in Nat : from[q] = IF Prime(q) THEN q ELSE from[q + 1]
  BY <1>4, Zenon
(* From every q up to the first prime the loop gives that prime.           *)
<1>7. PICK z \in Nat : z = g[n] /\ z >= n /\ Prime(z) /\ \A r \in P : r >= n => z <= r
  BY <1>1
<1>8. \A i \in Nat : i <= z - n => from[z - i] = z
  <2> DEFINE T == {i \in Nat : i <= z - n => from[z - i] = z}
  <2>1. 0 \in T
    <3>1. z - 0 = z
      OBVIOUS
    <3>2. from[z] = z
      BY <1>6, <1>7, Zenon
    <3> QED
      BY <3>1, <3>2
  <2>2. ASSUME NEW i \in Nat, i \in T PROVE i + 1 \in T
    <3>1. SUFFICES ASSUME i + 1 <= z - n PROVE from[z - (i + 1)] = z
      OBVIOUS
    <3>2. z - (i + 1) \in Nat /\ z - (i + 1) >= n /\ z - (i + 1) < z /\ (z - (i + 1)) + 1 = z - i
      BY <3>1
    <3>3. ~Prime(z - (i + 1))
      BY <1>7, <3>2
    <3>4. from[z - (i + 1)] = from[z - i]
      BY <1>6, <3>2, <3>3, Zenon
    <3> QED
      BY <3>4, <2>2, <3>1
  <2> HIDE DEF T
  <2>3. Nat \subseteq T
    BY <2>1, <2>2, Induction
  <2> QED
    BY <2>3 DEF T
<1>9. NextPrime(n) = z
  <2>1. z - n \in Nat /\ z - (z - n) = n /\ z - n <= z - n
    BY <1>7
  <2> QED
    BY <2>1, <1>8, <1>5
<1>10. z % 2 # 0
  <2>1. 2 \in 2 .. z - 1
    BY <1>7
  <2> QED
    BY <2>1, <1>7, Zenon DEF Prime
<1> QED
  BY <1>7, <1>9, <1>10

---------------------------------------------------------------------------
(* The probe of a hash comes to a slot before it comes to an empty one.    *)
Reached(p, m, h, slot) ==
    \E j \in Nat : Slot(h, m, j) = slot /\ \A i \in 0 .. j - 1 : p[Slot(h, m, i)] # EMPTY

(* It then does so on its first round.                                     *)
LEMMA ReachedSoon ==
    ASSUME NEW p, NEW h \in Nat, NEW m, Probes(m), NEW slot, Reached(p, m, h, slot)
    PROVE  \E j \in 0 .. Steps(m) - 1 :
              Slot(h, m, j) = slot /\ \A i \in 0 .. j - 1 : p[Slot(h, m, i)] # EMPTY
<1> DEFINE Way(j) == Slot(h, m, j) = slot /\ \A i \in 0 .. j - 1 : p[Slot(h, m, i)] # EMPTY
           T == {j \in Nat : Way(j)}
<1>1. T \subseteq Nat /\ T # {}
  BY Zenon DEF Reached
<1>2. PICK j \in T : \A i \in T : j <= i
  <2> HIDE DEF T
  <2> QED
    BY <1>1, LeastNatural
<1>3. Steps(m) \in Nat \ {0}
  BY StepsRange
<1>4. ASSUME j >= Steps(m) PROVE FALSE
  <2>1. j - Steps(m) \in Nat /\ (j - Steps(m)) + Steps(m) = j
    BY <1>2, <1>3, <1>4
  <2>2. Slot(h, m, (j - Steps(m)) + Steps(m)) = Slot(h, m, j - Steps(m))
    BY <2>1, SlotWraps, Zenon
  <2>3. Slot(h, m, j - Steps(m)) = slot
    BY <2>1, <2>2, <1>2, Zenon
  <2>4. \A i \in 0 .. (j - Steps(m)) - 1 : i \in 0 .. j - 1
    BY <1>3, <2>1
  <2>5. j - Steps(m) \in T
    BY <2>1, <2>3, <2>4, <1>2, Zenon
  <2> QED
    BY <2>5, <2>1, <1>2, <1>3
<1>5. j \in 0 .. Steps(m) - 1
  BY <1>2, <1>3, <1>4
<1> QED
  BY <1>5, <1>2, Zenon

(* T->pair_mem is the number of slots.                                     *)
LEMMA MemIs ==
    ASSUME NEW m \in Nat, m >= 1, NEW p, DOMAIN p = Slots(m)
    PROVE  Mem(p) = m
<1>1. 0 \in Int /\ m - 1 \in Int /\ ~(0 > m - 1) /\ m - 1 - 0 + 1 = m
  OBVIOUS
<1>2. Cardinality(0 .. m - 1) = IF 0 > m - 1 THEN 0 ELSE m - 1 - 0 + 1
  BY <1>1, FS_Interval
<1> QED
  BY <1>1, <1>2, Zenon DEF Mem, Slots

(* Keys are equal when they are the same: there is no NaN among them.      *)
Plain == \A k, l \in Key : <<k, l>> \in Same <=> k = l

(* The index idx is that of an item with this key.                         *)
Has(its, idx, k) == idx \in 0 .. Len(its) - 1 /\ its[idx + 1].key = k

(* An index of vars is that of an item.                                    *)
LEMMA ItemAt ==
    ASSUME NEW its \in Seq(Item), NEW idx \in 0 .. Len(its) - 1
    PROVE  /\ idx + 1 \in DOMAIN its /\ its[idx + 1] \in Item
           /\ its[idx + 1].key \in Key
<1>1. idx + 1 \in 1 .. Len(its)
  BY LenProperties
<1>2. its[idx + 1] \in Item
  BY <1>1, ElementOfSeq
<1> QED
  BY <1>1, <1>2 DEF Item

(* sgs_vht_pair_id: a slot of the key, or -1 if the probe meets none       *)
(* before an empty slot.                                                   *)
LEMMA PairIdIs ==
    ASSUME Plain, NEW m, Probes(m), NEW p, DOMAIN p = Slots(m),
           NEW its \in Seq(Item), NEW k \in Key
    PROVE  \/ /\ PairId(p, its, k) = -1
              /\ \A l \in 0 .. Steps(m) - 1 :
                    Has(its, p[Slot(Hash[k], m, l)], k)
                        => \E i \in 0 .. l - 1 : p[Slot(Hash[k], m, i)] = EMPTY
           \/ /\ PairId(p, its, k) \in Slots(m)
              /\ Has(its, p[PairId(p, its, k)], k)
<1> DEFINE n == Steps(m)
           slot(j) == Slot(Hash[k], m, j)
           Is(idx) == idx \in 0 .. Len(its) - 1 /\ <<k, its[idx + 1].key>> \in Same
           probe == CHOOSE f : f =
                      [j \in 0 .. n |-> IF j = n \/ p[slot(j)] = EMPTY THEN -1
                                        ELSE IF Is(p[slot(j)]) THEN slot(j) ELSE f[j + 1]]
<1>0. n \in Nat \ {0} /\ m \in Nat \ {0} /\ m >= 1 /\ Hash[k] \in Nat
  BY StepsRange, HashAssumption DEF Probes
<1>1. PairId(p, its, k) = probe[0]
  <2>1. Mem(p) = m
    BY <1>0, MemIs
  <2> QED
    BY <2>1, Zenon DEF PairId
<1>2. \A idx : Is(idx) <=> Has(its, idx, k)
  BY ItemAt DEF Has, Plain
<1> HIDE DEF slot, Is, n
<1>3. probe = [j \in 0 .. n |-> IF j = n \/ p[slot(j)] = EMPTY THEN -1
                                ELSE IF Is(p[slot(j)]) THEN slot(j) ELSE probe[j + 1]]
  <2> DEFINE Ends(j) == j = n \/ p[slot(j)] = EMPTY
             Stop == {j \in 0 .. n : Ends(j) \/ Is(p[slot(j)])}
             Behind(j) == {i \in Stop : i >= j}
             First(j) == CHOOSE i \in Behind(j) : \A l \in Behind(j) : i <= l
             Val(j) == IF Ends(First(j)) THEN -1 ELSE slot(First(j))
             g == [j \in 0 .. n |-> Val(j)]
  <2>1. ASSUME NEW j \in 0 .. n
        PROVE  First(j) \in Behind(j) /\ \A l \in Behind(j) : First(j) <= l
    <3>1. n \in Behind(j) /\ Behind(j) \subseteq Nat
      BY <1>0
    <3>2. \E i \in Behind(j) : \A l \in Behind(j) : i <= l
      <4> DEFINE B == Behind(j)
      <4>1. B # {} /\ B \subseteq Nat
        BY <3>1
      <4> HIDE DEF B
      <4>2. \E i \in B : \A l \in B : i <= l
        BY <4>1, LeastNatural
      <4> QED
        BY <4>2 DEF B
    <3> QED
      BY <3>2, Zenon
  <2>2. ASSUME NEW j \in 0 .. n
        PROVE  Val(j) = IF Ends(j) THEN -1 ELSE IF Is(p[slot(j)]) THEN slot(j) ELSE Val(j + 1)
    <3>1. CASE j \in Stop
      <4>1. j \in Behind(j)
        BY <3>1
      <4>2. First(j) <= j /\ First(j) >= j /\ First(j) \in Nat
        <5> HIDE DEF First
        <5> QED
          BY <2>1, <4>1, <1>0
      <4>3. First(j) = j
        <5> HIDE DEF First
        <5> QED
          BY <4>2
      <4> HIDE DEF First
      <4> QED
        BY <3>1, <4>3
    <3>2. CASE j \notin Stop
      <4>1. ~Ends(j) /\ ~Is(p[slot(j)]) /\ j + 1 \in 0 .. n
        BY <3>2, <1>0
      <4>2. Behind(j) = Behind(j + 1)
        BY <3>2, <1>0
      <4>3. First(j) = First(j + 1)
        BY <4>2, Zenon
      <4> HIDE DEF First
      <4> QED
        BY <4>1, <4>3
    <3> QED
      BY <3>1, <3>2
  <2> HIDE DEF First
  <2>3. \A j \in 0 .. n : ~Ends(j) => j + 1 \in 0 .. n
    BY <1>0
  <2>4. g = [j \in 0 .. n |-> IF j = n \/ p[slot(j)] = EMPTY THEN -1
                              ELSE IF Is(p[slot(j)]) THEN slot(j) ELSE g[j + 1]]
    <3> HIDE DEF Val
    <3>1. \A j \in 0 .. n : ~Ends(j) => g[j + 1] = Val(j + 1)
      BY <2>3
    <3> QED
      BY <2>2, <3>1
  <2> HIDE DEF g
  <2> QED
    BY <2>4, Zenon
<1> HIDE DEF probe
<1>4. \A j \in 0 .. n : probe[j] = IF j = n \/ p[slot(j)] = EMPTY THEN -1
                                   ELSE IF Is(p[slot(j)]) THEN slot(j) ELSE probe[j + 1]
  BY <1>3, Zenon
<1> DEFINE Nothing(j) == /\ probe[j] = -1
                         /\ \A l \in j .. n - 1 : Is(p[slot(l)]) => \E i \in j .. l - 1 : p[slot(i)] = EMPTY
           Found(j) == \E l \in 0 .. n - 1 : probe[j] = slot(l) /\ Is(p[slot(l)])
           T == {i \in Nat : i <= n => Nothing(n - i) \/ Found(n - i)}
<1>5. 0 \in T
  <2>1. probe[n] = -1 /\ n - 0 = n
    BY <1>0, <1>4
  <2> QED
    BY <2>1, <1>0
<1>6. ASSUME NEW i \in Nat, i \in T PROVE i + 1 \in T
  <2>1. SUFFICES ASSUME i + 1 <= n PROVE Nothing(n - (i + 1)) \/ Found(n - (i + 1))
    OBVIOUS
  <2>2. PICK j \in 0 .. n - 1 : j = n - (i + 1) /\ j + 1 = n - i /\ j # n
    BY <2>1, <1>0
  <2>3. Nothing(j + 1) \/ Found(j + 1)
    BY <2>1, <2>2, <1>6, <1>0
  <2>4. CASE p[slot(j)] = EMPTY
    <3>1. probe[j] = -1
      BY <2>2, <2>4, <1>4, <1>0
    <3>2. \A l \in j .. n - 1 : Is(p[slot(l)]) => \E x \in j .. l - 1 : p[slot(x)] = EMPTY
      <4>1. ~Is(EMPTY)
        BY DEF EMPTY, Is
      <4> QED
        BY <2>4, <4>1, <1>0
    <3> QED
      BY <3>1, <3>2, <2>2
  <2>5. CASE p[slot(j)] # EMPTY /\ Is(p[slot(j)])
    <3>1. probe[j] = slot(j)
      BY <2>2, <2>5, <1>4, <1>0
    <3> QED
      BY <3>1, <2>5, <2>2
  <2>6. CASE p[slot(j)] # EMPTY /\ ~Is(p[slot(j)])
    <3>1. probe[j] = probe[j + 1]
      BY <2>2, <2>6, <1>4, <1>0
    <3>2. CASE Found(j + 1)
      BY <3>1, <3>2, <2>2
    <3>3. CASE Nothing(j + 1)
      <4>1. ASSUME NEW l \in j .. n - 1, Is(p[slot(l)]) PROVE \E x \in j .. l - 1 : p[slot(x)] = EMPTY
        <5>1. l \in j + 1 .. n - 1
          BY <4>1, <2>6, <1>0
        <5>2. PICK x \in j + 1 .. l - 1 : p[slot(x)] = EMPTY
          BY <5>1, <3>3, <4>1
        <5> QED
          BY <5>2
      <4> QED
        BY <3>1, <3>3, <4>1, <2>2
    <3> QED
      BY <2>3, <3>2, <3>3
  <2> QED
    BY <2>4, <2>5, <2>6
<1>7. n \in T
  <2> HIDE DEF T
  <2>1. Nat \subseteq T
    BY <1>5, <1>6, Induction
  <2> QED
    BY <2>1, <1>0
<1>8. Nothing(0) \/ Found(0)
  <2>1. n - n = 0
    BY <1>0
  <2> QED
    BY <1>7, <2>1, <1>0
<1>9. CASE Nothing(0)
  BY <1>9, <1>1, <1>2 DEF slot, n
<1>10. CASE Found(0)
  <2>1. PICK l \in 0 .. n - 1 : probe[0] = slot(l) /\ Is(p[slot(l)])
    BY <1>10
  <2>2. slot(l) \in Slots(m)
    BY <1>0, SlotRange DEF slot
  <2> QED
    BY <2>1, <2>2, <1>1, <1>2
<1> QED
  BY <1>8, <1>9, <1>10

---------------------------------------------------------------------------
(* The hash of the key of an item.                                         *)
HashOf(its, idx) == Hash[its[idx + 1].key]

(* p with m slots is an index of the items: it holds each of their indices *)
(* once, where the probe of the item's hash comes to it.                   *)
Indexes(p, m, its) ==
    /\ p \in [Slots(m) -> {EMPTY, REMOVED} \cup (0 .. Len(its) - 1)]
    /\ \A i \in 0 .. Len(its) - 1 : \E s \in Slots(m) : p[s] = i
    /\ \A s, r \in Slots(m) : p[s] = p[r] /\ p[s] >= 0 => s = r
    /\ \A s \in Slots(m) : p[s] >= 0 => Reached(p, m, HashOf(its, p[s]), s)

(* No key has two items; the slots with a removed mark.                    *)
Distinct(its) == \A i, j \in 0 .. Len(its) - 1 : its[i + 1].key = its[j + 1].key => i = j
RemovedIn(p, m) == {s \in Slots(m) : p[s] = REMOVED}

(* The hash of an item is one of Hash.                                     *)
LEMMA HashOfNat ==
    ASSUME NEW its \in Seq(Item), NEW idx \in 0 .. Len(its) - 1
    PROVE  HashOf(its, idx) \in Nat
  BY ItemAt, HashAssumption DEF HashOf

(* A slot that fills or is marked does not end a probe that passed it.     *)
LEMMA ReachedKept ==
    ASSUME NEW p, NEW q, NEW h \in Nat, NEW m, Probes(m), NEW slot, Reached(p, m, h, slot),
           \A x \in Slots(m) : p[x] # EMPTY => q[x] # EMPTY
    PROVE  Reached(q, m, h, slot)
<1>1. PICK j \in Nat : Slot(h, m, j) = slot /\ \A i \in 0 .. j - 1 : p[Slot(h, m, i)] # EMPTY
  BY Zenon DEF Reached
<1>2. \A i \in 0 .. j - 1 : Slot(h, m, i) \in Slots(m)
  BY SlotRange
<1>3. \A i \in 0 .. j - 1 : q[Slot(h, m, i)] # EMPTY
  BY <1>1, <1>2, Zenon
<1> QED
  BY <1>1, <1>3, Zenon DEF Reached

(* Two probes that meet go on together.                                    *)
LEMMA ReachedOn ==
    ASSUME NEW p, NEW g \in Nat, NEW h \in Nat, NEW m, Probes(m), NEW j \in Nat,
           Reached(p, m, g, Slot(h, m, j)), p[Slot(h, m, j)] # EMPTY
    PROVE  Reached(p, m, g, Slot(h, m, j + 1))
<1>1. PICK i \in Nat : Slot(g, m, i) = Slot(h, m, j) /\ \A x \in 0 .. i - 1 : p[Slot(g, m, x)] # EMPTY
  BY Zenon DEF Reached
<1>2. Slot(g, m, i + 1) = Slot(h, m, j + 1)
  <2> DEFINE Onward(s) == IF s + 2 < m THEN s + 2 ELSE s + 2 - m
  <2>1. Slot(g, m, i + 1) = Onward(Slot(g, m, i)) /\ Slot(h, m, j + 1) = Onward(Slot(h, m, j))
    BY SlotStep
  <2> HIDE DEF Onward
  <2> QED
    BY <2>1, <1>1
<1>3. \A x \in 0 .. (i + 1) - 1 : x \in 0 .. i - 1 \/ x = i
  OBVIOUS
<1>4. \A x \in 0 .. (i + 1) - 1 : p[Slot(g, m, x)] # EMPTY
  BY <1>1, <1>3, Zenon
<1>5. i + 1 \in Nat
  OBVIOUS
<1> QED
  BY <1>2, <1>4, <1>5, Zenon DEF Reached

(* sgs_vht_pair_id finds a key that its probe comes to.                    *)
LEMMA PairIdFinds ==
    ASSUME Plain, NEW m, Probes(m), NEW p, DOMAIN p = Slots(m),
           NEW its \in Seq(Item), NEW k \in Key,
           NEW s, Has(its, p[s], k), Reached(p, m, Hash[k], s)
    PROVE  PairId(p, its, k) \in Slots(m) /\ Has(its, p[PairId(p, its, k)], k)
<1>1. Hash[k] \in Nat
  BY HashAssumption
<1>2. PICK j \in 0 .. Steps(m) - 1 :
         Slot(Hash[k], m, j) = s /\ \A i \in 0 .. j - 1 : p[Slot(Hash[k], m, i)] # EMPTY
  BY <1>1, ReachedSoon
<1> QED
  BY <1>2, PairIdIs, Zenon

(* A lookup in an index of items finds what is there.                      *)
LEMMA LookUp ==
    ASSUME Plain, NEW m, Probes(m), NEW p, NEW its \in Seq(Item), Indexes(p, m, its),
           NEW k \in Key
    PROVE  \/ /\ PairId(p, its, k) = -1
              /\ \A i \in 0 .. Len(its) - 1 : its[i + 1].key # k
           \/ /\ PairId(p, its, k) \in Slots(m)
              /\ Has(its, p[PairId(p, its, k)], k)
<1>1. DOMAIN p = Slots(m)
  BY DEF Indexes
<1>2. CASE \E i \in 0 .. Len(its) - 1 : its[i + 1].key = k
  <2>1. PICK i \in 0 .. Len(its) - 1 : its[i + 1].key = k
    BY <1>2
  <2>2. PICK s \in Slots(m) : p[s] = i
    BY <2>1 DEF Indexes
  <2>3. p[s] >= 0 /\ Has(its, p[s], k) /\ HashOf(its, p[s]) = Hash[k]
    BY <2>1, <2>2 DEF Has, HashOf
  <2>4. Reached(p, m, Hash[k], s)
    BY <2>2, <2>3 DEF Indexes
  <2> QED
    BY <1>1, <2>3, <2>4, PairIdFinds, Zenon
<1>3. CASE ~\E i \in 0 .. Len(its) - 1 : its[i + 1].key = k
  <2>1. ~Has(its, p[PairId(p, its, k)], k)
    BY <1>3 DEF Has
  <2> QED
    BY <2>1, <1>1, <1>3, PairIdIs, Zenon
<1> QED
  BY <1>2, <1>3

(* No more different values than there are in the set they are from.       *)
LEMMA Pigeons ==
    ASSUME NEW n \in Nat, NEW T, IsFiniteSet(T), NEW f \in [0 .. n - 1 -> T],
           \A i, j \in 0 .. n - 1 : f[i] = f[j] => i = j
    PROVE  n <= Cardinality(T)
<1>1. IsFiniteSet(0 .. n - 1) /\ Cardinality(0 .. n - 1) = n
  <2>1. 0 \in Int /\ n - 1 \in Int
    OBVIOUS
  <2>2. IsFiniteSet(0 .. n - 1) /\ Cardinality(0 .. n - 1) = IF 0 > n - 1 THEN 0 ELSE n - 1 - 0 + 1
    BY <2>1, FS_Interval
  <2> QED
    BY <2>2
<1>2. Cardinality(T) \in Nat
  BY FS_CardinalityType
<1>3. SUFFICES ASSUME Cardinality(T) < Cardinality(0 .. n - 1) PROVE FALSE
  BY <1>1, <1>2
<1> DEFINE S == 0 .. n - 1
<1> HIDE DEF S
<1>4. \E x, y \in S : x # y /\ f[x] = f[y]
  BY <1>1, <1>3, FS_PigeonHole DEF S
<1> QED
  BY <1>4 DEF S

(* A probe of an index with more steps than it has items comes to a slot   *)
(* without one, also if it has one item more that is not in the index.     *)
LEMMA SomeFree ==
    ASSUME NEW h \in Nat, NEW m, Probes(m), NEW p, NEW T, IsFiniteSet(T),
           Cardinality(T) < Steps(m),
           \A s \in Slots(m) : p[s] \in Int /\ (p[s] >= 0 => p[s] \in T),
           \A s, r \in Slots(m) : p[s] = p[r] /\ p[s] >= 0 => s = r
    PROVE  \E j \in 0 .. Steps(m) - 1 : p[Slot(h, m, j)] < 0
<1>1. SUFFICES ASSUME \A j \in 0 .. Steps(m) - 1 : ~(p[Slot(h, m, j)] < 0) PROVE FALSE
  OBVIOUS
<1> DEFINE n == Steps(m)
           f == [j \in 0 .. n - 1 |-> p[Slot(h, m, j)]]
<1>2. n \in Nat /\ Cardinality(T) \in Nat
  BY StepsRange, FS_CardinalityType
<1>3. ASSUME NEW j \in 0 .. n - 1
      PROVE  Slot(h, m, j) \in Slots(m) /\ f[j] = p[Slot(h, m, j)] /\ f[j] >= 0 /\ f[j] \in T
  <2>1. Slot(h, m, j) \in Slots(m)
    BY <1>2, SlotRange
  <2> QED
    BY <2>1, <1>1
<1>4. ASSUME NEW i \in 0 .. n - 1, NEW j \in 0 .. n - 1, f[i] = f[j] PROVE i = j
  <2>1. Slot(h, m, i) = Slot(h, m, j)
    BY <1>3, <1>4, Zenon
  <2> QED
    BY <2>1, SlotsDiffer
<1>5. f \in [0 .. n - 1 -> T]
  BY <1>3
<1> HIDE DEF f, n
<1>6. n <= Cardinality(T)
  BY <1>2, <1>4, <1>5, Pigeons
<1> QED
  BY <1>6, <1>2 DEF n

---------------------------------------------------------------------------
(* vars with one more item.                                                *)
LEMMA AppendedItems ==
    ASSUME NEW old \in Seq(Item), NEW item \in Item
    PROVE  LET its == Append(old, item)
           IN  /\ its \in Seq(Item) /\ Len(its) = Len(old) + 1 /\ Len(old) \in Nat
               /\ its[Len(old) + 1] = item
               /\ \A i \in 0 .. Len(old) - 1 : its[i + 1] = old[i + 1]
  BY AppendProperties, LenProperties

(* The fields of the state of an insertion.                                *)
IsState(s) == s = [p |-> s.p, ipos |-> s.ipos, dist |-> s.dist, done |-> s.done, reused |-> s.reused]

(* The states of an insertion into the index p0, before the probe's slot   *)
(* number j is visited: until it is done, the index with the item that is  *)
(* carried holds what an index of the items would, and the carried item's  *)
(* own probe comes to this slot.                                           *)
Carrying(p0, m, its, j, s) ==
    LET h == HashOf(its, Len(its) - 1)
    IN  /\ s.done = FALSE /\ s.reused = FALSE
        /\ s.ipos \in 0 .. Len(its) - 1
        /\ s.p \in [Slots(m) -> {EMPTY, REMOVED} \cup (0 .. Len(its) - 1)]
        /\ \A x \in Slots(m) : /\ p0[x] < 0 <=> s.p[x] < 0
                               /\ p0[x] < 0 => s.p[x] = p0[x]
        /\ \A i \in 0 .. Len(its) - 1 : i = s.ipos \/ \E x \in Slots(m) : s.p[x] = i
        /\ \A x \in Slots(m) : s.p[x] # s.ipos
        /\ \A x, y \in Slots(m) : s.p[x] = s.p[y] /\ s.p[x] >= 0 => x = y
        /\ \A x \in Slots(m) : s.p[x] >= 0 => Reached(s.p, m, HashOf(its, s.p[x]), x)
        /\ Reached(s.p, m, HashOf(its, s.ipos), Slot(h, m, j))
        /\ \A i \in 0 .. j - 1 : ~(p0[Slot(h, m, i)] < 0)

(* The state of an insertion that found a free slot.                       *)
Inserted(p0, m, its, s) ==
    /\ s.done = TRUE
    /\ Indexes(s.p, m, its)
    /\ \/ s.reused = FALSE /\ RemovedIn(s.p, m) = RemovedIn(p0, m)
       \/ /\ s.reused = TRUE
          /\ \E x \in RemovedIn(p0, m) : RemovedIn(s.p, m) = RemovedIn(p0, m) \ {x}

(* The visit of a slot without an item ends the insertion.                 *)
LEMMA VisitPlaces ==
    ASSUME NEW m, Probes(m), NEW its \in Seq(Item), Len(its) > 0, NEW p0,
           NEW j \in Nat, NEW s, IsState(s), Carrying(p0, m, its, j, s),
           NEW slot, slot = Slot(HashOf(its, Len(its) - 1), m, j), s.p[slot] < 0
    PROVE  /\ IsState(Visited(its, m, s, slot))
           /\ Inserted(p0, m, its, Visited(its, m, s, slot))
<1> DEFINE t == Visited(its, m, s, slot)
           q == [s.p EXCEPT ![slot] = s.ipos]
<1>1. t = [s EXCEPT !.p[slot] = s.ipos, !.done = TRUE, !.reused = s.p[slot] = REMOVED]
  BY DEF Visited, Carrying
<1>2. t = [p |-> q, ipos |-> s.ipos, dist |-> s.dist, done |-> TRUE, reused |-> s.p[slot] = REMOVED]
  BY <1>1 DEF IsState
<1>3. t.p = q /\ t.done = TRUE /\ t.reused = (s.p[slot] = REMOVED) /\ IsState(t)
  BY <1>2 DEF IsState
<1> HIDE DEF t
<1>4. slot \in Slots(m)
  BY SlotRange, HashOfNat, LenProperties
<1>5. /\ s.p \in [Slots(m) -> {EMPTY, REMOVED} \cup (0 .. Len(its) - 1)]
      /\ s.ipos \in 0 .. Len(its) - 1
  BY DEF Carrying
<1>6. /\ q \in [Slots(m) -> {EMPTY, REMOVED} \cup (0 .. Len(its) - 1)]
      /\ q[slot] = s.ipos
      /\ \A x \in Slots(m) : x # slot => q[x] = s.p[x]
  BY <1>4, <1>5
<1> HIDE DEF q
<1>7. Indexes(q, m, its)
  <2>1. ASSUME NEW i \in 0 .. Len(its) - 1 PROVE \E x \in Slots(m) : q[x] = i
    <3>1. CASE i = s.ipos
      BY <3>1, <1>4, <1>6
    <3>2. CASE i # s.ipos
      <4>1. PICK x \in Slots(m) : s.p[x] = i
        BY <3>2 DEF Carrying
      <4>2. x # slot
        BY <4>1, LenProperties
      <4> QED
        BY <4>1, <4>2, <1>6
    <3> QED
      BY <3>1, <3>2
  <2>2. ASSUME NEW x \in Slots(m), NEW y \in Slots(m), q[x] = q[y], q[x] >= 0 PROVE x = y
    BY <2>2, <1>6 DEF Carrying
  <2>3. \A x \in Slots(m) : s.p[x] # EMPTY => q[x] # EMPTY
    BY <1>4, <1>5, <1>6 DEF EMPTY
  <2>4. ASSUME NEW x \in Slots(m), q[x] >= 0 PROVE Reached(q, m, HashOf(its, q[x]), x)
    <3>1. q[x] \in 0 .. Len(its) - 1
      BY <2>4, <1>6 DEF EMPTY, REMOVED
    <3>2. HashOf(its, q[x]) \in Nat
      BY <3>1, HashOfNat
    <3>3. Reached(s.p, m, HashOf(its, q[x]), x)
      <4>1. CASE x = slot
        BY <4>1, <1>6 DEF Carrying
      <4>2. CASE x # slot
        BY <4>2, <2>4, <1>6 DEF Carrying
      <4> QED
        BY <4>1, <4>2
    <3> QED
      BY <3>2, <3>3, <2>3, ReachedKept
  <2> QED
    BY <1>6, <2>1, <2>2, <2>4 DEF Indexes
<1>8. RemovedIn(s.p, m) = RemovedIn(p0, m)
  BY <1>5 DEF RemovedIn, Carrying, REMOVED, EMPTY
<1>9. RemovedIn(q, m) = RemovedIn(s.p, m) \ {slot}
  BY <1>4, <1>5, <1>6 DEF RemovedIn, REMOVED
<1>10. ASSUME s.p[slot] = REMOVED PROVE Inserted(p0, m, its, t)
  <2>1. slot \in RemovedIn(p0, m)
    BY <1>4, <1>8, <1>10 DEF RemovedIn
  <2>2. t.reused = TRUE /\ RemovedIn(q, m) = RemovedIn(p0, m) \ {slot}
    BY <1>3, <1>8, <1>9, <1>10
  <2> QED
    BY <1>3, <1>7, <2>1, <2>2 DEF Inserted
<1>11. ASSUME s.p[slot] # REMOVED PROVE Inserted(p0, m, its, t)
  <2>1. RemovedIn(s.p, m) \ {slot} = RemovedIn(s.p, m)
    BY <1>11 DEF RemovedIn
  <2>2. t.reused = FALSE /\ RemovedIn(q, m) = RemovedIn(p0, m)
    BY <1>3, <1>8, <1>9, <1>11, <2>1
  <2> QED
    BY <1>3, <1>7, <2>2 DEF Inserted
<1> QED
  BY <1>3, <1>10, <1>11 DEF t

(* The visit of a slot with an item keeps or displaces it, and goes on.    *)
LEMMA VisitCarriesOn ==
    ASSUME NEW m, Probes(m), NEW its \in Seq(Item), Len(its) > 0, NEW p0,
           NEW j \in Nat, NEW s, IsState(s), Carrying(p0, m, its, j, s),
           NEW slot, slot = Slot(HashOf(its, Len(its) - 1), m, j), ~(s.p[slot] < 0)
    PROVE  /\ IsState(Visited(its, m, s, slot))
           /\ Carrying(p0, m, its, j + 1, Visited(its, m, s, slot))
<1> DEFINE t == Visited(its, m, s, slot)
           h == HashOf(its, Len(its) - 1)
           idx == s.p[slot]
           exdist == ProbeLen(HashOf(its, idx), m, slot)
<1>1. h \in Nat /\ slot \in Slots(m)
  BY SlotRange, HashOfNat, LenProperties
<1>2. /\ s.p \in [Slots(m) -> {EMPTY, REMOVED} \cup (0 .. Len(its) - 1)]
      /\ s.ipos \in 0 .. Len(its) - 1
      /\ s.done = FALSE /\ s.reused = FALSE
  BY DEF Carrying
<1>3. idx \in 0 .. Len(its) - 1 /\ idx # EMPTY /\ HashOf(its, idx) \in Nat /\ HashOf(its, s.ipos) \in Nat
  BY <1>1, <1>2, HashOfNat DEF EMPTY, REMOVED
<1>4. \A i \in 0 .. j : ~(p0[Slot(h, m, i)] < 0)
  <2>1. ~(p0[slot] < 0)
    BY <1>1 DEF Carrying
  <2> QED
    BY <2>1 DEF Carrying
<1>5. \A i \in 0 .. (j + 1) - 1 : ~(p0[Slot(h, m, i)] < 0)
  BY <1>4
<1>6. CASE exdist < s.dist
  <2> DEFINE q == [s.p EXCEPT ![slot] = s.ipos]
  <2>1. t = [s EXCEPT !.p[slot] = s.ipos, !.ipos = idx, !.dist = exdist + 1]
    BY <1>2, <1>6 DEF Visited, HashOf
  <2>2. t = [p |-> q, ipos |-> idx, dist |-> exdist + 1, done |-> FALSE, reused |-> FALSE]
    BY <2>1, <1>2 DEF IsState
  <2>3. t.p = q /\ t.ipos = idx /\ t.done = FALSE /\ t.reused = FALSE /\ IsState(t)
    BY <2>2 DEF IsState
  <2> HIDE DEF t
  <2>4. /\ q \in [Slots(m) -> {EMPTY, REMOVED} \cup (0 .. Len(its) - 1)]
        /\ q[slot] = s.ipos
        /\ \A x \in Slots(m) : x # slot => q[x] = s.p[x]
    BY <1>1, <1>2
  <2> HIDE DEF q
  <2>5. \A x \in Slots(m) : /\ p0[x] < 0 <=> q[x] < 0
                            /\ p0[x] < 0 => q[x] = p0[x]
    BY <1>2, <1>3, <2>4 DEF Carrying
  <2>6. \A i \in 0 .. Len(its) - 1 : i = idx \/ \E x \in Slots(m) : q[x] = i
    <3>1. SUFFICES ASSUME NEW i \in 0 .. Len(its) - 1, i # idx PROVE \E x \in Slots(m) : q[x] = i
      OBVIOUS
    <3>2. CASE i = s.ipos
      BY <3>2, <1>1, <2>4
    <3>3. CASE i # s.ipos
      <4>1. PICK x \in Slots(m) : s.p[x] = i
        BY <3>3 DEF Carrying
      <4> QED
        BY <4>1, <3>1, <2>4
    <3> QED
      BY <3>2, <3>3
  <2>7. \A x \in Slots(m) : q[x] # idx
    BY <1>1, <1>3, <2>4 DEF Carrying
  <2>8. \A x, y \in Slots(m) : q[x] = q[y] /\ q[x] >= 0 => x = y
    BY <2>4 DEF Carrying
  <2>9. \A x \in Slots(m) : s.p[x] # EMPTY => q[x] # EMPTY
    BY <1>2, <2>4 DEF EMPTY
  <2>10. ASSUME NEW x \in Slots(m), q[x] >= 0 PROVE Reached(q, m, HashOf(its, q[x]), x)
    <3>1. q[x] \in 0 .. Len(its) - 1
      BY <2>10, <2>4 DEF EMPTY, REMOVED
    <3>2. HashOf(its, q[x]) \in Nat
      BY <3>1, HashOfNat
    <3>3. Reached(s.p, m, HashOf(its, q[x]), x)
      <4>1. CASE x = slot
        BY <4>1, <2>4 DEF Carrying
      <4>2. CASE x # slot
        BY <4>2, <2>10, <2>4 DEF Carrying
      <4> QED
        BY <4>1, <4>2
    <3> QED
      BY <3>2, <3>3, <2>9, ReachedKept
  <2>11. Reached(q, m, HashOf(its, idx), Slot(h, m, j + 1))
    <3>1. Reached(s.p, m, HashOf(its, idx), slot)
      BY <1>1, <1>3 DEF Carrying
    <3>2. Reached(q, m, HashOf(its, idx), slot)
      BY <3>1, <1>3, <2>9, ReachedKept
    <3>3. q[slot] # EMPTY
      BY <1>2, <2>4 DEF EMPTY
    <3> QED
      BY <3>2, <3>3, <1>1, <1>3, ReachedOn
  <2>12. Carrying(p0, m, its, j + 1, t)
    BY <1>3, <1>5, <2>3, <2>4, <2>5, <2>6, <2>7, <2>8, <2>10, <2>11 DEF Carrying
  <2> QED
    BY <2>3, <2>12 DEF t
<1>7. CASE ~(exdist < s.dist)
  <2>1. t = [s EXCEPT !.dist = @ + 1]
    BY <1>2, <1>7 DEF Visited, HashOf
  <2>2. t = [p |-> s.p, ipos |-> s.ipos, dist |-> s.dist + 1, done |-> FALSE, reused |-> FALSE]
    BY <2>1, <1>2 DEF IsState
  <2>3. t.p = s.p /\ t.ipos = s.ipos /\ t.done = FALSE /\ t.reused = FALSE /\ IsState(t)
    BY <2>2 DEF IsState
  <2> HIDE DEF t
  <2>4. Reached(s.p, m, HashOf(its, s.ipos), Slot(h, m, j + 1))
    <3>1. Reached(s.p, m, HashOf(its, s.ipos), Slot(h, m, j))
      BY DEF Carrying
    <3> QED
      BY <3>1, <1>1, <1>3, ReachedOn
  <2>5. Carrying(p0, m, its, j + 1, t)
    BY <1>5, <2>3, <2>4 DEF Carrying
  <2> QED
    BY <2>3, <2>5 DEF t
<1> QED
  BY <1>6, <1>7

---------------------------------------------------------------------------
(* There are n indices below n.                                            *)
LEMMA IndicesFinite ==
    ASSUME NEW n \in Nat
    PROVE  IsFiniteSet(0 .. n - 1) /\ Cardinality(0 .. n - 1) = n
<1>1. 0 \in Int /\ n - 1 \in Int
  OBVIOUS
<1>2. IsFiniteSet(0 .. n - 1) /\ Cardinality(0 .. n - 1) = IF 0 > n - 1 THEN 0 ELSE n - 1 - 0 + 1
  BY <1>1, FS_Interval
<1> QED
  BY <1>2

(* The insertion of a new item, with displacements and reused slots, makes *)
(* an index of the items with it, if a probe has more steps than there are *)
(* items.                                                                  *)
LEMMA InsertIs ==
    ASSUME NEW m, Probes(m), NEW p0, NEW old \in Seq(Item), Indexes(p0, m, old),
           Len(old) < Steps(m), NEW item \in Item
    PROVE  Inserted(p0, m, Append(old, item), Insert(p0, Append(old, item)))
<1> DEFINE its == Append(old, item)
           h == HashOf(its, Len(its) - 1)
           n == Steps(m)
           s0 == [p |-> p0, ipos |-> Len(its) - 1, dist |-> 0, done |-> FALSE, reused |-> FALSE]
           state == CHOOSE f : f =
                      [j \in 0 .. n |-> IF j = 0 THEN s0 ELSE Visited(its, m, f[j - 1], Slot(h, m, j - 1))]
<1>1. /\ its \in Seq(Item) /\ Len(its) = Len(old) + 1 /\ Len(old) \in Nat
      /\ \A i \in 0 .. Len(old) - 1 : HashOf(its, i) = HashOf(old, i)
  BY AppendedItems DEF HashOf
<1>2. h \in Nat /\ n \in Nat \ {0} /\ m \in Nat /\ m >= 1 /\ DOMAIN p0 = Slots(m)
  <2>1. h \in Nat
    <3> HIDE DEF its
    <3>1. Len(its) - 1 \in 0 .. Len(its) - 1
      BY <1>1
    <3> QED
      BY <3>1, <1>1, HashOfNat
  <2> QED
    BY <2>1, StepsRange DEF Probes, Indexes
<1>3. Insert(p0, its) = state[n]
  <2>1. Mem(p0) = m
    BY <1>2, MemIs
  <2>2. (Len(its) - 1) + 1 = Len(its)
    BY <1>1
  <2>3. h = Hash[its[Len(its)].key]
    BY <2>2 DEF HashOf
  <2> HIDE DEF h, its
  <2> QED
    BY <2>1, <2>3, Zenon DEF Insert
<1> HIDE DEF its, h, n
<1>4. state = [j \in 0 .. n |-> IF j = 0 THEN s0 ELSE Visited(its, m, state[j - 1], Slot(h, m, j - 1))]
  <2> HIDE DEF s0
  <2> DEFINE Made(f, i) == f = [j \in 0 .. i |-> IF j = 0 THEN s0 ELSE Visited(its, m, f[j - 1], Slot(h, m, j - 1))]
             T == {i \in Nat : \E f : Made(f, i)}
  <2>1. 0 \in T
    <3> DEFINE f == [j \in 0 .. 0 |-> s0]
    <3>1. \A j \in 0 .. 0 : j = 0
      OBVIOUS
    <3>2. Made(f, 0)
      BY <3>1
    <3> QED
      BY <3>2
  <2>2. ASSUME NEW i \in Nat, i \in T PROVE i + 1 \in T
    <3>1. PICK f : Made(f, i)
      BY <2>2
    <3> DEFINE Val(j) == IF j = i + 1 THEN Visited(its, m, f[i], Slot(h, m, i)) ELSE f[j]
               g == [j \in 0 .. i + 1 |-> Val(j)]
    <3>2. \A j \in 0 .. i : f[j] = IF j = 0 THEN s0 ELSE Visited(its, m, f[j - 1], Slot(h, m, j - 1))
      BY <3>1, Zenon
    <3>3. ASSUME NEW j \in 0 .. i + 1
          PROVE  Val(j) = IF j = 0 THEN s0 ELSE Visited(its, m, g[j - 1], Slot(h, m, j - 1))
      <4>1. CASE j = 0
        <5>1. j \in 0 .. i /\ j # i + 1
          BY <4>1
        <5>2. f[j] = s0
          BY <5>1, <4>1, <3>2, Zenon
        <5> QED
          BY <5>1, <5>2, <4>1
      <4>2. CASE j # 0 /\ j = i + 1
        <5>1. j - 1 = i /\ j - 1 \in 0 .. i + 1 /\ j - 1 # i + 1
          BY <4>2
        <5>2. g[j - 1] = f[i]
          BY <5>1
        <5> QED
          BY <5>1, <5>2, <4>2
      <4>3. CASE j # 0 /\ j # i + 1
        <5>1. j \in 0 .. i /\ j - 1 \in 0 .. i + 1 /\ j - 1 # i + 1
          BY <4>3
        <5>2. g[j - 1] = f[j - 1]
          BY <5>1
        <5>3. f[j] = Visited(its, m, f[j - 1], Slot(h, m, j - 1))
          BY <5>1, <4>3, <3>2, Zenon
        <5> QED
          BY <5>2, <5>3, <4>3
      <4> QED
        BY <4>1, <4>2, <4>3
    <3>4. Made(g, i + 1)
      <4> HIDE DEF Val
      <4>1. g = [j \in 0 .. i + 1 |-> Val(j)]
        OBVIOUS
      <4> HIDE DEF g
      <4> QED
        BY <3>3, <4>1
    <3> HIDE DEF Made, g
    <3> QED
      BY <3>4
  <2> HIDE DEF T
  <2>3. n \in T
    <3>1. Nat \subseteq T
      BY <2>1, <2>2, Induction
    <3> QED
      BY <3>1, <1>2
  <2>4. \E f : Made(f, n)
    BY <2>3 DEF T
  <2> QED
    BY <2>4, Zenon
<1> HIDE DEF state
<1>5. \A j \in 0 .. n : state[j] = IF j = 0 THEN s0 ELSE Visited(its, m, state[j - 1], Slot(h, m, j - 1))
  BY <1>4, Zenon
<1> DEFINE Good(j) == IsState(state[j]) /\ (Inserted(p0, m, its, state[j]) \/ Carrying(p0, m, its, j, state[j]))
           T == {j \in Nat : j <= n => Good(j)}
<1>6. 0 \in T
  <2>1. state[0] = s0
    <3>1. 0 \in 0 .. n
      BY <1>2
    <3> QED
      BY <3>1, <1>5, Zenon
  <2>2. IsState(s0)
    BY DEF IsState
  <2>3. Carrying(p0, m, its, 0, s0)
    <3>1. s0.p = p0 /\ s0.ipos = Len(its) - 1 /\ s0.done = FALSE /\ s0.reused = FALSE
      OBVIOUS
    <3> HIDE DEF s0
    <3>2. /\ p0 \in [Slots(m) -> {EMPTY, REMOVED} \cup (0 .. Len(its) - 1)]
          /\ \A x \in Slots(m) : p0[x] \in {EMPTY, REMOVED} \cup (0 .. Len(old) - 1) /\ p0[x] # Len(its) - 1
      BY <1>1 DEF Indexes, EMPTY, REMOVED
    <3>3. \A i \in 0 .. Len(its) - 1 : i = Len(its) - 1 \/ \E x \in Slots(m) : p0[x] = i
      BY <1>1 DEF Indexes
    <3>4. ASSUME NEW x \in Slots(m), p0[x] >= 0 PROVE Reached(p0, m, HashOf(its, p0[x]), x)
      <4>1. p0[x] \in 0 .. Len(old) - 1
        BY <3>2, <3>4 DEF EMPTY, REMOVED
      <4> QED
        BY <4>1, <3>4, <1>1 DEF Indexes
    <3>5. Reached(p0, m, h, Slot(h, m, 0))
      <4>1. \A i \in 0 .. 0 - 1 : p0[Slot(h, m, i)] # EMPTY
        OBVIOUS
      <4> QED
        BY <4>1 DEF Reached
    <3>6. \A i \in 0 .. 0 - 1 : ~(p0[Slot(h, m, i)] < 0)
      OBVIOUS
    <3>7. \A x, y \in Slots(m) : p0[x] = p0[y] /\ p0[x] >= 0 => x = y
      BY DEF Indexes
    <3>8. Len(its) - 1 \in 0 .. Len(its) - 1
      BY <1>1
    <3> QED
      BY <3>1, <3>2, <3>3, <3>4, <3>5, <3>6, <3>7, <3>8 DEF Carrying, h
  <2> QED
    BY <2>1, <2>2, <2>3
<1>7. ASSUME NEW j \in Nat, j \in T PROVE j + 1 \in T
  <2>1. SUFFICES ASSUME j + 1 <= n PROVE Good(j + 1)
    OBVIOUS
  <2> DEFINE s == state[j]
             slot == Slot(h, m, j)
  <2>2. state[j + 1] = Visited(its, m, s, slot)
    <3>1. j + 1 \in 0 .. n /\ j + 1 # 0 /\ (j + 1) - 1 = j
      BY <2>1, <1>2
    <3> QED
      BY <3>1, <1>5
  <2>3. Good(j)
    BY <1>7, <2>1, <1>2
  <2>4. Len(its) > 0
    BY <1>1
  <2>5. CASE Inserted(p0, m, its, s)
    <3>1. Visited(its, m, s, slot) = s
      BY <2>5 DEF Inserted, Visited
    <3> QED
      BY <2>2, <2>3, <2>5, <3>1
  <2>6. CASE Carrying(p0, m, its, j, s) /\ s.p[slot] < 0
    <3>1. IsState(Visited(its, m, s, slot)) /\ Inserted(p0, m, its, Visited(its, m, s, slot))
      BY <2>3, <2>4, <2>6, <1>1, VisitPlaces DEF h
    <3> QED
      BY <2>2, <3>1
  <2>7. CASE Carrying(p0, m, its, j, s) /\ ~(s.p[slot] < 0)
    <3>1. IsState(Visited(its, m, s, slot)) /\ Carrying(p0, m, its, j + 1, Visited(its, m, s, slot))
      BY <2>3, <2>4, <2>7, <1>1, VisitCarriesOn DEF h
    <3> QED
      BY <2>2, <3>1
  <2> QED
    BY <2>3, <2>5, <2>6, <2>7
<1>8. Good(n)
  <2> HIDE DEF T
  <2>1. Nat \subseteq T
    BY <1>6, <1>7, Induction
  <2>2. n \in T
    BY <2>1, <1>2
  <2> QED
    BY <2>2, <1>2 DEF T
<1>9. ~Carrying(p0, m, its, n, state[n])
  <2>1. \E j \in 0 .. n - 1 : p0[Slot(h, m, j)] < 0
    <3> DEFINE S == 0 .. Len(old) - 1
    <3>1. IsFiniteSet(S) /\ Cardinality(S) < Steps(m)
      BY <1>1, IndicesFinite
    <3>2. \A x \in Slots(m) : p0[x] \in Int /\ (p0[x] >= 0 => p0[x] \in S)
      BY <1>1 DEF Indexes, EMPTY, REMOVED
    <3>3. \A x, y \in Slots(m) : p0[x] = p0[y] /\ p0[x] >= 0 => x = y
      BY DEF Indexes
    <3> HIDE DEF S
    <3> QED
      BY <1>2, <3>1, <3>2, <3>3, SomeFree DEF n
  <2> QED
    BY <2>1 DEF Carrying, h
<1> QED
  BY <1>3, <1>8, <1>9 DEF its

---------------------------------------------------------------------------
(* The slot in which a rehash puts an item is empty and its probe comes to *)
(* it.                                                                     *)
LEMMA GapIs ==
    ASSUME NEW h \in Nat, NEW m, Probes(m), NEW np,
           \E j \in 0 .. Steps(m) - 1 : np[Slot(h, m, j)] = EMPTY
    PROVE  /\ Gap(np, m, h) \in Slots(m)
           /\ np[Gap(np, m, h)] = EMPTY
           /\ Reached(np, m, h, Gap(np, m, h))
<1> DEFINE gaps == {j \in 0 .. Steps(m) - 1 : np[Slot(h, m, j)] = EMPTY}
           j == CHOOSE j \in gaps : \A i \in gaps : j <= i
<1>1. Steps(m) \in Nat
  BY StepsRange
<1>2. j \in gaps /\ \A i \in gaps : j <= i
  <2>1. gaps \subseteq Nat /\ gaps # {}
    BY <1>1
  <2> HIDE DEF gaps
  <2>2. \E x \in gaps : \A i \in gaps : x <= i
    BY <2>1, LeastNatural
  <2> QED
    BY <2>2, Zenon
<1>3. Gap(np, m, h) = Slot(h, m, j)
  BY Zenon DEF Gap
<1> HIDE DEF j
<1>4. j \in Nat /\ j \in 0 .. Steps(m) - 1 /\ np[Slot(h, m, j)] = EMPTY
  BY <1>1, <1>2
<1>5. Slot(h, m, j) \in Slots(m)
  BY <1>4, SlotRange
<1>6. \A i \in 0 .. j - 1 : np[Slot(h, m, i)] # EMPTY
  BY <1>1, <1>2, <1>4
<1>7. Reached(np, m, h, Slot(h, m, j))
  BY <1>4, <1>6, Zenon DEF Reached
<1> QED
  BY <1>3, <1>4, <1>5, <1>7, Zenon

(* A new index in the middle of sgs_vht_rehash: the items of the first si  *)
(* slots of the old index p are in it.                                     *)
Partial(p, its, m, np, si) ==
    /\ np \in [Slots(m) -> {EMPTY} \cup (0 .. Len(its) - 1)]
    /\ \A x \in 0 .. si - 1 : p[x] >= 0 => \E s \in Slots(m) : np[s] = p[x]
    /\ \A s \in Slots(m) : np[s] >= 0 => \E x \in 0 .. si - 1 : p[x] = np[s]
    /\ \A s, r \in Slots(m) : np[s] = np[r] /\ np[s] >= 0 => s = r
    /\ \A s \in Slots(m) : np[s] >= 0 => Reached(np, m, HashOf(its, np[s]), s)

(* A rehash moves one more pair of the old index.                          *)
LEMMA ReplacedIs ==
    ASSUME NEW old, Probes(old), NEW p, NEW its \in Seq(Item), Indexes(p, old, its),
           NEW m, Probes(m), Len(its) <= Steps(m),
           NEW si \in Slots(old), NEW np, Partial(p, its, m, np, si)
    PROVE  Partial(p, its, m, Replaced(np, m, its, p[si]), si + 1)
<1> DEFINE idx == p[si]
<1>0. /\ si \in Nat /\ \A x \in 0 .. si : x \in Slots(old)
      /\ \A x \in 0 .. (si + 1) - 1 : x = si \/ x \in 0 .. si - 1
      /\ \A x \in 0 .. si - 1 : x \in 0 .. (si + 1) - 1
      /\ Len(its) \in Nat
  BY LenProperties DEF Slots, Probes
<1>1. CASE idx < 0
  <2>1. Replaced(np, m, its, idx) = np
    BY <1>1 DEF Replaced
  <2>2. ~(p[si] >= 0)
    BY <1>1 DEF Indexes, EMPTY, REMOVED
  <2>3. /\ np \in [Slots(m) -> {EMPTY} \cup (0 .. Len(its) - 1)]
        /\ \A s, r \in Slots(m) : np[s] = np[r] /\ np[s] >= 0 => s = r
        /\ \A s \in Slots(m) : np[s] >= 0 => Reached(np, m, HashOf(its, np[s]), s)
    BY DEF Partial
  <2>4. \A x \in 0 .. (si + 1) - 1 : p[x] >= 0 => \E s \in Slots(m) : np[s] = p[x]
    BY <2>2, <1>0, Zenon DEF Partial
  <2>5. \A s \in Slots(m) : np[s] >= 0 => \E x \in 0 .. (si + 1) - 1 : p[x] = np[s]
    BY <1>0, Zenon DEF Partial
  <2> QED
    BY <2>1, <2>3, <2>4, <2>5, Zenon DEF Partial
<1>2. CASE ~(idx < 0)
  <2> DEFINE h == HashOf(its, idx)
             gap == Gap(np, m, h)
             q == [np EXCEPT ![gap] = idx]
  <2>1. idx \in 0 .. Len(its) - 1 /\ idx >= 0
    BY <1>2 DEF Indexes, EMPTY, REMOVED
  <2>2. h \in Nat
    BY <2>1, HashOfNat
  <2>3. Replaced(np, m, its, idx) = q
    BY <1>2 DEF Replaced, HashOf
  <2>4. \A s \in Slots(m) : np[s] # idx
    <3>1. SUFFICES ASSUME NEW s \in Slots(m), np[s] = idx PROVE FALSE
      OBVIOUS
    <3>2. PICK x \in 0 .. si - 1 : p[x] = idx
      BY <3>1, <2>1 DEF Partial
    <3>3. x \in Slots(old) /\ x # si
      BY <1>0
    <3> QED
      BY <3>2, <3>3, <2>1 DEF Indexes
  <2>5. \E j \in 0 .. Steps(m) - 1 : np[Slot(h, m, j)] = EMPTY
    <3> DEFINE I == 0 .. Len(its) - 1
               S == I \ {idx}
    <3>1. IsFiniteSet(I) /\ Cardinality(I) = Len(its)
      BY <1>0, IndicesFinite
    <3>2. IsFiniteSet(S) /\ Cardinality(S) = Len(its) - 1
      <4> HIDE DEF I
      <4>1. idx \in I
        BY <2>1 DEF I
      <4> QED
        BY <3>1, <4>1, FS_RemoveElement
    <3>3. Cardinality(S) < Steps(m)
      BY <3>2, <1>0, StepsRange
    <3>4. \A s \in Slots(m) : np[s] \in Int /\ (np[s] >= 0 => np[s] \in S)
      BY <2>4, <1>0 DEF Partial, EMPTY
    <3>5. \A s, r \in Slots(m) : np[s] = np[r] /\ np[s] >= 0 => s = r
      BY DEF Partial
    <3> HIDE DEF S
    <3>6. PICK j \in 0 .. Steps(m) - 1 : np[Slot(h, m, j)] < 0
      BY <2>2, <3>2, <3>3, <3>4, <3>5, SomeFree
    <3>7. Slot(h, m, j) \in Slots(m)
      BY <2>2, SlotRange, StepsRange
    <3>8. np[Slot(h, m, j)] = EMPTY
      BY <3>6, <3>7 DEF Partial, EMPTY
    <3> QED
      BY <3>8
  <2>6. gap \in Slots(m) /\ np[gap] = EMPTY /\ Reached(np, m, h, gap)
    BY <2>2, <2>5, GapIs
  <2> HIDE DEF gap, h
  <2>7. /\ q \in [Slots(m) -> {EMPTY} \cup (0 .. Len(its) - 1)]
        /\ q[gap] = idx
        /\ \A s \in Slots(m) : s # gap => q[s] = np[s]
    BY <2>1, <2>6 DEF Partial
  <2> HIDE DEF q
  <2>8. \A x \in 0 .. (si + 1) - 1 : p[x] >= 0 => \E s \in Slots(m) : q[s] = p[x]
    <3>1. SUFFICES ASSUME NEW x \in 0 .. (si + 1) - 1, p[x] >= 0 PROVE \E s \in Slots(m) : q[s] = p[x]
      OBVIOUS
    <3>2. CASE x = si
      BY <3>2, <2>6, <2>7
    <3>3. CASE x # si
      <4>1. PICK s \in Slots(m) : np[s] = p[x]
        BY <3>1, <3>3, <1>0 DEF Partial
      <4>2. s # gap
        BY <4>1, <3>1, <2>6 DEF EMPTY
      <4> QED
        BY <4>1, <4>2, <2>7
    <3> QED
      BY <3>2, <3>3
  <2>9. \A s \in Slots(m) : q[s] >= 0 => \E x \in 0 .. (si + 1) - 1 : p[x] = q[s]
    <3>1. SUFFICES ASSUME NEW s \in Slots(m), q[s] >= 0 PROVE \E x \in 0 .. (si + 1) - 1 : p[x] = q[s]
      OBVIOUS
    <3>2. CASE s = gap
      <4>1. si \in 0 .. (si + 1) - 1
        BY <1>0
      <4> QED
        BY <4>1, <3>2, <2>7
    <3>3. CASE s # gap
      <4>1. PICK x \in 0 .. si - 1 : p[x] = np[s]
        BY <3>1, <3>3, <2>7 DEF Partial
      <4>2. x \in 0 .. (si + 1) - 1
        BY <1>0
      <4> QED
        BY <4>1, <4>2, <3>3, <2>7
    <3> QED
      BY <3>2, <3>3
  <2>10. \A s, r \in Slots(m) : q[s] = q[r] /\ q[s] >= 0 => s = r
    BY <2>4, <2>7 DEF Partial
  <2>11. \A s \in Slots(m) : q[s] >= 0 => Reached(q, m, HashOf(its, q[s]), s)
    <3>1. SUFFICES ASSUME NEW s \in Slots(m), q[s] >= 0 PROVE Reached(q, m, HashOf(its, q[s]), s)
      OBVIOUS
    <3>2. q[s] \in 0 .. Len(its) - 1
      BY <3>1, <2>7 DEF EMPTY
    <3>3. HashOf(its, q[s]) \in Nat
      BY <3>2, HashOfNat
    <3>4. Reached(np, m, HashOf(its, q[s]), s)
      <4>1. CASE s = gap
        BY <4>1, <2>6, <2>7 DEF h
      <4>2. CASE s # gap
        BY <4>2, <3>1, <2>7 DEF Partial
      <4> QED
        BY <4>1, <4>2
    <3>5. \A x \in Slots(m) : np[x] # EMPTY => q[x] # EMPTY
      BY <2>1, <2>7 DEF EMPTY
    <3> QED
      BY <3>3, <3>4, <3>5, ReachedKept
  <2> QED
    BY <2>3, <2>7, <2>8, <2>9, <2>10, <2>11 DEF Partial
<1> QED
  BY <1>1, <1>2

(* The size of which a rehash takes the next prime.                        *)
Wanted(size) == IF size < 4 THEN 4 ELSE size

(* A rehash makes an index of the same items, without removed marks unless *)
(* the size stays what it was.                                             *)
LEMMA RehashIs ==
    ASSUME NEW old, Probes(old), NEW p, NEW its \in Seq(Item), Indexes(p, old, its),
           NEW size \in Nat, Len(its) <= size,
           NEW m, m = NextPrime(Wanted(size))
    PROVE  /\ Probes(m) /\ m % 2 = 1 /\ m >= size
           /\ Mem(p) = old /\ Mem(Rehash(p, its, size)) = m
           /\ Indexes(Rehash(p, its, size), m, its)
           /\ RemovedIn(Rehash(p, its, size), m) = IF m = old THEN RemovedIn(p, old) ELSE {}
<1> DEFINE moved == CHOOSE f : f =
                      [i \in 0 .. old |-> IF i = 0 THEN Blank(m) ELSE Replaced(f[i - 1], m, its, p[i - 1])]
<1>1. m \in Nat /\ m >= size /\ m >= 4 /\ m % 2 = 1 /\ Probes(m)
  <2>1. CASE size < 4
    BY <2>1, NextPrimeIs DEF Probes, Wanted
  <2>2. CASE ~(size < 4)
    BY <2>2, NextPrimeIs DEF Probes, Wanted
  <2> QED
    BY <2>1, <2>2
<1>2. old \in Nat /\ old >= 1 /\ DOMAIN p = Slots(old)
  BY DEF Probes, Indexes
<1>3. Mem(p) = old
  BY <1>2, MemIs
<1>4. Rehash(p, its, size) = IF m = old THEN p ELSE moved[old]
  <2> DEFINE z == NextPrime(IF size < 4 THEN 4 ELSE size)
             Moved == CHOOSE f : f =
                        [i \in 0 .. Mem(p) |-> IF i = 0 THEN Blank(z) ELSE Replaced(f[i - 1], z, its, p[i - 1])]
  <2>1. Rehash(p, its, size) = IF z = Mem(p) THEN p ELSE Moved[Mem(p)]
    BY Zenon DEF Rehash
  <2>2. z = m
    BY Zenon DEF Wanted
  <2> HIDE DEF z
  <2>3. Moved = moved
    BY <1>3, <2>2, Zenon
  <2> HIDE DEF Moved, moved
  <2> QED
    BY <1>3, <2>1, <2>2, <2>3
<1>5. Len(its) <= Steps(m) /\ Len(its) \in Nat
  BY <1>1, LenProperties DEF Steps
<1>6. moved = [i \in 0 .. old |-> IF i = 0 THEN Blank(m) ELSE Replaced(moved[i - 1], m, its, p[i - 1])]
  <2> DEFINE Made(f, i) == f = [j \in 0 .. i |-> IF j = 0 THEN Blank(m) ELSE Replaced(f[j - 1], m, its, p[j - 1])]
             T == {i \in Nat : \E f : Made(f, i)}
  <2>1. 0 \in T
    <3> DEFINE f == [j \in 0 .. 0 |-> Blank(m)]
    <3>1. \A j \in 0 .. 0 : j = 0
      OBVIOUS
    <3>2. Made(f, 0)
      BY <3>1
    <3> QED
      BY <3>2
  <2>2. ASSUME NEW i \in Nat, i \in T PROVE i + 1 \in T
    <3>1. PICK f : Made(f, i)
      BY <2>2
    <3> DEFINE Val(j) == IF j = i + 1 THEN Replaced(f[i], m, its, p[i]) ELSE f[j]
               g == [j \in 0 .. i + 1 |-> Val(j)]
    <3>2. \A j \in 0 .. i : f[j] = IF j = 0 THEN Blank(m) ELSE Replaced(f[j - 1], m, its, p[j - 1])
      BY <3>1, Zenon
    <3>3. ASSUME NEW j \in 0 .. i + 1
          PROVE  Val(j) = IF j = 0 THEN Blank(m) ELSE Replaced(g[j - 1], m, its, p[j - 1])
      <4>1. CASE j = 0
        <5>1. j \in 0 .. i /\ j # i + 1
          BY <4>1
        <5>2. f[j] = Blank(m)
          BY <5>1, <4>1, <3>2, Zenon
        <5> QED
          BY <5>1, <5>2, <4>1
      <4>2. CASE j # 0 /\ j = i + 1
        <5>1. j - 1 = i /\ j - 1 \in 0 .. i + 1 /\ j - 1 # i + 1
          BY <4>2
        <5>2. g[j - 1] = f[i]
          BY <5>1
        <5> QED
          BY <5>1, <5>2, <4>2
      <4>3. CASE j # 0 /\ j # i + 1
        <5>1. j \in 0 .. i /\ j - 1 \in 0 .. i + 1 /\ j - 1 # i + 1
          BY <4>3
        <5>2. g[j - 1] = f[j - 1]
          BY <5>1
        <5>3. f[j] = Replaced(f[j - 1], m, its, p[j - 1])
          BY <5>1, <4>3, <3>2, Zenon
        <5> QED
          BY <5>2, <5>3, <4>3
      <4> QED
        BY <4>1, <4>2, <4>3
    <3>4. Made(g, i + 1)
      <4> HIDE DEF Val
      <4>1. g = [j \in 0 .. i + 1 |-> Val(j)]
        OBVIOUS
      <4> HIDE DEF g
      <4> QED
        BY <3>3, <4>1
    <3> HIDE DEF Made, g
    <3> QED
      BY <3>4
  <2> HIDE DEF T
  <2>3. old \in T
    <3>1. Nat \subseteq T
      BY <2>1, <2>2, Induction
    <3> QED
      BY <3>1, <1>2
  <2>4. \E f : Made(f, old)
    BY <2>3 DEF T
  <2> QED
    BY <2>4, Zenon
<1> HIDE DEF moved
<1>7. \A i \in 0 .. old : moved[i] = IF i = 0 THEN Blank(m) ELSE Replaced(moved[i - 1], m, its, p[i - 1])
  BY <1>6, Zenon
<1> DEFINE T == {i \in Nat : i <= old => Partial(p, its, m, moved[i], i)}
<1>8. 0 \in T
  <2>1. moved[0] = Blank(m)
    <3>1. 0 \in 0 .. old
      BY <1>2
    <3> QED
      BY <3>1, <1>7, Zenon
  <2>2. Blank(m) \in [Slots(m) -> {EMPTY}] /\ \A s \in Slots(m) : Blank(m)[s] = -1
    BY DEF Blank, Slots, EMPTY
  <2>3. Partial(p, its, m, Blank(m), 0)
    BY <2>2 DEF Partial
  <2> QED
    BY <2>1, <2>3
<1>9. ASSUME NEW i \in Nat, i \in T PROVE i + 1 \in T
  <2>1. SUFFICES ASSUME i + 1 <= old PROVE Partial(p, its, m, moved[i + 1], i + 1)
    OBVIOUS
  <2>2. i \in Slots(old) /\ i + 1 \in 0 .. old /\ i + 1 # 0 /\ (i + 1) - 1 = i
    BY <2>1, <1>2 DEF Slots
  <2>3. moved[i + 1] = Replaced(moved[i], m, its, p[i])
    BY <2>2, <1>7
  <2>4. Partial(p, its, m, moved[i], i)
    BY <1>9, <2>1, <1>2
  <2> QED
    BY <2>2, <2>3, <2>4, <1>1, <1>5, ReplacedIs
<1>10. Partial(p, its, m, moved[old], old)
  <2> HIDE DEF T
  <2>1. Nat \subseteq T
    BY <1>8, <1>9, Induction
  <2>2. old \in T
    BY <2>1, <1>2
  <2> QED
    BY <2>2, <1>2 DEF T
<1> DEFINE q == moved[old]
<1>11. /\ Indexes(q, m, its) /\ DOMAIN q = Slots(m)
       /\ \A s \in Slots(m) : q[s] # REMOVED
  <2> HIDE DEF q
  <2>1. Partial(p, its, m, q, old)
    BY <1>10 DEF q
  <2>2. ASSUME NEW i \in 0 .. Len(its) - 1 PROVE \E s \in Slots(m) : q[s] = i
    <3>1. PICK x \in Slots(old) : p[x] = i
      BY DEF Indexes
    <3> QED
      BY <3>1, <2>1 DEF Partial, Slots
  <2>3. q \in [Slots(m) -> {EMPTY} \cup (0 .. Len(its) - 1)]
    BY <2>1 DEF Partial
  <2> QED
    BY <2>1, <2>2, <2>3 DEF Indexes, Partial, EMPTY, REMOVED
<1>12. CASE m = old
  BY <1>1, <1>3, <1>4, <1>12
<1>13. CASE m # old
  <2> HIDE DEF q
  <2>1. Rehash(p, its, size) = q
    BY <1>4, <1>13 DEF q
  <2>2. Mem(q) = m
    BY <1>1, <1>11, MemIs
  <2>3. RemovedIn(q, m) = {}
    BY <1>11 DEF RemovedIn
  <2> QED
    BY <1>1, <1>3, <1>11, <1>13, <2>1, <2>2, <2>3
<1> QED
  BY <1>12, <1>13

---------------------------------------------------------------------------
(* t has the fields of a table and no other.                               *)
IsTable(t) == t = [pairs |-> t.pairs, items |-> t.items, var_mem |-> t.var_mem,
                   num_rem |-> t.num_rem, failed |-> t.failed]

(* What the calls on a table rely on and leave behind.                     *)
WellFormed(t) ==
    /\ IsTable(t) /\ t.failed = None
    /\ t.items \in Seq(Item) /\ Distinct(t.items)
    /\ Probes(Mem(t.pairs)) /\ Indexes(t.pairs, Mem(t.pairs), t.items)
    /\ t.num_rem = Cardinality(RemovedIn(t.pairs, Mem(t.pairs)))
    /\ t.var_mem \in Nat /\ Len(t.items) <= t.var_mem

(* sgs_vht_get is about the items alone.                                   *)
LEMMA GetIs ==
    ASSUME Plain, NEW t, WellFormed(t), NEW k \in Key
    PROVE  \/ /\ Find(t, k) = -1 /\ Get(t, k) = None
              /\ \A i \in 0 .. Len(t.items) - 1 : t.items[i + 1].key # k
           \/ /\ Find(t, k) \in Slots(Mem(t.pairs)) /\ Find(t, k) # -1
              /\ Has(t.items, t.pairs[Find(t, k)], k)
              /\ Get(t, k) = t.items[t.pairs[Find(t, k)] + 1].val
<1> DEFINE m == Mem(t.pairs)
           slot == PairId(t.pairs, t.items, k)
<1>1. \/ slot = -1 /\ \A i \in 0 .. Len(t.items) - 1 : t.items[i + 1].key # k
      \/ slot \in Slots(m) /\ Has(t.items, t.pairs[slot], k)
  BY LookUp DEF WellFormed
<1>2. Find(t, k) = slot
  BY DEF Find
<1>3. slot \in Slots(m) => slot # -1
  BY DEF Slots, WellFormed, Probes
<1>4. Get(t, k) = IF slot = -1 THEN None ELSE t.items[t.pairs[slot] + 1].val
  BY <1>2 DEF Get
<1> HIDE DEF slot, m
<1> QED
  BY <1>1, <1>2, <1>3, <1>4 DEF m

(* sgs_vht_get of the key of an item is its value.                         *)
LEMMA GetItem ==
    ASSUME Plain, NEW t, WellFormed(t), NEW i \in 0 .. Len(t.items) - 1
    PROVE  Get(t, t.items[i + 1].key) = t.items[i + 1].val
<1> DEFINE k == t.items[i + 1].key
<1>1. k \in Key
  BY ItemAt DEF WellFormed
<1> HIDE DEF k
<1>2. Has(t.items, t.pairs[Find(t, k)], k) /\ Get(t, k) = t.items[t.pairs[Find(t, k)] + 1].val
  BY <1>1, GetIs DEF k
<1>3. t.pairs[Find(t, k)] = i
  BY <1>2 DEF Has, WellFormed, Distinct, k
<1> QED
  BY <1>2, <1>3 DEF k

(* sgs_vht_get of any other key finds nothing.                             *)
LEMMA GetNone ==
    ASSUME Plain, NEW t, WellFormed(t), NEW k \in Key,
           \A i \in 0 .. Len(t.items) - 1 : t.items[i + 1].key # k
    PROVE  Get(t, k) = None
  BY GetIs DEF Has

(* The table maps its keys to other values but is the same otherwise.      *)
LEMMA IndexesSameKeys ==
    ASSUME NEW p, NEW m, NEW old, NEW its, Indexes(p, m, old), Len(its) = Len(old),
           \A i \in 0 .. Len(old) - 1 : its[i + 1].key = old[i + 1].key
    PROVE  Indexes(p, m, its)
<1>1. \A i \in 0 .. Len(old) - 1 : HashOf(its, i) = HashOf(old, i)
  BY DEF HashOf
<1>2. \A s \in Slots(m) : p[s] >= 0 => p[s] \in 0 .. Len(old) - 1
  BY DEF Indexes, EMPTY, REMOVED
<1> QED
  BY <1>1, <1>2 DEF Indexes

(* sgs_vht_set of a key that is there changes its value and nothing else.  *)
LEMMA OverwrittenIs ==
    ASSUME Plain, NEW t, WellFormed(t), NEW k \in Key, NEW v \in Value, Find(t, k) # -1
    PROVE  /\ WellFormed(Overwritten(t, k, v))
           /\ \A l \in Key : Get(Overwritten(t, k, v), l) = IF l = k THEN v ELSE Get(t, l)
           /\ Len(Overwritten(t, k, v).items) = Len(t.items)
<1> DEFINE idx == t.pairs[Find(t, k)]
           its == [t.items EXCEPT ![idx + 1].val = v]
           new == Overwritten(t, k, v)
<1>1. idx \in 0 .. Len(t.items) - 1 /\ t.items[idx + 1].key = k
  BY GetIs DEF Has
<1>2. new = [pairs |-> t.pairs, items |-> its, var_mem |-> t.var_mem, num_rem |-> t.num_rem, failed |-> t.failed]
  <2>1. new = [t EXCEPT !.items[idx + 1].val = v]
    BY DEF Overwritten
  <2> QED
    BY <2>1 DEF WellFormed, IsTable
<1> HIDE DEF idx
<1>3. t.items \in Seq(Item) /\ idx + 1 \in 1 .. Len(t.items)
  BY <1>1, LenProperties DEF WellFormed
<1>4. t.items[idx + 1] \in Item
  BY <1>1, <1>3, ItemAt
<1>5. /\ its \in Seq(Item) /\ Len(its) = Len(t.items)
      /\ its[idx + 1].key = k /\ its[idx + 1].val = v
      /\ \A i \in 0 .. Len(t.items) - 1 : i # idx => its[i + 1] = t.items[i + 1]
  <2> DEFINE item == [t.items[idx + 1] EXCEPT !.val = v]
  <2>1. item \in Item /\ item.key = k /\ item.val = v
    BY <1>1, <1>4 DEF Item
  <2>2. its = [t.items EXCEPT ![idx + 1] = item]
    OBVIOUS
  <2> HIDE DEF item, its
  <2>3. /\ its \in Seq(Item) /\ Len(its) = Len(t.items)
        /\ \A j \in 1 .. Len(t.items) : its[j] = IF j = idx + 1 THEN item ELSE t.items[j]
    BY <1>3, <2>1, <2>2, ExceptSeq
  <2>4. its[idx + 1] = item
    BY <1>3, <2>3
  <2>5. ASSUME NEW i \in 0 .. Len(t.items) - 1, i # idx PROVE its[i + 1] = t.items[i + 1]
    <3>1. i + 1 \in 1 .. Len(t.items) /\ i + 1 # idx + 1
      BY <1>1, <1>3, <2>5, LenProperties
    <3> QED
      BY <3>1, <2>3
  <2> QED
    BY <2>1, <2>3, <2>4, <2>5
<1> HIDE DEF its
<1>6. \A i \in 0 .. Len(t.items) - 1 : its[i + 1].key = t.items[i + 1].key
  BY <1>1, <1>5
<1>7. new.pairs = t.pairs /\ new.items = its /\ new.var_mem = t.var_mem /\ new.num_rem = t.num_rem
      /\ new.failed = t.failed /\ IsTable(new)
  BY <1>2 DEF IsTable
<1> HIDE DEF new
<1>8. Indexes(t.pairs, Mem(t.pairs), its)
  BY <1>5, <1>6, IndexesSameKeys DEF WellFormed
<1>9. Distinct(its)
  BY <1>5, <1>6 DEF WellFormed, Distinct
<1>10. WellFormed(new)
  BY <1>5, <1>7, <1>8, <1>9 DEF WellFormed
<1>11. ASSUME NEW l \in Key PROVE Get(new, l) = IF l = k THEN v ELSE Get(t, l)
  <2>1. CASE l = k
    <3>1. Get(new, its[idx + 1].key) = its[idx + 1].val
      BY <1>1, <1>5, <1>7, <1>10, GetItem
    <3> QED
      BY <2>1, <3>1, <1>5
  <2>2. CASE l # k /\ \E i \in 0 .. Len(t.items) - 1 : t.items[i + 1].key = l
    <3>1. PICK i \in 0 .. Len(t.items) - 1 : t.items[i + 1].key = l
      BY <2>2
    <3>2. i # idx /\ its[i + 1] = t.items[i + 1]
      BY <2>2, <3>1, <1>1, <1>5
    <3>3. Get(t, l) = t.items[i + 1].val
      BY <3>1, GetItem
    <3>4. Get(new, its[i + 1].key) = its[i + 1].val
      BY <1>5, <1>7, <1>10, GetItem
    <3> QED
      BY <2>2, <3>1, <3>2, <3>3, <3>4
  <2>3. CASE l # k /\ ~\E i \in 0 .. Len(t.items) - 1 : t.items[i + 1].key = l
    <3>1. Get(t, l) = None
      BY <2>3, GetNone
    <3>2. \A i \in 0 .. Len(new.items) - 1 : new.items[i + 1].key # l
      BY <2>3, <1>5, <1>6, <1>7
    <3>3. Get(new, l) = None
      BY <1>10, <3>2, GetNone
    <3> QED
      BY <2>3, <3>1, <3>3
  <2> QED
    BY <2>1, <2>2, <2>3
<1> QED
  BY <1>5, <1>7, <1>10, <1>11 DEF new

---------------------------------------------------------------------------
(* The removed marks can be counted.                                       *)
LEMMA RemovedFinite ==
    ASSUME NEW p, NEW m \in Nat
    PROVE  IsFiniteSet(RemovedIn(p, m)) /\ Cardinality(RemovedIn(p, m)) \in Nat
<1>1. IsFiniteSet(0 .. m - 1)
  BY IndicesFinite
<1>2. RemovedIn(p, m) \in SUBSET (0 .. m - 1)
  BY DEF RemovedIn, Slots
<1>3. IsFiniteSet(RemovedIn(p, m))
  BY <1>1, <1>2, FS_Subset
<1> QED
  BY <1>3, FS_CardinalityType

(* The rehash of the index of a table.                                     *)
LEMMA TableRehash ==
    ASSUME NEW t, WellFormed(t), NEW want \in Nat, Len(t.items) <= want,
           NEW now, now = NextPrime(Wanted(want))
    PROVE  /\ Probes(now) /\ now % 2 = 1 /\ now >= want
           /\ Mem(Rehash(t.pairs, t.items, want)) = now
           /\ Indexes(Rehash(t.pairs, t.items, want), now, t.items)
           /\ RemovedIn(Rehash(t.pairs, t.items, want), now) =
                 IF now = Mem(t.pairs) THEN RemovedIn(t.pairs, Mem(t.pairs)) ELSE {}
<1> DEFINE was == Mem(t.pairs)
           p == t.pairs
           its == t.items
           q == Rehash(t.pairs, t.items, want)
<1>1. /\ Probes(was) /\ Indexes(p, was, its) /\ its \in Seq(Item) /\ Len(its) <= want
      /\ q = Rehash(p, its, want)
  BY DEF WellFormed
<1> HIDE DEF was, p, its
<1>2. /\ Probes(now) /\ now % 2 = 1 /\ now >= want
      /\ Mem(q) = now
      /\ Indexes(q, now, its)
      /\ RemovedIn(q, now) = IF now = was THEN RemovedIn(p, was) ELSE {}
  <2> HIDE DEF q
  <2> QED
    BY <1>1, RehashIs
<1> QED
  BY <1>2 DEF was, p, its

(* The index into which an item is put has room for it, after the rehash   *)
(* of one that is crowded.                                                 *)
LEMMA RoomForOne ==
    ASSUME NEW t, WellFormed(t),
           NEW want, want = Larger((3 * Mem(t.pairs)) \div 2, Len(t.items) + Slack),
           NEW index, index = IF Crowded(t) THEN Rehash(t.pairs, t.items, want) ELSE t.pairs,
           NEW marks, marks = IF Crowded(t) THEN Marks(t.pairs, want, t.num_rem) ELSE t.num_rem
    PROVE  /\ Probes(Mem(index)) /\ Indexes(index, Mem(index), t.items)
           /\ Len(t.items) < Steps(Mem(index))
           /\ marks = Cardinality(RemovedIn(index, Mem(index)))
<1> DEFINE was == Mem(t.pairs)
           size == Len(t.items)
<1>1. /\ was \in Nat /\ was >= 2 /\ Probes(was) /\ size \in Nat /\ t.num_rem \in Nat
      /\ (was % 2 = 1 \/ was <= 4) /\ Slack \in Nat /\ Slack >= 1
  <2>1. was \in Nat /\ was >= 2 /\ Probes(was) /\ (was % 2 = 1 \/ was <= 4)
    BY DEF WellFormed, Probes
  <2>2. size \in Nat
    BY LenProperties DEF WellFormed
  <2>3. t.num_rem \in Nat
    BY <2>1, RemovedFinite DEF WellFormed
  <2> QED
    BY <2>1, <2>2, <2>3, MemAssumption
<1>2. CASE Crowded(t)
  <2>1. want \in Nat /\ want > was /\ want > size
    BY <1>1 DEF Larger
  <2> DEFINE now == NextPrime(Wanted(want))
             q == Rehash(t.pairs, t.items, want)
  <2>2. /\ Probes(now) /\ now % 2 = 1 /\ now >= want /\ Mem(q) = now
        /\ Indexes(q, now, t.items)
        /\ RemovedIn(q, now) = IF now = was THEN RemovedIn(t.pairs, was) ELSE {}
    <3>1. now = NextPrime(Wanted(want)) /\ want \in Nat /\ Len(t.items) <= want
      BY <1>1, <2>1
    <3> HIDE DEF now
    <3> QED
      BY <3>1, TableRehash
  <2>3. index = q /\ marks = Marks(t.pairs, want, t.num_rem)
    BY <1>2
  <2> HIDE DEF q
  <2>4. now # was /\ now \in Nat
    BY <1>1, <2>1, <2>2 DEF Probes
  <2>5. marks = 0
    BY <2>3, <2>4 DEF Marks, Wanted
  <2>6. Cardinality(RemovedIn(q, now)) = 0
    BY <2>2, <2>4, FS_EmptySet
  <2>7. size < Steps(now)
    BY <1>1, <2>1, <2>2, <2>4 DEF Steps
  <2> HIDE DEF now
  <2> QED
    BY <2>2, <2>3, <2>5, <2>6, <2>7
<1>3. CASE ~Crowded(t)
  <2>1. 10 * (size + t.num_rem + 1) < 7 * was
    BY <1>1, <1>3 DEF Crowded
  <2>2. size < Steps(was)
    <3>1. CASE was % 2 = 1
      BY <1>1, <2>1, <3>1 DEF Steps
    <3>2. CASE was % 2 # 1
      <4>1. was = 2 \/ was = 4
        BY <1>1, <3>2
      <4> QED
        <5>1. CASE was = 2
          <6>1. size = 0
            BY <1>1, <2>1, <5>1
          <6> HIDE DEF was, size
          <6> QED
            BY <5>1, <6>1 DEF Steps
        <5>2. CASE was = 4
          <6>1. size <= 1
            BY <1>1, <2>1, <5>2
          <6>2. size \in Nat
            BY <1>1
          <6> HIDE DEF was, size
          <6> QED
            BY <5>2, <6>1, <6>2 DEF Steps
        <5> QED
          BY <4>1, <5>1, <5>2
    <3> QED
      BY <3>1, <3>2
  <2> QED
    BY <1>3, <2>2 DEF WellFormed
<1> QED
  BY <1>2, <1>3

(* sgs_vht_set of a new key succeeds and adds it and nothing else.         *)
LEMMA AddedIs ==
    ASSUME Plain, NEW t, WellFormed(t), NEW k \in Key, NEW v \in Value, Find(t, k) = -1
    PROVE  /\ WellFormed(Added(t, k, v))
           /\ \A l \in Key : Get(Added(t, k, v), l) = IF l = k THEN v ELSE Get(t, l)
<1> DEFINE size == Len(t.items)
           want == Larger((3 * Mem(t.pairs)) \div 2, size + Slack)
           index == IF Crowded(t) THEN Rehash(t.pairs, t.items, want) ELSE t.pairs
           marks == IF Crowded(t) THEN Marks(t.pairs, want, t.num_rem) ELSE t.num_rem
           item == [key |-> k, val |-> v]
           its == Append(t.items, item)
           ins == Insert(index, its)
           m == Mem(index)
           mem == IF size < t.var_mem THEN t.var_mem
                  ELSE Reserved(t.var_mem, Larger((3 * size) \div 2, size + Slack))
           new == Added(t, k, v)
<1>1. new = [pairs |-> ins.p, items |-> IF ins.done THEN its ELSE t.items,
             num_rem |-> IF ins.reused THEN marks - 1 ELSE marks, var_mem |-> mem,
             failed |-> IF ins.done THEN t.failed ELSE "T->size == osize"]
  BY Zenon DEF Added
<1>2. /\ Probes(m) /\ Indexes(index, m, t.items) /\ size < Steps(m)
      /\ marks = Cardinality(RemovedIn(index, m))
  BY RoomForOne
<1>3. item \in Item /\ item.key = k /\ item.val = v /\ t.items \in Seq(Item) /\ size \in Nat
  BY LenProperties DEF Item, WellFormed
<1> HIDE DEF index, marks, item
<1>4. Inserted(index, m, its, ins)
  BY <1>2, <1>3, InsertIs
<1>5. /\ its \in Seq(Item) /\ Len(its) = size + 1 /\ its[size + 1] = item
      /\ \A i \in 0 .. size - 1 : its[i + 1] = t.items[i + 1]
  BY <1>3, AppendedItems
<1>6. \A i \in 0 .. size - 1 : t.items[i + 1].key # k
  BY GetIs
<1> HIDE DEF its, ins, m
<1>7. Mem(ins.p) = m
  BY <1>2, <1>4, MemIs DEF Inserted, Indexes, Probes
<1>8. (IF ins.reused THEN marks - 1 ELSE marks) = Cardinality(RemovedIn(ins.p, m))
  <2>1. m \in Nat
    BY <1>2 DEF Probes
  <2>2. CASE ins.reused = FALSE /\ RemovedIn(ins.p, m) = RemovedIn(index, m)
    BY <1>2, <2>2
  <2>3. CASE ins.reused = TRUE /\ \E x \in RemovedIn(index, m) : RemovedIn(ins.p, m) = RemovedIn(index, m) \ {x}
    <3>1. PICK x \in RemovedIn(index, m) : RemovedIn(ins.p, m) = RemovedIn(index, m) \ {x}
      BY <2>3
    <3>2. Cardinality(RemovedIn(index, m) \ {x}) = Cardinality(RemovedIn(index, m)) - 1
      BY <2>1, RemovedFinite, FS_RemoveElement
    <3> QED
      BY <1>2, <2>3, <3>1, <3>2
  <2> QED
    BY <1>4, <2>2, <2>3 DEF Inserted
<1>9. mem \in Nat /\ size + 1 <= mem
  <2>1. t.var_mem \in Nat /\ size <= t.var_mem /\ Slack \in Nat /\ Slack >= 1
    BY MemAssumption DEF WellFormed
  <2>2. CASE size < t.var_mem
    BY <2>1, <2>2, <1>3
  <2>3. CASE ~(size < t.var_mem)
    <3> DEFINE more == Larger((3 * size) \div 2, size + Slack)
    <3>1. mem = Reserved(t.var_mem, more)
      BY <2>3
    <3>2. more \in Nat /\ more >= size + 1
      <4> HIDE DEF size
      <4> QED
        BY <2>1, <1>3 DEF Larger
    <3> HIDE DEF more, mem
    <3> QED
      BY <3>1, <3>2, <2>1, <2>3, <1>3 DEF Reserved
  <2> QED
    BY <2>2, <2>3
<1> HIDE DEF mem
<1>10. ins.done = TRUE /\ Indexes(ins.p, m, its)
  BY <1>4 DEF Inserted
<1>11. new.pairs = ins.p /\ new.items = its /\ new.var_mem = mem /\ new.failed = None /\ IsTable(new)
       /\ new.num_rem = Cardinality(RemovedIn(ins.p, m))
  <2> DEFINE rem == IF ins.reused THEN marks - 1 ELSE marks
  <2>1. t.failed = None
    BY DEF WellFormed
  <2>2. new = [pairs |-> ins.p, items |-> its, num_rem |-> rem, var_mem |-> mem, failed |-> None]
    <3> HIDE DEF new, rem
    <3>1. new = [pairs |-> ins.p, items |-> IF ins.done THEN its ELSE t.items,
                 num_rem |-> rem, var_mem |-> mem,
                 failed |-> IF ins.done THEN t.failed ELSE "T->size == osize"]
      BY <1>1, Zenon DEF rem
    <3> QED
      BY <3>1, <2>1, <1>10, Zenon
  <2>3. rem = Cardinality(RemovedIn(ins.p, m))
    BY <1>8
  <2> HIDE DEF new, rem
  <2> QED
    BY <2>2, <2>3 DEF IsTable
<1> HIDE DEF new
<1>12. Distinct(its)
  <2>1. \A i, j \in 0 .. size - 1 : t.items[i + 1].key = t.items[j + 1].key => i = j
    BY DEF WellFormed, Distinct
  <2>2. \A i \in 0 .. Len(its) - 1 : i \in 0 .. size - 1 \/ i = size
    BY <1>3, <1>5
  <2>3. its[size + 1].key = k
    BY <1>3, <1>5
  <2> QED
    BY <1>5, <1>6, <2>1, <2>2, <2>3 DEF Distinct
<1>13. WellFormed(new)
  BY <1>2, <1>5, <1>7, <1>9, <1>10, <1>11, <1>12 DEF WellFormed
<1>14. ASSUME NEW l \in Key PROVE Get(new, l) = IF l = k THEN v ELSE Get(t, l)
  <2>1. CASE l = k
    <3>1. size \in 0 .. Len(new.items) - 1 /\ new.items[size + 1].key = k /\ new.items[size + 1].val = v
      BY <1>3, <1>5, <1>11
    <3> QED
      BY <2>1, <3>1, <1>13, GetItem
  <2>2. CASE l # k /\ \E i \in 0 .. size - 1 : t.items[i + 1].key = l
    <3>1. PICK i \in 0 .. size - 1 : t.items[i + 1].key = l
      BY <2>2
    <3>2. i \in 0 .. Len(new.items) - 1 /\ new.items[i + 1] = t.items[i + 1]
      BY <1>3, <1>5, <1>11
    <3>3. Get(t, l) = t.items[i + 1].val
      BY <3>1, GetItem
    <3>4. Get(new, l) = new.items[i + 1].val
      BY <3>1, <3>2, <1>13, GetItem
    <3> QED
      BY <2>2, <3>2, <3>3, <3>4
  <2>3. CASE l # k /\ ~\E i \in 0 .. size - 1 : t.items[i + 1].key = l
    <3>1. Get(t, l) = None
      BY <2>3, GetNone
    <3>2. \A i \in 0 .. Len(new.items) - 1 : i \in 0 .. size - 1 \/ i = size
      BY <1>3, <1>5, <1>11
    <3>3. \A i \in 0 .. Len(new.items) - 1 : new.items[i + 1].key # l
      BY <2>3, <3>2, <1>3, <1>5, <1>11
    <3>4. Get(new, l) = None
      BY <1>13, <3>3, GetNone
    <3> QED
      BY <2>3, <3>1, <3>4
  <2> QED
    BY <2>1, <2>2, <2>3
<1> QED
  BY <1>13, <1>14 DEF new

---------------------------------------------------------------------------
(* The old index of the item with the index i after a removal.             *)
Before(i, idx, end) == IF i = idx THEN end ELSE i

(* The pair in the slot x after the removal of the pair in slot.           *)
After(p, slot, end, x) == IF x = slot THEN REMOVED ELSE IF p[x] = end THEN p[slot] ELSE p[x]

(* What a removal makes of an index: the slot is marked, and the pair of   *)
(* the last item is that of the item that it replaces.                     *)
LEMMA MovedIndexes ==
    ASSUME NEW m, Probes(m), NEW p, NEW its \in Seq(Item), Indexes(p, m, its),
           NEW slot \in Slots(m), NEW idx, idx = p[slot], idx \in 0 .. Len(its) - 1,
           NEW end, end = Len(its) - 1,
           NEW q, q = [x \in Slots(m) |-> q[x]],
           \A x \in Slots(m) : q[x] = After(p, slot, end, x),
           NEW new \in Seq(Item), Len(new) = end,
           \A i \in 0 .. end - 1 : new[i + 1] = its[Before(i, idx, end) + 1]
    PROVE  /\ Indexes(q, m, new)
           /\ slot \notin RemovedIn(p, m) /\ RemovedIn(q, m) = RemovedIn(p, m) \cup {slot}
<1> USE DEF Before, After
<1>1. /\ end \in Nat /\ Len(its) = end + 1 /\ idx \in 0 .. end /\ idx >= 0
      /\ \A x \in Slots(m) : p[x] \in {EMPTY, REMOVED} \cup (0 .. end)
  <2>1. Len(its) \in Nat
    BY LenProperties
  <2> QED
    BY <2>1 DEF Indexes
<1>2. \A x \in Slots(m) : x # slot => p[x] # idx
  BY <1>1 DEF Indexes
<1>3. ASSUME NEW x \in Slots(m), x # slot
      PROVE  q[x] \in {EMPTY, REMOVED} \cup (0 .. end - 1)
  <2>1. CASE p[x] = end
    <3>1. idx # end
      BY <1>2, <1>3, <2>1
    <3> QED
      BY <1>1, <1>3, <2>1, <3>1
  <2>2. CASE p[x] # end
    BY <1>1, <1>3, <2>2
  <2> QED
    BY <2>1, <2>2
<1>4. q \in [Slots(m) -> {EMPTY, REMOVED} \cup (0 .. Len(new) - 1)]
  <2>1. \A x \in Slots(m) : q[x] \in {EMPTY, REMOVED} \cup (0 .. Len(new) - 1)
    BY <1>3
  <2> QED
    BY <2>1
<1>5. ASSUME NEW i \in 0 .. Len(new) - 1 PROVE \E s \in Slots(m) : q[s] = i
  <2>1. CASE i = idx
    <3>1. PICK s \in Slots(m) : p[s] = end
      <4>1. end \in 0 .. Len(its) - 1
        BY <1>1
      <4> QED
        BY <4>1 DEF Indexes
    <3>2. s # slot
      BY <3>1, <2>1, <1>1
    <3> QED
      BY <3>1, <3>2, <2>1
  <2>2. CASE i # idx
    <3>1. PICK s \in Slots(m) : p[s] = i
      BY <1>1 DEF Indexes
    <3>2. s # slot /\ p[s] # end
      BY <3>1, <2>2, <1>1
    <3> QED
      BY <3>1, <3>2, <2>2
  <2> QED
    BY <2>1, <2>2
<1>6. ASSUME NEW s \in Slots(m), NEW r \in Slots(m), q[s] = q[r], q[s] >= 0 PROVE s = r
  <2>1. s # slot /\ r # slot
    BY <1>6 DEF REMOVED
  <2>2. p[s] # idx /\ p[r] # idx
    BY <1>2, <2>1
  <2>3. p[s] = p[r] /\ p[s] >= 0
    BY <1>1, <1>6, <2>1, <2>2
  <2> QED
    BY <2>3 DEF Indexes
<1>7. ASSUME NEW s \in Slots(m), q[s] >= 0 PROVE Reached(q, m, HashOf(new, q[s]), s)
  <2>1. s # slot /\ q[s] \in 0 .. end - 1
    BY <1>3, <1>7 DEF REMOVED, EMPTY
  <2>2. p[s] >= 0 /\ p[s] \in 0 .. end
    BY <1>1, <1>7, <2>1 DEF EMPTY, REMOVED
  <2>3. p[s] = IF q[s] = idx THEN end ELSE q[s]
    BY <1>2, <2>1
  <2>4. new[q[s] + 1] = its[p[s] + 1]
    BY <2>1, <2>3
  <2>5. HashOf(new, q[s]) = HashOf(its, p[s])
    BY <2>4 DEF HashOf
  <2>6. Reached(p, m, HashOf(its, p[s]), s)
    BY <2>2 DEF Indexes
  <2>7. HashOf(its, p[s]) \in Nat
    BY <1>1, <2>2, HashOfNat
  <2>8. \A x \in Slots(m) : p[x] # EMPTY => q[x] # EMPTY
    BY <1>1 DEF EMPTY, REMOVED
  <2> QED
    BY <2>5, <2>6, <2>7, <2>8, ReachedKept
<1>8. slot \notin RemovedIn(p, m) /\ RemovedIn(q, m) = RemovedIn(p, m) \cup {slot}
  <2>1. \A x \in Slots(m) : x # slot => (q[x] = REMOVED <=> p[x] = REMOVED)
    BY <1>1 DEF REMOVED
  <2>2. p[slot] # REMOVED /\ q[slot] = REMOVED
    BY <1>1 DEF REMOVED
  <2> QED
    BY <2>1, <2>2 DEF RemovedIn
<1> QED
  BY <1>4, <1>5, <1>6, <1>7, <1>8 DEF Indexes

(* sgs_vht_unset of a key that is there: the pair of the last item is      *)
(* found, and the index is one of the items that are left.                 *)
LEMMA RemovalIs ==
    ASSUME Plain, NEW m, Probes(m), NEW t, t.items \in Seq(Item), Distinct(t.items),
           Indexes(t.pairs, m, t.items),
           NEW slot \in Slots(m), t.pairs[slot] \in 0 .. Len(t.items) - 1
    PROVE  LET r == Removal(t, slot)
               end == Len(t.items) - 1
           IN  /\ r.lost = FALSE /\ r.its \in Seq(Item) /\ Len(r.its) = end /\ end \in Nat
               /\ \A i \in 0 .. end - 1 : r.its[i + 1] = t.items[Before(i, t.pairs[slot], end) + 1]
               /\ Mem(r.p) = m /\ Indexes(r.p, m, r.its)
               /\ slot \notin RemovedIn(t.pairs, m)
               /\ RemovedIn(r.p, m) = RemovedIn(t.pairs, m) \cup {slot}
<1> DEFINE p == t.pairs
           its == t.items
           idx == p[slot]
           end == Len(its) - 1
<1>0. /\ t.pairs = p /\ t.items = its /\ idx = p[slot] /\ end = Len(its) - 1
      /\ its \in Seq(Item) /\ Indexes(p, m, its) /\ Distinct(its) /\ idx \in 0 .. Len(its) - 1
  OBVIOUS
<1> HIDE DEF p, its, idx, end
<1> USE <1>0
<1> DEFINE marked == [p EXCEPT ![slot] = REMOVED]
           k == its[end + 1].key
           moved == PairId(marked, its, k)
           q == IF idx = end \/ moved = -1 THEN marked ELSE [marked EXCEPT ![moved] = idx]
           new == SubSeq([its EXCEPT ![idx + 1] = its[end + 1]], 1, end)
           r == Removal(t, slot)
<1>1. r = [p |-> q, its |-> new, lost |-> idx # end /\ moved = -1]
  BY DEF Removal
<1>2. new \in Seq(Item) /\ Len(new) = end /\ end \in Nat
      /\ \A i \in 0 .. end - 1 : new[i + 1] = its[Before(i, idx, end) + 1]
  <2> DEFINE wide == [its EXCEPT ![idx + 1] = its[end + 1]]
  <2>0. wide = [its EXCEPT ![idx + 1] = its[end + 1]] /\ new = SubSeq(wide, 1, end)
    OBVIOUS
  <2> HIDE DEF wide, new
  <2>1. Len(its) \in Nat /\ end \in Nat /\ Len(its) = end + 1 /\ idx + 1 \in 1 .. Len(its)
        /\ end \in 0 .. Len(its) - 1
    BY LenProperties
  <2>2. its[end + 1] \in Item
    BY <2>1, ItemAt
  <2>3. /\ wide \in Seq(Item) /\ Len(wide) = Len(its)
        /\ \A j \in 1 .. Len(its) : wide[j] = IF j = idx + 1 THEN its[end + 1] ELSE its[j]
    <3> DEFINE item == its[end + 1]
    <3>1. item \in Item /\ wide = [its EXCEPT ![idx + 1] = item]
      BY <2>2, <2>0
    <3> HIDE DEF item
    <3> QED
      BY <2>1, <3>1, ExceptSeq DEF item
  <2>4. /\ new \in Seq(Item) /\ Len(new) = end
        /\ \A j \in 1 .. end : new[j] = wide[j]
    <3>1. \A j \in 1 .. end : j \in 1 .. Len(wide)
      BY <2>1, <2>3
    <3>2. \A j \in 1 .. end : wide[j] \in Item
      BY <3>1, <2>3, ElementOfSeq
    <3> QED
      BY <2>0, <2>1, <2>3, <3>2
  <2>5. ASSUME NEW i \in 0 .. end - 1 PROVE new[i + 1] = its[Before(i, idx, end) + 1]
    <3>1. i + 1 \in 1 .. end /\ i + 1 \in 1 .. Len(its)
      BY <2>1
    <3>2. new[i + 1] = IF i + 1 = idx + 1 THEN its[end + 1] ELSE its[i + 1]
      BY <3>1, <2>3, <2>4
    <3> QED
      BY <3>2 DEF Before
  <2> QED
    BY <2>1, <2>4, <2>5
<1>3. end \in 0 .. Len(its) - 1 /\ k \in Key
  <2>1. end \in 0 .. Len(its) - 1
    BY <1>2, LenProperties
  <2> QED
    BY <2>1, ItemAt
<1>4. p \in [Slots(m) -> {EMPTY, REMOVED} \cup (0 .. Len(its) - 1)]
  BY DEF Indexes
<1>5. /\ DOMAIN marked = Slots(m) /\ marked[slot] = REMOVED
      /\ \A x \in Slots(m) : x # slot => marked[x] = p[x]
  BY <1>4
<1> HIDE DEF marked, new, k, r
<1>6. PICK s \in Slots(m) : p[s] = end
  BY <1>3 DEF Indexes
<1>7. \A x \in Slots(m) : p[x] = end => x = s
  BY <1>2, <1>6 DEF Indexes
<1>8. ASSUME idx # end PROVE moved = s
  <2>1. s # slot /\ marked[s] = end
    BY <1>5, <1>6, <1>8
  <2>2. Has(its, marked[s], k)
    BY <1>3, <2>1 DEF Has, k
  <2>3. Reached(marked, m, Hash[k], s)
    <3>1. Reached(p, m, HashOf(its, p[s]), s)
      BY <1>2, <1>6 DEF Indexes
    <3>2. HashOf(its, p[s]) = Hash[k]
      BY <1>6 DEF HashOf, k
    <3>3. \A x \in Slots(m) : p[x] # EMPTY => marked[x] # EMPTY
      BY <1>5 DEF EMPTY, REMOVED
    <3>4. Hash[k] \in Nat
      BY <1>3, HashAssumption
    <3> QED
      BY <3>1, <3>2, <3>3, <3>4, ReachedKept
  <2>4. moved \in Slots(m) /\ Has(its, marked[moved], k)
    <3> HIDE DEF moved
    <3>1. PairId(marked, its, k) \in Slots(m) /\ Has(its, marked[PairId(marked, its, k)], k)
      BY <1>3, <1>5, <2>2, <2>3, PairIdFinds
    <3> QED
      BY <3>1 DEF moved
  <2> HIDE DEF moved
  <2>5. marked[moved] = end
    BY <1>3, <2>4 DEF Has, Distinct, k
  <2>6. moved # slot
    BY <1>2, <1>5, <2>5 DEF REMOVED
  <2> QED
    BY <1>5, <1>7, <2>4, <2>5, <2>6
<1> HIDE DEF moved
<1>9. r.lost = FALSE /\ r.p = q /\ r.its = new
  <2>1. s # -1
    BY DEF Slots, Probes
  <2> HIDE DEF q
  <2> QED
    BY <1>1, <1>8, <2>1
<1>10. /\ q = [x \in Slots(m) |-> q[x]]
       /\ \A x \in Slots(m) : q[x] = After(p, slot, end, x)
  <2> USE DEF After
  <2>0. marked = [p EXCEPT ![slot] = REMOVED]
    BY DEF marked
  <2>1. CASE idx = end
    <3>1. q = marked
      BY <2>1
    <3>2. slot = s
      BY <1>7, <2>1
    <3> HIDE DEF q
    <3> QED
      BY <1>4, <1>5, <1>7, <2>0, <2>1, <3>1, <3>2
  <2>2. CASE idx # end
    <3>1. moved = s /\ s # -1 /\ s # slot
      BY <1>6, <1>8, <2>2 DEF Slots, Probes
    <3>2. q = [marked EXCEPT ![s] = idx]
      BY <2>2, <3>1
    <3> HIDE DEF q
    <3>3. q = [x \in Slots(m) |-> IF x = s THEN idx ELSE marked[x]]
      BY <1>4, <2>0, <3>2
    <3> QED
      BY <1>5, <1>6, <1>7, <3>1, <3>3
  <2> QED
    BY <2>1, <2>2
<1> HIDE DEF q
<1>11. Indexes(q, m, new) /\ slot \notin RemovedIn(p, m) /\ RemovedIn(q, m) = RemovedIn(p, m) \cup {slot}
  BY <1>2, <1>10, MovedIndexes
<1>12. Mem(q) = m
  BY <1>10, MemIs DEF Probes
<1> QED
  BY <1>2, <1>9, <1>11, <1>12 DEF r, p, its, idx, end

---------------------------------------------------------------------------
(* What is left of the table t without the key k: rem removed marks.       *)
Left(t, k, now, rem) ==
    /\ now.lost = FALSE /\ now.its \in Seq(Item) /\ Distinct(now.its)
    /\ Len(now.its) <= Len(t.items)
    /\ Mem(now.p) = Mem(t.pairs) /\ Indexes(now.p, Mem(t.pairs), now.its)
    /\ rem = Cardinality(RemovedIn(now.p, Mem(t.pairs)))
    /\ \A i \in 0 .. Len(now.its) - 1 :
          /\ now.its[i + 1].key # k
          /\ \E j \in 0 .. Len(t.items) - 1 : t.items[j + 1] = now.its[i + 1]
    /\ \A j \in 0 .. Len(t.items) - 1 : t.items[j + 1].key # k =>
          \E i \in 0 .. Len(now.its) - 1 : now.its[i + 1] = t.items[j + 1]

(* sgs_vht_unset of a key that is not there leaves the items.              *)
LEMMA LeftWithout ==
    ASSUME Plain, NEW t, WellFormed(t), NEW k \in Key, Find(t, k) = -1,
           NEW now, now = [p |-> t.pairs, its |-> t.items, lost |-> FALSE]
    PROVE  Left(t, k, now, t.num_rem)
<1>1. \A i \in 0 .. Len(t.items) - 1 : t.items[i + 1].key # k
  BY GetIs DEF Has
<1>2. now.p = t.pairs /\ now.its = t.items /\ now.lost = FALSE
  OBVIOUS
<1>3. Len(t.items) \in Nat
  BY LenProperties DEF WellFormed
<1> QED
  BY <1>1, <1>2, <1>3 DEF Left, WellFormed

(* sgs_vht_unset of one that is there takes its item out.                  *)
LEMMA LeftAfter ==
    ASSUME Plain, NEW t, WellFormed(t), NEW k \in Key, Find(t, k) # -1,
           NEW now, now = Removal(t, Find(t, k))
    PROVE  Left(t, k, now, t.num_rem + 1)
<1> DEFINE m == Mem(t.pairs)
           p == t.pairs
           its == t.items
           slot == Find(t, k)
           idx == p[slot]
           end == Len(its) - 1
<1>1. /\ Probes(m) /\ Indexes(p, m, its) /\ its \in Seq(Item) /\ Distinct(its)
      /\ t.num_rem = Cardinality(RemovedIn(p, m)) /\ m \in Nat
  BY DEF WellFormed, Probes
<1>2. slot \in Slots(m) /\ idx \in 0 .. Len(its) - 1 /\ its[idx + 1].key = k
  BY GetIs DEF Has
<1>3. now = Removal(t, slot) /\ t.pairs = p /\ t.items = its /\ idx = p[slot] /\ end = Len(its) - 1
  OBVIOUS
<1> HIDE DEF m, p, its, slot, idx, end
<1>4. /\ now.lost = FALSE /\ now.its \in Seq(Item) /\ Len(now.its) = end /\ end \in Nat
      /\ \A i \in 0 .. end - 1 : now.its[i + 1] = its[Before(i, idx, end) + 1]
      /\ Mem(now.p) = m /\ Indexes(now.p, m, now.its)
      /\ slot \notin RemovedIn(p, m) /\ RemovedIn(now.p, m) = RemovedIn(p, m) \cup {slot}
  <2>1. /\ Probes(m) /\ Indexes(t.pairs, m, t.items) /\ t.items \in Seq(Item)
        /\ Distinct(t.items) /\ slot \in Slots(m) /\ t.pairs[slot] \in 0 .. Len(t.items) - 1
    BY <1>1, <1>2, <1>3
  <2>2. LET r == Removal(t, slot)
            top == Len(t.items) - 1
        IN  /\ r.lost = FALSE /\ r.its \in Seq(Item) /\ Len(r.its) = top /\ top \in Nat
            /\ \A i \in 0 .. top - 1 : r.its[i + 1] = t.items[Before(i, t.pairs[slot], top) + 1]
            /\ Mem(r.p) = m /\ Indexes(r.p, m, r.its)
            /\ slot \notin RemovedIn(t.pairs, m)
            /\ RemovedIn(r.p, m) = RemovedIn(t.pairs, m) \cup {slot}
    BY <2>1, RemovalIs, Zenon
  <2> QED
    BY <2>2, <1>3
<1>5. Len(its) = end + 1 /\ \A i \in 0 .. end - 1 : Before(i, idx, end) \in 0 .. Len(its) - 1
  <2>1. Len(its) = end + 1
    BY <1>1, <1>3, LenProperties
  <2> QED
    BY <2>1, <1>4 DEF Before
<1>6. \A i \in 0 .. end - 1 : Before(i, idx, end) # idx
  BY <1>4 DEF Before
<1>7. ASSUME NEW i \in 0 .. end - 1, NEW j \in 0 .. end - 1, now.its[i + 1].key = now.its[j + 1].key
      PROVE  i = j
  <2>1. Before(i, idx, end) = Before(j, idx, end)
    <3>1. now.its[i + 1] = its[Before(i, idx, end) + 1] /\ now.its[j + 1] = its[Before(j, idx, end) + 1]
      BY <1>4
    <3>2. Before(i, idx, end) \in 0 .. Len(its) - 1 /\ Before(j, idx, end) \in 0 .. Len(its) - 1
      BY <1>5
    <3> QED
      BY <1>1, <1>7, <3>1, <3>2, Zenon DEF Distinct
  <2> QED
    BY <2>1, <1>4 DEF Before
<1>8. ASSUME NEW i \in 0 .. end - 1
      PROVE  /\ now.its[i + 1].key # k
             /\ \E j \in 0 .. Len(its) - 1 : its[j + 1] = now.its[i + 1]
  <2>1. now.its[i + 1] = its[Before(i, idx, end) + 1] /\ Before(i, idx, end) \in 0 .. Len(its) - 1
    BY <1>4, <1>5
  <2>2. now.its[i + 1].key # k
    BY <2>1, <1>1, <1>2, <1>6 DEF Distinct
  <2> QED
    BY <2>1, <2>2
<1>9. ASSUME NEW j \in 0 .. Len(its) - 1, its[j + 1].key # k
      PROVE  \E i \in 0 .. Len(now.its) - 1 : now.its[i + 1] = its[j + 1]
  <2>1. j # idx
    BY <1>2, <1>9
  <2>2. \E i \in 0 .. end - 1 : Before(i, idx, end) = j
    <3>1. CASE j = end
      <4>1. idx \in 0 .. end - 1
        BY <1>2, <1>4, <1>5, <2>1, <3>1
      <4> QED
        BY <4>1, <3>1 DEF Before
    <3>2. CASE j # end
      <4>1. j \in 0 .. end - 1
        BY <1>4, <1>5, <3>2
      <4> QED
        BY <4>1, <2>1 DEF Before
    <3> QED
      BY <3>1, <3>2
  <2>3. PICK i \in 0 .. end - 1 : Before(i, idx, end) = j
    BY <2>2
  <2> QED
    BY <2>3, <1>4
<1>10. Cardinality(RemovedIn(now.p, m)) = t.num_rem + 1
  <2>1. IsFiniteSet(RemovedIn(p, m))
    BY <1>1, RemovedFinite
  <2> QED
    <3>1. Cardinality(RemovedIn(p, m) \cup {slot}) =
            IF slot \in RemovedIn(p, m) THEN Cardinality(RemovedIn(p, m)) ELSE Cardinality(RemovedIn(p, m)) + 1
      BY <2>1, FS_AddElement
    <3> QED
      BY <3>1, <1>1, <1>4
<1>11. Distinct(now.its)
  BY <1>4, <1>7 DEF Distinct
<1>12. \A i \in 0 .. Len(now.its) - 1 :
          /\ now.its[i + 1].key # k
          /\ \E j \in 0 .. Len(t.items) - 1 : t.items[j + 1] = now.its[i + 1]
  BY <1>4, <1>8 DEF its
<1> QED
  BY <1>4, <1>5, <1>9, <1>10, <1>11, <1>12 DEF Left, m, its

(* sgs_vht_unset: a lookup finds what it found, but not the key.           *)
LEMMA DroppedIs ==
    ASSUME Plain, NEW t, WellFormed(t), NEW k \in Key
    PROVE  /\ WellFormed(Dropped(t, k))
           /\ \A l \in Key : Get(Dropped(t, k), l) = IF l = k THEN None ELSE Get(t, l)
<1> DEFINE slot == Find(t, k)
           now == IF slot = -1 THEN [p |-> t.pairs, its |-> t.items, lost |-> FALSE]
                  ELSE Removal(t, slot)
           rem == IF slot = -1 THEN t.num_rem ELSE t.num_rem + 1
           size == Len(now.its)
           shrink == 4 * rem > t.var_mem + 4 * Slack
           mem == Reserved(t.var_mem, (3 * size + t.var_mem) \div 4)
           want == (size + mem) \div 2
           new == Dropped(t, k)
           m == Mem(t.pairs)
<1>1. new = [pairs |-> IF shrink /\ ~now.lost THEN Rehash(now.p, now.its, want) ELSE now.p,
             items |-> now.its,
             num_rem |-> IF shrink THEN Marks(now.p, want, rem) ELSE rem,
             var_mem |-> IF shrink THEN mem ELSE t.var_mem,
             failed |-> IF now.lost THEN "i == -1" ELSE t.failed]
  BY Zenon DEF Dropped
<1>2. Left(t, k, now, rem)
  <2>1. CASE slot = -1
    <3>1. now = [p |-> t.pairs, its |-> t.items, lost |-> FALSE] /\ rem = t.num_rem
      BY <2>1
    <3> HIDE DEF now, rem
    <3> QED
      BY <2>1, <3>1, LeftWithout
  <2>2. CASE slot # -1
    <3>1. now = Removal(t, Find(t, k)) /\ rem = t.num_rem + 1
      BY <2>2
    <3> HIDE DEF now, rem
    <3> QED
      BY <2>2, <3>1, LeftAfter
  <2> QED
    BY <2>1, <2>2
<1> HIDE DEF now, rem, shrink, new, slot
<1>3. now.lost = FALSE /\ t.failed = None /\ t.var_mem \in Nat /\ size \in Nat /\ size <= t.var_mem
      /\ Probes(m) /\ Slack \in Nat
  <2>1. now.lost = FALSE /\ size \in Nat /\ size <= Len(t.items)
    BY <1>2, LenProperties DEF Left
  <2>2. t.failed = None /\ t.var_mem \in Nat /\ Len(t.items) <= t.var_mem /\ Probes(m) /\ Len(t.items) \in Nat
    BY LenProperties DEF WellFormed
  <2> HIDE DEF size, m
  <2> QED
    BY <2>1, <2>2, MemAssumption
<1>4. mem \in Nat /\ mem >= size /\ want \in Nat /\ size <= want
  <2> DEFINE less == (3 * size + t.var_mem) \div 4
  <2> HIDE DEF size
  <2>1. less \in Nat /\ less >= size
    BY <1>3
  <2> HIDE DEF less
  <2>2. mem = Reserved(t.var_mem, less)
    BY DEF less
  <2> HIDE DEF mem
  <2>3. mem \in Nat /\ mem >= size
    BY <1>3, <2>1, <2>2 DEF Reserved
  <2> QED
    BY <1>3, <2>3
<1> HIDE DEF mem, want, size, m
<1>5. /\ IsTable(new) /\ new.failed = None /\ new.items = now.its
      /\ new.var_mem \in Nat /\ size <= new.var_mem
  <2>1. new = [pairs |-> new.pairs, items |-> now.its, num_rem |-> new.num_rem,
               var_mem |-> IF shrink THEN mem ELSE t.var_mem, failed |-> None]
    BY <1>1, <1>3
  <2> QED
    BY <2>1, <1>3, <1>4 DEF IsTable
<1>6. /\ Probes(Mem(new.pairs)) /\ Indexes(new.pairs, Mem(new.pairs), now.its)
      /\ new.num_rem = Cardinality(RemovedIn(new.pairs, Mem(new.pairs)))
  <2>1. /\ Mem(now.p) = m /\ Indexes(now.p, m, now.its) /\ now.its \in Seq(Item)
        /\ rem = Cardinality(RemovedIn(now.p, m)) /\ size = Len(now.its)
    BY <1>2 DEF Left, m, size
  <2>2. CASE ~shrink
    <3>1. new.pairs = now.p /\ new.num_rem = rem
      BY <1>1, <2>2
    <3> QED
      BY <3>1, <2>1, <1>3
  <2>3. CASE shrink
    <3> DEFINE q == Rehash(now.p, now.its, want)
               z == NextPrime(Wanted(want))
    <3>1. new.pairs = q /\ new.num_rem = Marks(now.p, want, rem)
      BY <1>1, <1>3, <2>3
    <3>2. z = NextPrime(Wanted(want))
      OBVIOUS
    <3> DEFINE p == now.p
               its == now.its
    <3>3. Indexes(p, m, its) /\ its \in Seq(Item) /\ Len(its) <= want /\ q = Rehash(p, its, want)
      BY <2>1, <1>4
    <3> HIDE DEF p, its, z
    <3>4. /\ Probes(z) /\ z % 2 = 1 /\ z >= want /\ Mem(q) = z /\ Indexes(q, z, its)
          /\ RemovedIn(q, z) = IF z = m THEN RemovedIn(p, m) ELSE {}
      <4> HIDE DEF q
      <4> QED
        BY <3>2, <3>3, <1>3, <1>4, RehashIs
    <3>5. Marks(now.p, want, rem) = IF z = m THEN rem ELSE 0
      BY <2>1 DEF Marks, Wanted, z
    <3>6. Marks(now.p, want, rem) = Cardinality(RemovedIn(q, z))
      BY <2>1, <3>4, <3>5, FS_EmptySet DEF p
    <3> QED
      BY <3>1, <3>4, <3>6 DEF its
  <2> QED
    BY <2>2, <2>3
<1>7. WellFormed(new)
  BY <1>2, <1>5, <1>6 DEF WellFormed, Left, size
<1>8. ASSUME NEW l \in Key PROVE Get(new, l) = IF l = k THEN None ELSE Get(t, l)
  <2>1. CASE l = k
    <3>1. \A i \in 0 .. Len(new.items) - 1 : new.items[i + 1].key # l
      BY <1>2, <1>5, <2>1 DEF Left
    <3> QED
      BY <2>1, <3>1, <1>7, GetNone
  <2>2. CASE l # k /\ \E j \in 0 .. Len(t.items) - 1 : t.items[j + 1].key = l
    <3>1. PICK j \in 0 .. Len(t.items) - 1 : t.items[j + 1].key = l
      BY <2>2
    <3>2. PICK i \in 0 .. Len(new.items) - 1 : new.items[i + 1] = t.items[j + 1]
      <4>1. \A x \in 0 .. Len(t.items) - 1 : t.items[x + 1].key # k =>
               \E i \in 0 .. Len(now.its) - 1 : now.its[i + 1] = t.items[x + 1]
        BY <1>2 DEF Left
      <4>2. \E i \in 0 .. Len(now.its) - 1 : now.its[i + 1] = t.items[j + 1]
        BY <4>1, <2>2, <3>1
      <4> QED
        BY <4>2, <1>5
    <3>3. Get(t, l) = t.items[j + 1].val
      BY <3>1, GetItem
    <3>4. Get(new, l) = new.items[i + 1].val
      BY <3>1, <3>2, <1>7, GetItem
    <3> QED
      BY <2>2, <3>2, <3>3, <3>4
  <2>3. CASE l # k /\ ~\E j \in 0 .. Len(t.items) - 1 : t.items[j + 1].key = l
    <3>1. \A i \in 0 .. Len(new.items) - 1 : new.items[i + 1].key # l
      <4>1. \A i \in 0 .. Len(now.its) - 1 : \E j \in 0 .. Len(t.items) - 1 : t.items[j + 1] = now.its[i + 1]
        BY <1>2 DEF Left
      <4> QED
        BY <4>1, <2>3, <1>5
    <3>2. Get(new, l) = None /\ Get(t, l) = None
      BY <2>3, <3>1, <1>7, GetNone
    <3> QED
      BY <2>3, <3>2
  <2> QED
    BY <2>1, <2>2, <2>3
<1> QED
  BY <1>7, <1>8 DEF new

---------------------------------------------------------------------------
(* The sizes at which no insertion fails: the first one is odd or at most  *)
(* four, like that of a dict; every later one is an odd prime.             *)
Sturdy == PairMem % 2 = 1 \/ PairMem <= 4

(* The table as one value.                                                 *)
LEMMA TableFields ==
    /\ Table.pairs = pairs /\ Table.items = items /\ Table.var_mem = var_mem
    /\ Table.num_rem = num_rem /\ Table.failed = failed /\ IsTable(Table)
  BY DEF Table, IsTable

(* The new table is indexed.                                               *)
LEMMA NewIsWellFormed ==
    ASSUME Sturdy, Init
    PROVE  WellFormed(Table)
<1> DEFINE p == Blank(PairMem)
<1>1. /\ pairs = p /\ items = <<>> /\ var_mem = VarMem /\ num_rem = 0 /\ failed = None
  BY DEF Init
<1>2. PairMem \in Nat /\ PairMem >= 1 /\ Probes(PairMem) /\ VarMem \in Nat
  BY MemAssumption DEF Probes, Sturdy
<1>3. DOMAIN p = Slots(PairMem) /\ (\A s \in Slots(PairMem) : p[s] = EMPTY) /\ p \in [Slots(PairMem) -> {EMPTY}]
  BY DEF Blank, Slots
<1> HIDE DEF p
<1>4. Mem(p) = PairMem
  BY <1>2, <1>3, MemIs
<1>5. <<>> \in Seq(Item) /\ Len(<<>>) = 0
  OBVIOUS
<1>6. Indexes(p, PairMem, <<>>)
  BY <1>3, <1>5 DEF Indexes, EMPTY, REMOVED
<1>7. RemovedIn(p, PairMem) = {}
  BY <1>3 DEF RemovedIn, EMPTY, REMOVED
<1>8. Cardinality({}) = 0
  BY FS_EmptySet
<1>9. Distinct(<<>>)
  BY <1>5 DEF Distinct
<1>10. /\ Table.pairs = p /\ Table.items = <<>> /\ Table.var_mem = VarMem /\ Table.num_rem = 0
       /\ Table.failed = None /\ IsTable(Table)
  BY <1>1, TableFields
<1>11. Probes(Mem(Table.pairs)) /\ Indexes(Table.pairs, Mem(Table.pairs), Table.items)
  BY <1>2, <1>4, <1>6, <1>10
<1>12. Table.num_rem = Cardinality(RemovedIn(Table.pairs, Mem(Table.pairs)))
  BY <1>4, <1>7, <1>8, <1>10
<1>13. Table.items \in Seq(Item) /\ Distinct(Table.items) /\ Len(Table.items) <= Table.var_mem
       /\ Table.var_mem \in Nat
  BY <1>2, <1>5, <1>9, <1>10
<1> QED
  BY <1>10, <1>11, <1>12, <1>13 DEF WellFormed

(* A call leaves the table that it makes.                                  *)
LEMMA BecomesTable ==
    ASSUME NEW t, IsTable(t), NEW call, Becomes(t, call)
    PROVE  Table' = t /\ last' = call /\ iter' = iter /\ got' = None
  BY DEF Becomes, Table, IsTable

(* Every step is one of the dictionary, or none, and keeps the index.      *)
LEMMA StepMeans ==
    ASSUME Plain, WellFormed(Table), Next
    PROVE  /\ WellFormed(Table')
           /\ Dict!AbsNext \/ (Table' = Table /\ last' = last)
<1> DEFINE d == [k \in Key |-> Get(Table, k)]
<1>1. ASSUME NEW k \in Key, Unset(k) PROVE WellFormed(Table') /\ Dict!AbsUnset(k)
  <2> DEFINE t == Dropped(Table, k)
  <2>1. WellFormed(t) /\ \A l \in Key : Get(t, l) = IF l = k THEN None ELSE Get(Table, l)
    BY DroppedIs
  <2>2. Becomes(t, <<"unset", k>>)
    BY <1>1 DEF Unset
  <2> HIDE DEF t
  <2>3. Table' = t /\ last' = <<"unset", k>>
    BY <2>1, <2>2, BecomesTable DEF WellFormed
  <2>4. [l \in Key |-> Get(t, l)] = [[l \in Key |-> Get(Table, l)] EXCEPT ![k] = None]
    BY <2>1
  <2>5. [l \in Key |-> Get(Table', l)] = [[l \in Key |-> Get(Table, l)] EXCEPT ![k] = None]
    BY <2>3, <2>4, Zenon
  <2> QED
    BY <2>1, <2>3, <2>5 DEF Dict!AbsUnset
<1>2. ASSUME NEW k \in Key, NEW v \in Value, Overwrite(k, v) \/ Add(k, v)
      PROVE  WellFormed(Table') /\ Dict!AbsSet(k, v)
  <2>1. \E t : /\ WellFormed(t) /\ Becomes(t, <<"set", k, v>>)
               /\ \A l \in Key : Get(t, l) = IF l = k THEN v ELSE Get(Table, l)
    <3>1. CASE Overwrite(k, v)
      <4> DEFINE t == Overwritten(Table, k, v)
      <4>1. Find(Table, k) # -1 /\ Becomes(t, <<"set", k, v>>)
        BY <3>1 DEF Overwrite
      <4>2. WellFormed(t) /\ \A l \in Key : Get(t, l) = IF l = k THEN v ELSE Get(Table, l)
        BY <4>1, OverwrittenIs
      <4> HIDE DEF t
      <4> QED
        BY <4>1, <4>2
    <3>2. CASE Add(k, v)
      <4> DEFINE t == Added(Table, k, v)
      <4>1. Find(Table, k) = -1 /\ Becomes(t, <<"set", k, v>>)
        BY <3>2 DEF Add
      <4>2. WellFormed(t) /\ \A l \in Key : Get(t, l) = IF l = k THEN v ELSE Get(Table, l)
        BY <4>1, AddedIs
      <4> HIDE DEF t
      <4> QED
        BY <4>1, <4>2
    <3> QED
      BY <1>2, <3>1, <3>2
  <2>2. PICK t : /\ WellFormed(t) /\ Becomes(t, <<"set", k, v>>)
                 /\ \A l \in Key : Get(t, l) = IF l = k THEN v ELSE Get(Table, l)
    BY <2>1, Zenon
  <2>3. Table' = t /\ last' = <<"set", k, v>>
    BY <2>2, BecomesTable DEF WellFormed
  <2>4. [l \in Key |-> Get(t, l)] = [[l \in Key |-> Get(Table, l)] EXCEPT ![k] = v]
    BY <2>2
  <2>5. [l \in Key |-> Get(Table', l)] = [[l \in Key |-> Get(Table, l)] EXCEPT ![k] = v]
    BY <2>3, <2>4, Zenon
  <2> QED
    BY <2>2, <2>3, <2>5 DEF Dict!AbsSet
<1>3. ASSUME IterNew \/ IterAdvance \/ IterRead PROVE WellFormed(Table') /\ Table' = Table /\ last' = last
  BY <1>3 DEF IterNew, IterAdvance, IterRead, Table
<1> QED
  BY <1>1, <1>2, <1>3, Zenon DEF Next, Dict!AbsNext

(* In every state the index of the table leads to each of its items.       *)
THEOREM TableIsIndexed ==
    ASSUME Plain, Sturdy
    PROVE  Spec => []WellFormed(Table)
<1>1. Init => WellFormed(Table)
  BY NewIsWellFormed
<1>2. WellFormed(Table) /\ [Next]_vars => WellFormed(Table)'
  <2>1. ASSUME WellFormed(Table), Next PROVE WellFormed(Table)'
    <3>1. WellFormed(Table')
      BY <2>1, StepMeans
    <3> QED
      BY <3>1
  <2>2. ASSUME WellFormed(Table), UNCHANGED vars PROVE WellFormed(Table)'
    <3>1. Table' = Table
      BY <2>2 DEF vars, Table
    <3>2. WellFormed(Table')
      BY <2>2, <3>1
    <3> QED
      BY <3>2
  <2> QED
    BY <2>1, <2>2
<1> QED
  BY <1>1, <1>2, PTL DEF Spec

(* An index like that is sound.                                            *)
LEMMA WellFormedIsSound ==
    ASSUME NEW t, WellFormed(t)
    PROVE  Sound(t)
<1> DEFINE m == Mem(t.pairs)
<1>1. /\ Indexes(t.pairs, m, t.items) /\ t.failed = None /\ m \in Nat
      /\ t.num_rem = Cardinality(RemovedIn(t.pairs, m)) /\ Len(t.items) <= t.var_mem
  BY DEF WellFormed, Probes
<1>2. Len(t.items) \in Nat
  BY LenProperties DEF WellFormed
<1> HIDE DEF m
<1>3. DOMAIN t.pairs = Slots(m)
  BY <1>1 DEF Indexes
<1>4. ASSUME NEW i \in 0 .. Len(t.items) - 1
      PROVE  Cardinality({s \in DOMAIN t.pairs : t.pairs[s] = i}) = 1
  <2>1. PICK x \in Slots(m) : t.pairs[x] = i
    BY <1>1 DEF Indexes
  <2>2. \A s \in Slots(m) : t.pairs[s] = i => s = x
    BY <1>1, <2>1 DEF Indexes
  <2>3. {s \in DOMAIN t.pairs : t.pairs[s] = i} = {x}
    BY <1>3, <2>1, <2>2
  <2> QED
    BY <2>3, FS_Singleton
<1>5. ASSUME NEW s \in DOMAIN t.pairs PROVE t.pairs[s] < Len(t.items)
  <2>1. t.pairs[s] \in {EMPTY, REMOVED} \cup (0 .. Len(t.items) - 1)
    BY <1>1, <1>3 DEF Indexes
  <2> QED
    BY <2>1, <1>2 DEF EMPTY, REMOVED
<1>6. {s \in DOMAIN t.pairs : t.pairs[s] = REMOVED} = RemovedIn(t.pairs, m)
  BY <1>3 DEF RemovedIn
<1> QED
  BY <1>1, <1>4, <1>5, <1>6 DEF Sound

(* The table of every state is sound: every item is in the index once, the *)
(* marks are counted, and the assertions of sgs_vht_set and sgs_vht_unset  *)
(* hold.                                                                   *)
THEOREM TableAlwaysSound ==
    ASSUME Plain, Sturdy
    PROVE  Spec => []TableSound
<1>1. WellFormed(Table) => TableSound
  BY WellFormedIsSound DEF TableSound
<1>2. Spec => []WellFormed(Table)
  BY TableIsIndexed
<1> QED
  BY <1>1, <1>2, PTL

(* A hash table is a dictionary: a lookup finds what was last stored.      *)
THEOREM TableIsDictionary ==
    ASSUME Plain, Sturdy
    PROVE  Spec => Implements
<1>1. Init => Dict!AbsInit
  <2> SUFFICES ASSUME Init PROVE Dict!AbsInit
    OBVIOUS
  <2>1. WellFormed(Table) /\ Table.items = <<>> /\ last = <<"init">>
    BY NewIsWellFormed, TableFields DEF Init
  <2>2. \A i \in 0 .. Len(Table.items) - 1 : FALSE
    BY <2>1
  <2>3. \A k \in Key : Get(Table, k) = None
    BY <2>1, <2>2, GetNone
  <2> QED
    BY <2>1, <2>3 DEF Dict!AbsInit
<1>2. WellFormed(Table) /\ [Next]_vars => [Dict!AbsNext]_(Dict!absVars)
  <2>1. ASSUME WellFormed(Table), Next PROVE [Dict!AbsNext]_(Dict!absVars)
    <3>1. CASE Dict!AbsNext
      BY <3>1
    <3>2. CASE Table' = Table /\ last' = last
      <4>1. [k \in Key |-> Get(Table', k)] = [k \in Key |-> Get(Table, k)]
        BY <3>2, Zenon
      <4> QED
        BY <3>2, <4>1 DEF Dict!absVars
    <3> QED
      BY <2>1, <3>1, <3>2, StepMeans
  <2>2. ASSUME UNCHANGED vars PROVE [Dict!AbsNext]_(Dict!absVars)
    <3>1. Table' = Table /\ last' = last
      BY <2>2 DEF vars, Table
    <3>2. [k \in Key |-> Get(Table', k)] = [k \in Key |-> Get(Table, k)]
      BY <3>1, Zenon
    <3> QED
      BY <3>1, <3>2 DEF Dict!absVars
  <2> QED
    BY <2>1, <2>2
<1>3. Spec => []WellFormed(Table)
  BY TableIsIndexed
<1> QED
  BY <1>1, <1>2, <1>3, PTL DEF Spec, Implements, Dict!AbsSpec

(* What an iterator knows: while it is ready its offset is one of as many  *)
(* items as the table had when it was made.                                *)
IterOK ==
    /\ iter \in Iterator /\ iter.off >= -1
    /\ iter.at = "ready" => iter.off \in 0 .. iter.size - 1
    /\ got # "garbage"

(* A foreach over a dict reads an item of the table or an error, also when *)
(* the table changes inside its loop.                                      *)
THEOREM IteratorReadsTable ==
    ASSUME Plain, Sturdy, "getdata" \notin Ops, "garbage" \notin Key, None # "garbage"
    PROVE  Spec => []ReadsTable
<1>1. Init => IterOK
  BY DEF Init, IterOK, Iterator, NoIterator
<1>2. WellFormed(Table) /\ IterOK /\ [Next]_vars => IterOK'
  <2> SUFFICES ASSUME WellFormed(Table), IterOK, [Next]_vars PROVE IterOK'
    OBVIOUS
  <2>1. items \in Seq(Item) /\ Size \in Nat
    BY TableFields, LenProperties DEF WellFormed, Size
  <2> HIDE DEF Size
  <2>2. ASSUME NEW t, NEW call, Becomes(t, call) PROVE IterOK'
    BY <2>2 DEF Becomes, IterOK
  <2>3. ASSUME NEW k \in Key, Unset(k) PROVE IterOK'
    BY <2>3, <2>2 DEF Unset
  <2>4. ASSUME NEW k \in Key, NEW v \in Value, Overwrite(k, v) \/ Add(k, v) PROVE IterOK'
    BY <2>4, <2>2 DEF Overwrite, Add
  <2>5. ASSUME IterNew PROVE IterOK'
    BY <2>1, <2>5 DEF IterNew, IterOK, Iterator
  <2>6. ASSUME IterAdvance PROVE IterOK'
    <3>1. got' = None
      BY <2>6 DEF IterAdvance
    <3>2. CASE iter.size = Size /\ iter.off + 1 < Size
      <4>1. iter' = [iter EXCEPT !.off = @ + 1, !.at = "ready"]
        BY <2>6, <3>2 DEF IterAdvance
      <4>2. iter.off + 1 \in Int /\ iter.off + 1 >= 0
        BY DEF IterOK, Iterator
      <4>3. iter = [at |-> iter.at, size |-> iter.size, off |-> iter.off] /\ iter.size \in Nat
        BY DEF IterOK, Iterator
      <4>4. iter' = [at |-> "ready", size |-> iter.size, off |-> iter.off + 1]
        BY <4>1, <4>3
      <4>5. iter' \in Iterator
        BY <4>2, <4>3, <4>4 DEF Iterator
      <4>6. iter'.off = iter.off + 1 /\ iter'.size = iter.size /\ iter.off + 1 \in 0 .. iter.size - 1
        BY <2>1, <3>2, <4>2, <4>3, <4>4
      <4>7. got' # "garbage"
        BY <3>1
      <4> QED
        BY <4>2, <4>5, <4>6, <4>7 DEF IterOK
    <3>3. CASE ~(iter.size = Size /\ iter.off + 1 < Size)
      <4>1. iter' = NoIterator
        BY <2>6, <3>3 DEF IterAdvance
      <4> QED
        BY <3>1, <4>1 DEF IterOK, Iterator, NoIterator
    <3> QED
      BY <3>2, <3>3
  <2>7. ASSUME IterRead PROVE IterOK'
    <3>1. iter.at = "ready" /\ iter' = iter
      BY <2>7 DEF IterRead
    <3>2. CASE iter.size # Size
      BY <2>7, <3>1, <3>2 DEF IterRead, IterOK
    <3>3. CASE iter.size = Size
      <4>1. iter.off \in 0 .. Len(items) - 1
        BY <3>1, <3>3 DEF IterOK, Size
      <4>2. items[iter.off + 1].key \in Key
        BY <2>1, <4>1, ItemAt
      <4>3. got' = items[iter.off + 1].key
        BY <2>7, <3>3, <4>1 DEF IterRead, Size
      <4> QED
        BY <3>1, <4>2, <4>3 DEF IterOK
    <3> QED
      BY <3>2, <3>3
  <2>8. ASSUME UNCHANGED vars PROVE IterOK'
    BY <2>8 DEF vars, IterOK
  <2> QED
    BY <2>3, <2>4, <2>5, <2>6, <2>7, <2>8 DEF Next
<1>3. IterOK => ReadsTable
  BY DEF IterOK, ReadsTable
<1>4. Spec => []WellFormed(Table)
  BY TableIsIndexed
<1> QED
  BY <1>1, <1>2, <1>3, <1>4, PTL DEF Spec

=============================================================================
