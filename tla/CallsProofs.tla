----------------------------- MODULE CallsProofs -----------------------------
(***************************************************************************)
(* Proofs about Calls: what the stack operations of sgs_proc.c return, and *)
(* the invariants of the frames they work on.                              *)
(***************************************************************************)
EXTENDS Calls, SequenceTheorems, TLAPS

---------------------------------------------------------------------------
(* Sequences.                                                              *)

(* What SequenceTheorems says of a piece of a sequence.                    *)
LEMMA Piece ==
    ASSUME NEW S, NEW s \in Seq(S), NEW m \in Nat \ {0}, NEW n \in Nat, n <= Len(s)
    PROVE  /\ SubSeq(s, m, n) \in Seq(S)
           /\ Len(SubSeq(s, m, n)) = IF m <= n THEN n - m + 1 ELSE 0
           /\ \A i \in 1 .. n - m + 1 : SubSeq(s, m, n)[i] = s[m + i - 1]
<1>1. \A i \in m .. n : s[i] \in S
  OBVIOUS
<1> QED
  BY <1>1, SubSeqProperties

(* An initial piece.                                                       *)
LEMMA InitialPiece ==
    ASSUME NEW S, NEW s \in Seq(S), NEW n \in 0 .. Len(s)
    PROVE  /\ SubSeq(s, 1, n) \in Seq(S) /\ Len(SubSeq(s, 1, n)) = n
           /\ \A i \in 1 .. n : SubSeq(s, 1, n)[i] = s[i]
<1>1. n \in Nat /\ n <= Len(s) /\ 1 \in Nat \ {0}
  OBVIOUS
<1>2. /\ SubSeq(s, 1, n) \in Seq(S)
      /\ Len(SubSeq(s, 1, n)) = IF 1 <= n THEN n - 1 + 1 ELSE 0
      /\ \A i \in 1 .. n - 1 + 1 : SubSeq(s, 1, n)[i] = s[1 + i - 1]
  BY <1>1, Piece
<1> QED
  BY <1>1, <1>2

(* Two sequences one after the other.                                      *)
LEMMA Joined ==
    ASSUME NEW S, NEW s \in Seq(S), NEW t \in Seq(S)
    PROVE  /\ s \o t \in Seq(S) /\ Len(s \o t) = Len(s) + Len(t)
           /\ \A i \in 1 .. Len(s) : (s \o t)[i] = s[i]
           /\ \A i \in 1 .. Len(t) : (s \o t)[Len(s) + i] = t[i]
OBVIOUS

(* Front and Last undo an extension, and extend again.                     *)
LEMMA Extended ==
    ASSUME NEW S, NEW s \in Seq(S), NEW x \in S
    PROVE  /\ s \o <<x>> \in Seq(S) \ {<<>>} /\ Len(s \o <<x>>) = Len(s) + 1
           /\ Front(s \o <<x>>) = s /\ Last(s \o <<x>>) = x
           /\ \A i \in 1 .. Len(s) : (s \o <<x>>)[i] = s[i]
           /\ (s \o <<x>>)[Len(s) + 1] = x
<1> DEFINE t == s \o <<x>>
<1>1. /\ t \in Seq(S) /\ Len(t) = Len(s) + 1 /\ t # <<>>
      /\ \A i \in 1 .. Len(s) : t[i] = s[i]
      /\ t[Len(s) + 1] = x
  OBVIOUS
<1>2. Len(s) \in 0 .. Len(t) /\ Len(s) \in Nat
  BY <1>1
<1> HIDE DEF t
<1>3. SubSeq(t, 1, Len(s)) = s
  BY <1>1, <1>2, InitialPiece, SeqEqual
<1> QED
  BY <1>1, <1>2, <1>3 DEF t, Front, Last

LEMMA FrontLast ==
    ASSUME NEW S, NEW s \in Seq(S), s # <<>>
    PROVE  /\ Len(s) \in Nat \ {0} /\ Last(s) \in S /\ Last(s) = s[Len(s)]
           /\ Front(s) \in Seq(S) /\ Len(Front(s)) = Len(s) - 1
           /\ \A i \in 1 .. Len(s) - 1 : Front(s)[i] = s[i]
           /\ Front(s) \o <<Last(s)>> = s
<1>1. Len(s) \in Nat \ {0} /\ Len(s) - 1 \in 0 .. Len(s)
  OBVIOUS
<1>2. /\ Front(s) \in Seq(S) /\ Len(Front(s)) = Len(s) - 1
      /\ \A i \in 1 .. Len(s) - 1 : Front(s)[i] = s[i]
  BY <1>1, InitialPiece DEF Front
<1>3. Last(s) = s[Len(s)] /\ Last(s) \in S
  BY <1>1 DEF Last
<1> DEFINE t == Front(s) \o <<Last(s)>>
<1>4. /\ t \in Seq(S) /\ Len(t) = Len(s)
      /\ \A i \in 1 .. Len(s) - 1 : t[i] = s[i]
      /\ t[Len(s)] = s[Len(s)]
  <2>1. /\ t \in Seq(S) /\ Len(t) = Len(Front(s)) + 1
        /\ \A i \in 1 .. Len(Front(s)) : t[i] = Front(s)[i]
        /\ t[Len(Front(s)) + 1] = Last(s)
    BY <1>2, <1>3, Extended
  <2> HIDE DEF t
  <2> QED
    BY <1>1, <1>2, <1>3, <2>1
<1> HIDE DEF t
<1>5. t = s
  BY <1>1, <1>4, SeqEqual
<1> QED
  BY <1>1, <1>2, <1>3, <1>5 DEF t

(* fstk_clean removes the values between from and to.                      *)
LEMMA CleanFacts ==
    ASSUME NEW S, NEW s \in Seq(S), NEW to \in 0 .. Len(s), NEW from \in 0 .. to
    PROVE  /\ Clean(s, from, to) \in Seq(S)
           /\ Len(Clean(s, from, to)) = from + Len(s) - to
           /\ \A i \in 1 .. from : Clean(s, from, to)[i] = s[i]
           /\ \A i \in 1 .. Len(s) - to : Clean(s, from, to)[from + i] = s[to + i]
<1> DEFINE a == SubSeq(s, 1, from)
           b == SubSeq(s, to + 1, Len(s))
<1>1. /\ a \in Seq(S) /\ Len(a) = from
      /\ \A i \in 1 .. from : a[i] = s[i]
  BY InitialPiece
<1>2. /\ b \in Seq(S) /\ Len(b) = IF to + 1 <= Len(s) THEN Len(s) - (to + 1) + 1 ELSE 0
      /\ \A i \in 1 .. Len(s) - (to + 1) + 1 : b[i] = s[to + 1 + i - 1]
  BY Piece
<1>3. Clean(s, from, to) = a \o b
  BY DEF Clean
<1>4. /\ Len(b) = Len(s) - to
      /\ \A i \in 1 .. Len(s) - to : b[i] = s[to + i]
  <2> HIDE DEF b
  <2> QED
    BY <1>2
<1> HIDE DEF a, b
<1>5. /\ a \o b \in Seq(S) /\ Len(a \o b) = Len(a) + Len(b)
      /\ \A i \in 1 .. Len(a) : (a \o b)[i] = a[i]
      /\ \A i \in 1 .. Len(b) : (a \o b)[Len(a) + i] = b[i]
  <2>1. a \in Seq(S) /\ b \in Seq(S)
    BY <1>1, <1>2
  <2> QED
    BY <2>1, Joined
<1> QED
  BY <1>1, <1>3, <1>4, <1>5

LEMMA NullsFacts ==
    ASSUME NEW n \in Nat
    PROVE  Nulls(n) \in Seq(Value) /\ Len(Nulls(n)) = n /\ \A i \in 1 .. n : Nulls(n)[i] = Null
BY DEF Nulls, A!Nulls, Value

(* stk_resize_expected leaves expect values on top.                        *)
LEMMA ResizedFacts ==
    ASSUME NEW s \in Seq(Value), NEW expect \in Nat, NEW rvc \in 0 .. Len(s)
    PROVE  /\ Resized(s, expect, rvc) \in Seq(Value)
           /\ Len(Resized(s, expect, rvc)) = Len(s) - rvc + expect
           /\ \A i \in 1 .. Len(s) - rvc : Resized(s, expect, rvc)[i] = s[i]
           /\ \A i \in 1 .. expect : Resized(s, expect, rvc)[Len(s) - rvc + i] =
                                        IF i <= rvc THEN s[Len(s) - rvc + i] ELSE Null
<1> DEFINE r == Resized(s, expect, rvc)
<1>1. CASE rvc > expect
  <2>1. r = SubSeq(s, 1, Len(s) - (rvc - expect)) /\ Len(s) - (rvc - expect) \in 0 .. Len(s)
    BY <1>1 DEF Resized
  <2>2. /\ r \in Seq(Value) /\ Len(r) = Len(s) - (rvc - expect)
        /\ \A i \in 1 .. Len(s) - (rvc - expect) : r[i] = s[i]
    BY <2>1, InitialPiece
  <2> HIDE DEF r
  <2> QED
    BY <1>1, <2>2 DEF r
<1>2. CASE ~(rvc > expect)
  <2> DEFINE z == Nulls(expect - rvc)
  <2>1. r = s \o z /\ expect - rvc \in Nat
    BY <1>2 DEF Resized
  <2>2. z \in Seq(Value) /\ Len(z) = expect - rvc /\ \A i \in 1 .. expect - rvc : z[i] = Null
    BY <2>1, NullsFacts
  <2> HIDE DEF r, z
  <2>3. /\ r \in Seq(Value) /\ Len(r) = Len(s) + Len(z)
        /\ \A i \in 1 .. Len(s) : r[i] = s[i]
        /\ \A i \in 1 .. Len(z) : r[Len(s) + i] = z[i]
    <3>1. z \in Seq(Value)
      BY <2>2
    <3> QED
      BY <2>1, <3>1, Joined
  <2>4. \A i \in 1 .. expect : r[Len(s) - rvc + i] = IF i <= rvc THEN s[Len(s) - rvc + i] ELSE Null
    <3> TAKE i \in 1 .. expect
    <3>1. CASE i <= rvc
      BY <2>3, <3>1
    <3>2. CASE ~(i <= rvc)
      <4>1. i - rvc \in 1 .. Len(z) /\ Len(s) - rvc + i = Len(s) + (i - rvc)
        BY <2>2, <3>2
      <4> QED
        BY <2>2, <2>3, <3>2, <4>1
    <3> QED
      BY <3>1, <3>2
  <2> QED
    BY <1>2, <2>2, <2>3, <2>4 DEF r
<1> QED
  BY <1>1, <1>2

(* What a frame may wait for.                                              *)
Wait == [op : {"none", "call", "native", "operator"}, from : Nat, expect : Nat]

(* The results of a call leave the top of the stack for the registers.     *)
LEMMA DeliveredFacts ==
    ASSUME NEW s \in Seq(Value), NEW o \in Nat, NEW w \in Wait,
           NEW rvc \in 0 .. Len(s)
    PROVE  /\ Delivered(s, o, w, rvc) \in Seq(Value)
           /\ Len(Delivered(s, o, w, rvc)) = Len(s) - rvc
           /\ \A i \in 1 .. Len(s) - rvc :
                  /\ i \notin o + w.from + 1 .. o + w.from + w.expect
                        => Delivered(s, o, w, rvc)[i] = s[i]
                  /\ i \in o + w.from + 1 .. o + w.from + w.expect
                        => Delivered(s, o, w, rvc)[i] =
                              IF i - (o + w.from) <= rvc
                              THEN s[Len(s) - rvc + i - (o + w.from)] ELSE Null
<1> DEFINE all == Resized(s, w.expect, rvc)
           n == Len(all) - w.expect
           d == [i \in 1 .. n |-> IF i \in o + w.from + 1 .. o + w.from + w.expect
                                  THEN all[n + i - (o + w.from)] ELSE all[i]]
<1>0. w.from \in Nat /\ w.expect \in Nat
  BY DEF Wait
<1>1. Delivered(s, o, w, rvc) = d
  BY DEF Delivered
<1>2. /\ all \in Seq(Value)
      /\ Len(all) = Len(s) - rvc + w.expect
      /\ \A i \in 1 .. Len(s) - rvc : all[i] = s[i]
      /\ \A i \in 1 .. w.expect : all[Len(s) - rvc + i] =
                                        IF i <= rvc THEN s[Len(s) - rvc + i] ELSE Null
  BY <1>0, ResizedFacts
<1> HIDE DEF all
<1>3. n = Len(s) - rvc /\ n \in Nat
  BY <1>0, <1>2
<1> HIDE DEF n
<1>4. \A i \in 1 .. n :
        /\ i \notin o + w.from + 1 .. o + w.from + w.expect => d[i] = s[i]
        /\ i \in o + w.from + 1 .. o + w.from + w.expect
              => /\ i - (o + w.from) \in 1 .. w.expect
                 /\ d[i] = all[n + (i - (o + w.from))]
                 /\ d[i] = IF i - (o + w.from) <= rvc
                           THEN s[n + i - (o + w.from)] ELSE Null
  <2> TAKE i \in 1 .. n
  <2>1. CASE i \notin o + w.from + 1 .. o + w.from + w.expect
    <3>1. d[i] = all[i]
      BY <2>1
    <3> QED
      BY <1>2, <1>3, <2>1, <3>1
  <2>2. CASE i \in o + w.from + 1 .. o + w.from + w.expect
    <3> DEFINE j == i - (o + w.from)
    <3>1. j \in 1 .. w.expect /\ n + i - (o + w.from) = n + j
      BY <1>0, <1>3, <2>2
    <3>2. d[i] = all[n + j]
      BY <2>2, <3>1
    <3> HIDE DEF d, j
    <3>3. all[n + j] = IF j <= rvc THEN s[n + j] ELSE Null
      BY <1>2, <1>3, <3>1
    <3> QED
      BY <2>2, <3>1, <3>2, <3>3 DEF j
  <2> QED
    BY <2>1, <2>2
<1>5. \A i \in 1 .. n : d[i] \in Value
  <2> TAKE i \in 1 .. n
  <2>1. CASE i \notin o + w.from + 1 .. o + w.from + w.expect
    <3>1. s[i] \in Value
      BY <1>3
    <3> QED
      BY <1>4, <2>1, <3>1
  <2>2. CASE i \in o + w.from + 1 .. o + w.from + w.expect
    <3>1. /\ i - (o + w.from) \in 1 .. w.expect
          /\ d[i] = all[n + (i - (o + w.from))]
      BY <1>4, <2>2
    <3> HIDE DEF d
    <3>2. n + (i - (o + w.from)) \in 1 .. Len(all)
      <4> DEFINE j == i - (o + w.from)
      <4>1. Len(all) = n + w.expect /\ n \in Nat /\ j \in 1 .. w.expect
        BY <1>2, <1>3, <3>1
      <4> HIDE DEF j
      <4>2. n + j \in 1 .. Len(all)
        BY <1>0, <4>1
      <4> QED
        BY <4>2 DEF j
    <3> QED
      BY <1>2, <3>1, <3>2, ElementOfSeq
  <2> QED
    BY <2>1, <2>2
<1>6. d \in Seq(Value) /\ Len(d) = n
  <2>1. d \in [1 .. n -> Value]
    BY <1>5
  <2>2. n \in Nat
    BY <1>3
  <2> HIDE DEF d
  <2> QED
    BY <2>1, <2>2
<1> HIDE DEF d
<1> QED
  BY <1>1, <1>3, <1>4, <1>6

(* An operator leaves the stack as it was but for its result.              *)
LEMMA OutcomeFacts ==
    ASSUME NEW s \in Seq(Value), NEW o \in Nat, NEW w \in Wait,
           NEW rvc \in 0 .. Len(s)
    PROVE  /\ Outcome(s, o, w, rvc) \in Seq(Value)
           /\ Len(Outcome(s, o, w, rvc)) = Len(s) - rvc
           /\ \A i \in 1 .. Len(s) - rvc :
                  Outcome(s, o, w, rvc)[i] = IF i # o + w.from + 1 THEN s[i]
                                             ELSE IF rvc > 0 THEN s[Len(s)] ELSE Null
<1>0. w.from \in Nat
  BY DEF Wait
<1> DEFINE t == SubSeq(s, 1, Len(s) - rvc)
           v == IF rvc > 0 THEN Last(s) ELSE Null
<1>1. /\ t \in Seq(Value) /\ Len(t) = Len(s) - rvc
      /\ \A i \in 1 .. Len(s) - rvc : t[i] = s[i]
  <2>1. Len(s) - rvc \in 0 .. Len(s)
    OBVIOUS
  <2> QED
    BY <2>1, InitialPiece
<1>2. v \in Value /\ v = IF rvc > 0 THEN s[Len(s)] ELSE Null
  <2>1. rvc > 0 => Len(s) \in 1 .. Len(s)
    OBVIOUS
  <2> QED
    BY <2>1, ElementOfSeq DEF Last, Value
<1>3. Outcome(s, o, w, rvc) = [t EXCEPT ![o + w.from + 1] = v]
  BY DEF Outcome
<1> DEFINE r == [t EXCEPT ![o + w.from + 1] = v]
<1> HIDE DEF t, v
<1>4. /\ r \in Seq(Value) /\ Len(r) = Len(t)
      /\ \A i \in 1 .. Len(t) : r[i] = IF i = o + w.from + 1 THEN v ELSE t[i]
  <2> DEFINE k == o + w.from + 1
  <2>1. t \in Seq(Value) /\ v \in Value /\ k \in Nat
    BY <1>0, <1>1, <1>2
  <2> HIDE DEF k
  <2>2. CASE k \in 1 .. Len(t)
    BY <2>1, <2>2, ExceptSeq DEF k
  <2>3. CASE k \notin 1 .. Len(t)
    <3>1. [t EXCEPT ![k] = v] = t
      BY <2>1, <2>3
    <3> QED
      BY <2>1, <2>3, <3>1 DEF k
  <2> QED
    BY <2>2, <2>3
<1> HIDE DEF r
<1> QED
  BY <1>1, <1>2, <1>3, <1>4 DEF r

LEMMA CountFacts ==
    /\ Count(TRUE) = 1 /\ Count(FALSE) = 0
    /\ \A b \in BOOLEAN : Count(b) \in Nat
BY DEF Count

LEMMA FnFacts ==
    ASSUME NEW fn \in DOMAIN Fn
    PROVE  /\ Fn[fn].this \in BOOLEAN /\ Fn[fn].args \in Nat /\ Fn[fn].tmp \in Nat
           /\ Size(fn) \in Nat /\ Size(fn) = Count(Fn[fn].this) + Fn[fn].args + Fn[fn].tmp
           /\ Count(Fn[fn].this) \in Nat
           /\ Kind(fn) \in {"script", "native", "yield", "abort"}
<1>1. Fn[fn] \in [kind : {"script", "native", "yield", "abort"},
                  this : BOOLEAN, args : Nat, tmp : Nat]
  BY FnAssumption
<1>2. Kind(fn) = Fn[fn].kind
  BY DEF Kind, A!Kind
<1>3. Count(Fn[fn].this) \in Nat
  BY <1>1, CountFacts
<1> QED
  BY <1>1, <1>2, <1>3 DEF Size

(* stk_transpose: the first of the values on top are above the others.     *)
LEMMA TransposedFacts ==
    ASSUME NEW s \in Seq(Value), NEW all \in 0 .. Len(s), NEW first \in 0 .. all
    PROVE  /\ Transposed(s, first, all) \in Seq(Value)
           /\ Len(Transposed(s, first, all)) = Len(s)
           /\ \A i \in 1 .. Len(s) - all : Transposed(s, first, all)[i] = s[i]
           /\ \A i \in 1 .. first :
                 Transposed(s, first, all)[Len(s) - first + i] = s[Len(s) - all + i]
<1> DEFINE n == Len(s) - all
           a == SubSeq(s, 1, n)
           b == SubSeq(s, n + first + 1, Len(s))
           c == SubSeq(s, n + 1, n + first)
<1>1. n \in 0 .. Len(s) /\ n + first \in n .. Len(s) /\ Len(s) \in Nat
  OBVIOUS
<1>2. Transposed(s, first, all) = a \o b \o c
  BY DEF Transposed
<1> HIDE DEF n
<1>3. a \in Seq(Value) /\ Len(a) = n /\ \A i \in 1 .. n : a[i] = s[i]
  BY <1>1, InitialPiece
<1>4. b \in Seq(Value) /\ Len(b) = Len(s) - n - first
  <2>1. n + first + 1 \in Nat \ {0}
    BY <1>1
  <2>2. b \in Seq(Value) /\ Len(b) = IF n + first + 1 <= Len(s) THEN Len(s) - (n + first + 1) + 1 ELSE 0
    BY <1>1, <2>1, Piece
  <2> HIDE DEF b
  <2> QED
    BY <1>1, <2>2
<1>5. c \in Seq(Value) /\ Len(c) = first /\ \A i \in 1 .. first : c[i] = s[n + i]
  <2> DEFINE p == n + 1
             q == n + first
  <2>1. p \in Nat \ {0} /\ q \in Nat /\ q <= Len(s)
    BY <1>1
  <2>2. c = SubSeq(s, p, q)
    OBVIOUS
  <2> HIDE DEF c, p, q
  <2>3. /\ c \in Seq(Value) /\ Len(c) = IF p <= q THEN q - p + 1 ELSE 0
        /\ \A i \in 1 .. q - p + 1 : c[i] = s[p + i - 1]
    BY <2>1, <2>2, Piece
  <2> QED
    BY <1>1, <2>3 DEF p, q
<1> HIDE DEF a, b, c
<1>6. /\ a \o b \in Seq(Value) /\ Len(a \o b) = Len(a) + Len(b)
      /\ \A i \in 1 .. Len(a) : (a \o b)[i] = a[i]
  <2>1. a \in Seq(Value) /\ b \in Seq(Value)
    BY <1>3, <1>4
  <2> QED
    BY <2>1, Joined
<1> DEFINE d == a \o b
<1> HIDE DEF d
<1>7. /\ d \o c \in Seq(Value) /\ Len(d \o c) = Len(d) + Len(c)
      /\ \A i \in 1 .. Len(d) : (d \o c)[i] = d[i]
      /\ \A i \in 1 .. Len(c) : (d \o c)[Len(d) + i] = c[i]
  <2>1. d \in Seq(Value) /\ c \in Seq(Value)
    BY <1>5, <1>6 DEF d
  <2> QED
    BY <2>1, Joined
<1>8. Len(d) = Len(s) - first /\ n <= Len(d) /\ \A i \in 1 .. n : d[i] = s[i]
  BY <1>1, <1>3, <1>4, <1>6 DEF d
<1> DEFINE t == Transposed(s, first, all)
<1>9. t = d \o c
  BY <1>2 DEF d
<1> HIDE DEF t
<1>10. t \in Seq(Value) /\ Len(t) = Len(s)
  BY <1>1, <1>5, <1>7, <1>8, <1>9
<1>11. \A i \in 1 .. n : t[i] = s[i]
  BY <1>1, <1>7, <1>8, <1>9
<1>12. \A i \in 1 .. first : t[Len(s) - first + i] = s[n + i]
  BY <1>1, <1>5, <1>7, <1>8, <1>9
<1> QED
  BY <1>10, <1>11, <1>12 DEF t, n

(* What is in register i of a script function fn that is called with the   *)
(* values above b.                                                         *)
Parameter(s, b, fn, args, gotthis, i) ==
    LET j == i - Count(Fn[fn].this)
    IN  IF j = 0 THEN (IF gotthis THEN s[b + 1] ELSE Null)
        ELSE IF j <= Fn[fn].args /\ j <= args THEN s[b + Count(gotthis) + j] ELSE Null

(* The stack with a null for a missing <this>.                             *)
WithThis(s, fn, args, gotthis) ==
    IF Fn[fn].this /\ ~gotthis
    THEN SubSeq(s, 1, Len(s) - args) \o <<Null>> \o SubSeq(s, Len(s) - args + 1, Len(s))
    ELSE s

LEMMA WithThisFacts ==
    ASSUME NEW s \in Seq(Value), NEW fn \in DOMAIN Fn, NEW args \in Nat, NEW gotthis \in BOOLEAN,
           NEW b \in Nat \ {0}, b = Len(s) - args - Count(gotthis),
           NEW w, w = WithThis(s, fn, args, gotthis)
    PROVE  /\ w \in Seq(Value)
           /\ Len(w) = b + args + Count(gotthis \/ Fn[fn].this)
           /\ \A i \in 1 .. b : w[i] = s[i]
           /\ \A i \in 1 .. args : w[b + Count(gotthis \/ Fn[fn].this) + i] = s[b + Count(gotthis) + i]
           /\ Fn[fn].this => w[b + 1] = IF gotthis THEN s[b + 1] ELSE Null
<1>1. CASE Fn[fn].this /\ ~gotthis
  <2> DEFINE x == SubSeq(s, 1, b)
             y == SubSeq(s, b + 1, Len(s))
             z == x \o <<Null>>
  <2>1. b = Len(s) - args /\ Count(gotthis) = 0 /\ Count(gotthis \/ Fn[fn].this) = 1
    BY <1>1 DEF Count
  <2>2. w = z \o y
    BY <1>1, <2>1 DEF WithThis
  <2>3. x \in Seq(Value) /\ Len(x) = b /\ \A i \in 1 .. b : x[i] = s[i]
    <3>1. b \in 0 .. Len(s)
      BY <2>1
    <3> QED
      BY <3>1, InitialPiece
  <2>4. y \in Seq(Value) /\ Len(y) = args /\ \A i \in 1 .. args : y[i] = s[b + i]
    <3>1. b + 1 \in Nat \ {0} /\ Len(s) \in Nat
      OBVIOUS
    <3>2. /\ y \in Seq(Value) /\ Len(y) = IF b + 1 <= Len(s) THEN Len(s) - (b + 1) + 1 ELSE 0
          /\ \A i \in 1 .. Len(s) - (b + 1) + 1 : y[i] = s[b + 1 + i - 1]
      BY <3>1, Piece
    <3> HIDE DEF y
    <3> QED
      BY <2>1, <3>1, <3>2
  <2> HIDE DEF x, y
  <2>5. /\ z \in Seq(Value) /\ Len(z) = b + 1 /\ z[b + 1] = Null
        /\ \A i \in 1 .. b : z[i] = x[i]
    <3>1. x \in Seq(Value) /\ Null \in Value
      BY <2>3 DEF Value
    <3>2. /\ z \in Seq(Value) \ {<<>>} /\ Len(z) = Len(x) + 1
          /\ \A i \in 1 .. Len(x) : z[i] = x[i]
          /\ z[Len(x) + 1] = Null
      BY <3>1, Extended
    <3> HIDE DEF z
    <3> QED
      BY <2>3, <3>2
  <2> HIDE DEF z
  <2>6. /\ z \o y \in Seq(Value) /\ Len(z \o y) = Len(z) + Len(y)
        /\ \A i \in 1 .. Len(z) : (z \o y)[i] = z[i]
        /\ \A i \in 1 .. Len(y) : (z \o y)[Len(z) + i] = y[i]
    <3>1. z \in Seq(Value) /\ y \in Seq(Value)
      BY <2>4, <2>5
    <3> QED
      BY <3>1, Joined
  <2>7. w \in Seq(Value) /\ Len(w) = b + args + 1
    BY <2>2, <2>4, <2>5, <2>6
  <2>8. \A i \in 1 .. b : w[i] = s[i]
    BY <2>2, <2>3, <2>5, <2>6
  <2>9. \A i \in 1 .. args : w[b + 1 + i] = s[b + i]
    <3>1. Len(z) = b + 1 /\ Len(y) = args /\ w = z \o y
      BY <2>2, <2>4, <2>5
    <3>2. \A i \in 1 .. args : w[(b + 1) + i] = y[i]
      BY <2>6, <3>1
    <3> QED
      BY <2>4, <3>2
  <2>10. w[b + 1] = Null
    BY <2>2, <2>5, <2>6
  <2> DEFINE c == Count(gotthis)
             e == Count(gotthis \/ Fn[fn].this)
  <2>11. c = 0 /\ e = 1
    BY <2>1
  <2> HIDE DEF c, e
  <2>12. /\ Len(w) = b + args + e
         /\ \A i \in 1 .. args : w[b + e + i] = s[b + c + i]
    BY <2>7, <2>9, <2>11
  <2> QED
    BY <1>1, <2>7, <2>8, <2>10, <2>12 DEF c, e
<1>2. CASE ~(Fn[fn].this /\ ~gotthis)
  <2>1. w = s
    BY <1>2 DEF WithThis
  <2>2. Count(gotthis \/ Fn[fn].this) = Count(gotthis) /\ Count(gotthis) \in Nat
    BY <1>2, FnFacts, CountFacts
  <2>3. Fn[fn].this => gotthis
    BY <1>2
  <2> QED
    BY <2>1, <2>2, <2>3
<1> QED
  BY <1>1, <1>2

Taken(args, params) == IF args > params THEN params ELSE args

Shifted(w, args, params, extra) ==
    IF args > params THEN Transposed(w, params + extra, args + extra) ELSE w

Base(w, args, params, own, extra) ==
    IF args > params THEN Len(w) - args - own + (args + extra) - (params + extra)
    ELSE Len(w) - args - own

ArrangedWell(w, b, args, params, own, extra) ==
    LET m == Taken(args, params)
        x == Shifted(w, args, params, extra)
        o == Base(w, args, params, own, extra)
    IN  /\ x \in Seq(Value) /\ Len(x) = o + own + m
        /\ b <= o /\ o \in Nat
        /\ \A i \in 1 .. b : x[i] = w[i]
        /\ \A i \in 1 .. own + m : x[o + i] = w[b + extra - own + i]

(* The arguments of a script function: superfluous ones are below the      *)
(* parameters it has.                                                      *)
LEMMA Arranged ==
    ASSUME NEW w \in Seq(Value), NEW b \in Nat, NEW args \in Nat, NEW params \in Nat,
           NEW own \in 0 .. 1, NEW extra \in own .. 1, Len(w) = b + args + extra
    PROVE  ArrangedWell(w, b, args, params, own, extra)
<1> DEFINE m == Taken(args, params)
           x == Shifted(w, args, params, extra)
           o == Base(w, args, params, own, extra)
<1>0. SUFFICES
        /\ x \in Seq(Value) /\ Len(x) = o + own + m
        /\ b <= o /\ o \in Nat
        /\ \A i \in 1 .. b : x[i] = w[i]
        /\ \A i \in 1 .. own + m : x[o + i] = w[b + extra - own + i]
  BY DEF ArrangedWell
<1>1. CASE args > params
  <2> DEFINE first == params + extra
             all == args + extra
  <2>1. /\ all \in 0 .. Len(w) /\ first \in 0 .. all /\ Len(w) - all = b
        /\ o = Len(w) - params - own /\ first = params + extra /\ m = params
    BY <1>1 DEF Taken, Base
  <2>2. x = Transposed(w, first, all)
    BY <1>1 DEF Shifted
  <2> HIDE DEF first, all, m, x, o
  <2>3. /\ x \in Seq(Value) /\ Len(x) = Len(w)
        /\ \A i \in 1 .. Len(w) - all : x[i] = w[i]
        /\ \A i \in 1 .. first : x[Len(w) - first + i] = w[Len(w) - all + i]
    <3>1. all \in 0 .. Len(w) /\ first \in 0 .. all
      BY <2>1
    <3> QED
      BY <2>2, <3>1, TransposedFacts
  <2>4. \A i \in 1 .. own + m : x[o + i] = w[b + extra - own + i]
    <3> TAKE i \in 1 .. own + m
    <3> DEFINE j == i + extra - own
    <3>1. /\ j \in 1 .. first /\ Len(w) - first + j = o + i
          /\ Len(w) - all + j = b + extra - own + i
      BY <2>1
    <3> HIDE DEF j
    <3> QED
      BY <2>3, <3>1
  <2>5. Len(x) = o + own + m /\ b <= o /\ o \in Nat
    BY <1>1, <2>1, <2>3
  <2> QED
    BY <2>1, <2>3, <2>4, <2>5
<1>2. CASE ~(args > params)
  <2>1. x = w /\ m = args /\ o = b + extra - own
    BY <1>2 DEF Taken, Shifted, Base
  <2> HIDE DEF m, x, o
  <2> QED
    BY <2>1
<1> QED
  BY <1>1, <1>2

(* The stack of a script function that is entered: all its registers, with *)
(* <this> and the parameters from the arguments.                           *)
LEMMA PreparedFacts ==
    ASSUME NEW s \in Seq(Value), NEW fn \in DOMAIN Fn, NEW args \in Nat, NEW gotthis \in BOOLEAN,
           NEW b \in Nat \ {0}, b = Len(s) - args - Count(gotthis),
           NEW p, p = Prepared(s, fn, args, gotthis)
    PROVE  /\ p.stack \in Seq(Value) /\ p.off \in Nat /\ b <= p.off
           /\ Len(p.stack) = p.off + Size(fn)
           /\ \A i \in 1 .. b : p.stack[i] = s[i]
           /\ \A i \in 1 .. Size(fn) : p.stack[p.off + i] = Parameter(s, b, fn, args, gotthis, i)
<1> DEFINE w == WithThis(s, fn, args, gotthis)
           params == Fn[fn].args
           tmp == Fn[fn].tmp
           own == Count(Fn[fn].this)
           got == Count(gotthis)
           extra == Count(gotthis \/ Fn[fn].this)
           o == Len(w) - args - own
           first == params + extra
           all == args + extra
           x == IF args > params THEN Transposed(w, first, all) ELSE w
           z == Nulls(tmp + (IF args > params THEN 0 ELSE params - args))
           off1 == IF args > params THEN o + all - first ELSE o
<1>1. /\ params \in Nat /\ tmp \in Nat /\ own \in {0, 1} /\ got \in {0, 1} /\ extra \in {0, 1}
      /\ own <= extra /\ got <= extra /\ Size(fn) = own + params + tmp
      /\ own = 0 => extra = got
      /\ own = 1 => extra = 1
      /\ got = 1 <=> gotthis
      /\ own = 1 <=> Fn[fn].this
  <2>1. \A a, d \in BOOLEAN : /\ Count(a) \in {0, 1} /\ (Count(a) = 1 <=> a)
                              /\ Count(d \/ a) \in {0, 1} /\ Count(a) <= Count(d \/ a)
                              /\ Count(d) <= Count(d \/ a)
                              /\ (Count(a) = 0 => Count(d \/ a) = Count(d))
                              /\ (Count(a) = 1 => Count(d \/ a) = 1)
    BY DEF Count
  <2>2. Fn[fn].this \in BOOLEAN /\ params \in Nat /\ tmp \in Nat /\ Size(fn) = own + params + tmp
    BY FnFacts
  <2> QED
    BY <2>1, <2>2
<1>2. /\ w \in Seq(Value) /\ Len(w) = b + args + extra
      /\ \A i \in 1 .. b : w[i] = s[i]
      /\ \A i \in 1 .. args : w[b + extra + i] = s[b + got + i]
      /\ Fn[fn].this => w[b + 1] = IF gotthis THEN s[b + 1] ELSE Null
  BY WithThisFacts
<1>3. p.stack = x \o z /\ p.off = off1
  <2>1. p = IF args > params
            THEN [stack |-> Transposed(w, first, all) \o Nulls(tmp), off |-> o + all - first]
            ELSE [stack |-> w \o Nulls(tmp + params - args), off |-> o]
    BY DEF Prepared, WithThis
  <2>2. CASE args > params
    <3>1. z = Nulls(tmp) /\ x = Transposed(w, first, all) /\ off1 = o + all - first
      BY <1>1, <2>2
    <3>2. p = [stack |-> Transposed(w, first, all) \o Nulls(tmp), off |-> o + all - first]
      BY <2>1, <2>2
    <3> HIDE DEF x, z, off1, o, first, all, w, tmp
    <3> QED
      BY <3>1, <3>2
  <2>3. CASE ~(args > params)
    <3>1. z = Nulls(tmp + params - args) /\ x = w /\ off1 = o
      <4>1. tmp + (IF args > params THEN 0 ELSE params - args) = tmp + params - args
        BY <1>1, <2>3
      <4> QED
        BY <2>3, <4>1
    <3>2. p = [stack |-> w \o Nulls(tmp + params - args), off |-> o]
      BY <2>1, <2>3
    <3> HIDE DEF x, z, off1, o, w, tmp, params
    <3> QED
      BY <3>1, <3>2
  <2> QED
    BY <2>2, <2>3
<1> DEFINE m == IF args > params THEN params ELSE args
<1>4. /\ z \in Seq(Value) /\ Len(z) = tmp + (params - m) /\ \A i \in 1 .. Len(z) : z[i] = Null
  <2> DEFINE n == tmp + (IF args > params THEN 0 ELSE params - args)
  <2>1. n \in Nat /\ n = tmp + (params - m)
    BY <1>1
  <2> HIDE DEF n
  <2>2. Nulls(n) \in Seq(Value) /\ Len(Nulls(n)) = n /\ \A i \in 1 .. n : Nulls(n)[i] = Null
    BY <2>1, NullsFacts
  <2> QED
    BY <2>1, <2>2 DEF n
<1> HIDE DEF w, z, params, tmp, own, got, extra
<1>5. /\ x \in Seq(Value) /\ Len(x) = off1 + own + m
      /\ b <= off1 /\ off1 \in Nat
      /\ \A i \in 1 .. b : x[i] = w[i]
      /\ \A i \in 1 .. own + m : x[off1 + i] = w[b + extra - own + i]
  <2>1. /\ w \in Seq(Value) /\ params \in Nat /\ own \in 0 .. 1 /\ extra \in own .. 1
        /\ Len(w) = b + args + extra
    BY <1>1, <1>2
  <2>2. ArrangedWell(w, b, args, params, own, extra)
    BY <2>1, Arranged
  <2>3. /\ x = Shifted(w, args, params, extra)
        /\ off1 = Base(w, args, params, own, extra)
        /\ m = Taken(args, params)
    BY DEF Shifted, Base, Taken
  <2> HIDE DEF x, off1, m
  <2> QED
    BY <2>2, <2>3 DEF ArrangedWell
<1>6. m \in Nat /\ m <= params /\ \A j \in 1 .. params : j <= m <=> j <= args
  BY <1>1
<1> HIDE DEF x, off1, m
<1>7. /\ x \o z \in Seq(Value) /\ Len(x \o z) = Len(x) + Len(z)
      /\ \A i \in 1 .. Len(x) : (x \o z)[i] = x[i]
      /\ \A i \in 1 .. Len(z) : (x \o z)[Len(x) + i] = z[i]
  <2>1. x \in Seq(Value) /\ z \in Seq(Value)
    BY <1>4, <1>5
  <2> QED
    BY <2>1, Joined
<1> DEFINE t == x \o z
<1> HIDE DEF t
<1>8. /\ p.stack = t /\ p.off = off1 /\ t \in Seq(Value) /\ off1 \in Nat /\ b <= off1
      /\ Len(t) = off1 + Size(fn)
  <2>1. p.stack = t /\ p.off = off1 /\ t \in Seq(Value) /\ off1 \in Nat /\ b <= off1
    BY <1>3, <1>5, <1>7 DEF t
  <2>2. Len(t) = Len(x) + Len(z)
    BY <1>7 DEF t
  <2> QED
    BY <1>1, <1>4, <1>5, <1>6, <2>1, <2>2
<1>9. \A i \in 1 .. b : t[i] = s[i]
  <2> TAKE i \in 1 .. b
  <2>1. i \in 1 .. Len(x)
    BY <1>1, <1>5, <1>6
  <2> QED
    BY <1>2, <1>5, <1>7, <2>1 DEF t
<1>10. \A i \in 1 .. Size(fn) : t[off1 + i] = Parameter(s, b, fn, args, gotthis, i)
  <2> TAKE i \in 1 .. Size(fn)
  <2> DEFINE j == i - own
  <2>1. Parameter(s, b, fn, args, gotthis, i) =
          IF j = 0 THEN (IF gotthis THEN s[b + 1] ELSE Null)
          ELSE IF j <= params /\ j <= args THEN s[b + got + j] ELSE Null
    BY DEF Parameter, own, params, got
  <2>2. j \in Int /\ i = own + j /\ j >= 0 /\ (own = 0 => j > 0)
    BY <1>1
  <2> HIDE DEF j
  <2>3. CASE j = 0
    <3>1. i = 1 /\ own = 1 /\ Fn[fn].this /\ extra = 1
      BY <1>1, <2>2, <2>3
    <3>2. i \in 1 .. own + m /\ off1 + i \in 1 .. Len(x)
      BY <1>5, <1>6, <3>1
    <3>3. t[off1 + i] = x[off1 + i] /\ x[off1 + i] = w[b + extra - own + i]
      BY <1>5, <1>7, <3>2 DEF t
    <3>4. b + extra - own + i = b + 1
      BY <3>1
    <3> QED
      BY <1>2, <2>1, <2>3, <3>1, <3>3, <3>4
  <2>4. CASE j # 0 /\ j <= m
    <3>1. i \in 1 .. own + m /\ off1 + i \in 1 .. Len(x) /\ j \in 1 .. args /\ j <= params
      <4>1. i \in 1 .. own + m /\ j \in 1 .. params
        BY <1>1, <1>6, <2>2, <2>4
      <4>2. j <= args
        BY <1>6, <2>4, <4>1
      <4>3. off1 + i \in 1 .. Len(x)
        BY <1>5, <1>1, <1>6, <4>1
      <4> QED
        BY <4>1, <4>2, <4>3
    <3>2. t[off1 + i] = x[off1 + i] /\ x[off1 + i] = w[b + extra - own + i]
      BY <1>5, <1>7, <3>1 DEF t
    <3>3. b + extra - own + i = b + extra + j
      BY <1>1, <2>2
    <3>4. w[b + extra + j] = s[b + got + j]
      BY <1>2, <3>1
    <3> QED
      BY <2>1, <2>4, <3>1, <3>2, <3>3, <3>4
  <2>5. CASE j # 0 /\ ~(j <= m)
    <3>1. ~(j <= params /\ j <= args)
      BY <1>6, <2>2, <2>5
    <3>2. j - m \in 1 .. Len(z) /\ off1 + i = Len(x) + (j - m)
      BY <1>1, <1>4, <1>5, <1>6, <2>2, <2>5
    <3>3. t[off1 + i] = Null
      BY <1>4, <1>7, <3>2 DEF t
    <3> QED
      BY <2>1, <2>5, <3>1, <3>3
  <2> QED
    BY <2>3, <2>4, <2>5
<1> QED
  BY <1>8, <1>9, <1>10

---------------------------------------------------------------------------
(* The frames.                                                             *)

CallFrame ==
    [fn : DOMAIN Fn, argbeg : Nat \ {0}, stkoff : Nat, reenter : BOOLEAN,
     paused : BOOLEAN, aborted : BOOLEAN, wants : Wait, ends : BOOLEAN]

(* Where the variables of the frame at depth i start and end: o and h are  *)
(* those of the innermost.                                                 *)
Lo(frs, o, i) == IF i = Len(frs) THEN o ELSE frs[i + 1].stkoff
Hi(frs, h, i) == IF i = Len(frs) THEN h ELSE frs[i + 1].argbeg - 1

(* A frame's variables come after its arguments; a script that runs has    *)
(* its registers, and more only after a resume.                            *)
Fits(f, lo, hi, after) ==
    /\ f.argbeg <= lo /\ lo <= hi
    /\ IsScript(f.fn) => /\ hi - lo >= Size(f.fn)
                         /\ hi - lo > Size(f.fn) => f.paused \/ after

Layout(frs, o, h, after) ==
    \A i \in 1 .. Len(frs) : Fits(frs[i], Lo(frs, o, i), Hi(frs, h, i), after)

(* A frame waits in a call of its own kind; a frame that reenters was      *)
(* called by a CALL instruction.                                           *)
Waits(f) ==
    IF IsScript(f.fn) THEN f.wants.op \in {"call", "operator"}
    ELSE Kind(f.fn) = "native" /\ f.wants.op = "native"

Called(f, g) == Waits(f) /\ ~f.paused /\ (g.reenter => f.wants.op = "call")

Chained(frs) ==
    /\ frs # <<>> => ~frs[1].reenter
    /\ \A i \in 1 .. Len(frs) - 1 : Called(frs[i], frs[i + 1])

(* Only the innermost function runs, or all wait for a resume.             *)
Innermost(f) == IF f.paused THEN IsScript(f.fn) /\ Waits(f) ELSE f.wants = A!NoCall

CallTypes ==
    /\ stack \in Seq(Value) /\ off \in Nat /\ frames \in Seq(CallFrame)
    /\ lastabort \in BOOLEAN /\ resumed \in BOOLEAN /\ host \in Seq(Value)
    /\ ended \in {"done", "aborted"} /\ made \in Nat

Told == lastabort <=> ended = "aborted"

FramesFit ==
    /\ Layout(frames, off, Len(stack), resumed)
    /\ Chained(frames)
    /\ frames # <<>> => Innermost(Last(frames)) /\ Told

CallInv == CallTypes /\ FramesFit

(* Without metamethods that yield only calls wait when a context pauses.   *)
ByCallsOnly ==
    frames # <<>> =>
        /\ SF.paused => \A i \in DOMAIN frames : frames[i].wants.op = "call"
        /\ Kind(SF.fn) = "yield" => \A i \in DOMAIN frames : frames[i].wants.op # "operator"

LEMMA NoCallFacts == A!NoCall \in Wait /\ A!NoCall.op = "none"
BY DEF A!NoCall, Wait

LEMMA WaitFields ==
    ASSUME NEW f \in CallFrame
    PROVE  /\ f.fn \in DOMAIN Fn /\ f.argbeg \in Nat \ {0} /\ f.stkoff \in Nat
           /\ f.wants \in Wait /\ f.wants.from \in Nat /\ f.wants.expect \in Nat
           /\ Size(f.fn) \in Nat
<1>1. f.fn \in DOMAIN Fn /\ f.argbeg \in Nat \ {0} /\ f.stkoff \in Nat /\ f.wants \in Wait
  BY DEF CallFrame
<1>2. f.wants.from \in Nat /\ f.wants.expect \in Nat
  BY <1>1 DEF Wait
<1> QED
  BY <1>1, <1>2, FnFacts

(* A layout with one frame more.                                           *)
LEMMA LayoutTop ==
    ASSUME NEW fs \in Seq(CallFrame), NEW f \in CallFrame, NEW o \in Nat, NEW h \in Nat, NEW after
    PROVE  Layout(fs \o <<f>>, o, h, after) <=>
               Layout(fs, f.stkoff, f.argbeg - 1, after) /\ Fits(f, o, h, after)
<1> DEFINE t == fs \o <<f>>
           n == Len(fs)
<1>1. /\ Len(t) = n + 1 /\ n \in Nat /\ t[n + 1] = f
      /\ \A i \in 1 .. n : t[i] = fs[i]
  BY Extended
<1> HIDE DEF t, n
<1>2. Lo(t, o, n + 1) = o /\ Hi(t, h, n + 1) = h
  BY <1>1 DEF Lo, Hi
<1>3. \A i \in 1 .. n : /\ Lo(t, o, i) = Lo(fs, f.stkoff, i)
                        /\ Hi(t, h, i) = Hi(fs, f.argbeg - 1, i)
  <2> TAKE i \in 1 .. n
  <2>1. i # n + 1
    BY <1>1
  <2>2. CASE i = n
    BY <1>1, <2>1, <2>2 DEF Lo, Hi, n
  <2>3. CASE i # n
    <3>1. i + 1 \in 1 .. n
      BY <1>1, <2>3
    <3>2. t[i + 1] = fs[i + 1]
      BY <1>1, <3>1
    <3> QED
      BY <1>1, <2>1, <2>3, <3>2 DEF Lo, Hi, n
  <2> QED
    BY <2>2, <2>3
<1>4. Layout(t, o, h, after) <=>
        /\ \A i \in 1 .. n : Fits(t[i], Lo(t, o, i), Hi(t, h, i), after)
        /\ Fits(t[n + 1], Lo(t, o, n + 1), Hi(t, h, n + 1), after)
  BY <1>1 DEF Layout
<1>5. (\A i \in 1 .. n : Fits(t[i], Lo(t, o, i), Hi(t, h, i), after))
        <=> Layout(fs, f.stkoff, f.argbeg - 1, after)
  BY <1>1, <1>3 DEF Layout, n
<1> QED
  BY <1>1, <1>2, <1>4, <1>5 DEF t

(* A chain with one frame more.                                            *)
LEMMA ChainedTop ==
    ASSUME NEW fs \in Seq(CallFrame), NEW f \in CallFrame
    PROVE  Chained(fs \o <<f>>) <=>
               Chained(fs) /\ (IF fs = <<>> THEN ~f.reenter ELSE Called(Last(fs), f))
<1> DEFINE t == fs \o <<f>>
           n == Len(fs)
<1>1. /\ Len(t) = n + 1 /\ n \in Nat /\ t[n + 1] = f
      /\ \A i \in 1 .. n : t[i] = fs[i]
      /\ t # <<>>
  BY Extended
<1>2. /\ fs = <<>> <=> n = 0
      /\ fs # <<>> => n \in 1 .. n /\ Last(fs) = fs[n] /\ 1 \in 1 .. n
  BY DEF Last
<1>3. Chained(fs) <=> /\ fs # <<>> => ~fs[1].reenter
                      /\ \A i \in 1 .. n - 1 : Called(fs[i], fs[i + 1])
  BY DEF Chained
<1>4. Chained(t) <=> /\ ~t[1].reenter
                     /\ \A i \in 1 .. n : Called(t[i], t[i + 1])
  <2>1. 1 .. Len(t) - 1 = 1 .. n
    BY <1>1
  <2> QED
    BY <1>1, <2>1 DEF Chained
<1> HIDE DEF t, n
<1>5. CASE fs = <<>>
  BY <1>1, <1>2, <1>3, <1>4, <1>5 DEF t
<1>6. CASE fs # <<>>
  <2>1. t[1] = fs[1] /\ t[n] = Last(fs) /\ t[n + 1] = f /\ n \in Nat \ {0}
    BY <1>1, <1>2, <1>6
  <2>2. \A i \in 1 .. n - 1 : t[i] = fs[i] /\ t[i + 1] = fs[i + 1]
    BY <1>1
  <2>3. (\A i \in 1 .. n : Called(t[i], t[i + 1])) <=>
            (\A i \in 1 .. n - 1 : Called(t[i], t[i + 1])) /\ Called(t[n], t[n + 1])
    BY <2>1
  <2> QED
    BY <1>3, <1>4, <1>6, <2>1, <2>2, <2>3 DEF t
<1> QED
  BY <1>5, <1>6

LEMMA NothingLaidOut ==
    \A o, h, after : Layout(<<>>, o, h, after) /\ Chained(<<>>) /\ <<>> \in Seq(CallFrame)
BY DEF Layout, Chained

LEMMA AnsweredFacts ==
    ASSUME NEW frs \in Seq(CallFrame), frs # <<>>
    PROVE  LET f == [Last(frs) EXCEPT !.wants = A!NoCall]
           IN  /\ f \in CallFrame
               /\ Answered(frs) = Front(frs) \o <<f>>
               /\ f.wants = A!NoCall /\ f.fn = Last(frs).fn /\ f.argbeg = Last(frs).argbeg
               /\ f.stkoff = Last(frs).stkoff /\ f.reenter = Last(frs).reenter
               /\ f.paused = Last(frs).paused
               /\ f.aborted = Last(frs).aborted /\ f.ends = Last(frs).ends
<1>1. Last(frs) \in CallFrame
  BY FrontLast
<1>2. \A g \in CallFrame :
        LET f == [g EXCEPT !.wants = A!NoCall]
        IN  /\ f \in CallFrame
            /\ f.wants = A!NoCall /\ f.fn = g.fn /\ f.argbeg = g.argbeg
            /\ f.stkoff = g.stkoff /\ f.reenter = g.reenter /\ f.paused = g.paused
            /\ f.aborted = g.aborted /\ f.ends = g.ends
  BY NoCallFacts DEF CallFrame
<1> QED
  BY <1>1, <1>2 DEF Answered

---------------------------------------------------------------------------
(* The end of a call.                                                      *)

(* The frames fs wait, the innermost with the variables from o to h.       *)
Awaits(fs, o, h) ==
    /\ fs \in Seq(CallFrame) /\ Layout(fs, o, h, resumed) /\ Chained(fs)
    /\ fs # <<>> => Waits(Last(fs)) /\ (Last(fs).paused => IsScript(Last(fs).fn))

Settled ==
    /\ stack \in Seq(Value) /\ off \in Nat /\ frames \in Seq(CallFrame) /\ host \in Seq(Value)
    /\ Layout(frames, off, Len(stack), resumed) /\ Chained(frames)
    /\ frames # <<>> => Innermost(Last(frames))

(* The top of the frames takes an answer: its height stays, or grows if no *)
(* script is to mind.                                                      *)
LEMMA AnswerSettles ==
    ASSUME NEW fs, NEW o \in Nat, NEW h \in Nat, NEW s2, NEW a,
           Awaits(fs, o, h), fs # <<>>, s2 \in Seq(Value), Len(s2) >= h,
           ~Last(fs).paused, Last(fs).wants.op # "native" => Len(s2) = h,
           host' \in Seq(Value), resumed' = resumed,
           stack' = s2, off' = o, a = Answered(fs), frames' = a
    PROVE  Settled'
<1> DEFINE g == Last(fs)
           f == [g EXCEPT !.wants = A!NoCall]
           below == Front(fs)
<1>1. fs \in Seq(CallFrame) /\ Layout(fs, o, h, resumed) /\ Chained(fs) /\ Waits(g)
  BY DEF Awaits
<1>2. /\ below \in Seq(CallFrame) /\ g \in CallFrame /\ fs = below \o <<g>>
  BY <1>1, FrontLast
<1>3. /\ f \in CallFrame /\ a = below \o <<f>>
      /\ f.wants = A!NoCall /\ f.fn = g.fn /\ f.argbeg = g.argbeg
      /\ f.stkoff = g.stkoff /\ f.reenter = g.reenter /\ f.paused = g.paused
  BY <1>1, AnsweredFacts
<1>4. ~g.paused /\ (g.wants.op # "native" => Len(s2) = h)
  OBVIOUS
<1> HIDE DEF g, f, below
<1>5. Layout(below, g.stkoff, g.argbeg - 1, resumed) /\ Fits(g, o, h, resumed)
  BY <1>1, <1>2, LayoutTop
<1>6. Chained(below) /\ (IF below = <<>> THEN ~g.reenter ELSE Called(Last(below), g))
  BY <1>1, <1>2, ChainedTop
<1>7. Len(s2) \in Nat /\ Fits(f, o, Len(s2), resumed)
  <2>1. IsScript(g.fn) => g.wants.op # "native"
    BY <1>1 DEF Waits
  <2>2. CASE IsScript(g.fn)
    <3>1. Len(s2) = h
      BY <1>4, <2>1, <2>2
    <3> QED
      BY <1>3, <1>5, <3>1 DEF Fits
  <2>3. CASE ~IsScript(g.fn)
    BY <1>3, <1>5, <2>3 DEF Fits
  <2> QED
    BY <2>2, <2>3
<1>8. Layout(a, o, Len(s2), resumed)
  <2>1. Layout(below, f.stkoff, f.argbeg - 1, resumed)
    BY <1>3, <1>5
  <2>2. f \in CallFrame /\ below \in Seq(CallFrame) /\ a = below \o <<f>>
    BY <1>2, <1>3
  <2> QED
    BY <1>7, <2>1, <2>2, LayoutTop
<1>9. Chained(a)
  <2>1. f.reenter = g.reenter
    BY <1>3
  <2>2. IF below = <<>> THEN ~f.reenter ELSE Called(Last(below), f)
    BY <1>6, <2>1 DEF Called
  <2>3. f \in CallFrame /\ below \in Seq(CallFrame) /\ a = below \o <<f>>
    BY <1>2, <1>3
  <2> QED
    BY <1>6, <2>2, <2>3, ChainedTop
<1>10. a \in Seq(CallFrame) /\ Last(a) = f
  <2>1. f \in CallFrame /\ below \in Seq(CallFrame) /\ a = below \o <<f>>
    BY <1>2, <1>3
  <2> QED
    BY <2>1, Extended
<1>11. Innermost(f)
  BY <1>3, <1>4 DEF Innermost
<1> QED
  BY <1>8, <1>9, <1>10, <1>11 DEF Settled

(* What follows a vm_call.                                                 *)
LEMMA AfterCallSettles ==
    ASSUME NEW fs, NEW s \in Seq(Value), NEW o \in Nat, NEW rvc \in 0 .. Len(s),
           Awaits(fs, o, Len(s) - rvc), AfterCall(fs, s, o, rvc),
           host \in Seq(Value), resumed' = resumed
    PROVE  Settled'
<1> DEFINE h == Len(s) - rvc
           g == Last(fs)
           given == SubSeq(s, Len(s) - rvc + 1, Len(s))
<1>1. h \in Nat /\ fs \in Seq(CallFrame) /\ off' = o
  BY DEF Awaits, AfterCall
<1>2. given \in Seq(Value)
  <2> DEFINE m == Len(s) - rvc + 1
  <2>1. m \in Nat \ {0} /\ Len(s) \in Nat
    OBVIOUS
  <2> HIDE DEF m
  <2>2. SubSeq(s, m, Len(s)) \in Seq(Value)
    BY <2>1, Piece
  <2> QED
    BY <2>2 DEF m
<1>3. CASE fs = <<>>
  <2>1. stack' = <<>> /\ frames' = <<>> /\ host' = given
    BY <1>3 DEF AfterCall
  <2>2. stack' \in Seq(Value)
    BY <2>1
  <2> QED
    BY <1>1, <1>2, <2>1, <2>2, NothingLaidOut DEF Settled
<1>4. CASE fs # <<>> /\ g.paused
  <2>1. stack' = s /\ frames' = fs /\ host' = given
    BY <1>4 DEF AfterCall
  <2>2. Layout(fs, o, h, resumed) /\ Chained(fs) /\ Waits(g) /\ IsScript(g.fn)
    BY <1>4 DEF Awaits
  <2> DEFINE below == Front(fs)
  <2>3. /\ below \in Seq(CallFrame) /\ g \in CallFrame /\ fs = below \o <<g>>
    BY <1>1, <1>4, FrontLast
  <2> HIDE DEF g, below
  <2>4. Layout(below, g.stkoff, g.argbeg - 1, resumed) /\ Fits(g, o, h, resumed)
    BY <1>1, <2>2, <2>3, LayoutTop
  <2>5. Fits(g, o, Len(s), resumed)
    <3>1. Size(g.fn) \in Nat
      BY <2>3, WaitFields
    <3> QED
      BY <1>4, <2>4, <3>1 DEF Fits
  <2>6. Layout(fs, o, Len(s), resumed)
    <3>1. Len(s) \in Nat
      OBVIOUS
    <3> QED
      BY <2>3, <2>4, <2>5, <3>1, LayoutTop
  <2>7. Innermost(g)
    BY <1>4, <2>2 DEF Innermost
  <2> QED
    BY <1>1, <1>2, <2>1, <2>2, <2>6, <2>7 DEF Settled, g
<1>5. CASE fs # <<>> /\ ~g.paused
  <2> DEFINE w == g.wants
  <2>1. /\ stack' = CASE w.op = "call" -> Delivered(s, o, w, rvc)
                      [] w.op = "native" -> Resized(s, w.expect, rvc)
                      [] w.op = "operator" -> Outcome(s, o, w, rvc)
        /\ frames' = Answered(fs)
        /\ host' = host
    BY <1>5 DEF AfterCall
  <2>2. g \in CallFrame /\ w.op \in {"call", "native", "operator"}
    <3>1. g \in CallFrame /\ Waits(g)
      BY <1>1, <1>5, FrontLast DEF Awaits
    <3> QED
      BY <3>1 DEF Waits
  <2>3. w \in Wait /\ w.from \in Nat /\ w.expect \in Nat
    BY <2>2, WaitFields
  <2> HIDE DEF w, g, h
  <2>4. CASE w.op = "call"
    <3>1. stack' = Delivered(s, o, w, rvc)
      BY <2>1, <2>4
    <3>2. stack' \in Seq(Value) /\ Len(stack') = h
      BY <2>3, <3>1, DeliveredFacts DEF h
    <3>3. Len(stack') >= h /\ h \in Nat
      BY <1>1, <3>2
    <3>4. ~Last(fs).paused /\ Awaits(fs, o, h) /\ fs # <<>> /\ host' \in Seq(Value)
      BY <1>5, <2>1 DEF g, h
    <3> QED
      BY <1>1, <2>1, <3>2, <3>3, <3>4, AnswerSettles
  <2>5. CASE w.op = "native"
    <3>1. stack' = Resized(s, w.expect, rvc)
      BY <2>1, <2>5
    <3>2. stack' \in Seq(Value) /\ Len(stack') = h + w.expect
      BY <2>3, <3>1, ResizedFacts DEF h
    <3>3. Len(stack') >= h /\ g.wants.op = "native"
      BY <1>1, <2>3, <2>5, <3>2 DEF w
    <3> QED
      BY <1>1, <1>5, <2>1, <3>2, <3>3, AnswerSettles DEF g, h
  <2>6. CASE w.op = "operator"
    <3>1. stack' = Outcome(s, o, w, rvc)
      BY <2>1, <2>6
    <3>2. stack' \in Seq(Value) /\ Len(stack') = h
      BY <2>3, <3>1, OutcomeFacts DEF h
    <3>3. Len(stack') >= h /\ h \in Nat
      BY <1>1, <3>2
    <3>4. ~Last(fs).paused /\ Awaits(fs, o, h) /\ fs # <<>> /\ host' \in Seq(Value)
      BY <1>5, <2>1 DEF g, h
    <3> QED
      BY <1>1, <2>1, <3>2, <3>3, <3>4, AnswerSettles
  <2> QED
    BY <2>2, <2>4, <2>5, <2>6
<1> QED
  BY <1>3, <1>4, <1>5

(* What goes on after a call.                                              *)
LEMMA CallEnds ==
    ASSUME NEW frs \in Seq(CallFrame), frs # <<>>, NEW s \in Seq(Value), NEW rvc \in 0 .. Len(s),
           Last(frs).argbeg - 1 <= Len(s) - rvc,
           Awaits(Front(frs), Last(frs).stkoff, Last(frs).argbeg - 1)
    PROVE  LET t == Clean(s, Last(frs).argbeg - 1, Len(s) - rvc)
           IN  /\ t \in Seq(Value) /\ rvc \in 0 .. Len(t) /\ Last(frs).stkoff \in Nat
               /\ Len(t) - rvc = Last(frs).argbeg - 1
               /\ Awaits(Front(frs), Last(frs).stkoff, Len(t) - rvc)
<1> DEFINE f == Last(frs)
           from == f.argbeg - 1
           to == Len(s) - rvc
           t == Clean(s, from, to)
<1>1. f \in CallFrame
  BY FrontLast
<1>2. f.argbeg \in Nat \ {0} /\ f.stkoff \in Nat
  BY <1>1, WaitFields
<1> HIDE DEF f
<1>3. to \in 0 .. Len(s) /\ from \in 0 .. to
  BY <1>2 DEF f
<1>4. t \in Seq(Value) /\ Len(t) = from + Len(s) - to
  <2> HIDE DEF from, to
  <2> QED
    BY <1>3, CleanFacts
<1> HIDE DEF t
<1>5. Len(t) - rvc = from /\ rvc \in 0 .. Len(t)
  BY <1>2, <1>3, <1>4
<1> QED
  BY <1>2, <1>4, <1>5 DEF t, f

LEMMA SettledInv ==
    ASSUME Settled', lastabort' \in BOOLEAN, resumed' \in BOOLEAN,
           ended' \in {"done", "aborted"}, made' \in Nat, frames' # <<>> => Told'
    PROVE  CallInv'
BY DEF Settled, CallInv, CallTypes, FramesFit

(* The frames below the last of frs.                                       *)
LEMMA AnyBelow ==
    ASSUME NEW frs \in Seq(CallFrame), frs # <<>>, NEW o \in Nat, NEW h \in Nat,
           Layout(frs, o, h, resumed), Chained(frs)
    PROVE  /\ Awaits(Front(frs), Last(frs).stkoff, Last(frs).argbeg - 1)
           /\ Last(frs) \in CallFrame /\ frs = Front(frs) \o <<Last(frs)>>
           /\ Fits(Last(frs), o, h, resumed)
           /\ IF Front(frs) = <<>> THEN ~Last(frs).reenter
              ELSE Called(Last(Front(frs)), Last(frs))
<1> DEFINE b == Front(frs)
           f == Last(frs)
<1>1. frs = b \o <<f>> /\ f \in CallFrame /\ b \in Seq(CallFrame)
  BY FrontLast
<1> HIDE DEF b, f
<1>2. Layout(b, f.stkoff, f.argbeg - 1, resumed) /\ Fits(f, o, h, resumed)
  BY <1>1, LayoutTop
<1>3. Chained(b) /\ IF b = <<>> THEN ~f.reenter ELSE Called(Last(b), f)
  BY <1>1, ChainedTop
<1>4. Awaits(b, f.stkoff, f.argbeg - 1)
  BY <1>1, <1>2, <1>3 DEF Awaits, Called
<1> QED
  BY <1>1, <1>2, <1>3, <1>4 DEF b, f

(* The frames below the innermost one.                                     *)
LEMMA FramesBelow ==
    ASSUME CallInv, frames # <<>>
    PROVE  /\ Awaits(Front(frames), SF.stkoff, SF.argbeg - 1)
           /\ SF \in CallFrame /\ frames = Front(frames) \o <<SF>>
           /\ Fits(SF, off, Len(stack), resumed)
           /\ IF Front(frames) = <<>> THEN ~SF.reenter ELSE Called(Last(Front(frames)), SF)
           /\ Innermost(SF) /\ Told
<1>1. /\ frames \in Seq(CallFrame) /\ Layout(frames, off, Len(stack), resumed)
      /\ Chained(frames) /\ Innermost(SF) /\ off \in Nat /\ Len(stack) \in Nat /\ Told
  BY DEF CallInv, CallTypes, FramesFit, SF
<1> QED
  BY <1>1, AnyBelow DEF SF

LEMMA LeaveKeeps ==
    ASSUME CallTypes, NEW frs \in Seq(CallFrame), frs # <<>>, NEW s \in Seq(Value),
           NEW rvc \in 0 .. Len(s), Last(frs).argbeg - 1 <= Len(s) - rvc,
           Awaits(Front(frs), Last(frs).stkoff, Last(frs).argbeg - 1),
           Leave(s, frs, rvc)
    PROVE  CallInv'
<1> DEFINE f == Last(frs)
           t == Clean(s, f.argbeg - 1, Len(s) - rvc)
<1>1. /\ t \in Seq(Value) /\ rvc \in 0 .. Len(t) /\ f.stkoff \in Nat
      /\ Awaits(Front(frs), f.stkoff, Len(t) - rvc)
  BY CallEnds
<1>2. f.aborted \in BOOLEAN
  <2>1. f \in CallFrame
    BY FrontLast
  <2> HIDE DEF f
  <2> QED
    BY <2>1 DEF CallFrame
<1>3. /\ AfterCall(Front(frs), t, f.stkoff, rvc)
      /\ lastabort' = f.aborted
      /\ ended' = IF f.aborted THEN "aborted" ELSE "done"
      /\ resumed' = resumed /\ made' = made
  BY DEF Leave
<1>4. host \in Seq(Value) /\ resumed \in BOOLEAN /\ made \in Nat
  BY DEF CallTypes
<1> HIDE DEF f, t
<1>5. Settled'
  BY <1>1, <1>3, <1>4, AfterCallSettles
<1>6. Told'
  BY <1>2, <1>3 DEF Told
<1> QED
  BY <1>2, <1>3, <1>4, <1>5, <1>6, SettledInv

LEMMA PostCallKeeps ==
    ASSUME CallInv, frames # <<>>, NEW s \in Seq(Value), NEW rvc \in 0 .. Len(s),
           SF.argbeg - 1 <= Len(s) - rvc, ByPostCall, PostCall(s, rvc)
    PROVE  CallInv'
<1> DEFINE t == Clean(s, SF.argbeg - 1, Len(s) - rvc)
           below == Front(frames)
<1>1. /\ Awaits(below, SF.stkoff, SF.argbeg - 1) /\ SF \in CallFrame
      /\ IF below = <<>> THEN ~SF.reenter ELSE Called(Last(below), SF)
      /\ Told
  BY FramesBelow
<1>2. /\ frames \in Seq(CallFrame) /\ host \in Seq(Value) /\ resumed \in BOOLEAN /\ made \in Nat
      /\ lastabort \in BOOLEAN /\ ended \in {"done", "aborted"}
  BY DEF CallInv, CallTypes
<1>3. /\ t \in Seq(Value) /\ rvc \in 0 .. Len(t) /\ SF.stkoff \in Nat
      /\ Len(t) - rvc = SF.argbeg - 1
  BY <1>1, <1>2, CallEnds DEF SF
<1>4. below # <<>> => SF.reenter
  <2>1. ASSUME below # <<>> PROVE Len(frames) # 1
    <3>1. below \in Seq(CallFrame) /\ Len(below) = Len(frames) - 1 /\ Len(frames) \in Nat
      BY <1>2, FrontLast
    <3>2. Len(below) # 0
      BY <2>1, <3>1, EmptySeq
    <3> HIDE DEF below
    <3> QED
      BY <3>1, <3>2
  <2> QED
    BY <2>1 DEF ByPostCall
<1>5. /\ off' = SF.stkoff
      /\ IF below = <<>>
         THEN stack' = <<>> /\ frames' = <<>> /\ host' = SubSeq(t, Len(t) - rvc + 1, Len(t))
         ELSE /\ stack' = IF Last(below).ends THEN SubSeq(t, 1, Len(t) - rvc)
                          ELSE Delivered(t, SF.stkoff, Last(below).wants, rvc)
              /\ frames' = Answered(below)
              /\ UNCHANGED host
      /\ ended' = IF SF.reenter THEN ended ELSE IF SF.aborted THEN "aborted" ELSE "done"
      /\ lastabort' = lastabort /\ resumed' = resumed /\ made' = made
  BY DEF PostCall
<1> HIDE DEF t, below
<1>6. CASE below = <<>>
  <2>1. SubSeq(t, Len(t) - rvc + 1, Len(t)) \in Seq(Value)
    <3> DEFINE m == Len(t) - rvc + 1
    <3>1. m \in Nat \ {0} /\ Len(t) \in Nat
      BY <1>3
    <3> HIDE DEF m
    <3>2. SubSeq(t, m, Len(t)) \in Seq(Value)
      BY <1>3, <3>1, Piece
    <3> QED
      BY <3>2 DEF m
  <2>2. stack' = <<>> /\ frames' = <<>> /\ host' \in Seq(Value)
    BY <1>5, <1>6, <2>1
  <2>3. Settled'
    BY <1>3, <1>5, <2>2, NothingLaidOut DEF Settled
  <2> QED
    BY <1>2, <1>5, <2>2, <2>3, SettledInv
<1>7. CASE below # <<>>
  <2> DEFINE g == Last(below)
             w == g.wants
             h == SF.argbeg - 1
  <2>1. /\ stack' = IF g.ends THEN SubSeq(t, 1, Len(t) - rvc) ELSE Delivered(t, SF.stkoff, w, rvc)
        /\ frames' = Answered(below) /\ host' = host
    BY <1>5, <1>7
  <2>2. Called(g, SF) /\ SF.reenter
    BY <1>1, <1>4, <1>7
  <2>3. ~g.paused /\ w.op = "call"
    BY <2>2 DEF Called
  <2>4. w \in Wait /\ h \in Nat
    <3>1. g \in CallFrame
      BY <1>1, <1>7, FrontLast DEF Awaits
    <3> HIDE DEF g
    <3>2. w \in Wait
      BY <3>1, WaitFields
    <3>3. SF.argbeg \in Nat \ {0}
      BY <1>1, WaitFields
    <3> QED
      BY <3>2, <3>3
  <2> HIDE DEF w
  <2>5. stack' \in Seq(Value) /\ Len(stack') = h
    <3>1. Len(t) - rvc \in 0 .. Len(t) /\ Len(t) - rvc = h
      BY <1>3
    <3> DEFINE n == Len(t) - rvc
    <3>2. SubSeq(t, 1, n) \in Seq(Value) /\ Len(SubSeq(t, 1, n)) = n
      <4>1. n \in 0 .. Len(t)
        BY <3>1
      <4> HIDE DEF n
      <4> QED
        BY <1>3, <4>1, InitialPiece
    <3>3. Delivered(t, SF.stkoff, w, rvc) \in Seq(Value) /\ Len(Delivered(t, SF.stkoff, w, rvc)) = n
      <4> DEFINE o == SF.stkoff
      <4>1. t \in Seq(Value) /\ rvc \in 0 .. Len(t) /\ o \in Nat
            /\ w \in Wait
        BY <1>3, <2>4
      <4> HIDE DEF o, h, n, g
      <4>2. Delivered(t, o, w, rvc) \in Seq(Value) /\ Len(Delivered(t, o, w, rvc)) = Len(t) - rvc
        BY <4>1, DeliveredFacts
      <4> QED
        BY <4>2 DEF o, n
    <3> QED
      BY <2>1, <3>1, <3>2, <3>3
  <2>6. Awaits(below, SF.stkoff, h) /\ Len(stack') >= h /\ host' \in Seq(Value)
    BY <1>1, <1>2, <2>1, <2>4, <2>5
  <2>7. ~Last(below).paused
    BY <2>3
  <2> HIDE DEF g, h
  <2>8. Settled'
    BY <1>3, <1>5, <1>7, <2>1, <2>4, <2>5, <2>6, <2>7, AnswerSettles
  <2>9. Told' /\ ended' \in {"done", "aborted"}
    BY <1>1, <1>2, <1>5, <2>2 DEF Told
  <2> QED
    BY <1>2, <1>5, <2>8, <2>9, SettledInv
<1> QED
  BY <1>6, <1>7

(* A call that is made: the caller's frame is the last of frs.             *)
LEMMA VmCallKeeps ==
    ASSUME CallTypes, Told, NEW frs, NEW s \in Seq(Value), NEW args \in Nat, NEW gotthis \in BOOLEAN,
           NEW reenter \in BOOLEAN, NEW b \in Nat \ {0}, b = Len(s) - args - Count(gotthis),
           Awaits(frs, off, b - 1), frs # <<>>, ~Last(frs).paused,
           reenter => Last(frs).wants.op = "call",
           VmCall(s, frs, args, gotthis, reenter)
    PROVE  CallInv'
<1> DEFINE fn == s[b]
           f == Frame(fn, b, reenter)
           c == Append(frs, f)
<1>1. /\ off \in Nat /\ host \in Seq(Value) /\ made \in Nat /\ resumed \in BOOLEAN
      /\ lastabort \in BOOLEAN /\ ended \in {"done", "aborted"}
  BY DEF CallTypes
<1>2. /\ made' = made + 1
      /\ IF Len(frs) >= Limit \/ Kind(fn) = "none"
         THEN /\ AfterCall(frs, SubSeq(s, 1, b - 1), off, 0)
              /\ lastabort' = FALSE /\ ended' = "done" /\ resumed' = resumed
         ELSE LET ready == IF IsScript(fn) THEN Prepared(s, fn, args, gotthis)
                           ELSE [stack |-> s, off |-> Len(s) - args]
              IN  /\ stack' = ready.stack /\ off' = ready.off
                  /\ frames' = c
                  /\ UNCHANGED <<lastabort, resumed, host, ended>>
  BY DEF VmCall
<1>3. Count(gotthis) \in Nat /\ b - 1 \in 0 .. Len(s) /\ Len(s) \in Nat /\ b <= Len(s) - args
  <2>1. Count(gotthis) \in Nat
    BY CountFacts
  <2> QED
    BY <2>1
<1> HIDE DEF fn
<1>4. CASE Len(frs) >= Limit \/ Kind(fn) = "none"
  <2> DEFINE s1 == SubSeq(s, 1, b - 1)
  <2>1. s1 \in Seq(Value) /\ Len(s1) = b - 1
    BY <1>3, InitialPiece
  <2>2. AfterCall(frs, s1, off, 0) /\ resumed' = resumed
    BY <1>2, <1>4
  <2> HIDE DEF s1
  <2>3. Awaits(frs, off, Len(s1) - 0) /\ 0 \in 0 .. Len(s1)
    BY <2>1
  <2>4. Settled'
    BY <1>1, <2>1, <2>2, <2>3, AfterCallSettles
  <2>5. lastabort' = FALSE /\ ended' = "done" /\ made' \in Nat
    BY <1>1, <1>2, <1>4
  <2> QED
    BY <1>1, <2>2, <2>4, <2>5, SettledInv DEF Told
<1>5. CASE ~(Len(frs) >= Limit \/ Kind(fn) = "none")
  <2>1. fn \in DOMAIN Fn
    BY <1>5 DEF Kind, A!Kind
  <2>2. /\ f \in CallFrame /\ f.fn = fn /\ f.argbeg = b /\ f.stkoff = off /\ f.reenter = reenter
        /\ f.paused = FALSE /\ f.wants = A!NoCall
    BY <1>1, <2>1, NoCallFacts DEF Frame, CallFrame
  <2> HIDE DEF f
  <2>3. frs \in Seq(CallFrame) /\ c = frs \o <<f>>
    <3>1. frs \in Seq(CallFrame)
      BY DEF Awaits
    <3> QED
      BY <2>2, <3>1, AppendIsConcat
  <2> HIDE DEF c
  <2>4. /\ stack' \in Seq(Value) /\ off' \in Nat /\ Fits(f, off', Len(stack'), resumed)
    <3>1. CASE IsScript(fn)
      <4> DEFINE p == Prepared(s, fn, args, gotthis)
      <4>1. stack' = p.stack /\ off' = p.off
        BY <1>2, <1>5, <3>1
      <4>2. /\ p.stack \in Seq(Value) /\ p.off \in Nat /\ b <= p.off
            /\ Len(p.stack) = p.off + Size(fn)
        BY <2>1, PreparedFacts
      <4>3. Size(fn) \in Nat
        BY <2>1, FnFacts
      <4> HIDE DEF p
      <4> QED
        BY <2>2, <4>1, <4>2, <4>3 DEF Fits
    <3>2. CASE ~IsScript(fn)
      <4>1. stack' = s /\ off' = Len(s) - args
        BY <1>2, <1>5, <3>2
      <4> QED
        BY <1>3, <2>2, <3>2, <4>1 DEF Fits
    <3> QED
      BY <3>1, <3>2
  <2>5. /\ frames' = c /\ resumed' = resumed /\ host' = host /\ lastabort' = lastabort
        /\ ended' = ended /\ made' = made + 1
    BY <1>2, <1>5
  <2>6. Layout(c, off', Len(stack'), resumed)
    <3>1. Layout(frs, f.stkoff, f.argbeg - 1, resumed)
      BY <2>2 DEF Awaits
    <3>2. off' \in Nat /\ Len(stack') \in Nat
      BY <2>4
    <3> QED
      BY <2>2, <2>3, <2>4, <3>1, <3>2, LayoutTop
  <2>7. Chained(c)
    <3>1. Chained(frs) /\ Called(Last(frs), f)
      BY <2>2 DEF Awaits, Called
    <3> QED
      BY <2>2, <2>3, <3>1, ChainedTop
  <2>8. c \in Seq(CallFrame) /\ Last(c) = f
    BY <2>2, <2>3, Extended
  <2>9. Innermost(f)
    BY <2>2 DEF Innermost
  <2>10. Settled'
    BY <1>1, <2>4, <2>5, <2>6, <2>7, <2>8, <2>9 DEF Settled
  <2>11. Told'
    BY <2>5 DEF Told
  <2> QED
    BY <1>1, <2>5, <2>10, <2>11, SettledInv
<1> QED
  BY <1>4, <1>5

---------------------------------------------------------------------------
(* The actions.                                                            *)

LEMMA OperandFacts ==
    ASSUME NEW site \in Sites
    PROVE  /\ site.this \in BOOLEAN /\ site.from \in Nat /\ site.args \in Nat /\ site.expect \in Nat
           /\ site.fn \in Value
           /\ A!Width(site) = site.args + Count(site.this) /\ A!Width(site) \in Nat
           /\ site.from + A!Width(site) <= Len(Arg)
           /\ A!Operands(site) \in Seq(Value) /\ Len(A!Operands(site)) = 1 + A!Width(site)
           /\ A!Operands(site)[1] = site.fn
           /\ \A i \in 1 .. A!Width(site) : A!Operands(site)[1 + i] = Arg[site.from + i]
<1>1. /\ site.this \in BOOLEAN /\ site.from \in Nat /\ site.args \in Nat /\ site.expect \in Nat
      /\ site.from + A!Width(site) <= Len(Arg)
  BY SiteAssumption
<1>2. A!Width(site) = site.args + Count(site.this) /\ A!Width(site) \in Nat
  BY <1>1 DEF A!Width, Count
<1> DEFINE m == site.from + 1
           n == site.from + A!Width(site)
           x == SubSeq(Arg, m, n)
<1>3. Arg \in Seq(Value) /\ site.fn \in Value
  BY ValueAssumption DEF Value
<1>4. m \in Nat \ {0} /\ n \in Nat /\ n <= Len(Arg) /\ n - m + 1 = A!Width(site)
  BY <1>1, <1>2
<1>5. A!Operands(site) = <<site.fn>> \o x
  BY DEF A!Operands
<1> HIDE DEF m, n
<1>6. /\ x \in Seq(Value) /\ Len(x) = IF m <= n THEN n - m + 1 ELSE 0
      /\ \A i \in 1 .. n - m + 1 : x[i] = Arg[m + i - 1]
  BY <1>3, <1>4, Piece
<1> HIDE DEF x
<1>7. Len(x) = A!Width(site) /\ \A i \in 1 .. A!Width(site) : x[i] = Arg[site.from + i]
  <2>1. Len(x) = A!Width(site)
    BY <1>2, <1>4, <1>6
  <2>2. ASSUME NEW i \in 1 .. A!Width(site) PROVE x[i] = Arg[site.from + i]
    <3>1. m + i - 1 = site.from + i
      BY <1>1, <1>2 DEF m
    <3> QED
      BY <1>4, <1>6, <3>1
  <2> QED
    BY <2>1, <2>2
<1> DEFINE y == <<site.fn>>
<1>8. y \in Seq(Value) /\ Len(y) = 1 /\ y[1] = site.fn
  BY <1>3
<1> HIDE DEF y
<1>9. /\ y \o x \in Seq(Value) /\ Len(y \o x) = Len(y) + Len(x)
      /\ \A i \in 1 .. Len(y) : (y \o x)[i] = y[i]
      /\ \A i \in 1 .. Len(x) : (y \o x)[Len(y) + i] = x[i]
  BY <1>6, <1>8, Joined
<1>10. /\ A!Operands(site) = y \o x
       /\ Len(y \o x) = 1 + A!Width(site) /\ (y \o x)[1] = site.fn
       /\ \A i \in 1 .. A!Width(site) : (y \o x)[1 + i] = Arg[site.from + i]
  BY <1>5, <1>7, <1>8, <1>9 DEF y
<1> QED
  BY <1>1, <1>2, <1>3, <1>9, <1>10

LEMMA PrefixFacts ==
    ASSUME NEW v \in Seq(Value), NEW n \in 0 .. Len(v)
    PROVE  /\ A!Prefix(n, v) \in Seq(Value) /\ Len(A!Prefix(n, v)) = n
           /\ \A i \in 1 .. n : A!Prefix(n, v)[i] = v[i]
BY InitialPiece DEF A!Prefix

(* The values of the call at site, above a stack.                          *)
LEMMA SiteOnTop ==
    ASSUME NEW t \in Seq(Value), NEW site \in Sites
    PROVE  LET s == t \o A!Operands(site)
           IN  /\ s \in Seq(Value) /\ Len(s) - site.args - Count(site.this) = Len(t) + 1
               /\ s[Len(t) + 1] = site.fn
               /\ \A i \in 1 .. Len(t) : s[i] = t[i]
               /\ \A i \in 1 .. A!Width(site) : s[Len(t) + 1 + i] = Arg[site.from + i]
<1> DEFINE x == A!Operands(site)
           s == t \o x
<1>1. /\ site.args \in Nat /\ A!Width(site) = site.args + Count(site.this) /\ A!Width(site) \in Nat
      /\ x \in Seq(Value) /\ Len(x) = 1 + A!Width(site)
      /\ x[1] = site.fn
      /\ \A i \in 1 .. A!Width(site) : x[1 + i] = Arg[site.from + i]
      /\ Count(site.this) \in Nat
  BY OperandFacts, CountFacts
<1> HIDE DEF x
<1>2. /\ s \in Seq(Value) /\ Len(s) = Len(t) + Len(x)
      /\ \A i \in 1 .. Len(t) : s[i] = t[i]
      /\ \A i \in 1 .. Len(x) : s[Len(t) + i] = x[i]
  BY <1>1, Joined
<1> HIDE DEF s
<1>3. Len(s) - site.args - Count(site.this) = Len(t) + 1
  <2> DEFINE p == site.args
             q == Count(site.this)
             n == Len(s)
             m == Len(t)
  <2>1. p \in Nat /\ q \in Nat /\ m \in Nat /\ n = m + (1 + (p + q))
    BY <1>1, <1>2
  <2> HIDE DEF p, q, n, m
  <2>2. n - p - q = m + 1
    BY <2>1
  <2> QED
    BY <2>2 DEF p, q, n, m
<1>4. s[Len(t) + 1] = site.fn
  BY <1>1, <1>2
<1>5. ASSUME NEW i \in 1 .. A!Width(site) PROVE s[Len(t) + 1 + i] = Arg[site.from + i]
  <2>1. 1 + i \in 1 .. Len(x) /\ Len(t) + (1 + i) = Len(t) + 1 + i
    BY <1>1
  <2> QED
    BY <1>1, <1>2, <2>1
<1> QED
  BY <1>2, <1>3, <1>4, <1>5 DEF s, x

(* The innermost frame, changed: x is it after the change.                 *)
Alike(x, f) ==
    /\ x.fn = f.fn /\ x.argbeg = f.argbeg /\ x.stkoff = f.stkoff
    /\ x.reenter = f.reenter /\ x.paused = f.paused

LEMMA CallerAwaits ==
    ASSUME CallInv, Running, NEW x \in CallFrame, Alike(x, SF), Waits(x)
    PROVE  LET frs == Front(frames) \o <<x>>
           IN  Awaits(frs, off, Len(stack)) /\ frs # <<>> /\ Last(frs) = x /\ ~x.paused
<1> DEFINE b == Front(frames)
           frs == b \o <<x>>
<1>1. /\ Awaits(b, SF.stkoff, SF.argbeg - 1)
      /\ Fits(SF, off, Len(stack), resumed)
      /\ IF b = <<>> THEN ~SF.reenter ELSE Called(Last(b), SF)
  BY FramesBelow DEF Running
<1>2. b \in Seq(CallFrame) /\ Layout(b, SF.stkoff, SF.argbeg - 1, resumed) /\ Chained(b)
  BY <1>1 DEF Awaits
<1>3. off \in Nat /\ Len(stack) \in Nat /\ ~SF.paused
  BY DEF CallInv, CallTypes, Running
<1> HIDE DEF b
<1>4. Layout(frs, off, Len(stack), resumed)
  <2>1. Layout(b, x.stkoff, x.argbeg - 1, resumed) /\ Fits(x, off, Len(stack), resumed)
    BY <1>1, <1>2 DEF Alike, Fits
  <2> QED
    BY <1>2, <1>3, <2>1, LayoutTop
<1>5. Chained(frs)
  <2>1. IF b = <<>> THEN ~x.reenter ELSE Called(Last(b), x)
    BY <1>1 DEF Alike, Called
  <2> QED
    BY <1>2, <2>1, ChainedTop
<1>6. frs \in Seq(CallFrame) /\ frs # <<>> /\ Last(frs) = x
  BY <1>2, Extended
<1> QED
  BY <1>3, <1>4, <1>5, <1>6 DEF Awaits, Alike, b

LEMMA BeginKeeps ==
    ASSUME CallInv, Begin PROVE CallInv'
<1> PICK site \in Sites :
        LET s == A!Operands(site)
            f == Frame(site.fn, 1, FALSE)
            ready == Prepared(s, site.fn, site.args, site.this)
        IN  /\ IsScript(site.fn)
            /\ stack' = ready.stack /\ off' = ready.off
            /\ frames' = <<[f EXCEPT !.stkoff = 0]>>
  BY DEF Begin
<1> DEFINE s == A!Operands(site)
           p == Prepared(s, site.fn, site.args, site.this)
           f == [Frame(site.fn, 1, FALSE) EXCEPT !.stkoff = 0]
<1>1. site.fn \in DOMAIN Fn
  BY DEF IsScript, Kind, A!Kind
<1>2. /\ s \in Seq(Value) /\ site.args \in Nat /\ site.this \in BOOLEAN
      /\ Len(s) - site.args - Count(site.this) = 1
  <2>1. /\ s \in Seq(Value) /\ site.args \in Nat /\ site.this \in BOOLEAN
        /\ Len(s) = 1 + A!Width(site) /\ A!Width(site) = site.args + Count(site.this)
        /\ Count(site.this) \in Nat
    BY OperandFacts, CountFacts
  <2> HIDE DEF s
  <2> QED
    BY <2>1
<1>3. /\ f \in CallFrame /\ f.fn = site.fn /\ f.argbeg = 1 /\ f.stkoff = 0 /\ ~f.reenter /\ ~f.paused
      /\ f.wants = A!NoCall
  <2>1. off \in Nat
    BY DEF CallInv, CallTypes
  <2>2. \A fn \in DOMAIN Fn :
          LET g == Frame(fn, 1, FALSE)
          IN  g \in CallFrame /\ g.fn = fn /\ g.argbeg = 1 /\ ~g.reenter /\ ~g.paused
              /\ g.wants = A!NoCall
    BY <2>1, NoCallFacts DEF Frame, CallFrame
  <2>3. \A g \in CallFrame :
          LET y == [g EXCEPT !.stkoff = 0]
          IN  y \in CallFrame /\ y.fn = g.fn /\ y.argbeg = g.argbeg /\ y.stkoff = 0
              /\ y.reenter = g.reenter /\ y.paused = g.paused /\ y.wants = g.wants
    BY DEF CallFrame
  <2> QED
    BY <1>1, <2>2, <2>3
<1>4. stack' = p.stack /\ off' = p.off /\ frames' = <<f>>
  OBVIOUS
<1> HIDE DEF f, s
<1>5. /\ p.stack \in Seq(Value) /\ p.off \in Nat /\ 1 <= p.off
      /\ Len(p.stack) = p.off + Size(site.fn)
  <2>1. 1 \in Nat \ {0}
    OBVIOUS
  <2> QED
    BY <1>1, <1>2, <2>1, PreparedFacts
<1> HIDE DEF p
<1>6. Size(site.fn) \in Nat
  BY <1>1, FnFacts
<1>7. Fits(f, off', Len(stack'), FALSE)
  BY <1>3, <1>4, <1>5, <1>6 DEF Fits
<1> DEFINE e == <<>>
<1>8. e \in Seq(CallFrame) /\ frames' = e \o <<f>> /\ e = <<>>
  <2>1. <<f>> \in Seq(CallFrame)
    BY <1>3
  <2>2. <<>> \o <<f>> = <<f>>
    BY <2>1, ConcatEmptySeq
  <2>3. <<>> \in Seq(CallFrame)
    OBVIOUS
  <2> QED
    BY <1>4, <2>2, <2>3
<1>9. Layout(e, f.stkoff, f.argbeg - 1, FALSE) /\ Chained(e)
  BY NothingLaidOut
<1> HIDE DEF e
<1>10. Layout(frames', off', Len(stack'), FALSE)
  <2>1. off' \in Nat /\ Len(stack') \in Nat
    BY <1>4, <1>5
  <2> QED
    BY <1>3, <1>7, <1>8, <1>9, <2>1, LayoutTop
<1>11. Chained(frames')
  BY <1>3, <1>8, <1>9, ChainedTop
<1>12. frames' \in Seq(CallFrame) /\ Last(frames') = f
  <2>1. e \o <<f>> \in Seq(CallFrame) /\ Last(e \o <<f>>) = f
    <3>1. e \in Seq(CallFrame) /\ f \in CallFrame
      BY <1>3, <1>8
    <3>2. e \o <<f>> \in Seq(CallFrame) \ {<<>>}
      BY <3>1, Extended
    <3>3. Last(e \o <<f>>) = f
      BY <3>1, Extended
    <3> QED
      BY <3>2, <3>3
  <2> QED
    BY <1>8, <2>1
<1>13. /\ host' = <<>> /\ lastabort' = FALSE /\ resumed' = FALSE /\ ended' = "done" /\ made' = 0
  BY DEF Begin
<1>14. Innermost(f)
  BY <1>3 DEF Innermost
<1>15. Told'
  BY <1>13 DEF Told
<1>16. Settled'
  <2>1. host' \in Seq(Value)
    BY <1>13
  <2> QED
    BY <1>4, <1>5, <1>10, <1>11, <1>12, <1>13, <1>14, <2>1 DEF Settled
<1> QED
  BY <1>13, <1>15, <1>16, SettledInv

(* A call at a site from the innermost frame, which becomes x.             *)
LEMMA SiteCallKeeps ==
    ASSUME CallInv, Running, NEW x \in CallFrame, Alike(x, SF), Waits(x),
           NEW site \in Sites, NEW t \in Seq(Value), Len(t) = Len(stack),
           NEW got \in BOOLEAN, got = site.this,
           NEW reenter \in BOOLEAN, reenter => x.wants.op = "call",
           VmCall(t \o A!Operands(site), Front(frames) \o <<x>>, site.args, got, reenter)
    PROVE  CallInv'
<1> DEFINE s == t \o A!Operands(site)
           frs == Front(frames) \o <<x>>
           b == Len(t) + 1
<1>1. s \in Seq(Value) /\ Len(s) - site.args - Count(got) = b
  BY SiteOnTop
<1>2. site.args \in Nat
  BY OperandFacts
<1>3. Awaits(frs, off, Len(stack)) /\ frs # <<>> /\ Last(frs) = x /\ ~x.paused
  BY CallerAwaits
<1>4. b \in Nat \ {0} /\ b - 1 = Len(stack)
  OBVIOUS
<1>5. CallTypes /\ Told
  BY FramesBelow DEF CallInv, Running
<1>6. VmCall(s, frs, site.args, got, reenter)
  OBVIOUS
<1> HIDE DEF s, frs, b
<1> QED
  BY <1>1, <1>2, <1>3, <1>4, <1>5, <1>6, VmCallKeeps

LEMMA WantsFacts ==
    ASSUME NEW site \in Sites, NEW op \in {"call", "native", "operator"}
    PROVE  A!Wants(op, site) \in Wait /\ A!Wants(op, site).op = op
BY OperandFacts DEF A!Wants, Wait

(* The stack with the registers of a call at site loaded.                  *)
LoadedStack(site) ==
    [i \in DOMAIN stack |-> IF i \in off + site.from + 1 .. off + site.from + 1 + A!Width(site)
                            THEN A!Operands(site)[i - (off + site.from)] ELSE stack[i]]

(* The caller's frame in a CALL.                                           *)
Caller(site, ends) == [SF EXCEPT !.wants = A!Wants("call", site), !.ends = ends]

ScriptCallAt(site, ends) ==
    /\ Caller(site, ends) \in CallFrame /\ Alike(Caller(site, ends), SF)
    /\ Caller(site, ends).wants = A!Wants("call", site) /\ Caller(site, ends).ends = ends
    /\ Caller(site, ends).aborted = SF.aborted
    /\ Caller(site, ends).wants.op = "call" /\ Waits(Caller(site, ends))
    /\ LoadedStack(site) \in Seq(Value) /\ Len(LoadedStack(site)) = Len(stack)
    /\ site.this \in BOOLEAN /\ (ends => site.expect = 0) /\ Makes(site.fn, "call")
    /\ VmCall(LoadedStack(site) \o A!Operands(site), Front(frames) \o <<Caller(site, ends)>>,
              site.args, site.this, TRUE)

LEMMA ScriptCallSite ==
    ASSUME CallInv, ScriptCall
    PROVE  \E site \in Sites, ends \in BOOLEAN : ScriptCallAt(site, ends)
<1> PICK site \in Sites, ends \in BOOLEAN :
         LET beg == off + site.from
             s == [i \in DOMAIN stack |-> IF i \in beg + 1 .. beg + 1 + A!Width(site)
                                          THEN A!Operands(site)[i - beg] ELSE stack[i]]
             caller == [SF EXCEPT !.wants = A!Wants("call", site), !.ends = ends]
         IN  /\ ends => site.expect = 0
             /\ Makes(site.fn, "call")
             /\ VmCall(s \o A!Operands(site), Front(frames) \o <<caller>>,
                       site.args, site.this, TRUE)
  BY DEF ScriptCall
<1> DEFINE beg == off + site.from
           t == LoadedStack(site)
           x == Caller(site, ends)
<1>1. Running /\ IsScript(SF.fn) /\ SF \in CallFrame
  BY FramesBelow DEF ScriptCall, Running
<1>2. A!Wants("call", site) \in Wait /\ A!Wants("call", site).op = "call"
  BY WantsFacts
<1>3. x \in CallFrame /\ Alike(x, SF) /\ x.wants.op = "call" /\ x.ends = ends
      /\ x.wants = A!Wants("call", site) /\ x.aborted = SF.aborted
  <2>1. \A f \in CallFrame, w \in Wait :
          LET y == [f EXCEPT !.wants = w]
          IN  y \in CallFrame /\ Alike(y, f) /\ y.wants = w /\ y.aborted = f.aborted
    BY DEF CallFrame, Alike
  <2>2. \A f \in CallFrame, e \in BOOLEAN :
          LET y == [f EXCEPT !.ends = e]
          IN  y \in CallFrame /\ Alike(y, f) /\ y.wants = f.wants /\ y.ends = e
              /\ y.aborted = f.aborted
    BY DEF CallFrame, Alike
  <2> DEFINE y == [SF EXCEPT !.wants = A!Wants("call", site)]
  <2>3. y \in CallFrame /\ Alike(y, SF) /\ y.wants = A!Wants("call", site)
        /\ y.aborted = SF.aborted
    BY <1>1, <1>2, <2>1
  <2>4. x = [y EXCEPT !.ends = ends]
    BY DEF Caller
  <2> HIDE DEF x, y
  <2>5. /\ x \in CallFrame /\ Alike(x, y) /\ x.wants = y.wants /\ x.ends = ends
        /\ x.aborted = y.aborted
    BY <2>2, <2>3, <2>4
  <2>6. Alike(x, SF)
    BY <2>3, <2>5 DEF Alike
  <2> QED
    BY <1>2, <2>3, <2>5, <2>6
<1>4. Waits(x)
  BY <1>1, <1>3 DEF Waits, Alike
<1>5. t \in Seq(Value) /\ Len(t) = Len(stack)
  <2>1. /\ A!Operands(site) \in Seq(Value) /\ Len(A!Operands(site)) = 1 + A!Width(site)
        /\ A!Width(site) \in Nat /\ site.from \in Nat
    BY OperandFacts
  <2>2. stack \in Seq(Value) /\ off \in Nat /\ DOMAIN stack = 1 .. Len(stack)
    BY DEF CallInv, CallTypes
  <2>3. beg \in Nat
    BY <2>1, <2>2
  <2>31. t = [i \in DOMAIN stack |-> IF i \in beg + 1 .. beg + 1 + A!Width(site)
                                     THEN A!Operands(site)[i - beg] ELSE stack[i]]
    BY DEF LoadedStack
  <2> HIDE DEF beg, t
  <2>4. ASSUME NEW i \in 1 .. Len(stack) PROVE t[i] \in Value
    <3>1. CASE i \in beg + 1 .. beg + 1 + A!Width(site)
      <4>1. i - beg \in 1 .. Len(A!Operands(site))
        BY <2>1, <2>3, <3>1
      <4>2. A!Operands(site)[i - beg] \in Value
        BY <2>1, <4>1, ElementOfSeq
      <4> QED
        BY <2>2, <2>31, <3>1, <4>2
    <3>2. CASE ~(i \in beg + 1 .. beg + 1 + A!Width(site))
      BY <2>2, <2>31, <3>2
    <3> QED
      BY <3>1, <3>2
  <2>5. t \in [1 .. Len(stack) -> Value]
    BY <2>2, <2>31, <2>4
  <2>6. Len(stack) \in Nat
    BY <2>2
  <2> QED
    BY <2>5, <2>6
<1>6. site.this \in BOOLEAN
  BY OperandFacts
<1>7. (ends => site.expect = 0) /\ Makes(site.fn, "call")
  OBVIOUS
<1>8. VmCall(t \o A!Operands(site), Front(frames) \o <<x>>, site.args, site.this, TRUE)
  BY DEF LoadedStack, Caller
<1>9. ScriptCallAt(site, ends)
  BY <1>3, <1>4, <1>5, <1>6, <1>7, <1>8 DEF ScriptCallAt
<1> QED
  BY <1>9

LEMMA ScriptCallKeeps ==
    ASSUME CallInv, ScriptCall PROVE CallInv'
<1> PICK site \in Sites, ends \in BOOLEAN : ScriptCallAt(site, ends)
  BY ScriptCallSite
<1>1. Running /\ TRUE \in BOOLEAN
  BY DEF ScriptCall
<1> DEFINE t == LoadedStack(site)
           x == Caller(site, ends)
<1>2. /\ x \in CallFrame /\ Alike(x, SF) /\ x.wants.op = "call" /\ Waits(x)
      /\ t \in Seq(Value) /\ Len(t) = Len(stack) /\ site.this \in BOOLEAN
      /\ VmCall(t \o A!Operands(site), Front(frames) \o <<x>>, site.args, site.this, TRUE)
  BY DEF ScriptCallAt
<1> HIDE DEF t, x
<1> QED
  BY <1>1, <1>2, SiteCallKeeps

(* The innermost frame, waiting in a call of native code or an operator.   *)
LEMMA WaitingFrame ==
    ASSUME NEW f \in CallFrame, NEW w \in Wait
    PROVE  LET x == [f EXCEPT !.wants = w]
           IN  x \in CallFrame /\ Alike(x, f) /\ x.wants = w /\ x.ends = f.ends
                 /\ x.aborted = f.aborted
BY DEF CallFrame, Alike

LEMMA OperatorCallKeeps ==
    ASSUME CallInv, OperatorCall PROVE CallInv'
<1> PICK site \in Sites :
         /\ site.this
         /\ VmCall(stack \o A!Operands(site),
                   Front(frames) \o <<[SF EXCEPT !.wants = A!Wants("operator", site)]>>,
                   site.args, TRUE, FALSE)
  BY DEF OperatorCall
<1> DEFINE x == [SF EXCEPT !.wants = A!Wants("operator", site)]
<1>1. Running /\ IsScript(SF.fn) /\ SF \in CallFrame /\ stack \in Seq(Value)
  BY FramesBelow DEF OperatorCall, Running, CallInv, CallTypes
<1>2. A!Wants("operator", site) \in Wait /\ A!Wants("operator", site).op = "operator"
  BY WantsFacts
<1>3. x \in CallFrame /\ Alike(x, SF) /\ x.wants.op = "operator"
  BY <1>1, <1>2, WaitingFrame
<1>4. Waits(x)
  BY <1>1, <1>3 DEF Waits, Alike
<1>5. VmCall(stack \o A!Operands(site), Front(frames) \o <<x>>, site.args, TRUE, FALSE)
  OBVIOUS
<1>6. TRUE = site.this
  BY OperandFacts
<1> HIDE DEF x
<1> QED
  BY <1>1, <1>3, <1>4, <1>5, <1>6, SiteCallKeeps

LEMMA NativeCallKeeps ==
    ASSUME CallInv, NativeCall PROVE CallInv'
<1> PICK site \in Sites :
         VmCall(stack \o A!Operands(site),
                   Front(frames) \o <<[SF EXCEPT !.wants = A!Wants("native", site)]>>,
                   site.args, site.this, FALSE)
  BY DEF NativeCall
<1> DEFINE x == [SF EXCEPT !.wants = A!Wants("native", site)]
<1>1. Running /\ Kind(SF.fn) = "native" /\ SF \in CallFrame /\ stack \in Seq(Value)
  BY FramesBelow DEF NativeCall, Running, CallInv, CallTypes
<1>2. A!Wants("native", site) \in Wait /\ A!Wants("native", site).op = "native"
  BY WantsFacts
<1>3. x \in CallFrame /\ Alike(x, SF) /\ x.wants.op = "native"
  BY <1>1, <1>2, WaitingFrame
<1>4. Waits(x)
  BY <1>1, <1>3 DEF Waits, Alike, IsScript
<1>5. VmCall(stack \o A!Operands(site), Front(frames) \o <<x>>, site.args, site.this, FALSE)
  OBVIOUS
<1>6. site.this \in BOOLEAN
  BY OperandFacts
<1> HIDE DEF x
<1> QED
  BY <1>1, <1>3, <1>4, <1>5, <1>6, SiteCallKeeps

LEMMA NativeReturnKeeps ==
    ASSUME CallInv, NativeReturn PROVE CallInv'
<1> PICK n \in 0 .. Len(Res) : Leave(stack \o A!Prefix(n, Res), frames, n)
  BY DEF NativeReturn
<1> DEFINE s == stack \o A!Prefix(n, Res)
<1>1. frames # <<>> /\ CallTypes /\ frames \in Seq(CallFrame) /\ stack \in Seq(Value) /\ off \in Nat
  BY DEF NativeReturn, Running, CallInv, CallTypes
<1>2. Awaits(Front(frames), SF.stkoff, SF.argbeg - 1) /\ Fits(SF, off, Len(stack), resumed) /\ SF \in CallFrame
  BY <1>1, FramesBelow
<1>3. A!Prefix(n, Res) \in Seq(Value) /\ Len(A!Prefix(n, Res)) = n
  BY ValueAssumption, PrefixFacts
<1>4. s \in Seq(Value) /\ Len(s) = Len(stack) + n
  BY <1>1, <1>3, Joined
<1>5. Leave(s, frames, n)
  OBVIOUS
<1> HIDE DEF s
<1>6. n \in 0 .. Len(s) /\ SF.argbeg - 1 <= Len(s) - n
  <2>1. SF.argbeg <= Len(stack) /\ SF.argbeg \in Nat /\ Len(stack) \in Nat
    BY <1>1, <1>2, WaitFields DEF Fits
  <2> QED
    BY <1>4, <2>1
<1> QED
  BY <1>1, <1>2, <1>4, <1>5, <1>6, LeaveKeeps DEF SF

(* What a script returns is in its registers.                              *)
LEMMA ReturnedFacts ==
    ASSUME CallInv, Running, IsScript(SF.fn), NEW ret \in Rets
    PROVE  /\ ret \in Seq(Nat) /\ Values(ret) \in Seq(Value) /\ Len(Values(ret)) = Len(ret)
           /\ \A i \in 1 .. Len(ret) :
                  /\ ret[i] \in 0 .. Size(SF.fn) - 1
                  /\ Values(ret)[i] = stack[off + ret[i] + 1]
<1>1. /\ SF \in CallFrame /\ Fits(SF, off, Len(stack), resumed)
      /\ stack \in Seq(Value) /\ off \in Nat
  BY FramesBelow DEF Running, CallInv, CallTypes
<1>2. SF.fn \in DOMAIN Fn /\ Size(SF.fn) \in Nat
  BY <1>1, WaitFields
<1>3. ret \in Seq(Nat) /\ \A i \in DOMAIN ret : ret[i] < Size(SF.fn)
  BY <1>2, RetAssumption
<1>4. DOMAIN ret = 1 .. Len(ret) /\ Len(ret) \in Nat
  BY <1>3
<1>5. Size(SF.fn) <= Len(stack) - off /\ off <= Len(stack)
  BY <1>1 DEF Fits
<1>6. ASSUME NEW i \in 1 .. Len(ret)
      PROVE  ret[i] \in 0 .. Size(SF.fn) - 1 /\ stack[off + ret[i] + 1] \in Value
  <2>1. ret[i] \in Nat /\ ret[i] < Size(SF.fn)
    BY <1>3, <1>4
  <2>2. off + ret[i] + 1 \in 1 .. Len(stack)
    BY <1>1, <1>2, <1>5, <2>1
  <2> QED
    BY <1>1, <1>2, <2>1, <2>2, ElementOfSeq
<1>7. Values(ret) = [i \in 1 .. Len(ret) |-> stack[off + ret[i] + 1]]
  BY <1>4 DEF Values
<1> DEFINE v == [i \in 1 .. Len(ret) |-> stack[off + ret[i] + 1]]
<1>8. v \in [1 .. Len(ret) -> Value]
  BY <1>6
<1>9. \A i \in 1 .. Len(ret) : v[i] = stack[off + ret[i] + 1]
  OBVIOUS
<1> HIDE DEF v
<1>10. v \in Seq(Value) /\ Len(v) = Len(ret)
  BY <1>4, <1>8
<1> QED
  BY <1>3, <1>6, <1>7, <1>9, <1>10 DEF v

LEMMA ScriptReturnKeeps ==
    ASSUME CallInv, Running, NEW values \in Seq(Value), ScriptReturn(values)
    PROVE  CallInv'
<1> DEFINE s == stack \o values
           n == Len(values)
<1>1. frames # <<>> /\ CallTypes /\ frames \in Seq(CallFrame) /\ stack \in Seq(Value) /\ off \in Nat
  BY DEF Running, CallInv, CallTypes
<1>2. Awaits(Front(frames), SF.stkoff, SF.argbeg - 1) /\ Fits(SF, off, Len(stack), resumed) /\ SF \in CallFrame
  BY <1>1, FramesBelow
<1>3. s \in Seq(Value) /\ Len(s) = Len(stack) + n /\ n \in Nat
  BY <1>1, Joined
<1>4. IF ByPostCall THEN PostCall(s, n) ELSE Leave(s, frames, n)
  BY DEF ScriptReturn
<1> HIDE DEF s, n
<1>5. n \in 0 .. Len(s) /\ SF.argbeg - 1 <= Len(s) - n
  <2>1. SF.argbeg <= Len(stack) /\ SF.argbeg \in Nat /\ Len(stack) \in Nat
    BY <1>1, <1>2, WaitFields DEF Fits
  <2> QED
    BY <1>3, <2>1
<1>6. CASE ByPostCall
  BY <1>1, <1>3, <1>4, <1>5, <1>6, PostCallKeeps
<1>7. CASE ~ByPostCall
  <2>1. Leave(s, frames, n)
    BY <1>4, <1>7
  <2> QED
    BY <1>1, <1>2, <1>3, <1>5, <2>1, LeaveKeeps DEF SF
<1> QED
  BY <1>6, <1>7

LEMMA ReturnNKeeps ==
    ASSUME CallInv, ReturnN PROVE CallInv'
<1>1. Running /\ IsScript(SF.fn)
  BY DEF ReturnN
<1>2. CASE ScriptReturn(<<>>)
  <2>1. <<>> \in Seq(Value)
    OBVIOUS
  <2> QED
    BY <1>1, <1>2, <2>1, ScriptReturnKeeps
<1>3. ASSUME NEW ret \in Rets, ScriptReturn(Values(ret)) PROVE CallInv'
  <2>1. Values(ret) \in Seq(Value)
    BY <1>1, ReturnedFacts
  <2> QED
    BY <1>1, <1>3, <2>1, ScriptReturnKeeps
<1> QED
  BY <1>2, <1>3 DEF ReturnN

LEMMA Return1Keeps ==
    ASSUME CallInv, Return1 PROVE CallInv'
<1>1. Running /\ IsScript(SF.fn)
  BY DEF Return1
<1> PICK ret \in Rets :
       /\ Len(ret) = 1
       /\ IF ~SF.reenter THEN ScriptReturn(Values(ret))
          ELSE LET w == frames[Len(frames) - 1].wants
                   first == SF.stkoff + w.from + 1
               IN  /\ stack' = [i \in 1 .. SF.argbeg - 1 |->
                                  IF i \notin first .. first + w.expect - 1 THEN stack[i]
                                  ELSE IF i = first THEN Head(Values(ret)) ELSE Null]
                   /\ off' = SF.stkoff
                   /\ frames' = Answered(Front(frames))
                   /\ UNCHANGED <<lastabort, resumed, host, ended, made>>
  BY DEF Return1
<1>2. Values(ret) \in Seq(Value) /\ Len(Values(ret)) = 1
  BY <1>1, ReturnedFacts
<1>3. CASE ~SF.reenter
  BY <1>1, <1>2, <1>3, ScriptReturnKeeps
<1>4. CASE SF.reenter
  <2> DEFINE w == frames[Len(frames) - 1].wants
             first == SF.stkoff + w.from + 1
             h == SF.argbeg - 1
             v == Head(Values(ret))
             s2 == [i \in 1 .. h |-> IF i \notin first .. first + w.expect - 1 THEN stack[i]
                                     ELSE IF i = first THEN v ELSE Null]
             below == Front(frames)
  <2>1. /\ stack' = s2 /\ off' = SF.stkoff /\ frames' = Answered(below)
        /\ lastabort' = lastabort /\ resumed' = resumed /\ host' = host /\ ended' = ended
        /\ made' = made
    BY <1>4
  <2>2. /\ Awaits(below, SF.stkoff, h) /\ SF \in CallFrame /\ Fits(SF, off, Len(stack), resumed)
        /\ IF below = <<>> THEN ~SF.reenter ELSE Called(Last(below), SF)
        /\ Told
    BY <1>1, FramesBelow DEF Running
  <2>3. below # <<>> /\ ~Last(below).paused /\ Last(below).wants.op = "call"
    BY <1>4, <2>2 DEF Called
  <2>4. /\ stack \in Seq(Value) /\ off \in Nat /\ host \in Seq(Value) /\ resumed \in BOOLEAN
        /\ lastabort \in BOOLEAN /\ ended \in {"done", "aborted"} /\ made \in Nat
    BY DEF CallInv, CallTypes
  <2>5. v \in Value /\ Null \in Value
    <3>1. Values(ret) # <<>>
      BY <1>2
    <3> QED
      BY <1>2, <3>1, HeadTailProperties DEF Value
  <2>6. h \in Nat /\ h <= Len(stack) /\ SF.stkoff \in Nat
    <3>1. SF.argbeg \in Nat \ {0} /\ SF.stkoff \in Nat
      BY <2>2, WaitFields
    <3> QED
      BY <2>2, <2>4, <3>1 DEF Fits
  <2> HIDE DEF w, first, h, v, below
  <2>7. s2 \in [1 .. h -> Value]
    <3>1. \A i \in 1 .. h : stack[i] \in Value
      BY <2>4, <2>6
    <3> QED
      BY <2>5, <3>1
  <2> HIDE DEF s2
  <2>8. s2 \in Seq(Value) /\ Len(s2) = h
    BY <2>6, <2>7
  <2>9. Len(stack') = h /\ Len(stack') >= h /\ stack' \in Seq(Value) /\ host' \in Seq(Value)
    BY <2>1, <2>4, <2>6, <2>8
  <2>10. Settled'
    BY <2>1, <2>2, <2>3, <2>6, <2>9, AnswerSettles
  <2>11. Told'
    BY <2>1, <2>2 DEF Told
  <2> QED
    BY <2>1, <2>4, <2>10, <2>11, SettledInv
<1> QED
  BY <1>3, <1>4

(* Frames that differ only in whether they end.                            *)
LEMMA Reshaped ==
    ASSUME NEW u \in Seq(CallFrame), NEW v \in Seq(CallFrame), Len(u) = Len(v),
           \A i \in 1 .. Len(u) : Alike(u[i], v[i]) /\ u[i].wants = v[i].wants,
           NEW o, NEW h, NEW after, Layout(v, o, h, after), Chained(v)
    PROVE  Layout(u, o, h, after) /\ Chained(u)
<1>1. ASSUME NEW i \in 1 .. Len(u) PROVE Fits(u[i], Lo(u, o, i), Hi(u, h, i), after)
  <2>1. Fits(v[i], Lo(v, o, i), Hi(v, h, i), after)
    BY DEF Layout
  <2>2. i # Len(u) => i + 1 \in 1 .. Len(u)
    OBVIOUS
  <2>3. Lo(u, o, i) = Lo(v, o, i) /\ Hi(u, h, i) = Hi(v, h, i)
    BY <2>2 DEF Lo, Hi, Alike
  <2> QED
    BY <2>1, <2>3 DEF Fits, Alike
<1>2. ASSUME NEW i \in 1 .. Len(u) - 1 PROVE Called(u[i], u[i + 1])
  <2>1. i \in 1 .. Len(u) /\ i + 1 \in 1 .. Len(u)
    OBVIOUS
  <2>2. Called(v[i], v[i + 1])
    BY DEF Chained
  <2> QED
    BY <2>1, <2>2 DEF Called, Waits, Alike
<1>3. u # <<>> => ~u[1].reenter
  <2>1. u # <<>> => 1 \in 1 .. Len(u) /\ v # <<>>
    OBVIOUS
  <2> QED
    BY <2>1 DEF Chained, Alike
<1> QED
  BY <1>1, <1>2, <1>3 DEF Layout, Chained

LEMMA AbortedFacts ==
    ASSUME CallInv, NEW last \in Nat
    PROVE  LET u == Aborted(last)
           IN  /\ u \in Seq(CallFrame) /\ Len(u) = Len(frames)
               /\ \A i \in 1 .. Len(frames) : Alike(u[i], frames[i]) /\ u[i].wants = frames[i].wants
               /\ Layout(u, off, Len(stack), resumed) /\ Chained(u)
<1> DEFINE u == Aborted(last)
           ended_(f) == [f EXCEPT !.ends = TRUE, !.aborted = TRUE]
<1>1. frames \in Seq(CallFrame) /\ Layout(frames, off, Len(stack), resumed) /\ Chained(frames)
  BY DEF CallInv, CallTypes, FramesFit
<1>2. DOMAIN frames = 1 .. Len(frames) /\ Len(frames) \in Nat
  BY <1>1
<1>3. \A f \in CallFrame : /\ ended_(f) \in CallFrame /\ Alike(ended_(f), f)
                           /\ ended_(f).wants = f.wants
  BY DEF CallFrame, Alike
<1>4. \A i \in 1 .. Len(frames) : u[i] \in {ended_(frames[i]), frames[i]}
  BY <1>2 DEF Aborted
<1>5. \A i \in 1 .. Len(frames) : frames[i] \in CallFrame
  BY <1>1
<1>6. u = [i \in 1 .. Len(frames) |-> u[i]]
  BY <1>2 DEF Aborted
<1> HIDE DEF ended_, u
<1>7. ASSUME NEW i \in 1 .. Len(frames)
      PROVE  u[i] \in CallFrame /\ Alike(u[i], frames[i]) /\ u[i].wants = frames[i].wants
  BY <1>3, <1>4, <1>5 DEF Alike
<1>8. u \in [1 .. Len(frames) -> CallFrame]
  BY <1>6, <1>7
<1>9. u \in Seq(CallFrame) /\ Len(u) = Len(frames)
  BY <1>2, <1>8
<1>10. \A i \in 1 .. Len(u) : Alike(u[i], frames[i]) /\ u[i].wants = frames[i].wants
  BY <1>7, <1>9
<1>11. Layout(u, off, Len(stack), resumed) /\ Chained(u)
  BY <1>1, <1>9, <1>10, Reshaped
<1> QED
  BY <1>9, <1>10, <1>11 DEF u

LEMMA AbortKeeps ==
    ASSUME CallInv, Abort PROVE CallInv'
<1> DEFINE u == Aborted(Len(frames) - 1)
           p == A!Prefix(1, Res)
           s == stack \o p
<1>1. /\ frames # <<>> /\ CallTypes /\ frames \in Seq(CallFrame) /\ stack \in Seq(Value)
      /\ off \in Nat /\ Leave(s, u, 1)
  BY DEF Abort, Running, CallInv, CallTypes
<1>2. p \in Seq(Value) /\ Len(p) = 1
  <2>1. 1 \in 0 .. Len(Res) /\ Res \in Seq(Value)
    BY ValueAssumption
  <2> QED
    BY <2>1, PrefixFacts
<1> HIDE DEF p
<1>3. s \in Seq(Value) /\ Len(s) = Len(stack) + 1
  <2>1. stack \in Seq(Value) /\ p \in Seq(Value)
    BY <1>1, <1>2
  <2>2. s \in Seq(Value) /\ Len(s) = Len(stack) + Len(p)
    BY <2>1, Joined
  <2> HIDE DEF s
  <2> QED
    BY <1>2, <2>2
<1> HIDE DEF s
<1>4. Len(frames) \in Nat \ {0} /\ Len(frames) - 1 \in Nat
  BY <1>1
<1>5. /\ u \in Seq(CallFrame) /\ Len(u) = Len(frames)
      /\ Layout(u, off, Len(stack), resumed) /\ Chained(u)
  BY <1>4, AbortedFacts
<1> HIDE DEF u
<1>6. u # <<>> /\ Len(stack) \in Nat
  BY <1>1, <1>4, <1>5
<1>7. /\ Awaits(Front(u), Last(u).stkoff, Last(u).argbeg - 1)
      /\ Last(u) \in CallFrame /\ Fits(Last(u), off, Len(stack), resumed)
  BY <1>1, <1>5, <1>6, AnyBelow
<1>8. 1 \in 0 .. Len(s) /\ Last(u).argbeg - 1 <= Len(s) - 1
  <2>1. Last(u).argbeg <= Len(stack) /\ Last(u).argbeg \in Nat
    BY <1>1, <1>6, <1>7, WaitFields DEF Fits
  <2> QED
    BY <1>3, <1>6, <2>1
<1> QED
  BY <1>1, <1>3, <1>5, <1>6, <1>7, <1>8, LeaveKeeps

LEMMA AbortPausedKeeps ==
    ASSUME CallInv, AbortPaused PROVE CallInv'
<1> DEFINE u == Aborted(Len(frames))
           n == Len(frames)
<1>1. /\ frames' = u /\ stack' = stack /\ off' = off /\ lastabort' = lastabort
      /\ resumed' = resumed /\ host' = host /\ ended' = ended /\ made' = made
      /\ frames # <<>> /\ SF.paused
  BY DEF AbortPaused
<1>2. /\ frames \in Seq(CallFrame) /\ stack \in Seq(Value) /\ off \in Nat /\ host \in Seq(Value)
      /\ resumed \in BOOLEAN /\ lastabort \in BOOLEAN /\ ended \in {"done", "aborted"} /\ made \in Nat
  BY DEF CallInv, CallTypes
<1>3. n \in Nat \ {0} /\ Last(frames) = frames[n]
  BY <1>1, <1>2, FrontLast
<1>4. /\ u \in Seq(CallFrame) /\ Len(u) = n
      /\ Layout(u, off, Len(stack), resumed) /\ Chained(u)
      /\ Alike(u[n], frames[n]) /\ u[n].wants = frames[n].wants
  <2>1. Len(frames) \in Nat /\ n \in 1 .. Len(frames)
    BY <1>3
  <2> QED
    BY <2>1, AbortedFacts
<1> HIDE DEF u
<1>5. Last(u) = u[n]
  BY <1>3, <1>4 DEF Last
<1>6. Innermost(frames[n]) /\ Told
  BY <1>1, <1>3, FramesBelow DEF SF
<1>7. Innermost(Last(u))
  BY <1>1, <1>3, <1>4, <1>5, <1>6 DEF Innermost, Alike, Waits, SF
<1>8. Settled'
  BY <1>1, <1>2, <1>4, <1>7 DEF Settled
<1>9. Told'
  BY <1>1, <1>6 DEF Told
<1> QED
  BY <1>1, <1>2, <1>8, <1>9, SettledInv

LEMMA YieldKeeps ==
    ASSUME CallInv, Yield PROVE CallInv'
<1> DEFINE below == Len(frames) - 1
           paused == [frames EXCEPT ![below].paused = TRUE]
           rvc == Len(stack) - off
<1>1. /\ frames # <<>> /\ CallTypes /\ frames \in Seq(CallFrame) /\ stack \in Seq(Value)
      /\ off \in Nat /\ resumed \in BOOLEAN
      /\ Leave(stack, IF CanPause THEN paused ELSE frames, rvc)
  BY DEF Yield, Running, CallInv, CallTypes
<1>2. /\ Awaits(Front(frames), SF.stkoff, SF.argbeg - 1)
      /\ Fits(SF, off, Len(stack), resumed) /\ SF \in CallFrame
  BY <1>1, FramesBelow
<1>3. /\ SF.argbeg \in Nat \ {0} /\ SF.stkoff \in Nat /\ SF.argbeg <= off /\ off <= Len(stack)
  BY <1>2, WaitFields DEF Fits
<1>4. rvc \in 0 .. Len(stack) /\ SF.argbeg - 1 <= Len(stack) - rvc
  BY <1>1, <1>3
<1>5. CASE ~CanPause
  <2>1. Leave(stack, frames, rvc)
    BY <1>1, <1>5
  <2> HIDE DEF rvc
  <2> QED
    BY <1>1, <1>2, <1>4, <2>1, LeaveKeeps DEF SF
<1>6. CASE CanPause
  <2> DEFINE b == Front(frames)
             g == Last(b)
             bb == Front(b)
             x == [g EXCEPT !.paused = TRUE]
             c == bb \o <<x>>
  <2>1. b \in Seq(CallFrame) /\ Len(b) = below /\ frames = b \o <<SF>> /\ below \in Nat \ {0}
    <3>1. Len(frames) \in Nat /\ Len(frames) > 1
      BY <1>1, <1>6 DEF CanPause
    <3>2. /\ Front(frames) \in Seq(CallFrame) /\ Len(Front(frames)) = Len(frames) - 1
          /\ Front(frames) \o <<Last(frames)>> = frames
      BY <1>1, FrontLast
    <3> QED
      BY <3>1, <3>2 DEF SF
  <2>2. b # <<>> /\ g = b[below] /\ \A i \in 1 .. below : b[i] = frames[i]
    <3>1. b # <<>>
      BY <2>1
    <3>2. g = b[below]
      BY <2>1, <3>1 DEF Last
    <3>3. \A i \in 1 .. Len(frames) - 1 : b[i] = frames[i]
      BY <1>1, FrontLast
    <3> QED
      BY <3>1, <3>2, <3>3
  <2>3. /\ bb \in Seq(CallFrame) /\ Len(bb) = below - 1 /\ g \in CallFrame /\ b = bb \o <<g>>
        /\ \A i \in 1 .. below - 1 : bb[i] = b[i]
    <3>1. b \in Seq(CallFrame) /\ b # <<>> /\ Len(b) = below
      BY <2>1, <2>2
    <3> HIDE DEF b, below
    <3> QED
      BY <3>1, FrontLast
  <2>4. IsScript(g.fn)
    <3>1. below \in 1 .. Len(frames) - 1 /\ g = frames[below]
      BY <2>1, <2>2
    <3> QED
      BY <1>6, <3>1 DEF CanPause
  <2> HIDE DEF g, bb, b
  <2>5. /\ x \in CallFrame /\ x.fn = g.fn /\ x.argbeg = g.argbeg /\ x.stkoff = g.stkoff
        /\ x.reenter = g.reenter /\ x.paused = TRUE /\ x.wants = g.wants
    <3>1. \A f \in CallFrame :
            LET y == [f EXCEPT !.paused = TRUE]
            IN  /\ y \in CallFrame /\ y.fn = f.fn /\ y.argbeg = f.argbeg /\ y.stkoff = f.stkoff
                /\ y.reenter = f.reenter /\ y.paused = TRUE /\ y.wants = f.wants
      BY DEF CallFrame
    <3> QED
      BY <2>3, <3>1
  <2>6. paused = c \o <<SF>> /\ c \in Seq(CallFrame)
    <3>1. /\ c \in Seq(CallFrame) /\ Len(c) = Len(bb) + 1
          /\ \A i \in 1 .. Len(bb) : c[i] = bb[i]
          /\ c[Len(bb) + 1] = x
      <4>1. bb \in Seq(CallFrame) /\ x \in CallFrame
        BY <2>3, <2>5
      <4> HIDE DEF x
      <4> QED
        BY <4>1, Extended
    <3> DEFINE d == c \o <<SF>>
    <3> HIDE DEF c
    <3>2. /\ d \in Seq(CallFrame) /\ Len(d) = Len(c) + 1
          /\ \A i \in 1 .. Len(c) : d[i] = c[i]
          /\ d[Len(c) + 1] = SF
      BY <1>2, <3>1, Extended
    <3> HIDE DEF d
    <3>3. below \in 1 .. Len(frames) /\ frames[below] = g
      BY <2>1, <2>2
    <3>4. paused = [frames EXCEPT ![below] = x]
      BY <1>1, <3>3
    <3> HIDE DEF x, paused
    <3>5. /\ paused \in Seq(CallFrame) /\ Len(paused) = Len(frames)
          /\ \A i \in 1 .. Len(frames) : paused[i] = IF i = below THEN x ELSE frames[i]
      BY <1>1, <2>5, <3>3, <3>4, ExceptSeq
    <3>6. Len(d) = Len(frames) /\ Len(c) = below /\ Len(frames) = below + 1 /\ below \in Nat
      BY <1>1, <2>1, <2>3, <3>1, <3>2
    <3> HIDE DEF below
    <3>7. ASSUME NEW i \in 1 .. Len(frames) PROVE paused[i] = d[i]
      <4>1. CASE i = below
        BY <2>3, <3>1, <3>2, <3>5, <3>6, <4>1
      <4>2. CASE i = below + 1
        <5>1. paused[i] = frames[i] /\ frames[i] = SF
          BY <3>5, <3>6, <4>2 DEF SF, Last
        <5> QED
          BY <3>2, <3>6, <4>2, <5>1
      <4>3. CASE i < below
        <5>1. i \in 1 .. below - 1 /\ i \in 1 .. below /\ i # below
          BY <3>6, <4>3
        <5>2. paused[i] = frames[i] /\ d[i] = c[i] /\ c[i] = bb[i] /\ bb[i] = b[i] /\ b[i] = frames[i]
          BY <2>2, <2>3, <3>1, <3>2, <3>5, <3>6, <5>1
        <5> QED
          BY <5>2
      <4> QED
        BY <3>6, <4>1, <4>2, <4>3
    <3>8. paused = d
      BY <3>2, <3>5, <3>6, <3>7, SeqEqual
    <3> QED
      BY <3>1, <3>8 DEF d
  <2>7. Leave(stack, paused, rvc)
    BY <1>1, <1>6
  <2> HIDE DEF paused
  <2>8. Awaits(c, SF.stkoff, SF.argbeg - 1)
    <3> DEFINE o == SF.stkoff
               h == SF.argbeg - 1
    <3>1. o \in Nat /\ h \in Nat /\ Layout(b, o, h, resumed) /\ Chained(b) /\ Waits(g)
      BY <1>2, <1>3, <2>2 DEF Awaits, b, g
    <3> HIDE DEF o, h, c, x
    <3>2. Layout(bb, g.stkoff, g.argbeg - 1, resumed) /\ Fits(g, o, h, resumed)
      BY <2>3, <3>1, LayoutTop
    <3>3. Chained(bb) /\ IF bb = <<>> THEN ~g.reenter ELSE Called(Last(bb), g)
      BY <2>3, <3>1, ChainedTop
    <3>4. Fits(x, o, h, resumed) /\ Waits(x)
      BY <2>5, <3>1, <3>2 DEF Fits, Waits
    <3>5. IF bb = <<>> THEN ~x.reenter ELSE Called(Last(bb), x)
      BY <2>5, <3>3 DEF Called
    <3>6. Layout(bb, x.stkoff, x.argbeg - 1, resumed)
      BY <2>5, <3>2
    <3>7. c = bb \o <<x>>
      BY DEF c
    <3>8. Layout(c, o, h, resumed)
      BY <2>3, <2>5, <3>1, <3>4, <3>6, <3>7, LayoutTop
    <3>9. Chained(c)
      BY <2>3, <2>5, <3>3, <3>5, <3>7, ChainedTop
    <3>10. Last(c) = x
      BY <2>3, <2>5, <3>7, Extended
    <3> QED
      BY <2>4, <2>5, <2>6, <3>4, <3>8, <3>9, <3>10 DEF Awaits, o, h
  <2> HIDE DEF c, rvc
  <2>9. paused \in Seq(CallFrame) /\ paused # <<>> /\ Front(paused) = c /\ Last(paused) = SF
    BY <1>2, <2>6, Extended
  <2> QED
    BY <1>1, <1>4, <2>7, <2>8, <2>9, LeaveKeeps
<1> QED
  BY <1>5, <1>6

LEMMA LayoutAfterResume ==
    ASSUME NEW frs, NEW o, NEW h, NEW after, Layout(frs, o, h, after)
    PROVE  Layout(frs, o, h, TRUE)
BY DEF Layout, Fits

LEMMA ResumeKeeps ==
    ASSUME CallInv, Resume PROVE CallInv'
<1>1. /\ frames # <<>> /\ SF.paused /\ frames \in Seq(CallFrame) /\ stack \in Seq(Value) /\ off \in Nat
      /\ resumed \in BOOLEAN /\ lastabort \in BOOLEAN /\ ended \in {"done", "aborted"} /\ made \in Nat
  BY DEF Resume, CallInv, CallTypes
<1>2. CASE Head(frames).aborted
  <2>1. /\ frames' = <<>> /\ stack' = <<>> /\ off' = 0 /\ host' = <<>>
        /\ lastabort' = TRUE /\ ended' = "aborted" /\ resumed' = resumed /\ made' = made
    BY <1>2 DEF Resume
  <2>2. stack' \in Seq(Value) /\ host' \in Seq(Value) /\ off' \in Nat
    BY <2>1
  <2>3. Settled'
    BY <2>1, <2>2, NothingLaidOut DEF Settled
  <2> QED
    BY <1>1, <2>1, <2>3, SettledInv
<1>3. CASE ~Head(frames).aborted
  <2> DEFINE y == [SF EXCEPT !.paused = FALSE]
             b == Front(frames)
             fs == b \o <<y>>
             x == [y EXCEPT !.wants = A!NoCall]
             a == b \o <<x>>
  <2> PICK n \in 0 .. Len(Arg) :
            /\ stack' = Delivered(stack \o A!Prefix(n, Arg), off, SF.wants, n)
            /\ frames' = Answered(fs)
            /\ resumed' = TRUE /\ host' = <<>>
            /\ UNCHANGED <<off, lastabort, ended, made>>
    BY <1>3 DEF Resume
  <2>1. /\ Awaits(b, SF.stkoff, SF.argbeg - 1) /\ SF \in CallFrame
        /\ Fits(SF, off, Len(stack), resumed)
        /\ IF b = <<>> THEN ~SF.reenter ELSE Called(Last(b), SF)
        /\ Told /\ b \in Seq(CallFrame)
    BY <1>1, FramesBelow DEF Awaits
  <2>2. /\ x \in CallFrame /\ x.fn = SF.fn /\ x.argbeg = SF.argbeg /\ x.stkoff = SF.stkoff
        /\ x.reenter = SF.reenter /\ x.paused = FALSE /\ x.wants = A!NoCall
        /\ y \in CallFrame
    <3>1. \A f \in CallFrame :
            LET g == [f EXCEPT !.paused = FALSE]
                z == [g EXCEPT !.wants = A!NoCall]
            IN  /\ z \in CallFrame /\ z.fn = f.fn /\ z.argbeg = f.argbeg /\ z.stkoff = f.stkoff
                /\ z.reenter = f.reenter /\ z.paused = FALSE /\ z.wants = A!NoCall
                /\ g \in CallFrame
      BY NoCallFacts DEF CallFrame
    <3> QED
      BY <2>1, <3>1
  <2>3. frames' = a
    <3>1. Front(fs) = b /\ Last(fs) = y
      <4>1. b \in Seq(CallFrame) /\ y \in CallFrame
        BY <2>1, <2>2
      <4> HIDE DEF b, y
      <4> QED
        BY <4>1, Extended
    <3>2. Answered(fs) = b \o <<x>>
      BY <3>1 DEF Answered
    <3> QED
      BY <3>2
  <2>4. stack' \in Seq(Value) /\ Len(stack') = Len(stack)
    <3> DEFINE p == A!Prefix(n, Arg)
               s == stack \o p
               w == SF.wants
    <3>1. p \in Seq(Value) /\ Len(p) = n
      BY ValueAssumption, PrefixFacts
    <3> HIDE DEF p
    <3>2. s \in Seq(Value) /\ Len(s) = Len(stack) + n
      BY <1>1, <3>1, Joined
    <3> HIDE DEF s
    <3>3. n \in 0 .. Len(s) /\ Len(s) - n = Len(stack) /\ off \in Nat
      BY <1>1, <3>2
    <3>4. w \in Wait
      BY <2>1, WaitFields
    <3>5. stack' = Delivered(s, off, w, n)
      BY DEF s, p
    <3> HIDE DEF w
    <3>6. Delivered(s, off, w, n) \in Seq(Value) /\ Len(Delivered(s, off, w, n)) = Len(s) - n
      BY <3>2, <3>3, <3>4, DeliveredFacts
    <3> QED
      BY <3>3, <3>5, <3>6
  <2>5. Fits(x, off, Len(stack'), TRUE)
    BY <2>1, <2>2, <2>4 DEF Fits
  <2>6. Layout(b, x.stkoff, x.argbeg - 1, TRUE) /\ Chained(b)
    BY <2>1, <2>2, LayoutAfterResume DEF Awaits
  <2>7. IF b = <<>> THEN ~x.reenter ELSE Called(Last(b), x)
    BY <2>1, <2>2 DEF Called
  <2> HIDE DEF x, y, b, fs
  <2>8. Layout(a, off, Len(stack'), TRUE)
    <3>1. off \in Nat /\ Len(stack') \in Nat
      BY <1>1, <2>4
    <3> QED
      BY <2>1, <2>2, <2>5, <2>6, <3>1, LayoutTop
  <2>9. Chained(a)
    BY <2>1, <2>2, <2>6, <2>7, ChainedTop
  <2>10. a \in Seq(CallFrame) /\ Last(a) = x
    <3>1. b \in Seq(CallFrame) /\ x \in CallFrame
      BY <2>1, <2>2
    <3> QED
      BY <3>1, Extended
  <2>11. Innermost(x)
    BY <2>2 DEF Innermost
  <2>12. resumed' = TRUE /\ host' \in Seq(Value) /\ off' = off /\ lastabort' = lastabort
         /\ ended' = ended /\ made' = made
    OBVIOUS
  <2> HIDE DEF a
  <2>13. Settled'
    BY <1>1, <2>3, <2>4, <2>8, <2>9, <2>10, <2>11, <2>12 DEF Settled
  <2>14. Told'
    BY <2>1, <2>12 DEF Told
  <2> QED
    BY <1>1, <2>12, <2>13, <2>14, SettledInv
<1> QED
  BY <1>2, <1>3

LEMMA StutterKeeps ==
    ASSUME CallInv, UNCHANGED vars PROVE CallInv'
BY DEF CallInv, CallTypes, FramesFit, Layout, Chained, Told, vars, SF

(* Every action of the interpreter, and of the host, keeps the frames in   *)
(* order on the one stack.                                                 *)
THEOREM FramesAlwaysFit == Spec => []CallInv
<1>1. Init => CallInv
  <2> SUFFICES ASSUME Init PROVE CallInv
    OBVIOUS
  <2>1. stack = <<>> /\ off = 0 /\ frames = <<>> /\ host = <<>> /\ ended = "done"
        /\ lastabort = FALSE /\ resumed = FALSE /\ made = 0
    BY DEF Init
  <2>2. stack \in Seq(Value) /\ host \in Seq(Value)
    BY <2>1
  <2> QED
    BY <2>1, <2>2, NothingLaidOut DEF CallInv, CallTypes, FramesFit
<1>2. CallInv /\ [Next]_vars => CallInv'
  <2> SUFFICES ASSUME CallInv, [Next]_vars PROVE CallInv'
    OBVIOUS
  <2>1. CASE Begin
    BY <2>1, BeginKeeps
  <2>2. CASE ScriptCall
    BY <2>2, ScriptCallKeeps
  <2>3. CASE OperatorCall
    BY <2>3, OperatorCallKeeps
  <2>4. CASE NativeCall
    BY <2>4, NativeCallKeeps
  <2>5. CASE NativeReturn
    BY <2>5, NativeReturnKeeps
  <2>6. CASE ReturnN
    BY <2>6, ReturnNKeeps
  <2>7. CASE Return1
    BY <2>7, Return1Keeps
  <2>8. CASE Yield
    BY <2>8, YieldKeeps
  <2>9. CASE Abort
    BY <2>9, AbortKeeps
  <2>10. CASE AbortPaused
    BY <2>10, AbortPausedKeeps
  <2>11. CASE Resume
    BY <2>11, ResumeKeeps
  <2>12. CASE UNCHANGED vars
    BY <2>12, StutterKeeps
  <2> QED
    BY <2>1, <2>2, <2>3, <2>4, <2>5, <2>6, <2>7, <2>8, <2>9, <2>10, <2>11, <2>12 DEF Next
<1> QED
  BY <1>1, <1>2, PTL DEF Spec

(* The variables of a frame are as many as its place on the stack has.     *)
LEMMA SliceHeight ==
    ASSUME CallInv, NEW i \in 1 .. Len(frames)
    PROVE  Len(Slice(i)) = Hi(frames, Len(stack), i) - Lo(frames, off, i)
<1> DEFINE lo == Lo(frames, off, i)
           hi == Hi(frames, Len(stack), i)
           m == lo + 1
<1>1. /\ frames \in Seq(CallFrame) /\ stack \in Seq(Value) /\ off \in Nat
      /\ Layout(frames, off, Len(stack), resumed)
  BY DEF CallInv, CallTypes, FramesFit
<1>2. lo \in Nat /\ hi \in Int
  <2>1. CASE i = Len(frames)
    BY <1>1, <2>1 DEF Lo, Hi
  <2>2. CASE i # Len(frames)
    <3>1. i + 1 \in 1 .. Len(frames)
      BY <1>1, <2>2
    <3>2. frames[i + 1] \in CallFrame
      BY <1>1, <3>1
    <3>3. frames[i + 1].argbeg \in Nat \ {0} /\ frames[i + 1].stkoff \in Nat
      BY <3>2, WaitFields
    <3> QED
      BY <2>2, <3>3 DEF Lo, Hi
  <2> QED
    BY <2>1, <2>2
<1>3. Slice(i) = SubSeq(stack, m, hi)
  BY DEF Slice, Lo, Hi
<1>4. lo <= hi
  BY <1>1 DEF Layout, Fits
<1> HIDE DEF lo, hi
<1> DEFINE S == {stack[k] : k \in m .. hi}
<1>5. m \in Int /\ \A k \in m .. hi : stack[k] \in S
  BY <1>2
<1> HIDE DEF S, m
<1>6. Len(SubSeq(stack, m, hi)) = IF m <= hi THEN hi - m + 1 ELSE 0
  BY <1>2, <1>5, SubSeqProperties
<1> QED
  BY <1>2, <1>3, <1>4, <1>6 DEF lo, hi, m

(* A function that runs always has all its registers, and nothing above    *)
(* them before the context was first resumed.                              *)
THEOREM HeightAlwaysKept == Spec => []HeightKept
<1>1. CallInv => HeightKept
  <2> SUFFICES ASSUME CallInv, NEW i \in DOMAIN frames,
                      IsScript(frames[i].fn), ~(frames[i].paused)
               PROVE  /\ Len(Slice(i)) >= Size(frames[i].fn)
                      /\ Len(Slice(i)) > Size(frames[i].fn) => resumed
    BY DEF HeightKept
  <2>1. i \in 1 .. Len(frames)
    BY DEF CallInv, CallTypes
  <2>2. Fits(frames[i], Lo(frames, off, i), Hi(frames, Len(stack), i), resumed)
    BY <2>1 DEF CallInv, FramesFit, Layout
  <2> QED
    BY <2>1, <2>2, SliceHeight DEF Fits
<1> QED
  BY <1>1, FramesAlwaysFit, PTL

(* What a native function learns of an abort is about the function that it *)
(* called last.                                                            *)
THEOREM NativeAlwaysTold == Spec => []NativeToldOfAbort
<1>1. CallInv => NativeToldOfAbort
  BY DEF CallInv, FramesFit, Told, NativeToldOfAbort, Running
<1> QED
  BY <1>1, FramesAlwaysFit, PTL

---------------------------------------------------------------------------
(* What waits while a context is suspended.                                *)

(* The innermost function, if there is one, is neither a yield nor paused. *)
Plain == frames # <<>> => Kind(SF.fn) # "yield" /\ ~SF.paused

LEMMA PlainIsFine == Plain' => ByCallsOnly'
BY DEF Plain, ByCallsOnly

LEMMA WaitsKind ==
    ASSUME NEW f, Waits(f)
    PROVE  Kind(f.fn) # "yield"
BY DEF Waits, IsScript

LEMMA AnswerPlain ==
    ASSUME NEW fs \in Seq(CallFrame), fs # <<>>, Waits(Last(fs)), ~Last(fs).paused,
           frames' = Answered(fs)
    PROVE  Plain'
<1> DEFINE f == [Last(fs) EXCEPT !.wants = A!NoCall]
           b == Front(fs)
<1>1. /\ f \in CallFrame /\ Answered(fs) = b \o <<f>> /\ f.fn = Last(fs).fn
      /\ f.paused = Last(fs).paused
  BY AnsweredFacts
<1>2. b \in Seq(CallFrame)
  BY FrontLast
<1>3. Kind(Last(fs).fn) # "yield"
  BY WaitsKind
<1> HIDE DEF f, b
<1>4. Last(b \o <<f>>) = f
  BY <1>1, <1>2, Extended
<1> QED
  BY <1>1, <1>3, <1>4 DEF Plain, SF

LEMMA AfterCallPlain ==
    ASSUME NEW fs, NEW s, NEW o, NEW h, NEW rvc,
           Awaits(fs, o, h), fs # <<>> => ~Last(fs).paused, AfterCall(fs, s, o, rvc)
    PROVE  Plain'
<1>1. CASE fs = <<>>
  BY <1>1 DEF AfterCall, Plain
<1>2. CASE fs # <<>>
  <2>1. frames' = Answered(fs) /\ Waits(Last(fs)) /\ fs \in Seq(CallFrame)
    BY <1>2 DEF AfterCall, Awaits
  <2> QED
    BY <1>2, <2>1, AnswerPlain
<1> QED
  BY <1>1, <1>2

(* The frames below the innermost one are not paused.                      *)
LEMMA BelowRuns ==
    ASSUME CallInv, frames # <<>>, Front(frames) # <<>>
    PROVE  ~Last(Front(frames)).paused
BY FramesBelow DEF Called

LEMMA LeavePlain ==
    ASSUME NEW frs \in Seq(CallFrame), frs # <<>>, NEW o \in Nat, NEW h \in Nat,
           Layout(frs, o, h, resumed), Chained(frs),
           NEW s, NEW rvc, Leave(s, frs, rvc)
    PROVE  Plain'
<1>1. Awaits(Front(frs), Last(frs).stkoff, Last(frs).argbeg - 1)
  BY AnyBelow
<1>2. Front(frs) # <<>> => ~Last(Front(frs)).paused
  BY AnyBelow DEF Called
<1>3. \E t : AfterCall(Front(frs), t, Last(frs).stkoff, rvc)
  BY DEF Leave
<1> QED
  BY <1>1, <1>2, <1>3, AfterCallPlain

LEMMA PostCallPlain ==
    ASSUME CallInv, frames # <<>>, NEW s, NEW rvc, PostCall(s, rvc)
    PROVE  Plain'
<1>1. Awaits(Front(frames), SF.stkoff, SF.argbeg - 1)
  BY FramesBelow
<1>2. IF Front(frames) = <<>> THEN frames' = <<>> ELSE frames' = Answered(Front(frames))
  BY DEF PostCall
<1>3. CASE Front(frames) = <<>>
  BY <1>2, <1>3 DEF Plain
<1>4. CASE Front(frames) # <<>>
  <2>1. /\ Front(frames) \in Seq(CallFrame) /\ Waits(Last(Front(frames)))
        /\ ~Last(Front(frames)).paused
    BY <1>1, <1>4, BelowRuns DEF Awaits
  <2> QED
    BY <1>2, <1>4, <2>1, AnswerPlain
<1> QED
  BY <1>3, <1>4

(* A call leads to a yield only where the instance makes one.              *)
LEMMA SiteCallByCalls ==
    ASSUME CallInv, Running, NEW x \in CallFrame, Alike(x, SF), Waits(x),
           NEW site \in Sites, NEW t \in Seq(Value), Len(t) = Len(stack),
           NEW got \in BOOLEAN, got = site.this, NEW reenter \in BOOLEAN,
           NEW op, x.wants.op = op, "yield_in_operator" \notin Ops, Makes(site.fn, op),
           VmCall(t \o A!Operands(site), Front(frames) \o <<x>>, site.args, got, reenter)
    PROVE  ByCallsOnly'
<1> DEFINE s == t \o A!Operands(site)
           b == Len(t) + 1
           below == Front(frames)
           frs == below \o <<x>>
           f == Frame(s[b], b, reenter)
<1>1. s \in Seq(Value) /\ Len(s) - site.args - Count(got) = b /\ s[b] = site.fn
  BY SiteOnTop
<1>2. Awaits(frs, off, Len(stack)) /\ frs # <<>> /\ Last(frs) = x /\ ~x.paused
  BY CallerAwaits
<1>3. IF Len(frs) >= Limit \/ Kind(site.fn) = "none"
      THEN AfterCall(frs, SubSeq(s, 1, b - 1), off, 0)
      ELSE frames' = Append(frs, f)
  BY <1>1 DEF VmCall
<1>4. CASE Len(frs) >= Limit \/ Kind(site.fn) = "none"
  <2>1. AfterCall(frs, SubSeq(s, 1, b - 1), off, 0)
    BY <1>3, <1>4
  <2> HIDE DEF frs, s, b
  <2>2. Plain'
    BY <1>2, <2>1, AfterCallPlain
  <2> QED
    BY <2>2, PlainIsFine
<1>5. CASE ~(Len(frs) >= Limit \/ Kind(site.fn) = "none")
  <2>1. frames' = Append(frs, f) /\ site.fn \in DOMAIN Fn
    BY <1>3, <1>5 DEF Kind, A!Kind
  <2>2. /\ f \in CallFrame /\ f.fn = site.fn /\ f.paused = FALSE /\ f.wants = A!NoCall
    <3>1. off \in Nat /\ b \in Nat \ {0}
      BY DEF CallInv, CallTypes
    <3> QED
      BY <1>1, <2>1, <3>1, NoCallFacts DEF Frame, CallFrame
  <2>3. below \in Seq(CallFrame) /\ frs \in Seq(CallFrame) /\ frames = below \o <<SF>> /\ SF \in CallFrame
    BY <1>2, FramesBelow DEF Awaits, Running
  <2> HIDE DEF f, below
  <2>4. /\ Len(frs) = Len(below) + 1
        /\ \A i \in 1 .. Len(below) : frs[i] = below[i]
        /\ frs[Len(below) + 1] = x
    BY <2>3, Extended
  <2>5. /\ Len(frames) = Len(below) + 1
        /\ \A i \in 1 .. Len(below) : frames[i] = below[i]
    BY <2>3, Extended
  <2> HIDE DEF frs
  <2>6. /\ frames' \in Seq(CallFrame) /\ Len(frames') = Len(frs) + 1
        /\ \A i \in 1 .. Len(frs) : frames'[i] = frs[i]
        /\ frames'[Len(frs) + 1] = f /\ Last(frames') = f
    <3>1. Append(frs, f) = frs \o <<f>>
      BY <2>2, <2>3, AppendIsConcat
    <3>2. /\ frs \o <<f>> \in Seq(CallFrame) \ {<<>>} /\ Len(frs \o <<f>>) = Len(frs) + 1
          /\ Last(frs \o <<f>>) = f
          /\ \A i \in 1 .. Len(frs) : (frs \o <<f>>)[i] = frs[i]
          /\ (frs \o <<f>>)[Len(frs) + 1] = f
      BY <2>2, <2>3, Extended
    <3> QED
      BY <2>1, <3>1, <3>2
  <2>7. ~SF'.paused
    BY <2>2, <2>6 DEF SF
  <2>8. ASSUME Kind(SF'.fn) = "yield", NEW i \in DOMAIN frames'
        PROVE  frames'[i].wants.op # "operator"
    <3>1. /\ op # "operator" /\ \A j \in DOMAIN frames : frames[j].wants.op # "operator"
      BY <2>2, <2>6, <2>8 DEF Makes, SF
    <3>2. i \in 1 .. Len(frames') /\ DOMAIN frames = 1 .. Len(frames) /\ Len(below) \in Nat
      BY <2>3, <2>6 DEF CallInv, CallTypes
    <3>3. CASE i = Len(frs) + 1
      BY <2>2, <2>6, <3>3, NoCallFacts
    <3>4. CASE i = Len(below) + 1
      <4>1. i \in 1 .. Len(frs)
        BY <2>4, <3>2, <3>4
      <4> QED
        BY <2>4, <2>6, <3>1, <3>4, <4>1
    <3>5. CASE i <= Len(below)
      <4>1. i \in 1 .. Len(below) /\ i \in 1 .. Len(frs) /\ i \in 1 .. Len(frames)
        BY <2>4, <2>5, <3>2, <3>5
      <4> QED
        BY <2>4, <2>5, <2>6, <3>1, <3>2, <4>1
    <3> QED
      BY <2>4, <2>6, <3>2, <3>3, <3>4, <3>5
  <2> QED
    BY <2>7, <2>8 DEF ByCallsOnly
<1> QED
  BY <1>4, <1>5

(* The caller of a yield that suspends, and the scripts below it.          *)
LEMMA CallerBelow ==
    ASSUME frames \in Seq(CallFrame), CanPause
    PROVE  /\ Len(frames) - 1 \in Nat \ {0} /\ Len(frames) - 1 \in 1 .. Len(frames)
           /\ Len(frames) = (Len(frames) - 1) + 1
           /\ \A i \in 1 .. Len(frames) - 1 : IsScript(frames[i].fn)
<1>1. Len(frames) \in Nat /\ Len(frames) > 1
  BY DEF CanPause
<1>2. \A i \in 1 .. Len(frames) - 1 : IsScript(frames[i].fn)
  BY DEF CanPause
<1>3. \A n \in Nat : n > 1 => /\ n - 1 \in Nat \ {0} /\ n - 1 \in 1 .. n /\ n = (n - 1) + 1
  OBVIOUS
<1> QED
  BY <1>1, <1>2, <1>3

LEMMA StepByCalls ==
    ASSUME CallInv, ByCallsOnly, "yield_in_operator" \notin Ops, Next
    PROVE  ByCallsOnly'
<1>0. /\ frames \in Seq(CallFrame) /\ stack \in Seq(Value) /\ off \in Nat /\ Len(stack) \in Nat
      /\ Layout(frames, off, Len(stack), resumed) /\ Chained(frames)
      /\ Len(frames) \in Nat
  BY DEF CallInv, CallTypes, FramesFit
<1>1. CASE Begin
  <2> PICK site \in Sites :
        /\ IsScript(site.fn)
        /\ frames' = <<[Frame(site.fn, 1, FALSE) EXCEPT !.stkoff = 0]>>
    BY <1>1 DEF Begin
  <2> DEFINE f == [Frame(site.fn, 1, FALSE) EXCEPT !.stkoff = 0]
  <2>1. f.fn = site.fn /\ f.paused = FALSE
    BY DEF Frame
  <2> HIDE DEF f
  <2>2. Last(<<f>>) = f
    BY DEF Last
  <2>3. frames' = <<f>>
    BY DEF f
  <2>4. Plain'
    BY <2>1, <2>2, <2>3 DEF Plain, SF, IsScript
  <2> QED
    BY <2>4, PlainIsFine
<1>2. CASE ScriptCall
  <2> PICK site \in Sites, ends \in BOOLEAN : ScriptCallAt(site, ends)
    BY <1>2, ScriptCallSite
  <2> DEFINE t == LoadedStack(site)
             x == Caller(site, ends)
  <2>1. /\ x \in CallFrame /\ Alike(x, SF) /\ x.wants.op = "call" /\ Waits(x)
        /\ t \in Seq(Value) /\ Len(t) = Len(stack) /\ site.this \in BOOLEAN
        /\ Makes(site.fn, "call")
        /\ VmCall(t \o A!Operands(site), Front(frames) \o <<x>>, site.args, site.this, TRUE)
    BY DEF ScriptCallAt
  <2>2. Running /\ TRUE \in BOOLEAN
    BY <1>2 DEF ScriptCall
  <2> HIDE DEF t, x
  <2> QED
    BY <2>1, <2>2, SiteCallByCalls
<1>3. CASE OperatorCall
  <2> DEFINE x(site) == [SF EXCEPT !.wants = A!Wants("operator", site)]
  <2> PICK site \in Sites :
           /\ site.this /\ Makes(site.fn, "operator")
           /\ VmCall(stack \o A!Operands(site), Front(frames) \o <<x(site)>>, site.args, TRUE, FALSE)
    BY <1>3 DEF OperatorCall
  <2>1. Running /\ IsScript(SF.fn) /\ SF \in CallFrame
    BY <1>3, FramesBelow DEF OperatorCall, Running
  <2>2. A!Wants("operator", site) \in Wait /\ A!Wants("operator", site).op = "operator"
    BY WantsFacts
  <2> DEFINE y == x(site)
  <2>3. y \in CallFrame /\ Alike(y, SF) /\ y.wants.op = "operator"
    BY <2>1, <2>2, WaitingFrame
  <2>4. VmCall(stack \o A!Operands(site), Front(frames) \o <<y>>, site.args, TRUE, FALSE)
    OBVIOUS
  <2>5. TRUE = site.this /\ Makes(site.fn, "operator")
    BY OperandFacts
  <2> HIDE DEF y
  <2>6. Waits(y)
    BY <2>1, <2>3 DEF Waits, Alike
  <2> QED
    BY <1>0, <2>1, <2>3, <2>4, <2>5, <2>6, SiteCallByCalls
<1>4. CASE NativeCall
  <2> DEFINE x(site) == [SF EXCEPT !.wants = A!Wants("native", site)]
  <2> PICK site \in Sites :
           /\ Makes(site.fn, "native")
           /\ VmCall(stack \o A!Operands(site), Front(frames) \o <<x(site)>>,
                     site.args, site.this, FALSE)
    BY <1>4 DEF NativeCall
  <2>1. Running /\ Kind(SF.fn) = "native" /\ SF \in CallFrame
    BY <1>4, FramesBelow DEF NativeCall, Running
  <2>2. A!Wants("native", site) \in Wait /\ A!Wants("native", site).op = "native"
    BY WantsFacts
  <2> DEFINE y == x(site)
  <2>3. y \in CallFrame /\ Alike(y, SF) /\ y.wants.op = "native"
    BY <2>1, <2>2, WaitingFrame
  <2>4. VmCall(stack \o A!Operands(site), Front(frames) \o <<y>>, site.args, site.this, FALSE)
    OBVIOUS
  <2>5. site.this \in BOOLEAN /\ Makes(site.fn, "native")
    BY OperandFacts
  <2> HIDE DEF y
  <2>6. Waits(y)
    BY <2>1, <2>3 DEF Waits, Alike, IsScript
  <2> QED
    BY <1>0, <2>1, <2>3, <2>4, <2>5, <2>6, SiteCallByCalls
<1>5. ASSUME frames # <<>>, NEW s, NEW rvc, Leave(s, frames, rvc) PROVE ByCallsOnly'
  BY <1>0, <1>5, LeavePlain, PlainIsFine
<1>6. ASSUME frames # <<>>, NEW s, NEW rvc, PostCall(s, rvc) PROVE ByCallsOnly'
  BY <1>6, PostCallPlain, PlainIsFine
<1>7. CASE NativeReturn
  BY <1>5, <1>7 DEF NativeReturn, Running
<1>8. ASSUME frames # <<>>, NEW values, ScriptReturn(values) PROVE ByCallsOnly'
  BY <1>5, <1>6, <1>8 DEF ScriptReturn
<1>9. CASE ReturnN
  BY <1>8, <1>9 DEF ReturnN, Running
<1>10. CASE Return1
  <2>1. CASE \E ret \in Rets : ScriptReturn(Values(ret))
    BY <1>8, <1>10, <2>1 DEF Return1, Running
  <2>2. CASE SF.reenter /\ frames' = Answered(Front(frames))
    <3>1. frames # <<>>
      BY <1>10 DEF Return1, Running
    <3>2. /\ Front(frames) # <<>> /\ Called(Last(Front(frames)), SF)
          /\ Front(frames) \in Seq(CallFrame)
      BY <2>2, <3>1, FramesBelow DEF Awaits
    <3>3. Plain'
      BY <2>2, <3>2, AnswerPlain DEF Called
    <3> QED
      BY <3>3, PlainIsFine
  <2> QED
    BY <1>10, <2>1, <2>2 DEF Return1
<1>11. CASE Abort
  <2> DEFINE u == Aborted(Len(frames) - 1)
  <2>1. frames # <<>> /\ \E s : Leave(s, u, 1)
    BY <1>11 DEF Abort, Running
  <2>2. Len(frames) \in Nat \ {0} /\ Len(frames) - 1 \in Nat
    BY <1>0, <2>1
  <2>3. /\ u \in Seq(CallFrame) /\ Len(u) = Len(frames)
        /\ Layout(u, off, Len(stack), resumed) /\ Chained(u)
    BY <2>2, AbortedFacts
  <2> HIDE DEF u
  <2>4. u # <<>>
    BY <2>2, <2>3
  <2>5. Plain'
    BY <1>0, <2>1, <2>3, <2>4, LeavePlain
  <2> QED
    BY <2>5, PlainIsFine
<1>12. CASE AbortPaused
  <2> DEFINE u == Aborted(Len(frames))
             n == Len(frames)
  <2>1. frames' = u /\ frames # <<>> /\ SF.paused
    BY <1>12 DEF AbortPaused
  <2>2. n \in Nat \ {0} /\ n \in 1 .. n /\ SF = frames[n]
    <3>1. Len(frames) \in Nat \ {0} /\ SF = frames[Len(frames)]
      BY <1>0, <2>1 DEF SF, Last
    <3> QED
      BY <3>1
  <2>3. /\ u \in Seq(CallFrame) /\ Len(u) = n
        /\ \A i \in 1 .. n : Alike(u[i], frames[i]) /\ u[i].wants = frames[i].wants
    BY <2>2, AbortedFacts
  <2> HIDE DEF u
  <2>4. SF' = u[n]
    BY <2>1, <2>2, <2>3 DEF SF, Last
  <2>5. IsScript(SF.fn) /\ \A i \in 1 .. n : frames[i].wants.op = "call"
    BY <1>0, <2>1, FramesBelow DEF ByCallsOnly, Innermost
  <2>6. IsScript(SF'.fn) /\ \A i \in DOMAIN frames' : frames'[i].wants.op = "call"
    BY <2>1, <2>2, <2>3, <2>4, <2>5 DEF Alike
  <2> QED
    BY <2>6 DEF ByCallsOnly, IsScript
<1>13. CASE Yield
  <2> DEFINE below == Len(frames) - 1
             paused == [frames EXCEPT ![below].paused = TRUE]
  <2>1. /\ frames # <<>> /\ Kind(SF.fn) = "yield"
        /\ \E rvc : Leave(stack, IF CanPause THEN paused ELSE frames, rvc)
    BY <1>13 DEF Yield, Running
  <2>2. CASE ~CanPause
    BY <1>5, <2>1, <2>2
  <2>3. CASE CanPause
    <3>1. below \in Nat \ {0} /\ \A i \in 1 .. below : IsScript(frames[i].fn)
      BY <1>0, <2>3, CallerBelow
    <3> DEFINE c == Front(paused)
               g == frames[below]
               x == [g EXCEPT !.paused = TRUE]
    <3>2. /\ below \in 1 .. Len(frames) /\ g \in CallFrame /\ Len(frames) = below + 1
      <4>1. below \in 1 .. Len(frames) /\ Len(frames) = below + 1
        BY <1>0, <2>3, CallerBelow
      <4>2. frames \in Seq(CallFrame)
        BY <1>0
      <4> QED
        BY <4>1, <4>2, ElementOfSeq
    <3>3. x \in CallFrame /\ x.fn = g.fn /\ x.wants = g.wants /\ x.paused
      <4>1. \A f \in CallFrame :
              LET y == [f EXCEPT !.paused = TRUE]
              IN  y \in CallFrame /\ y.fn = f.fn /\ y.wants = f.wants /\ y.paused
        BY DEF CallFrame
      <4> HIDE DEF g
      <4> QED
        BY <3>2, <4>1
    <3>4. paused = [frames EXCEPT ![below] = x]
      BY <1>0, <3>2
    <3> HIDE DEF x, paused
    <3>5. /\ paused \in Seq(CallFrame) /\ Len(paused) = Len(frames)
          /\ \A i \in 1 .. Len(frames) : paused[i] = IF i = below THEN x ELSE frames[i]
      BY <1>0, <3>2, <3>3, <3>4, ExceptSeq
    <3> HIDE DEF below
    <3>6. /\ c \in Seq(CallFrame) /\ Len(c) = below
          /\ \A i \in 1 .. below : c[i] = paused[i]
      <4>1. paused # <<>>
        BY <3>2, <3>5
      <4>2. /\ c \in Seq(CallFrame) /\ Len(c) = Len(paused) - 1
            /\ \A i \in 1 .. Len(paused) - 1 : c[i] = paused[i]
        BY <3>5, <4>1, FrontLast
      <4> HIDE DEF c
      <4> QED
        BY <3>1, <3>2, <3>5, <4>2
    <3> HIDE DEF c
    <3>7. \A i \in 1 .. below : c[i].fn = frames[i].fn /\ c[i].wants = frames[i].wants
      BY <3>1, <3>2, <3>3, <3>5, <3>6
    <3>8. Last(c) = x /\ c # <<>>
      BY <3>1, <3>2, <3>5, <3>6 DEF Last
    <3>9. frames' = c
      <4>1. \E t, o, rvc : AfterCall(c, t, o, rvc)
        BY <2>1, <2>3 DEF Leave, c
      <4> QED
        BY <3>3, <3>8, <4>1 DEF AfterCall
    <3>10. \A i \in 1 .. below : frames[i].wants.op = "call"
      <4> TAKE i \in 1 .. below
      <4>1. i \in 1 .. Len(frames) - 1 /\ i \in DOMAIN frames
        BY <1>0, <3>1, <3>2
      <4>2. Waits(frames[i]) /\ IsScript(frames[i].fn)
        BY <1>0, <3>1, <4>1 DEF Chained, Called
      <4>3. frames[i].wants.op # "operator"
        BY <2>1, <4>1 DEF ByCallsOnly
      <4> QED
        BY <4>2, <4>3 DEF Waits
    <3>11. \A i \in DOMAIN frames' : frames'[i].wants.op = "call"
      BY <3>6, <3>7, <3>9, <3>10
    <3>12. IsScript(SF'.fn)
      <4>1. IsScript(g.fn)
        BY <3>1
      <4> QED
        BY <3>3, <3>8, <3>9, <4>1 DEF SF
    <3> QED
      BY <3>11, <3>12 DEF ByCallsOnly, IsScript
  <2> QED
    BY <2>2, <2>3
<1>14. CASE Resume
  <2>1. frames # <<>> /\ SF.paused /\ SF \in CallFrame /\ IsScript(SF.fn)
    BY <1>14, FramesBelow DEF Resume, Innermost
  <2>2. CASE frames' = <<>>
    BY <2>2 DEF ByCallsOnly
  <2> DEFINE b == Front(frames)
             y == [SF EXCEPT !.paused = FALSE]
             fs == b \o <<y>>
             x == [y EXCEPT !.wants = A!NoCall]
  <2>3. CASE frames' = Answered(fs)
    <3>1. x.fn = SF.fn /\ x.paused = FALSE /\ y \in CallFrame /\ x \in CallFrame
      <4>1. \A f \in CallFrame :
              LET g == [f EXCEPT !.paused = FALSE]
                  z == [g EXCEPT !.wants = A!NoCall]
              IN  z.fn = f.fn /\ z.paused = FALSE /\ g \in CallFrame /\ z \in CallFrame
        BY NoCallFacts DEF CallFrame
      <4> QED
        BY <2>1, <4>1
    <3>2. b \in Seq(CallFrame)
      BY <1>0, <2>1, FrontLast
    <3>3. Front(fs) = b /\ Last(fs) = y
      <4> HIDE DEF b, y
      <4> QED
        BY <3>1, <3>2, Extended
    <3>4. frames' = b \o <<x>>
      BY <2>3, <3>3 DEF Answered
    <3> HIDE DEF b, x
    <3>5. Last(b \o <<x>>) = x
      BY <3>1, <3>2, Extended
    <3>6. Plain'
      BY <2>1, <3>1, <3>4, <3>5 DEF Plain, SF, IsScript
    <3> QED
      BY <3>6, PlainIsFine
  <2> QED
    BY <1>14, <2>2, <2>3 DEF Resume
<1> QED
  BY <1>1, <1>2, <1>3, <1>4, <1>7, <1>9, <1>10, <1>11, <1>12, <1>13, <1>14 DEF Next

(* Where metamethods do not yield, a suspended context waits in calls of   *)
(* vm_exec alone: no native code has to go on before it is resumed.        *)
THEOREM AlwaysSuspendedCleanly ==
    ASSUME "yield_in_operator" \notin Ops
    PROVE  Spec => []SuspendedCleanly
<1>1. Init => ByCallsOnly
  BY DEF Init, ByCallsOnly
<1>2. CallInv /\ ByCallsOnly /\ [Next]_vars => ByCallsOnly'
  <2> SUFFICES ASSUME CallInv, ByCallsOnly, [Next]_vars PROVE ByCallsOnly'
    OBVIOUS
  <2>1. CASE Next
    BY <2>1, StepByCalls
  <2>2. CASE UNCHANGED vars
    BY <2>2 DEF ByCallsOnly, vars, SF
  <2> QED
    BY <2>1, <2>2
<1>3. ByCallsOnly => SuspendedCleanly
  BY DEF ByCallsOnly, SuspendedCleanly
<1> QED
  BY <1>1, <1>2, <1>3, FramesAlwaysFit, PTL DEF Spec
=============================================================================
