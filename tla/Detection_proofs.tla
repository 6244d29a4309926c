-------------------------- MODULE Detection_proofs --------------------------
(***************************************************************************)
(* Proofs about what the detection does with a frame: that the suppression *)
(* meets its definition for any rectangles, that the largest valid         *)
(* detection is what is reported, and that the bytes on the UART carry it. *)
(* What the two recursive definitions compute is proved by the             *)
(* least-number principle: from a smallest case in which it would fail.    *)
(***************************************************************************)
EXTENDS Detection, SequenceTheorems, FiniteSetTheorems, WellFoundedInduction, TLAPS

(* A set of natural numbers has a least element.                           *)
LEMMA LeastElement ==
  ASSUME NEW T \in SUBSET Nat, T # {}
  PROVE  \E m \in T : \A k \in T : m <= k
<1> DEFINE R == OpToRel(<, Nat)
<1>1. \E x \in T : \A y \in T : <<y, x>> \notin R
  <2>1. IsWellFoundedOn(R, Nat)
    BY NatLessThanWellFounded
  <2> QED
    BY <2>1, WFMin
<1>2. R = {p \in Nat \X Nat : p[1] < p[2]}
  BY Zenon DEF OpToRel
<1> HIDE DEF R
<1>3. PICK m \in T : \A k \in T : <<k, m>> \notin R
  BY <1>1
<1>4. ASSUME NEW k \in T PROVE m <= k
  <2>1. <<k, m>> \in R <=> k < m
    BY <1>2
  <2> QED
    BY <1>3, <2>1
<1> QED
  BY <1>4

-----------------------------------------------------------------------------
(* The rounds of the suppression                                           *)
Rectangle == [x : Int, y : Int, w : Nat, h : Nat]

(* Two rectangles overlap the same way, whichever comes first.             *)
LEMMA OverlapSymmetric ==
  ASSUME NEW r \in Rectangle, NEW s \in Rectangle, NEW percent \in Int
  PROVE  OverlapsBeyond(r, s, percent) <=> OverlapsBeyond(s, r, percent)
<1>1. /\ r.x \in Int /\ r.y \in Int /\ r.w \in Int /\ r.h \in Int
      /\ s.x \in Int /\ s.y \in Int /\ s.w \in Int /\ s.h \in Int
  BY DEF Rectangle
<1>2. IntersectionArea(r, s) = IntersectionArea(s, r)
  <2>1. Common(r.x, r.w, s.x, s.w) = Common(s.x, s.w, r.x, r.w)
    BY <1>1, SMT DEF Common, Least, Most
  <2>2. Common(r.y, r.h, s.y, s.h) = Common(s.y, s.h, r.y, r.h)
    BY <1>1, SMT DEF Common, Least, Most
  <2> QED
    BY <2>1, <2>2, Zenon DEF IntersectionArea
<1>3. Area(r) \in Int /\ Area(s) \in Int
  BY <1>1, SMT DEF Area
<1>4. IntersectionArea(s, r) \in Int
  BY <1>1, SMT DEF IntersectionArea, Common, Least, Most
<1> DEFINE common == IntersectionArea(s, r)
           a == Area(r)
           b == Area(s)
<1> HIDE DEF common, a, b
<1>5. 100 * common > percent * (a + b - common) <=> 100 * common > percent * (b + a - common)
  BY <1>3, <1>4, SMT DEF common, a, b
<1> QED
  BY <1>2, <1>5, Zenon DEF OverlapsBeyond, common, a, b

(* The multimap has an end: of the indices up to m, either the end of those
   below m, or m itself.                                                   *)
LEMMA LastExists ==
  ASSUME NEW key, NEW l \in Nat, NEW S \in SUBSET (1 .. l), S # {}, \A i \in 1 .. l : key[i] \in Int
  PROVE  \E i \in S : \A j \in S \ {i} : Precedes(key, i, j)
<1> DEFINE HasEnd(X) == \E i \in X : \A j \in X \ {i} : Precedes(key, i, j)
           T == {m \in 0 .. l : \E X \in SUBSET (1 .. m) : X # {} /\ ~HasEnd(X)}
<1>1. SUFFICES T = {}
  <2>1. l \notin T => HasEnd(S)
    OBVIOUS
  <2> QED
    BY <2>1
<1> SUFFICES ASSUME T # {} PROVE FALSE
  OBVIOUS
<1> HIDE DEF HasEnd
<1>2. PICK m \in T : \A k \in T : m <= k
  <2>1. T \in SUBSET Nat
    OBVIOUS
  <2> HIDE DEF T
  <2> QED
    BY <2>1, LeastElement
<1>3. PICK X \in SUBSET (1 .. m) : X # {} /\ ~HasEnd(X)
  OBVIOUS
<1>4. m \in 1 .. l /\ m - 1 \in 0 .. l /\ m - 1 \notin T
  <2>1. m \in 0 .. l
    OBVIOUS
  <2>2. m # 0
    <3>1. 1 .. 0 = {}
      OBVIOUS
    <3> QED
      BY <1>3, <3>1, Zenon
  <2> HIDE DEF T
  <2>3. m - 1 \notin T
    BY <1>2, <2>1
  <2> QED
    BY <2>1, <2>2, <2>3
<1>5. ASSUME NEW Y \in SUBSET (1 .. m - 1), Y # {} PROVE HasEnd(Y)
  BY <1>4, <1>5
<1>6. m \in X
  <2> SUFFICES ASSUME m \notin X PROVE FALSE
    OBVIOUS
  <2>1. X \in SUBSET (1 .. m - 1)
    BY <1>4
  <2> QED
    BY <1>3, <1>5, <2>1
<1> DEFINE Y == X \ {m}
<1>7. Y \in SUBSET (1 .. m - 1)
  BY <1>4
<1>8. CASE Y = {}
  BY <1>3, <1>6, <1>8 DEF HasEnd
<1>9. CASE Y # {}
  <2>1. PICK e \in Y : \A j \in Y \ {e} : Precedes(key, e, j)
    BY <1>5, <1>7, <1>9 DEF HasEnd
  <2>2. /\ \A j \in Y : j < m /\ key[j] \in Int
        /\ key[m] \in Int
    BY <1>4, <1>7
  <2>3. CASE key[m] >= key[e]
    <3>1. \A j \in X \ {m} : Precedes(key, m, j)
      BY <2>1, <2>2, <2>3 DEF Precedes
    <3> QED
      BY <1>3, <1>6, <3>1 DEF HasEnd
  <2>4. CASE ~(key[m] >= key[e])
    <3>1. Precedes(key, e, m)
      BY <2>2, <2>4 DEF Precedes
    <3>2. \A j \in X \ {e} : Precedes(key, e, j)
      BY <2>1, <3>1
    <3> QED
      BY <1>3, <3>2 DEF HasEnd
  <2> QED
    BY <2>3, <2>4
<1> QED
  BY <1>8, <1>9

(* The keys of a multimap for the rectangles.                              *)
Keyed(rects, key) ==
  /\ Len(rects) \in Nat /\ DOMAIN rects = 1 .. Len(rects)
  /\ \A i \in DOMAIN rects : key[i] \in Int

(* The rectangle that is taken is one of those that are left, and precedes
   all others.                                                             *)
LEMMA LastTaken ==
  ASSUME NEW rects, NEW key, Keyed(rects, key), NEW S \in SUBSET DOMAIN rects, S # {}
  PROVE  /\ LastElem(key, S) \in S
         /\ \A j \in S \ {LastElem(key, S)} : Precedes(key, LastElem(key, S), j)
<1> DEFINE l == Len(rects)
<1>1. l \in Nat /\ S \in SUBSET (1 .. l) /\ \A i \in 1 .. l : key[i] \in Int
  BY DEF Keyed
<1> HIDE DEF l
<1>2. \E i \in S : \A j \in S \ {i} : Precedes(key, i, j)
  BY <1>1, LastExists
<1> QED
  BY <1>2 DEF LastElem

(* A round takes the last of S and removes those near it.                  *)
Later(rects, key, percent, S) ==
  LET last == LastElem(key, S)
  IN  S \ (Near(rects, percent, last, S) \cup {last})

(* One round of the loop, when the rectangles of S are left: what it pushes
   comes before the result of the later rounds.                            *)
Round(rects, key, percent, neighbors, scored, from, S) ==
  IF S = {} THEN <<>>
  ELSE LET last == LastElem(key, S)
           near == Near(rects, percent, last, S)
           rest == from[S \ (near \cup {last})]
       IN  IF /\ Cardinality(near) >= neighbors
              /\ \A c \in scored : ScoresSum(last, near, c.scores) >= c.minScoresSum
           THEN <<rects[last]>> \o rest ELSE rest

(* Every round leaves fewer.                                               *)
LEMMA FewerLater ==
  ASSUME NEW rects, NEW key, Keyed(rects, key), NEW percent,
         NEW S \in SUBSET DOMAIN rects, S # {}
  PROVE  /\ Later(rects, key, percent, S) \in SUBSET DOMAIN rects
         /\ IsFiniteSet(S) /\ IsFiniteSet(Later(rects, key, percent, S))
         /\ Cardinality(S) \in Nat /\ Cardinality(Later(rects, key, percent, S)) \in Nat
         /\ Cardinality(Later(rects, key, percent, S)) < Cardinality(S)
<1> DEFINE R == Later(rects, key, percent, S)
           last == LastElem(key, S)
<1>1. last \in S /\ R \in SUBSET S /\ R \in SUBSET (S \ {last})
  BY LastTaken DEF Later
<1>2. IsFiniteSet(S)
  <2>1. IsFiniteSet(DOMAIN rects)
    BY FS_Interval DEF Keyed
  <2> QED
    BY <2>1, FS_Subset
<1>3. IsFiniteSet(S \ {last}) /\ Cardinality(S \ {last}) = Cardinality(S) - 1
  BY <1>1, <1>2, FS_RemoveElement
<1> HIDE DEF R, last
<1>4. IsFiniteSet(R) /\ Cardinality(R) <= Cardinality(S) - 1
  BY <1>1, <1>3, FS_Subset
<1>5. Cardinality(S) \in Nat /\ Cardinality(R) \in Nat
  BY <1>2, <1>4, FS_CardinalityType
<1> QED
  BY <1>1, <1>2, <1>4, <1>5 DEF R

(* The function that the suppression defines by recursion exists: for the sets of no
   more than k indices, for every k.                                       *)
LEMMA RoundsExist ==
  ASSUME NEW rects, NEW key, Keyed(rects, key), NEW percent, NEW neighbors, NEW scored
  PROVE  \E from : from = [S \in SUBSET DOMAIN rects |-> Round(rects, key, percent, neighbors, scored, from, S)]
<1> DEFINE D == SUBSET DOMAIN rects
           Upto(k) == {S \in D : Cardinality(S) <= k}
           Step(from, S) == Round(rects, key, percent, neighbors, scored, from, S)
           T == {k \in Nat : ~ \E from : from = [S \in Upto(k) |-> Step(from, S)]}
<1>1. \A S \in D : IsFiniteSet(S) /\ Cardinality(S) \in Nat
  <2>1. IsFiniteSet(DOMAIN rects)
    BY FS_Interval DEF Keyed
  <2> QED
    BY <2>1, FS_Subset, FS_CardinalityType
<1>2. ASSUME NEW S \in D, S # {}
      PROVE  /\ Later(rects, key, percent, S) \in D
             /\ Cardinality(Later(rects, key, percent, S)) < Cardinality(S)
  BY <1>2, FewerLater
<1>3. ASSUME NEW S \in D, NEW f, NEW g, S = {} \/ f[Later(rects, key, percent, S)] = g[Later(rects, key, percent, S)]
      PROVE  Step(f, S) = Step(g, S)
  BY <1>3 DEF Round, Later
<1> HIDE DEF Step
<1>4. T = {}
  <2> SUFFICES ASSUME T # {} PROVE FALSE
    OBVIOUS
  <2>1. PICK m \in T : \A k \in T : m <= k
    <3>1. T \in SUBSET Nat
      OBVIOUS
    <3> HIDE DEF T
    <3> QED
      BY <3>1, LeastElement
  <2>2. CASE m = 0
    <3> DEFINE from == [S \in Upto(0) |-> <<>>]
    <3>1. ASSUME NEW S \in Upto(0) PROVE S = {}
      <4>1. IsFiniteSet(S) /\ Cardinality(S) = 0
        BY <1>1
      <4> QED
        BY <4>1, FS_EmptySet
    <3>2. ASSUME NEW S \in Upto(0) PROVE Step(from, S) = <<>>
      BY <3>1 DEF Step, Round
    <3>3. from = [S \in Upto(0) |-> Step(from, S)]
      BY <3>2
    <3> QED
      BY <2>1, <2>2, <3>3
  <2>3. CASE m # 0
    <3>1. m \in Nat /\ m - 1 \in Nat /\ m - 1 \notin T
      <4>1. m \in Nat
        OBVIOUS
      <4> HIDE DEF T
      <4> QED
        BY <2>1, <2>3, <4>1
    <3>2. PICK from : from = [S \in Upto(m - 1) |-> Step(from, S)]
      BY <3>1
    <3> DEFINE more == [S \in Upto(m) |-> IF S \in Upto(m - 1) THEN from[S] ELSE Step(from, S)]
    <3>3. \A S \in Upto(m) : more[S] = Step(from, S)
      BY <3>2
    <3>4. ASSUME NEW S \in Upto(m) PROVE more[S] = Step(more, S)
      <4> DEFINE R == Later(rects, key, percent, S)
      <4>1. S \in D
        OBVIOUS
      <4>2. CASE S = {}
        <5>1. Step(more, S) = Step(from, S)
          BY <1>3, <4>1, <4>2
        <5> QED
          BY <3>3, <5>1
      <4>3. CASE S # {}
        <5>1. R \in D /\ Cardinality(R) < Cardinality(S) /\ Cardinality(R) \in Nat
              /\ Cardinality(S) \in Nat /\ Cardinality(S) <= m
          BY <1>1, <1>2, <4>3
        <5> HIDE DEF R
        <5>2. R \in Upto(m - 1) /\ R \in Upto(m)
          BY <3>1, <5>1
        <5>3. more[R] = from[R]
          BY <5>2
        <5> HIDE DEF more
        <5>4. Step(more, S) = Step(from, S)
          BY <1>3, <4>1, <5>3 DEF R
        <5> QED
          BY <3>3, <5>4
      <4> QED
        BY <4>2, <4>3
    <3>5. more = [S \in Upto(m) |-> Step(more, S)]
      <4>1. more = [S \in Upto(m) |-> more[S]]
        OBVIOUS
      <4> HIDE DEF more
      <4> QED
        BY <3>4, <4>1
    <3> QED
      BY <2>1, <3>5
  <2> QED
    BY <2>2, <2>3
<1>5. Cardinality(DOMAIN rects) \in Nat /\ Upto(Cardinality(DOMAIN rects)) = D
  <2>1. IsFiniteSet(DOMAIN rects) /\ DOMAIN rects \in D
    BY <1>1
  <2>2. \A S \in D : Cardinality(S) <= Cardinality(DOMAIN rects)
    BY <2>1, FS_Subset
  <2> QED
    BY <1>1, <2>1, <2>2
<1>6. PICK from : from = [S \in D |-> Step(from, S)]
  <2>1. Cardinality(DOMAIN rects) \notin T
    BY <1>4
  <2>2. \E from : from = [S \in Upto(Cardinality(DOMAIN rects)) |-> Step(from, S)]
    BY <1>5, <2>1
  <2> QED
    BY <1>5, <2>2, Zenon
<1> QED
  BY <1>6 DEF Step

(* The suppression is the last value of that function.                     *)
IsSuppression(from, rects, key, percent, neighbors, scored) ==
  /\ \A S \in SUBSET DOMAIN rects :
       from[S] = Round(rects, key, percent, neighbors, scored, from, S)
  /\ Suppressed(rects, key, percent, neighbors, scored) = from[DOMAIN rects]

LEMMA SuppressedRounds ==
  ASSUME NEW rects, NEW key, Keyed(rects, key), NEW percent, NEW neighbors, NEW scored
  PROVE  \E from : IsSuppression(from, rects, key, percent, neighbors, scored)
<1> DEFINE D == SUBSET DOMAIN rects
           Step(from, S) == Round(rects, key, percent, neighbors, scored, from, S)
           from == CHOOSE from : from = [S \in D |-> Step(from, S)]
<1>1. from = [S \in D |-> Step(from, S)]
  BY RoundsExist
<1>2. Suppressed(rects, key, percent, neighbors, scored) = from[DOMAIN rects]
  BY Zenon DEF Suppressed, Round
<1> HIDE DEF Step, from
<1>3. \A S \in D : from[S] = Step(from, S)
  BY <1>1
<1> QED
  BY <1>2, <1>3 DEF IsSuppression, Step

(* What holds of no rectangles, and of those of S if it holds of those that
   a round leaves of S, holds of all.                                      *)
Inductive(T, rects, key, percent) ==
  /\ {} \in T
  /\ \A S \in SUBSET DOMAIN rects :
       S # {} /\ Later(rects, key, percent, S) \in T => S \in T

LEMMA RoundsInduction ==
  ASSUME NEW rects, NEW key, Keyed(rects, key), NEW percent,
         NEW T, Inductive(T, rects, key, percent)
  PROVE  DOMAIN rects \in T
<1> DEFINE D == SUBSET DOMAIN rects
           Bad == {k \in Nat : \E S \in D : Cardinality(S) = k /\ S \notin T}
<1>1. Bad = {}
  <2> SUFFICES ASSUME Bad # {} PROVE FALSE
    OBVIOUS
  <2>1. PICK m \in Bad : \A k \in Bad : m <= k
    <3>1. Bad \in SUBSET Nat
      OBVIOUS
    <3> HIDE DEF Bad
    <3> QED
      BY <3>1, LeastElement
  <2>2. PICK S \in D : Cardinality(S) = m /\ S \notin T
    OBVIOUS
  <2> DEFINE R == Later(rects, key, percent, S)
  <2>3. S # {} /\ R \notin T
    BY <2>2 DEF Inductive
  <2>4. R \in D /\ Cardinality(R) \in Nat /\ Cardinality(R) < m /\ m \in Nat
    BY <2>2, <2>3, FewerLater
  <2> HIDE DEF R
  <2>5. Cardinality(R) \in Bad
    BY <2>3, <2>4
  <2> HIDE DEF Bad
  <2> QED
    BY <2>1, <2>4, <2>5
<1>2. IsFiniteSet(DOMAIN rects)
  BY FS_Interval DEF Keyed
<1>3. Cardinality(DOMAIN rects) \in Nat /\ DOMAIN rects \in D
  BY <1>2, FS_CardinalityType
<1> QED
  BY <1>1, <1>3

(* A sequence with one more element at its beginning.                      *)
LEMMA Prepended ==
  ASSUME NEW V, NEW e \in V, NEW s \in Seq(V)
  PROVE  /\ <<e>> \o s \in Seq(V) /\ Len(s) \in Nat /\ Len(<<e>> \o s) = Len(s) + 1
         /\ DOMAIN s = 1 .. Len(s) /\ DOMAIN (<<e>> \o s) = 1 .. Len(s) + 1
         /\ (<<e>> \o s)[1] = e
         /\ \A n \in 1 .. Len(s) : (<<e>> \o s)[n + 1] = s[n]
         /\ \A n \in 1 .. Len(s) + 1 : n = 1 \/ (n - 1 \in 1 .. Len(s) /\ (<<e>> \o s)[n] = s[n - 1])
<1>1. <<e>> \in Seq(V) /\ Len(<<e>>) = 1 /\ <<e>>[1] = e
  OBVIOUS
<1> DEFINE h == <<e>>
           t == h \o s
<1>2. h \in Seq(V) /\ Len(h) = 1 /\ h[1] = e
  BY <1>1
<1> HIDE DEF h
<1>3. /\ t \in Seq(V) /\ Len(t) = 1 + Len(s) /\ Len(s) \in Nat
      /\ \A i \in 1 .. 1 + Len(s) : t[i] = IF i <= 1 THEN h[i] ELSE s[i - 1]
  <2>1. /\ t \in Seq(V) /\ Len(t) = Len(h) + Len(s)
        /\ \A i \in 1 .. Len(h) + Len(s) : t[i] = IF i <= Len(h) THEN h[i] ELSE s[i - Len(h)]
    BY <1>2, ConcatProperties
  <2>2. Len(s) \in Nat
    BY LenProperties
  <2> HIDE DEF t
  <2> QED
    BY <1>2, <2>1, <2>2
<1> HIDE DEF t
<1>4. DOMAIN s = 1 .. Len(s) /\ DOMAIN t = 1 .. Len(s) + 1
  BY <1>3, LenProperties
<1>5. t[1] = e
  BY <1>2, <1>3
<1>6. \A n \in 1 .. Len(s) : t[n + 1] = s[n]
  BY <1>3
<1>7. \A n \in 1 .. Len(s) + 1 : n = 1 \/ (n - 1 \in 1 .. Len(s) /\ t[n] = s[n - 1])
  BY <1>3
<1> QED
  BY <1>3, <1>4, <1>5, <1>6, <1>7 DEF t, h

-----------------------------------------------------------------------------
(* nms                                                                     *)
LEMMA BottomsKeyed ==
  ASSUME NEW rects \in Seq(Rectangle)
  PROVE  Keyed(rects, Bottoms(rects))
<1>1. Len(rects) \in Nat /\ DOMAIN rects = 1 .. Len(rects)
  BY LenProperties
<1>2. \A i \in DOMAIN rects : rects[i] \in Rectangle
  BY LenProperties, ElementOfSeq
<1>3. \A i \in DOMAIN rects : Bottoms(rects)[i] \in Int
  BY <1>2 DEF Bottoms, Bottom, Rectangle
<1> QED
  BY <1>1, <1>3 DEF Keyed

(* No rectangle that is left reaches further down than the one taken.      *)
LEMMA LowestTaken ==
  ASSUME NEW rects \in Seq(Rectangle), NEW S \in SUBSET DOMAIN rects, S # {}
  PROVE  /\ LastElem(Bottoms(rects), S) \in S
         /\ \A j \in S : Bottom(rects[LastElem(Bottoms(rects), S)]) >= Bottom(rects[j])
<1> DEFINE key == Bottoms(rects)
           last == LastElem(key, S)
<1>1. \A i \in DOMAIN rects : key[i] = Bottom(rects[i])
  BY DEF Bottoms
<1>2. \A i \in DOMAIN rects : key[i] \in Int
  BY BottomsKeyed DEF Keyed
<1>3. last \in S /\ \A j \in S \ {last} : Precedes(key, last, j)
  BY BottomsKeyed, LastTaken
<1> HIDE DEF key, last
<1>4. ASSUME NEW j \in S PROVE Bottom(rects[last]) >= Bottom(rects[j])
  <2>1. key[last] >= key[j]
    BY <1>2, <1>3 DEF Precedes
  <2> QED
    BY <1>1, <1>3, <2>1
<1> QED
  BY <1>3, <1>4 DEF key, last

(* What the result of the rounds that start with the rectangles of S is:
   some of them, no two of which overlap, and each of them is there or
   overlaps one that is and that reaches at least as far down.             *)
Meets(kept, rects, percent, neighbors, S) ==
  /\ kept \in Seq({rects[i] : i \in S}) /\ Len(kept) <= Cardinality(S)
  /\ \A m, n \in DOMAIN kept : m # n => ~OverlapsBeyond(kept[m], kept[n], percent)
  /\ neighbors = 0 =>
       \A i \in S : \E n \in DOMAIN kept :
          \/ kept[n] = rects[i]
          \/ OverlapsBeyond(kept[n], rects[i], percent) /\ Bottom(kept[n]) >= Bottom(rects[i])

(* One round: the rectangle that is pushed overlaps none of those that are
   left, and those it removes it overlaps.                                 *)
LEMMA RoundMeets ==
  ASSUME NEW rects \in Seq(Rectangle), NEW percent \in Int, NEW neighbors \in Nat,
         NEW from, NEW S \in SUBSET DOMAIN rects, S # {},
         Meets(from[Later(rects, Bottoms(rects), percent, S)], rects, percent, neighbors, Later(rects, Bottoms(rects), percent, S))
  PROVE  Meets(Round(rects, Bottoms(rects), percent, neighbors, {}, from, S), rects, percent, neighbors, S)
<1> DEFINE last == LastElem(Bottoms(rects), S)
           near == Near(rects, percent, last, S)
           R == Later(rects, Bottoms(rects), percent, S)
           rest == from[R]
           V == {rects[i] : i \in S}
           W == {rects[i] : i \in R}
           kept == Round(rects, Bottoms(rects), percent, neighbors, {}, from, S)
<1>1. \A i \in DOMAIN rects : rects[i] \in Rectangle
  BY ElementOfSeq, LenProperties
<1>2. last \in S /\ \A j \in S : Bottom(rects[last]) >= Bottom(rects[j])
  BY LowestTaken
<1>3. R = S \ (near \cup {last}) /\ R \in SUBSET S
  BY DEF Later
<1>4. \A j \in near : j \in S /\ OverlapsBeyond(rects[last], rects[j], percent)
  BY DEF Near
<1>5. \A j \in R : ~OverlapsBeyond(rects[last], rects[j], percent)
  BY <1>3 DEF Near
<1>6. Cardinality(near) \in Nat
  <2>1. IsFiniteSet(S) /\ near \in SUBSET S
    BY <1>4, BottomsKeyed, FewerLater
  <2> QED
    BY <2>1, FS_Subset, FS_CardinalityType
<1>7. Cardinality(R) \in Nat /\ Cardinality(S) \in Nat /\ Cardinality(R) < Cardinality(S)
  BY BottomsKeyed, FewerLater
<1>8. kept = IF Cardinality(near) >= neighbors THEN <<rects[last]>> \o rest ELSE rest
  BY DEF Round, Later
<1>9. /\ rest \in Seq(W) /\ Len(rest) <= Cardinality(R) /\ W \subseteq V /\ W \subseteq Rectangle
      /\ \A m, n \in DOMAIN rest : m # n => ~OverlapsBeyond(rest[m], rest[n], percent)
      /\ neighbors = 0 =>
           \A i \in R : \E n \in DOMAIN rest :
              \/ rest[n] = rects[i]
              \/ OverlapsBeyond(rest[n], rects[i], percent) /\ Bottom(rest[n]) >= Bottom(rects[i])
  BY <1>1, <1>3 DEF Meets
<1> HIDE DEF last, near, R, rest, kept, W
<1>10. /\ rest \in Seq(V) /\ Len(rest) \in Nat /\ DOMAIN rest = 1 .. Len(rest)
       /\ \A n \in DOMAIN rest : \E j \in R : rest[n] = rects[j]
  <2>1. rest \in Seq(V)
    BY <1>9, SeqMonotonic
  <2>2. \A n \in DOMAIN rest : rest[n] \in W
    BY <1>9, ElementOfSeq, LenProperties
  <2> QED
    BY <2>1, <2>2, LenProperties DEF W
<1>11. CASE ~(Cardinality(near) >= neighbors)
  <2>1. neighbors # 0
    BY <1>6, <1>11
  <2>2. Len(rest) <= Cardinality(S)
    BY <1>7, <1>9, <1>10
  <2>3. Meets(rest, rects, percent, neighbors, S)
    BY <1>9, <1>10, <2>1, <2>2 DEF Meets
  <2>4. kept = rest
    BY <1>8, <1>11
  <2> QED
    BY <2>3, <2>4 DEF kept
<1>12. CASE Cardinality(near) >= neighbors
  <2> DEFINE e == rects[last]
  <2>1. e \in V /\ e \in Rectangle /\ kept = <<e>> \o rest
    BY <1>1, <1>2, <1>8, <1>12
  <2> HIDE DEF e, V
  <2>2. /\ kept \in Seq(V) /\ Len(kept) = Len(rest) + 1 /\ DOMAIN kept = 1 .. Len(rest) + 1
        /\ kept[1] = e
        /\ \A n \in 1 .. Len(rest) : kept[n + 1] = rest[n]
        /\ \A n \in 1 .. Len(rest) + 1 : n = 1 \/ (n - 1 \in 1 .. Len(rest) /\ kept[n] = rest[n - 1])
    BY <1>10, <2>1, Prepended
  <2>3. \A n \in DOMAIN rest : /\ ~OverlapsBeyond(e, rest[n], percent)
                               /\ ~OverlapsBeyond(rest[n], e, percent)
    <3> TAKE n \in DOMAIN rest
    <3>1. PICK j \in R : rest[n] = rects[j]
      BY <1>10
    <3>2. rects[j] \in Rectangle /\ ~OverlapsBeyond(e, rects[j], percent)
      BY <1>1, <1>3, <1>5, <3>1 DEF e
    <3> QED
      BY <2>1, <3>1, <3>2, OverlapSymmetric
  <2>4. ASSUME NEW m \in DOMAIN kept, NEW n \in DOMAIN kept, m # n
        PROVE  ~OverlapsBeyond(kept[m], kept[n], percent)
    <3>1. CASE m = 1
      <4>1. n - 1 \in DOMAIN rest /\ kept[n] = rest[n - 1]
        BY <1>10, <2>2, <2>4, <3>1
      <4> QED
        BY <2>2, <2>3, <3>1, <4>1
    <3>2. CASE n = 1
      <4>1. m - 1 \in DOMAIN rest /\ kept[m] = rest[m - 1]
        BY <1>10, <2>2, <2>4, <3>2
      <4> QED
        BY <2>2, <2>3, <3>2, <4>1
    <3>3. CASE m # 1 /\ n # 1
      <4>1. /\ m - 1 \in DOMAIN rest /\ kept[m] = rest[m - 1]
            /\ n - 1 \in DOMAIN rest /\ kept[n] = rest[n - 1]
        BY <1>10, <2>2, <3>3
      <4>2. m - 1 # n - 1
        BY <1>10, <2>2, <2>4
      <4> QED
        BY <1>9, <4>1, <4>2
    <3> QED
      BY <3>1, <3>2, <3>3
  <2>5. ASSUME neighbors = 0, NEW i \in S
        PROVE  \E n \in DOMAIN kept :
                 \/ kept[n] = rects[i]
                 \/ OverlapsBeyond(kept[n], rects[i], percent) /\ Bottom(kept[n]) >= Bottom(rects[i])
    <3>1. 1 \in DOMAIN kept
      BY <1>10, <2>2
    <3>2. CASE i = last
      BY <2>2, <3>1, <3>2 DEF e
    <3>3. CASE i \in near
      <4>1. OverlapsBeyond(e, rects[i], percent) /\ Bottom(e) >= Bottom(rects[i])
        BY <1>2, <1>4, <3>3 DEF e
      <4> QED
        BY <2>2, <3>1, <4>1
    <3>4. CASE i \in R
      <4>1. PICK n \in DOMAIN rest :
              \/ rest[n] = rects[i]
              \/ OverlapsBeyond(rest[n], rects[i], percent) /\ Bottom(rest[n]) >= Bottom(rects[i])
        BY <1>9, <2>5, <3>4
      <4>2. n + 1 \in DOMAIN kept /\ kept[n + 1] = rest[n]
        BY <1>10, <2>2
      <4> QED
        BY <4>1, <4>2
    <3> QED
      BY <1>3, <3>2, <3>3, <3>4
  <2>6. Len(kept) <= Cardinality(S)
    BY <1>7, <1>9, <1>10, <2>2
  <2> QED
    BY <2>2, <2>4, <2>5, <2>6 DEF Meets, kept, V
<1> QED
  BY <1>11, <1>12

(* nms meets its definition, for any rectangles and any threshold.         *)
THEOREM NmsMeetsDefinition ==
  ASSUME NEW rects \in Seq(Rectangle), NEW percent \in Int, NEW neighbors \in Nat
  PROVE  Meets(nms(rects, percent, neighbors), rects, percent, neighbors, DOMAIN rects)
<1> DEFINE key == Bottoms(rects)
<1>1. Keyed(rects, key)
  BY BottomsKeyed
<1>2. PICK from : IsSuppression(from, rects, key, percent, neighbors, {})
  BY <1>1, SuppressedRounds
<1>3. nms(rects, percent, neighbors) = from[DOMAIN rects]
  BY <1>2 DEF IsSuppression, nms
<1>4. \A S \in SUBSET DOMAIN rects : from[S] = Round(rects, key, percent, neighbors, {}, from, S)
  BY <1>2 DEF IsSuppression
<1> DEFINE Good(S) == Meets(from[S], rects, percent, neighbors, S)
           T == {S \in SUBSET DOMAIN rects : Good(S)}
<1>5. Good({})
  <2>1. from[{}] = <<>>
    BY <1>4 DEF Round
  <2>2. <<>> \in Seq({rects[i] : i \in {}}) /\ Len(<<>>) = 0 /\ DOMAIN <<>> = {}
    BY EmptySeq
  <2>3. Cardinality({}) = 0
    BY FS_EmptySet
  <2> QED
    BY <2>1, <2>2, <2>3 DEF Meets
<1>6. ASSUME NEW S \in SUBSET DOMAIN rects, S # {}, Good(Later(rects, key, percent, S))
      PROVE  Good(S)
  BY <1>4, <1>6, RoundMeets
<1> HIDE DEF Good, key
<1>7. Inductive(T, rects, key, percent)
  BY <1>5, <1>6 DEF Inductive
<1>8. DOMAIN rects \in T
  <2> HIDE DEF T
  <2> QED
    BY <1>1, <1>7, RoundsInduction
<1> QED
  BY <1>3, <1>8 DEF Good

-----------------------------------------------------------------------------
(* nms2.  The reference of Suppression.tla, for the rectangles of S alone:  *)
(* K are those that are kept, and each stands for some of S.               *)
IsKept(K, rects, key, percent, S) ==
  /\ K \in SUBSET S
  /\ \A i \in S : i \in K <=> ~\E k \in K : /\ Precedes(key, k, i)
                                            /\ OverlapsBeyond(rects[k], rects[i], percent)

StandsIn(K, rects, key, percent, S, k) ==
  {k} \cup {i \in S \ K :
              /\ OverlapsBeyond(rects[k], rects[i], percent)
              /\ \A j \in K : OverlapsBeyond(rects[j], rects[i], percent)
                                => j = k \/ Precedes(key, k, j)}

SumOfScores(scores, all) == MapThenSumSet(LAMBDA i : scores[i], all)

Suffices(all, scores, neighbors, minSum) ==
  Cardinality(all) > neighbors /\ SumOfScores(scores, all) >= minSum

Sufficient(K, rects, scores, percent, neighbors, minSum, S) ==
  {k \in K : Suffices(StandsIn(K, rects, scores, percent, S, k), scores, neighbors, minSum)}

(* The rectangles of the indices in E, in the order of falling keys.       *)
Ranking(order, key, E) ==
  /\ order \in [1 .. Cardinality(E) -> E]
  /\ \A m, n \in DOMAIN order : m < n => Precedes(key, order[m], order[n])

RankedCopy(result, rects, key, E) ==
  \E order : Ranking(order, key, E) /\ result = [n \in DOMAIN order |-> rects[order[n]]]

(* What one round takes away: the last of S and those near it; it stands
   for them, and the others stand for the same ones as without it.         *)
LEMMA RoundKeeps ==
  ASSUME NEW rects, NEW key, Keyed(rects, key), NEW percent,
         NEW S \in SUBSET DOMAIN rects, S # {},
         NEW K, IsKept(K, rects, key, percent, Later(rects, key, percent, S))
  PROVE  LET last == LastElem(key, S)
             near == Near(rects, percent, last, S)
             R    == Later(rects, key, percent, S)
             all  == K \cup {last}
         IN  /\ last \notin K /\ last \notin near
             /\ \A k \in K : Precedes(key, last, k)
             /\ IsKept(all, rects, key, percent, S)
             /\ StandsIn(all, rects, key, percent, S, last) = near \cup {last}
             /\ \A k \in K : StandsIn(all, rects, key, percent, S, k)
                               = StandsIn(K, rects, key, percent, R, k)
<1> DEFINE last == LastElem(key, S)
           near == Near(rects, percent, last, S)
           R    == Later(rects, key, percent, S)
           all  == K \cup {last}
           Over(j, i) == OverlapsBeyond(rects[j], rects[i], percent)
<1>1. last \in S /\ \A j \in S \ {last} : Precedes(key, last, j)
  BY LastTaken
<1>2. R = S \ (near \cup {last}) /\ \A j : j \in near <=> j \in S /\ j # last /\ Over(last, j)
  BY DEF Later, Near
<1>3. /\ K \in SUBSET R
      /\ \A i \in R : i \in K <=> ~\E k \in K : Precedes(key, k, i) /\ Over(k, i)
  BY DEF IsKept
<1>4. \A i \in S : key[i] \in Int /\ i \in Int
  BY DEF Keyed
<1> HIDE DEF last, near, R, Over
<1>5. \A i, j \in S : Precedes(key, i, j) => ~Precedes(key, j, i) /\ i # j
  BY <1>4 DEF Precedes
<1>6. \A k \in K : k \in S /\ k # last /\ k \notin near /\ Precedes(key, last, k)
                   /\ ~Precedes(key, k, last)
  BY <1>1, <1>2, <1>3, <1>5
<1>7. last \notin K /\ last \notin near /\ all \in SUBSET S
  BY <1>1, <1>2, <1>6
<1>8. \A i \in R : i \in S /\ i # last /\ ~Over(last, i)
  BY <1>2
<1>9. ASSUME NEW i \in S
      PROVE  i \in all <=> ~\E k \in all : Precedes(key, k, i) /\ Over(k, i)
  <2>1. CASE i = last
    <3>1. ~\E k \in all : Precedes(key, k, last)
      BY <1>1, <1>5, <1>6
    <3> QED
      BY <2>1, <3>1
  <2>2. CASE i \in near
    <3>1. i \notin all /\ Precedes(key, last, i) /\ Over(last, i)
      BY <1>1, <1>2, <1>6, <2>2
    <3> QED
      BY <3>1
  <2>3. CASE i \in R
    <3>1. i \in all <=> i \in K
      BY <1>8, <2>3
    <3>2. (\E k \in all : Precedes(key, k, i) /\ Over(k, i))
            <=> \E k \in K : Precedes(key, k, i) /\ Over(k, i)
      BY <1>8, <2>3
    <3> QED
      BY <1>3, <2>3, <3>1, <3>2
  <2> QED
    BY <1>2, <2>1, <2>2, <2>3
<1> DEFINE Others(k)  == {i \in S \ all : Over(k, i) /\ \A j \in all : Over(j, i) => j = k \/ Precedes(key, k, j)}
           OthersR(k) == {i \in R \ K : Over(k, i) /\ \A j \in K : Over(j, i) => j = k \/ Precedes(key, k, j)}
<1>10. Others(last) = near
  <2>1. ASSUME NEW i, i \in near PROVE i \in Others(last)
    BY <1>2, <1>6, <2>1
  <2>2. ASSUME NEW i, i \in Others(last) PROVE i \in near
    BY <1>2, <2>2
  <2> QED
    BY <2>1, <2>2
<1>11. ASSUME NEW k \in K PROVE Others(k) = OthersR(k)
  <2>1. ASSUME NEW i, i \in Others(k) PROVE i \in OthersR(k)
    <3>1. ~Over(last, i)
      BY <1>6, <2>1
    <3>2. i \in R \ K
      BY <1>2, <2>1, <3>1
    <3> QED
      BY <2>1, <3>2
  <2>2. ASSUME NEW i, i \in OthersR(k) PROVE i \in Others(k)
    BY <1>8, <2>2
  <2> QED
    BY <2>1, <2>2
<1>12. StandsIn(all, rects, key, percent, S, last) = near \cup {last}
  <2>1. StandsIn(all, rects, key, percent, S, last) = {last} \cup Others(last)
    BY Zenon DEF StandsIn, Over
  <2> HIDE DEF Others
  <2> QED
    BY <1>10, <2>1
<1>13. ASSUME NEW k \in K
       PROVE  StandsIn(all, rects, key, percent, S, k) = StandsIn(K, rects, key, percent, R, k)
  <2>1. StandsIn(all, rects, key, percent, S, k) = {k} \cup Others(k)
    BY Zenon DEF StandsIn, Over
  <2>2. StandsIn(K, rects, key, percent, R, k) = {k} \cup OthersR(k)
    BY Zenon DEF StandsIn, Over
  <2> HIDE DEF Others, OthersR
  <2> QED
    BY <1>11, <2>1, <2>2
<1>14. IsKept(all, rects, key, percent, S)
  <2> HIDE DEF all
  <2> QED
    BY <1>7, <1>9 DEF IsKept, Over
<1> QED
  BY <1>6, <1>7, <1>12, <1>13, <1>14, Zenon DEF last, near, R

(* The ranking gets one more index, which precedes all others.             *)
LEMMA RankingPrepended ==
  ASSUME NEW rects, NEW key, NEW E, IsFiniteSet(E), NEW last, last \notin E,
         \A k \in E : Precedes(key, last, k),
         NEW rest, RankedCopy(rest, rects, key, E)
  PROVE  RankedCopy(<<rects[last]>> \o rest, rects, key, E \cup {last})
<1> DEFINE all == E \cup {last}
           c   == Cardinality(E)
           V   == {rects[i] : i \in all}
           e   == rects[last]
<1>1. c \in Nat /\ Cardinality(all) = c + 1
  BY FS_CardinalityType, FS_AddElement
<1>2. PICK order : Ranking(order, key, E) /\ rest = [n \in DOMAIN order |-> rects[order[n]]]
  BY DEF RankedCopy
<1> HIDE DEF c
<1>3. /\ DOMAIN order = 1 .. c /\ \A n \in 1 .. c : order[n] \in E
      /\ \A m, n \in 1 .. c : m < n => Precedes(key, order[m], order[n])
  BY <1>2 DEF Ranking, c
<1>4. /\ rest = [n \in 1 .. c |-> rects[order[n]]]
      /\ DOMAIN rest = 1 .. c /\ \A n \in 1 .. c : rest[n] = rects[order[n]]
  BY <1>2, <1>3
<1>5. e \in V /\ \A n \in 1 .. c : rects[order[n]] \in V
  BY <1>3
<1> HIDE DEF V, all, e
<1>6. rest \in Seq(V) /\ Len(rest) = c
  BY <1>1, <1>4, <1>5
<1> DEFINE longer == [n \in 1 .. c + 1 |-> IF n = 1 THEN last ELSE order[n - 1]]
           result == <<e>> \o rest
<1>7. /\ result \in Seq(V) /\ Len(result) = c + 1 /\ DOMAIN result = 1 .. c + 1 /\ result[1] = e
      /\ \A n \in 1 .. c + 1 : n = 1 \/ (n - 1 \in 1 .. c /\ result[n] = rest[n - 1])
  BY <1>5, <1>6, Prepended
<1> HIDE DEF result
<1>8. DOMAIN longer = 1 .. c + 1 /\ \A n \in 1 .. c + 1 : longer[n] = IF n = 1 THEN last ELSE order[n - 1]
  OBVIOUS
<1>9. longer \in [1 .. c + 1 -> all]
  <2>1. last \in all /\ E \in SUBSET all
    BY DEF all
  <2>2. \A n \in 1 .. c + 1 : n = 1 \/ n - 1 \in 1 .. c
    BY <1>1
  <2> QED
    BY <1>3, <2>1, <2>2
<1> HIDE DEF longer
<1>10. ASSUME NEW m \in 1 .. c + 1, NEW n \in 1 .. c + 1, m < n
       PROVE  Precedes(key, longer[m], longer[n])
  <2>1. n # 1 /\ n - 1 \in 1 .. c /\ longer[n] = order[n - 1]
    BY <1>1, <1>8, <1>10
  <2>2. CASE m = 1
    BY <1>3, <1>8, <2>1, <2>2
  <2>3. CASE m # 1
    <3>1. m - 1 \in 1 .. c /\ longer[m] = order[m - 1] /\ m - 1 < n - 1
      BY <1>1, <1>8, <1>10, <2>3
    <3> QED
      BY <1>3, <2>1, <3>1
  <2> QED
    BY <2>2, <2>3
<1>11. Ranking(longer, key, all)
  BY <1>1, <1>8, <1>9, <1>10 DEF Ranking
<1>12. result = [n \in DOMAIN longer |-> rects[longer[n]]]
  <2> DEFINE copy == [n \in 1 .. c + 1 |-> rects[longer[n]]]
  <2>1. ASSUME NEW n \in 1 .. c + 1 PROVE result[n] = rects[longer[n]]
    <3>1. CASE n = 1
      BY <1>7, <1>8, <3>1 DEF e
    <3>2. CASE n # 1
      <4>1. n - 1 \in 1 .. c /\ result[n] = rest[n - 1] /\ longer[n] = order[n - 1]
        BY <1>7, <1>8, <3>2
      <4> QED
        BY <1>4, <4>1
    <3> QED
      BY <3>1, <3>2
  <2>2. \A n \in 1 .. c + 1 : rects[longer[n]] \in V
    BY <1>3, <1>8, <1>9 DEF V
  <2>3. copy \in Seq(V) /\ Len(copy) = c + 1
    BY <1>1, <2>2
  <2>4. \A n \in 1 .. c + 1 : result[n] = copy[n]
    BY <2>1
  <2> HIDE DEF copy
  <2>5. result = copy
    BY <1>7, <2>3, <2>4, SeqEqual
  <2> QED
    BY <1>8, <2>5 DEF copy
<1> QED
  BY <1>11, <1>12 DEF RankedCopy, result, e, all

(* One round of nms2 does what the reference says of the last rectangle.   *)
ScoredGood(result, rects, scores, percent, neighbors, minSum, S) ==
  \E K : /\ IsKept(K, rects, scores, percent, S)
         /\ RankedCopy(result, rects, scores,
                       Sufficient(K, rects, scores, percent, neighbors, minSum, S))

Limit(scores, minSum) == {[scores |-> scores, minScoresSum |-> minSum]}

LEMMA ScoredRound ==
  ASSUME NEW rects, NEW scores, Keyed(rects, scores), NEW percent,
         NEW neighbors \in Nat, NEW minSum, NEW from,
         NEW S \in SUBSET DOMAIN rects, S # {},
         ScoredGood(from[Later(rects, scores, percent, S)], rects, scores, percent,
                    neighbors, minSum, Later(rects, scores, percent, S))
  PROVE  ScoredGood(Round(rects, scores, percent, neighbors, Limit(scores, minSum), from, S),
                    rects, scores, percent, neighbors, minSum, S)
<1> DEFINE last == LastElem(scores, S)
           near == Near(rects, percent, last, S)
           R    == Later(rects, scores, percent, S)
           rest == from[R]
           result == Round(rects, scores, percent, neighbors, Limit(scores, minSum), from, S)
<1>1. PICK K : /\ IsKept(K, rects, scores, percent, R)
               /\ RankedCopy(rest, rects, scores,
                             Sufficient(K, rects, scores, percent, neighbors, minSum, R))
  BY DEF ScoredGood
<1> DEFINE all == K \cup {last}
           E == Sufficient(K, rects, scores, percent, neighbors, minSum, R)
           More == Sufficient(all, rects, scores, percent, neighbors, minSum, S)
<1>2. /\ last \notin K /\ last \notin near
      /\ \A k \in K : Precedes(scores, last, k)
      /\ IsKept(all, rects, scores, percent, S)
      /\ StandsIn(all, rects, scores, percent, S, last) = near \cup {last}
      /\ \A k \in K : StandsIn(all, rects, scores, percent, S, k)
                        = StandsIn(K, rects, scores, percent, R, k)
  BY <1>1, RoundKeeps
<1>3. IsFiniteSet(near) /\ IsFiniteSet(E)
  <2>1. IsFiniteSet(S) /\ IsFiniteSet(R)
    BY FewerLater
  <2>2. near \in SUBSET S /\ E \in SUBSET R
    BY <1>1 DEF Near, IsKept, Sufficient
  <2> QED
    BY <2>1, <2>2, FS_Subset
<1>4. Cardinality(near) \in Nat /\ Cardinality(near \cup {last}) = Cardinality(near) + 1
  BY <1>2, <1>3, FS_CardinalityType, FS_AddElement
<1> DEFINE Pass == Suffices(near \cup {last}, scores, neighbors, minSum)
<1>5. result = IF Pass THEN <<rects[last]>> \o rest ELSE rest
  <2>1. ScoresSum(last, near, scores) = SumOfScores(scores, near \cup {last})
    BY Zenon DEF ScoresSum, SumOfScores
  <2>2. (\A c \in Limit(scores, minSum) : ScoresSum(last, near, c.scores) >= c.minScoresSum)
          <=> ScoresSum(last, near, scores) >= minSum
    BY DEF Limit
  <2>3. Cardinality(near) >= neighbors <=> Cardinality(near \cup {last}) > neighbors
    BY <1>4
  <2>4. Pass <=> /\ Cardinality(near) >= neighbors
                 /\ \A c \in Limit(scores, minSum) : ScoresSum(last, near, c.scores) >= c.minScoresSum
    BY <2>1, <2>2, <2>3, Zenon DEF Suffices
  <2> HIDE DEF Pass
  <2>5. result = IF /\ Cardinality(near) >= neighbors
                    /\ \A c \in Limit(scores, minSum) : ScoresSum(last, near, c.scores) >= c.minScoresSum
                 THEN <<rects[last]>> \o rest ELSE rest
    BY Zenon DEF Round, Later
  <2> QED
    BY <2>4, <2>5, Zenon
<1> HIDE DEF last, near, R, rest, result, Pass
<1>6. More = IF Pass THEN E \cup {last} ELSE E
  <2>1. \A k \in K : k \in More <=> k \in E
    BY <1>2 DEF Sufficient
  <2>2. last \in More <=> Pass
    BY <1>2 DEF Sufficient, Pass
  <2>3. More \in SUBSET all /\ E \in SUBSET K
    BY DEF Sufficient
  <2> HIDE DEF More, E
  <2> QED
    BY <2>1, <2>2, <2>3
<1>7. last \notin E /\ \A k \in E : Precedes(scores, last, k)
  BY <1>2 DEF Sufficient
<1>8. RankedCopy(rest, rects, scores, E)
  BY <1>1
<1> HIDE DEF E, More, all
<1>9. RankedCopy(result, rects, scores, More)
  <2>1. CASE Pass
    BY <1>3, <1>5, <1>6, <1>7, <1>8, <2>1, RankingPrepended
  <2>2. CASE ~Pass
    BY <1>5, <1>6, <1>8, <2>2
  <2> QED
    BY <2>1, <2>2
<1> QED
  BY <1>2, <1>9 DEF ScoredGood, More, result

(* At most one set meets the definition of Kept: the index in one of two,
   but not in the other, that precedes all such would be removed by another
   such one.                                                               *)
LEMMA KeptUnique ==
  ASSUME NEW rects, NEW key, Keyed(rects, key), NEW percent,
         NEW K, IsKept(K, rects, key, percent, DOMAIN rects)
  PROVE  Kept(rects, key, percent) = K
<1> DEFINE Is(L) == L \in SUBSET DOMAIN rects /\ IsKept(L, rects, key, percent, DOMAIN rects)
           L == Kept(rects, key, percent)
<1>1. K \in SUBSET DOMAIN rects
  BY DEF IsKept
<1>2. IsKept(L, rects, key, percent, DOMAIN rects)
  BY <1>1 DEF IsKept, Kept
<1> HIDE DEF L
<1> DEFINE Odd == (K \ L) \cup (L \ K)
<1>3. Odd \in SUBSET (1 .. Len(rects)) /\ DOMAIN rects = 1 .. Len(rects) /\ Len(rects) \in Nat
      /\ \A i \in 1 .. Len(rects) : key[i] \in Int
  BY <1>1, <1>2 DEF IsKept, Keyed
<1>4. ASSUME Odd # {} PROVE FALSE
  <2>1. PICK i \in Odd : \A j \in Odd \ {i} : Precedes(key, i, j)
    <3> HIDE DEF Odd
    <3> QED
      BY <1>3, <1>4, LastExists
  <2>2. PICK k \in Odd : Precedes(key, k, i)
    <3>1. CASE i \in K
      <4>1. i \in DOMAIN rects /\ i \notin L
        BY <1>1, <2>1, <3>1
      <4>2. PICK k \in L : /\ Precedes(key, k, i)
                           /\ OverlapsBeyond(rects[k], rects[i], percent)
        BY <1>2, <4>1 DEF IsKept
      <4>3. k \notin K
        BY <3>1, <4>1, <4>2 DEF IsKept
      <4> QED
        BY <4>2, <4>3
    <3>2. CASE i \notin K
      <4>1. i \in DOMAIN rects /\ i \in L
        BY <1>2, <2>1, <3>2 DEF IsKept
      <4>2. PICK k \in K : /\ Precedes(key, k, i)
                           /\ OverlapsBeyond(rects[k], rects[i], percent)
        BY <3>2, <4>1 DEF IsKept
      <4>3. k \notin L
        BY <1>2, <4>1, <4>2 DEF IsKept
      <4> QED
        BY <4>2, <4>3
    <3> QED
      BY <3>1, <3>2
  <2>3. i \in Int /\ k \in Int /\ key[i] \in Int /\ key[k] \in Int
    BY <1>3, <2>1, <2>2
  <2>4. k = i \/ Precedes(key, i, k)
    BY <2>1, <2>2
  <2> QED
    BY <2>2, <2>3, <2>4 DEF Precedes
<1> QED
  BY <1>4 DEF L

(* nms2 meets its definition, for any rectangles, scores and limits.       *)
THEOREM Nms2MeetsDefinition ==
  ASSUME NEW rects, NEW scores, Keyed(rects, scores), NEW percent,
         NEW neighbors \in Nat, NEW minSum
  PROVE  RankedCopy(nms2(rects, scores, percent, neighbors, minSum), rects, scores,
           {k \in Kept(rects, scores, percent) :
              Suffices(StandsFor(rects, scores, percent, k), scores, neighbors, minSum)})
<1> DEFINE D == DOMAIN rects
<1>1. PICK from : IsSuppression(from, rects, scores, percent, neighbors, Limit(scores, minSum))
  BY SuppressedRounds
<1>2. nms2(rects, scores, percent, neighbors, minSum) = from[D]
  BY <1>1, Zenon DEF IsSuppression, nms2, Limit
<1>3. \A S \in SUBSET D :
        from[S] = Round(rects, scores, percent, neighbors, Limit(scores, minSum), from, S)
  BY <1>1 DEF IsSuppression
<1> DEFINE Good(S) == ScoredGood(from[S], rects, scores, percent, neighbors, minSum, S)
           T == {S \in SUBSET D : Good(S)}
<1>4. Good({})
  <2>1. from[{}] = <<>>
    BY <1>3 DEF Round
  <2>2. IsKept({}, rects, scores, percent, {})
    BY DEF IsKept
  <2>3. Sufficient({}, rects, scores, percent, neighbors, minSum, {}) = {}
    BY DEF Sufficient
  <2>4. RankedCopy(<<>>, rects, scores, {})
    <3>1. Cardinality({}) = 0 /\ 1 .. 0 = {}
      BY FS_EmptySet
    <3>2. Ranking(<<>>, scores, {})
      BY <3>1 DEF Ranking
    <3>3. <<>> = [n \in DOMAIN <<>> |-> rects[<<>>[n]]]
      OBVIOUS
    <3> QED
      BY <3>2, <3>3 DEF RankedCopy
  <2> QED
    BY <2>1, <2>2, <2>3, <2>4 DEF ScoredGood
<1>5. ASSUME NEW S \in SUBSET D, S # {}, Good(Later(rects, scores, percent, S))
      PROVE  Good(S)
  BY <1>3, <1>5, ScoredRound
<1> HIDE DEF Good
<1>6. Inductive(T, rects, scores, percent)
  BY <1>4, <1>5 DEF Inductive
<1>7. Good(D)
  <2>1. D \in T
    <3> HIDE DEF T
    <3> QED
      BY <1>6, RoundsInduction
  <2> QED
    BY <2>1
<1>8. PICK K : /\ IsKept(K, rects, scores, percent, D)
               /\ RankedCopy(from[D], rects, scores,
                             Sufficient(K, rects, scores, percent, neighbors, minSum, D))
  BY <1>7 DEF Good, ScoredGood
<1>9. Kept(rects, scores, percent) = K
  BY <1>8, KeptUnique
<1>10. \A k : StandsFor(rects, scores, percent, k) = StandsIn(K, rects, scores, percent, D, k)
  BY <1>9, Zenon DEF StandsFor, StandsIn
<1>11. {k \in Kept(rects, scores, percent) :
          Suffices(StandsFor(rects, scores, percent, k), scores, neighbors, minSum)}
         = Sufficient(K, rects, scores, percent, neighbors, minSum, D)
  BY <1>9, <1>10 DEF Sufficient
<1> QED
  BY <1>2, <1>8, <1>11

-----------------------------------------------------------------------------
(* The angles                                                              *)

(* Truncation stays within one of the quotient.                            *)
LEMMA TruncateBounds ==
  ASSUME NEW num \in Int
  PROVE  /\ Truncate(num, 9600) \in Int
         /\ num >= 0 => Truncate(num, 9600) >= 0 /\ 9600 * Truncate(num, 9600) <= num
                        /\ num < 9600 * Truncate(num, 9600) + 9600
         /\ num < 0 => Truncate(num, 9600) <= 0 /\ 9600 * Truncate(num, 9600) >= num
                       /\ num > 9600 * Truncate(num, 9600) - 9600
<1>1. CASE num >= 0
  <2> DEFINE q == num \div 9600
  <2>1. q \in Int /\ 9600 * q <= num /\ num < 9600 * q + 9600
    BY <1>1
  <2>2. Truncate(num, 9600) = q
    BY <1>1 DEF Truncate
  <2> HIDE DEF q
  <2> QED
    BY <1>1, <2>1, <2>2
<1>2. CASE num < 0
  <2> DEFINE m == -num
             q == m \div 9600
  <2>1. m \in Nat /\ m > 0
    BY <1>2
  <2>2. Truncate(num, 9600) = -q
    BY <1>2 DEF Truncate
  <2> HIDE DEF m
  <2>3. q \in Int /\ 9600 * q <= m /\ m < 9600 * q + 9600
    BY <2>1
  <2> HIDE DEF q
  <2>4. m = -num
    BY DEF m
  <2> QED
    BY <1>2, <2>1, <2>2, <2>3, <2>4
<1> QED
  BY <1>1, <1>2

(* An angle that fits into a byte is kept as it is.                        *)
LEMMA Int8Keeps ==
  ASSUME NEW n \in -128 .. 127
  PROVE  Int8(n) = n
BY DEF Int8

(* A detection that lies in the frame is seen inside the field of view.    *)
LEMMA AnglesInView ==
  ASSUME NEW r \in Rectangle, InFrame(r)
  PROVE  /\ Theta(r) \in -31 .. 31 /\ DeltaTheta(r) \in 0 .. 62
         /\ Theta(r) + DeltaTheta(r) <= 32
<1> DEFINE x == r.x
           w == r.w
           left == Truncate(622 * x - 298560, 9600)
           wide == Truncate(622 * w, 9600)
<1>1. x \in Nat /\ w \in Nat /\ x + w <= 960
  BY DEF InFrame, FrameWidth
<1>2. Theta(r) = Int8(left) /\ DeltaTheta(r) = Int8(wide)
  BY DEF Theta, DeltaTheta
<1> HIDE DEF x, w
<1>3. left \in -31 .. 31 /\ wide \in 0 .. 62 /\ left + wide <= 32
  <2> DEFINE a == 622 * x - 298560
             b == 622 * w
  <2>1. a \in Int /\ b \in Int /\ b >= 0
    BY <1>1
  <2> HIDE DEF a, b
  <2>2. /\ Truncate(a, 9600) \in Int
        /\ a >= 0 => Truncate(a, 9600) >= 0 /\ 9600 * Truncate(a, 9600) <= a
        /\ a < 0 => Truncate(a, 9600) <= 0 /\ 9600 * Truncate(a, 9600) >= a
                   /\ a > 9600 * Truncate(a, 9600) - 9600
    BY <2>1, TruncateBounds
  <2>3. Truncate(b, 9600) \in Int /\ Truncate(b, 9600) >= 0 /\ 9600 * Truncate(b, 9600) <= b
    BY <2>1, TruncateBounds
  <2>4. left = Truncate(a, 9600) /\ wide = Truncate(b, 9600)
    BY DEF a, b
  <2> HIDE DEF left, wide
  <2>5. /\ left \in Int
        /\ a >= 0 => left >= 0 /\ 9600 * left <= a
        /\ a < 0 => left <= 0 /\ 9600 * left >= a /\ a > 9600 * left - 9600
        /\ wide \in Int /\ wide >= 0 /\ 9600 * wide <= b
    BY <2>2, <2>3, <2>4
  <2> QED
    BY <1>1, <2>5 DEF a, b
<1> HIDE DEF left, wide
<1>4. Theta(r) = left /\ DeltaTheta(r) = wide
  BY <1>2, <1>3, Int8Keeps
<1> QED
  BY <1>3, <1>4

(* One that is large enough to be reported spans at least one degree: it is
   at least 25 pixels wide, because the frame is 540 pixels high.          *)
LEMMA LargeSpansDegree ==
  ASSUME NEW r \in Rectangle, InFrame(r), ReachesThreshold(Area(r))
  PROVE  DeltaTheta(r) >= 1
<1> DEFINE w == r.w
           h == r.h
           wide == Truncate(622 * w, 9600)
<1>1. w \in Nat /\ h \in Nat /\ r.y \in Nat /\ r.y + h <= 540 /\ r.x \in Nat /\ r.x + w <= 960
  BY DEF InFrame, FrameWidth, FrameHeight
<1>2. 10 * (w * h) >= 134784
  BY DEF ReachesThreshold, Area
<1>3. DeltaTheta(r) = Int8(wide)
  BY DEF DeltaTheta
<1> HIDE DEF w, h
<1>4. w >= 25
  <2> SUFFICES ASSUME w <= 24 PROVE FALSE
    BY <1>1
  <2>1. w * h <= 24 * h
    BY <1>1
  <2>2. h <= 540 /\ w * h \in Int
    BY <1>1
  <2> QED
    BY <1>1, <1>2, <2>1, <2>2
<1>5. wide \in 1 .. 62
  <2>1. 622 * w \in Int /\ 622 * w >= 15550 /\ 622 * w <= 597120
    BY <1>1, <1>4
  <2>2. wide \in Int /\ wide >= 0 /\ 9600 * wide <= 622 * w /\ 622 * w < 9600 * wide + 9600
    BY <2>1, TruncateBounds
  <2> HIDE DEF wide
  <2> QED
    BY <1>1, <2>1, <2>2
<1> HIDE DEF wide
<1> QED
  BY <1>3, <1>5, Int8Keeps

-----------------------------------------------------------------------------
(* processDataForTx                                                        *)

(* The frame for no pedestrian, and the one for one, are those that the
   protocol lays down.                                                     *)
Bits(buf) == [p \in DOMAIN buf |-> buf[p] % 256]

LEMMA ProtocolBytes ==
  ASSUME NEW t, NEW d
  PROVE  LET frame == Modern!ProtocolFrame(t, d)
         IN  /\ frame = [p \in 0 .. 6 |-> frame[p]]
             /\ frame[0] = 250 /\ frame[1] = 4 /\ frame[2] = t /\ frame[3] = d
             /\ frame[4] = 0 /\ frame[5] = 0 /\ frame[6] = 253
<1> DEFINE bytes == <<250, 4, t, d, 0, 0, 253>>
<1>1. /\ bytes[1] = 250 /\ bytes[2] = 4 /\ bytes[3] = t /\ bytes[4] = d
      /\ bytes[5] = 0 /\ bytes[6] = 0 /\ bytes[7] = 253
  OBVIOUS
<1>2. Modern!ProtocolFrame(t, d) = [p \in 0 .. 6 |-> bytes[p + 1]]
  BY DEF Modern!ProtocolFrame, Modern!SOP, Modern!DLC, Modern!EOP
<1> HIDE DEF bytes
<1> QED
  BY <1>1, <1>2

SignedByte == -128 .. 127

(* A buffer of seven bytes with the markers in their places.               *)
Framed(buf, t, d) ==
  /\ DOMAIN buf = 0 .. 6
  /\ buf[0] = 250 /\ buf[1] = 4 /\ buf[2] = t /\ buf[3] = d
  /\ buf[4] = 0 /\ buf[5] = 0 /\ buf[6] = 253

LEMMA SevenBytes ==
  ASSUME NEW buf, NEW t \in SignedByte, NEW d \in SignedByte, Framed(buf, t, d)
  PROVE  /\ DOMAIN buf = 0 .. 6 /\ \A p \in 0 .. 6 : buf[p] \in Byte
         /\ buf[3] = d
         /\ Bits(buf) = Modern!ProtocolFrame(t % 256, d % 256)
<1>1. /\ DOMAIN buf = 0 .. 6
      /\ buf[0] = 250 /\ buf[1] = 4 /\ buf[2] = t /\ buf[3] = d
      /\ buf[4] = 0 /\ buf[5] = 0 /\ buf[6] = 253
  BY DEF Framed
<1>2. \A p \in 0 .. 6 : p = 0 \/ p = 1 \/ p = 2 \/ p = 3 \/ p = 4 \/ p = 5 \/ p = 6
  OBVIOUS
<1>3. \A p \in 0 .. 6 : buf[p] \in Byte
  BY <1>1, <1>2 DEF Byte, SignedByte
<1> DEFINE frame == Modern!ProtocolFrame(t % 256, d % 256)
<1>4. /\ frame = [p \in 0 .. 6 |-> frame[p]]
      /\ frame[0] = 250 /\ frame[1] = 4 /\ frame[2] = t % 256 /\ frame[3] = d % 256
      /\ frame[4] = 0 /\ frame[5] = 0 /\ frame[6] = 253
  BY ProtocolBytes
<1> HIDE DEF frame
<1>5. \A p \in 0 .. 6 : buf[p] % 256 = frame[p]
  BY <1>1, <1>2, <1>4 DEF SignedByte
<1>6. Bits(buf) = [p \in 0 .. 6 |-> buf[p] % 256]
  BY <1>1 DEF Bits
<1>7. Bits(buf) = frame
  BY <1>4, <1>5, <1>6
<1> QED
  BY <1>1, <1>3, <1>7 DEF frame

(* What processDataForTx writes for no block and for one.                  *)
LEMMA PackedBytes ==
  ASSUME NEW blocks, Least(Len(blocks) % 256, PAYLOAD_BLOCKS) \in {0, 1}
  PROVE  LET count == Least(Len(blocks) % 256, PAYLOAD_BLOCKS)
             buf   == PackedFrame(blocks)
         IN  /\ DOMAIN buf = 0 .. 6
             /\ buf[0] = 250 /\ buf[1] = 4 /\ buf[4] = 0 /\ buf[5] = 0 /\ buf[6] = 253
             /\ count = 0 => buf[2] = 0 /\ buf[3] = 0
             /\ count = 1 => buf[2] = blocks[1].theta /\ buf[3] = blocks[1].delta_theta
<1> DEFINE count   == Least(Len(blocks) % 256, PAYLOAD_BLOCKS)
           payload == [i \in 0 .. 2 * count - 1 |->
                         IF i % 2 = 0 THEN blocks[i \div 2 + 1].theta
                                      ELSE blocks[i \div 2 + 1].delta_theta]
           buffer  == [p \in 0 .. Most(PROTOCOL_SIZE, PAYLOAD_INDEX + 2 * count) - 1 |->
                         IF p - PAYLOAD_INDEX \in DOMAIN payload
                         THEN payload[p - PAYLOAD_INDEX] ELSE 0]
           buf     == PackedFrame(blocks)
<1>1. /\ SOP_INDEX = 0 /\ DLC_INDEX = 1 /\ PAYLOAD_INDEX = 2 /\ EOP_INDEX = 6
      /\ SOP = 250 /\ DLC = 4 /\ EOP = 253 /\ PROTOCOL_SIZE = 7
  BY SMT DEF SOP_INDEX, DLC_INDEX, PAYLOAD_INDEX, EOP_INDEX, ProtocolPosition, SOP, DLC, EOP, PROTOCOL_SIZE
<1>2. buf = [buffer EXCEPT ![SOP_INDEX] = SOP, ![DLC_INDEX] = DLC, ![EOP_INDEX] = EOP]
  BY Zenon DEF PackedFrame
<1>3. count \in {0, 1}
  OBVIOUS
<1> HIDE DEF count, buf
<1>4. count = 0 => payload = [i \in {} |-> 0]
  <2>1. 0 .. 2 * 0 - 1 = {}
    OBVIOUS
  <2> QED
    BY <2>1
<1>5. count = 1 => /\ DOMAIN payload = 0 .. 1
                   /\ payload[0] = blocks[1].theta /\ payload[1] = blocks[1].delta_theta
  <2> SUFFICES ASSUME count = 1
               PROVE  /\ DOMAIN payload = 0 .. 1
                      /\ payload[0] = blocks[1].theta /\ payload[1] = blocks[1].delta_theta
    OBVIOUS
  <2>1. 0 .. 2 * 1 - 1 = 0 .. 1 /\ 0 \in 0 .. 2 * 1 - 1 /\ 1 \in 0 .. 2 * 1 - 1
    OBVIOUS
  <2>2. 0 % 2 = 0 /\ 1 % 2 = 1 /\ 0 \div 2 + 1 = 1 /\ 1 \div 2 + 1 = 1
    OBVIOUS
  <2> QED
    BY <2>1, <2>2
<1>6. Most(PROTOCOL_SIZE, PAYLOAD_INDEX + 2 * count) - 1 = 6
  BY <1>1, <1>3 DEF Most
<1> HIDE DEF payload
<1>7. buffer = [p \in 0 .. 6 |-> IF p - 2 \in DOMAIN payload THEN payload[p - 2] ELSE 0]
  BY <1>1, <1>6
<1> HIDE DEF buffer
<1>8. buf = [buffer EXCEPT ![0] = 250, ![1] = 4, ![6] = 253]
  BY <1>1, <1>2
<1>9. /\ DOMAIN buf = 0 .. 6
      /\ buf[0] = 250 /\ buf[1] = 4 /\ buf[6] = 253
      /\ \A p \in 2 .. 5 : buf[p] = IF p - 2 \in DOMAIN payload THEN payload[p - 2] ELSE 0
  <2>1. /\ DOMAIN buffer = 0 .. 6
        /\ \A p \in 2 .. 5 : buffer[p] = IF p - 2 \in DOMAIN payload THEN payload[p - 2] ELSE 0
    BY <1>7
  <2>2. /\ DOMAIN buf = 0 .. 6 /\ buf[0] = 250 /\ buf[1] = 4 /\ buf[6] = 253
        /\ \A p \in 2 .. 5 : buf[p] = buffer[p]
    BY <1>8, <2>1
  <2> QED
    BY <2>1, <2>2
<1>10. CASE count = 0
  <2>1. DOMAIN payload = {}
    BY <1>4, <1>10
  <2> QED
    BY <1>9, <1>10, <2>1 DEF buf, count
<1>11. CASE count = 1
  BY <1>5, <1>9, <1>11 DEF buf, count
<1> QED
  BY <1>3, <1>10, <1>11

LEMMA EmptyPacked ==
  /\ DOMAIN PackedFrame(<<>>) = 0 .. 6 /\ \A p \in 0 .. 6 : PackedFrame(<<>>)[p] \in Byte
  /\ PackedFrame(<<>>)[3] = 0
  /\ Bits(PackedFrame(<<>>)) = Modern!ProtocolFrame(0 % 256, 0 % 256)
<1> DEFINE buf == PackedFrame(<<>>)
<1>1. Least(Len(<<>>) % 256, PAYLOAD_BLOCKS) = 0
  <2>1. Len(<<>>) = 0
    BY EmptySeq
  <2> QED
    BY <2>1 DEF Least, PAYLOAD_BLOCKS
<1>2. Framed(buf, 0, 0)
  BY <1>1, PackedBytes DEF Framed
<1> HIDE DEF buf
<1>3. 0 \in SignedByte
  BY DEF SignedByte
<1> QED
  BY <1>2, <1>3, SevenBytes DEF buf

LEMMA BlockPacked ==
  ASSUME NEW b \in [theta : -128 .. 127, delta_theta : -128 .. 127]
  PROVE  /\ DOMAIN PackedFrame(<<b>>) = 0 .. 6
         /\ \A p \in 0 .. 6 : PackedFrame(<<b>>)[p] \in Byte
         /\ PackedFrame(<<b>>)[3] = b.delta_theta
         /\ Bits(PackedFrame(<<b>>)) = Modern!ProtocolFrame(b.theta % 256, b.delta_theta % 256)
<1> DEFINE t == b.theta
           d == b.delta_theta
           blocks == <<b>>
           buf == PackedFrame(blocks)
<1>1. Least(Len(blocks) % 256, PAYLOAD_BLOCKS) = 1 /\ blocks[1] = b
  <2>1. Len(blocks) = 1 /\ blocks[1] = b
    OBVIOUS
  <2> QED
    BY <2>1 DEF Least, PAYLOAD_BLOCKS
<1> HIDE DEF blocks
<1>2. Framed(buf, t, d)
  BY <1>1, PackedBytes DEF Framed
<1>3. t \in SignedByte /\ d \in SignedByte
  BY DEF SignedByte
<1> HIDE DEF t, d, buf
<1>4. /\ DOMAIN buf = 0 .. 6 /\ (\A p \in 0 .. 6 : buf[p] \in Byte) /\ buf[3] = d
      /\ Bits(buf) = Modern!ProtocolFrame(t % 256, d % 256)
  BY <1>2, <1>3, SevenBytes
<1> QED
  BY <1>4, Zenon DEF buf, t, d, blocks

-----------------------------------------------------------------------------
(* filterDetections                                                        *)

(* One round of the loop over the detections.                              *)
Seen(seen, n) ==
  IF n = 0 THEN [area |-> StartArea, index |-> largest]
  ELSE IF nmsFiltered[n] = 1 /\ Area(nmsDetections[n]) > seen[n - 1].area
       THEN [area |-> Area(nmsDetections[n]), index |-> 0 + n - 1]
       ELSE seen[n - 1]

(* What is known after n rounds: either none that passed is above the
   threshold, or the index is that of a largest one that passed.           *)
Found(found, n) ==
  /\ found.area \in Int
  /\ \A i \in 1 .. n : nmsFiltered[i] = 1 => Area(nmsDetections[i]) <= found.area
  /\ \/ found.area = 13478 /\ found.index = largest
     \/ /\ found.area > 13478 /\ found.index \in Int /\ found.index + 1 \in 1 .. n
        /\ nmsFiltered[found.index + 1] = 1
        /\ found.area = Area(nmsDetections[found.index + 1])

(* The function that the loop defines by recursion exists.                 *)
LEMMA SeenExists ==
  ASSUME NEW l \in Nat
  PROVE  \E seen : seen = [n \in 0 .. l |-> Seen(seen, n)]
<1> DEFINE T == {k \in Nat : ~ \E seen : seen = [n \in 0 .. k |-> Seen(seen, n)]}
<1>1. ASSUME NEW n \in Nat, NEW f, NEW g, n = 0 \/ f[n - 1] = g[n - 1]
      PROVE  Seen(f, n) = Seen(g, n)
  BY <1>1 DEF Seen
<1> SUFFICES ASSUME T # {} PROVE FALSE
  OBVIOUS
<1>2. PICK m \in T : \A k \in T : m <= k
  <2>1. T \in SUBSET Nat
    OBVIOUS
  <2> HIDE DEF T
  <2> QED
    BY <2>1, LeastElement
<1>3. m \in Nat /\ ~ \E seen : seen = [n \in 0 .. m |-> Seen(seen, n)]
  OBVIOUS
<1>4. CASE m = 0
  <2> DEFINE seen == [n \in 0 .. 0 |-> Seen(<<>>, 0)]
  <2>1. \A n \in 0 .. 0 : n = 0
    OBVIOUS
  <2>2. ASSUME NEW n \in 0 .. 0 PROVE Seen(seen, n) = Seen(<<>>, 0)
    <3>1. n = 0
      BY <2>1
    <3> QED
      BY <3>1 DEF Seen
  <2>3. seen = [n \in 0 .. 0 |-> Seen(seen, n)]
    BY <2>2
  <2> QED
    BY <1>3, <1>4, <2>3
<1>5. CASE m # 0
  <2>1. m - 1 \in Nat /\ m - 1 \notin T
    <3> HIDE DEF T
    <3> QED
      BY <1>2, <1>3, <1>5
  <2>2. PICK seen : seen = [n \in 0 .. m - 1 |-> Seen(seen, n)]
    BY <2>1
  <2> DEFINE more == [n \in 0 .. m |-> IF n \in 0 .. m - 1 THEN seen[n] ELSE Seen(seen, n)]
  <2>3. \A n \in 0 .. m : more[n] = Seen(seen, n)
    BY <2>2
  <2>4. ASSUME NEW n \in 0 .. m PROVE Seen(more, n) = Seen(seen, n)
    <3>1. n \in Nat /\ (n = 0 \/ (n - 1 \in 0 .. m - 1 /\ n - 1 \in 0 .. m))
      BY <2>1
    <3>2. n = 0 \/ more[n - 1] = seen[n - 1]
      BY <3>1
    <3> HIDE DEF more
    <3> QED
      BY <1>1, <3>1, <3>2
  <2>5. more = [n \in 0 .. m |-> Seen(more, n)]
    <3>1. more = [n \in 0 .. m |-> more[n]]
      OBVIOUS
    <3> HIDE DEF more
    <3> QED
      BY <2>3, <2>4, <3>1
  <2> QED
    BY <1>3, <2>5
<1> QED
  BY <1>4, <1>5

(* The loop finds a largest one of those that passed, if one is above the
   threshold, and leaves the index alone otherwise.                        *)
LEMMA LoopFinds ==
  ASSUME nmsDetections \in Seq(Rectangle)
  PROVE  Found(Loop(StartArea), Len(nmsDetections))
<1> DEFINE l == Len(nmsDetections)
           A(n) == Area(nmsDetections[n])
<1>1. l \in Nat
  BY LenProperties
<1>2. \A n \in 1 .. l : A(n) \in Int
  <2> TAKE n \in 1 .. l
  <2>1. nmsDetections[n] \in Rectangle
    BY ElementOfSeq
  <2> QED
    BY <2>1 DEF Rectangle, Area
<1>3. PICK seen : seen = [n \in 0 .. l |-> Seen(seen, n)] /\ Loop(StartArea) = seen[l]
  <2> DEFINE seen == CHOOSE seen : seen = [n \in 0 .. l |-> Seen(seen, n)]
  <2>1. seen = [n \in 0 .. l |-> Seen(seen, n)]
    BY <1>1, SeenExists
  <2>2. Loop(StartArea) = seen[l]
    BY Zenon DEF Loop, LoopFrom, Seen
  <2> QED
    BY <2>1, <2>2
<1>4. \A n \in 0 .. l : seen[n] = Seen(seen, n)
  BY <1>3
<1> HIDE DEF l
<1>5. ASSUME NEW n \in 0 .. l, n = 0 \/ Found(seen[n - 1], n - 1)
      PROVE  Found(seen[n], n)
  <2>1. CASE n = 0
    <3> DEFINE first == seen[n]
    <3>1. first = Seen(seen, 0)
      BY <1>4, <2>1
    <3>2. Seen(seen, 0) = [area |-> 13478, index |-> largest]
      BY DEF Seen, StartArea
    <3> HIDE DEF first
    <3>3. first.area = 13478 /\ first.index = largest
      BY <3>1, <3>2
    <3>4. 1 .. n = {}
      BY <2>1
    <3>5. Found(first, n)
      BY <3>3, <3>4 DEF Found
    <3> QED
      BY <3>5 DEF first
  <2>2. CASE n # 0
    <3> DEFINE old == seen[n - 1]
               new == seen[n]
               taken == nmsFiltered[n] = 1 /\ A(n) > old.area
    <3>1. /\ n \in Nat /\ n \in 1 .. l /\ n - 1 \in Nat /\ n \in 1 .. n
          /\ \A i \in 1 .. n : i \in 1 .. n - 1 \/ i = n
          /\ \A i \in 1 .. n - 1 : i \in 1 .. n /\ i \in 1 .. l
      BY <1>1, <2>2
    <3>2. A(n) \in Int
      BY <1>2, <3>1
    <3>3. Found(old, n - 1)
      BY <1>5, <2>2
    <3>4. new = IF taken THEN [area |-> A(n), index |-> 0 + n - 1] ELSE old
      BY <1>4, <2>2 DEF Seen
    <3> HIDE DEF old, new
    <3>5. CASE taken
      <4>1. new.area = A(n) /\ new.index = n - 1
        BY <3>1, <3>4, <3>5
      <4>2. new.area \in Int /\ new.area > 13478 /\ new.index \in Int /\ new.index + 1 = n
        BY <3>1, <3>2, <3>3, <3>5, <4>1 DEF Found
      <4>3. ASSUME NEW i \in 1 .. n, nmsFiltered[i] = 1
            PROVE  A(i) <= new.area
        <5>1. CASE i = n
          BY <3>2, <4>1, <5>1
        <5>2. CASE i \in 1 .. n - 1
          <6>1. A(i) <= old.area /\ old.area \in Int
            BY <3>3, <4>3, <5>2 DEF Found
          <6>2. A(i) \in Int
            BY <1>2, <3>1, <5>2
          <6> HIDE DEF A
          <6> QED
            BY <3>2, <3>5, <4>1, <6>1, <6>2
        <5> QED
          BY <3>1, <5>1, <5>2
      <4>4. /\ new.index + 1 \in 1 .. n /\ nmsFiltered[new.index + 1] = 1
            /\ new.area = Area(nmsDetections[new.index + 1])
        BY <3>1, <3>5, <4>1, <4>2
      <4>5. \A i \in 1 .. n : nmsFiltered[i] = 1 => Area(nmsDetections[i]) <= new.area
        BY <4>3
      <4>6. Found(new, n)
        BY <4>2, <4>4, <4>5 DEF Found
      <4> QED
        BY <4>6 DEF new
    <3>6. CASE ~taken
      <4>1. new = old
        BY <3>4, <3>6
      <4>2. ASSUME NEW i \in 1 .. n, nmsFiltered[i] = 1
            PROVE  A(i) <= new.area
        <5>1. old.area \in Int
          BY <3>3 DEF Found
        <5>2. CASE i = n
          BY <3>2, <3>6, <4>1, <4>2, <5>1, <5>2
        <5>3. CASE i \in 1 .. n - 1
          BY <3>3, <4>1, <4>2, <5>3 DEF Found
        <5> QED
          BY <3>1, <5>2, <5>3
      <4>3. \A i \in 1 .. n : nmsFiltered[i] = 1 => Area(nmsDetections[i]) <= new.area
        BY <4>2
      <4>4. /\ new.area \in Int
            /\ \/ new.area = 13478 /\ new.index = largest
               \/ /\ new.area > 13478 /\ new.index \in Int /\ new.index + 1 \in 1 .. n
                  /\ nmsFiltered[new.index + 1] = 1
                  /\ new.area = Area(nmsDetections[new.index + 1])
        <5>1. \A k : k \in 1 .. n - 1 => k \in 1 .. n
          BY <3>1
        <5> QED
          BY <3>3, <4>1, <5>1 DEF Found
      <4>5. Found(new, n)
        BY <4>3, <4>4 DEF Found
      <4> QED
        BY <4>5 DEF new
    <3> QED
      BY <3>5, <3>6
  <2> QED
    BY <2>1, <2>2
<1> DEFINE T == {k \in 0 .. l : ~Found(seen[k], k)}
<1>6. T = {}
  <2> SUFFICES ASSUME T # {} PROVE FALSE
    OBVIOUS
  <2>1. PICK m \in T : \A k \in T : m <= k
    <3>1. T \in SUBSET Nat
      OBVIOUS
    <3> HIDE DEF T
    <3> QED
      BY <3>1, LeastElement
  <2>2. m \in 0 .. l /\ ~Found(seen[m], m)
    OBVIOUS
  <2>3. m # 0 /\ ~Found(seen[m - 1], m - 1)
    BY <1>5, <2>2
  <2>4. m - 1 \in 0 .. l /\ m - 1 < m
    BY <1>1, <2>2, <2>3
  <2>5. m - 1 \in T
    BY <2>3, <2>4
  <2> HIDE DEF T
  <2> QED
    BY <1>1, <2>1, <2>2, <2>4, <2>5
<1>7. l \in 0 .. l
  BY <1>1
<1> QED
  BY <1>3, <1>6, <1>7 DEF l

-----------------------------------------------------------------------------
(* The inductive invariant                                                 *)

Types ==
  /\ pc \in {"hog", "nms", "lines", "filter", "send", "display", "terminated"}
  /\ detections \in Seq(Rects) /\ Len(detections) <= MaxDetections
  /\ nmsDetections \in Seq(Rects) /\ Len(nmsDetections) <= MaxDetections
  /\ lineCount \in Seq(LineCounts) /\ nmsFiltered \in Seq({0, 1})
  /\ largest \in -1 .. MaxDetections - 1 /\ display \in BOOLEAN

(* What each stage leaves for the next one.                                *)
Stages ==
  /\ pc = "lines" => nmsDetections = nms(detections, NmsThreshold, NmsNeighbors)
  /\ pc \in {"filter", "send", "display"} => \A i \in DOMAIN nmsDetections : InFrame(nmsDetections[i])
  /\ pc \in {"filter", "send"} =>
       /\ DOMAIN nmsFiltered = DOMAIN nmsDetections
       /\ \A i \in DOMAIN nmsDetections :
            lineCount[i] \in Nat /\ (nmsFiltered[i] = 1 <=> lineCount[i] <= 4)

(* A block is that of a detection inside the frame that is large enough,
   also in the frames after it, and the buffer holds it once it is sent.   *)
Result ==
  /\ \/ blks = <<>>
     \/ \E r \in Rects : InFrame(r) /\ ReachesThreshold(Area(r)) /\ blks = <<BlockOf(r)>>
  /\ txBuf = <<>> \/ pc = "send" \/ txBuf = PackedFrame(blks)
  /\ \A p \in DOMAIN txBuf : txBuf[p] \in Byte

(* With a display the index starts from -1 in each frame.                  *)
Green ==
  /\ pc = "display" => display
  /\ display /\ pc \notin {"send", "display"} => largest = -1
  /\ display /\ pc \in {"send", "display"} /\ largest >= 0 =>
       /\ largest + 1 \in DOMAIN nmsDetections
       /\ blks = <<BlockOf(nmsDetections[largest + 1])>>

IInv == Types /\ Stages /\ Result /\ Green /\ ReportsLargestValid

LEMMA RectsTyped == Rects \subseteq Rectangle
BY RectsAssumption DEF Rectangle

(* What is kept is among what was found, and not more.                     *)
LEMMA KeptAmongFound ==
  ASSUME NEW found \in Seq(Rects)
  PROVE  LET kept == nms(found, NmsThreshold, NmsNeighbors)
         IN  /\ Meets(kept, found, NmsThreshold, NmsNeighbors, DOMAIN found)
             /\ kept \in Seq(Rects) /\ Len(kept) <= Len(found)
<1> DEFINE kept == nms(found, NmsThreshold, NmsNeighbors)
           V == {found[i] : i \in DOMAIN found}
<1>1. NmsThreshold \in Int /\ NmsNeighbors \in Nat /\ found \in Seq(Rectangle)
  BY NmsAssumption, RectsTyped, SeqMonotonic
<1>2. Meets(kept, found, NmsThreshold, NmsNeighbors, DOMAIN found)
  BY <1>1, NmsMeetsDefinition
<1> HIDE DEF kept
<1>3. kept \in Seq(V) /\ Len(kept) <= Cardinality(DOMAIN found)
  BY <1>2 DEF Meets
<1>4. V \subseteq Rects
  BY ElementOfSeq, LenProperties
<1>5. kept \in Seq(Rects)
  <2> HIDE DEF V
  <2> QED
    BY <1>3, <1>4, SeqMonotonic
<1>6. Cardinality(DOMAIN found) = Len(found)
  <2>1. Len(found) \in Nat /\ DOMAIN found = 1 .. Len(found)
    BY LenProperties
  <2>2. Cardinality(1 .. Len(found)) = IF 1 > Len(found) THEN 0 ELSE Len(found) - 1 + 1
    BY <2>1, FS_Interval
  <2> QED
    BY <2>1, <2>2
<1> QED
  BY <1>2, <1>3, <1>5, <1>6 DEF kept

(* The angles of a block that is reported fit into its two bytes.          *)
LEMMA BlockTyped ==
  ASSUME NEW r \in Rectangle, InFrame(r)
  PROVE  BlockOf(r) \in [theta : -128 .. 127, delta_theta : -128 .. 127]
<1>1. Theta(r) \in -128 .. 127 /\ DeltaTheta(r) \in -128 .. 127
  BY AnglesInView
<1> QED
  BY <1>1 DEF BlockOf

LEMMA InitHolds == Init => IInv
<1> SUFFICES ASSUME Init PROVE IInv
  OBVIOUS
<1>1. <<>> \in Seq(Rects) /\ <<>> \in Seq(LineCounts) /\ <<>> \in Seq({0, 1}) /\ Len(<<>>) = 0
  BY EmptySeq
<1>2. Types
  BY <1>1, BoundsAssumption DEF Init, Types
<1>3. Stages /\ Green /\ ReportsLargestValid
  BY DEF Init, Stages, Green, ReportsLargestValid
<1>4. Result
  BY DEF Init, Result
<1> QED
  BY <1>2, <1>3, <1>4 DEF IInv

LEMMA DetectMultiScaleKeeps == IInv /\ DetectMultiScale => IInv'
<1> SUFFICES ASSUME IInv, DetectMultiScale PROVE IInv'
  OBVIOUS
<1>1. detections' \in Seq(Rects) /\ Len(detections') <= MaxDetections
  <2>1. PICK n \in 0 .. MaxDetections : detections' \in [1 .. n -> Rects]
    BY DEF DetectMultiScale
  <2>2. n \in Nat /\ n <= MaxDetections
    BY <2>1, BoundsAssumption
  <2> QED
    BY <2>1, <2>2, SeqDef, LenProperties
<1>2. Types'
  BY <1>1 DEF IInv, Types, DetectMultiScale
<1>3. Stages' /\ ReportsLargestValid'
  BY DEF DetectMultiScale, Stages, ReportsLargestValid
<1>4. Result'
  BY DEF IInv, Result, DetectMultiScale
<1>5. Green'
  BY DEF IInv, Green, DetectMultiScale
<1> QED
  BY <1>2, <1>3, <1>4, <1>5 DEF IInv

LEMMA SuppressKeeps == IInv /\ Suppress => IInv'
<1> SUFFICES ASSUME IInv, Suppress PROVE IInv'
  OBVIOUS
<1> DEFINE kept == nms(detections, NmsThreshold, NmsNeighbors)
<1>1. detections \in Seq(Rects) /\ Len(detections) <= MaxDetections /\ nmsFiltered \in Seq({0, 1})
  BY DEF IInv, Types
<1>2. kept \in Seq(Rects) /\ Len(kept) <= Len(detections) /\ nmsDetections' = kept
  BY <1>1, KeptAmongFound DEF Suppress
<1> HIDE DEF kept
<1>3. Len(kept) \in Nat /\ DOMAIN kept = 1 .. Len(kept) /\ Len(kept) <= MaxDetections
  BY <1>1, <1>2, LenProperties, BoundsAssumption
<1>4. nmsFiltered' \in Seq({0, 1})
  <2>1. nmsFiltered' = [i \in 1 .. Len(kept) |-> IF i \in DOMAIN nmsFiltered THEN nmsFiltered[i] ELSE 0]
    BY <1>2, <1>3 DEF Suppress
  <2>2. \A i \in DOMAIN nmsFiltered : nmsFiltered[i] \in {0, 1}
    BY <1>1, ElementOfSeq, LenProperties
  <2>3. nmsFiltered' \in [1 .. Len(kept) -> {0, 1}]
    BY <2>1, <2>2
  <2> QED
    BY <1>3, <2>3, SeqDef
<1>5. Types'
  BY <1>2, <1>3, <1>4 DEF IInv, Types, Suppress
<1>6. Stages' /\ ReportsLargestValid'
  <2>1. nmsDetections' = nms(detections', NmsThreshold, NmsNeighbors)
    BY Zenon DEF Suppress
  <2> QED
    BY <2>1 DEF Suppress, Stages, ReportsLargestValid
<1>7. Result'
  BY DEF IInv, Result, Suppress
<1>8. Green'
  BY DEF IInv, Green, Suppress
<1> QED
  BY <1>5, <1>6, <1>7, <1>8 DEF IInv

LEMMA FilterLinesKeeps == IInv /\ FilterLines => IInv'
<1> SUFFICES ASSUME IInv, FilterLines PROVE IInv'
  OBVIOUS
<1> DEFINE l == Len(nmsDetections)
<1>1. l \in Nat /\ DOMAIN nmsDetections = 1 .. l
  BY LenProperties DEF IInv, Types
<1> HIDE DEF l
<1>2. /\ lineCount' \in [1 .. l -> LineCounts]
      /\ nmsFiltered' = [i \in 1 .. l |-> IF lineCount'[i] > 4 THEN 0 ELSE 1]
  BY <1>1 DEF FilterLines
<1>3. lineCount' \in Seq(LineCounts) /\ nmsFiltered' \in Seq({0, 1})
  <2>1. nmsFiltered' \in [1 .. l -> {0, 1}]
    BY <1>2
  <2> QED
    BY <1>1, <1>2, <2>1, SeqDef
<1>4. \A i \in 1 .. l : lineCount'[i] \in Nat /\ (nmsFiltered'[i] = 1 <=> lineCount'[i] <= 4)
  <2> TAKE i \in 1 .. l
  <2> DEFINE n == lineCount'[i]
  <2>1. n \in Nat /\ nmsFiltered'[i] = IF n > 4 THEN 0 ELSE 1
    BY <1>2, BoundsAssumption
  <2> HIDE DEF n
  <2>2. n \in Nat /\ (nmsFiltered'[i] = 1 <=> n <= 4)
    BY <2>1
  <2> QED
    BY <2>2 DEF n
<1>5. Types'
  BY <1>3 DEF IInv, Types, FilterLines
<1>6. Stages'
  BY <1>1, <1>2, <1>4 DEF Stages, FilterLines
<1>7. ReportsLargestValid'
  BY DEF FilterLines, ReportsLargestValid
<1>8. Result'
  BY DEF IInv, Result, FilterLines
<1>9. Green'
  BY DEF IInv, Green, FilterLines
<1> QED
  BY <1>5, <1>6, <1>7, <1>8, <1>9 DEF IInv

LEMMA CropThrowsKeeps == IInv /\ CropThrows => IInv'
<1> SUFFICES ASSUME IInv, CropThrows PROVE IInv'
  OBVIOUS
<1>1. Types'
  BY DEF IInv, Types, CropThrows
<1>2. Stages' /\ ReportsLargestValid'
  BY DEF Stages, ReportsLargestValid, CropThrows
<1>3. Result'
  BY DEF IInv, Result, CropThrows
<1>4. Green'
  BY DEF IInv, Green, CropThrows
<1> QED
  BY <1>1, <1>2, <1>3, <1>4 DEF IInv

LEMMA FilterDetectionsKeeps == IInv /\ FilterDetections => IInv'
<1> SUFFICES ASSUME IInv, FilterDetections PROVE IInv'
  OBVIOUS
<1> DEFINE l == Len(nmsDetections)
           found == Loop(StartArea)
           D(i) == nmsDetections[i]
           A(i) == Area(nmsDetections[i])
<1>1. /\ l \in Nat /\ DOMAIN nmsDetections = 1 .. l /\ l <= MaxDetections
      /\ \A i \in 1 .. l : D(i) \in Rects /\ D(i) \in Rectangle /\ InFrame(D(i))
      /\ \A i \in 1 .. l : lineCount[i] \in Nat /\ (nmsFiltered[i] = 1 <=> lineCount[i] <= 4)
  BY LenProperties, ElementOfSeq, RectsTyped DEF IInv, Types, Stages, FilterDetections, FilterFrom, FilterInto
<1>2. \A i \in 1 .. l : A(i) \in Int
  BY <1>1 DEF Rectangle, Area
<1>3. Found(found, l)
  BY RectsTyped, SeqMonotonic, LoopFinds DEF IInv, Types
<1>4. /\ pc = "filter" /\ pc' = "send" /\ largest' = found.index
      /\ blks' = IF ReachesThreshold(found.area) THEN <<BlockAt(found.index)>> ELSE <<>>
      /\ UNCHANGED <<detections, nmsDetections, lineCount, nmsFiltered, txBuf, display>>
  BY Zenon DEF FilterDetections, FilterFrom, FilterInto
<1>5. \A i \in 1 .. l : i \in Valid <=> nmsFiltered[i] = 1 /\ A(i) > 13478
  BY <1>1, <1>2 DEF Valid, ReachesThreshold
<1> HIDE DEF l, found
<1>6. Stages'
  BY <1>4 DEF IInv, Stages
<1>7. (\A p \in DOMAIN txBuf : txBuf[p] \in Byte)'
  BY <1>4 DEF IInv, Result
<1>8. Valid' = Valid
  BY <1>4, Zenon DEF Valid
<1>9. CASE found.area = 13478 /\ found.index = largest
  <2>1. blks' = <<>> /\ largest' = largest
    BY <1>4, <1>9 DEF ReachesThreshold
  <2>2. Valid = {}
    <3>1. \A i \in Valid : i \in 1 .. l
      BY <1>1 DEF Valid
    <3>2. \A i \in 1 .. l : nmsFiltered[i] = 1 => A(i) <= 13478
      BY <1>3, <1>9 DEF Found
    <3> QED
      BY <1>2, <1>5, <3>1, <3>2
  <2>3. Types'
    BY <1>4, <2>1 DEF IInv, Types
  <2>4. Result' /\ ReportsLargestValid'
    BY <1>4, <1>7, <1>8, <2>1, <2>2 DEF Result, ReportsLargestValid
  <2>5. Green'
    BY <1>4, <2>1 DEF IInv, Green
  <2> QED
    BY <1>6, <2>3, <2>4, <2>5 DEF IInv
<1>10. CASE ~(found.area = 13478 /\ found.index = largest)
  <2> DEFINE best == found.index + 1
  <2>1. /\ found.index \in Int /\ best \in 1 .. l /\ nmsFiltered[best] = 1
        /\ found.area = A(best) /\ A(best) > 13478
        /\ \A i \in 1 .. l : nmsFiltered[i] = 1 => A(i) <= A(best)
    BY <1>3, <1>10 DEF Found
  <2>2. ReachesThreshold(found.area)
    BY <1>2, <2>1 DEF ReachesThreshold
  <2>3. blks' = <<BlockOf(D(best))>>
    <3>1. best \in DOMAIN nmsDetections
      <4>1. DOMAIN nmsDetections = 1 .. l /\ best \in 1 .. l
        BY <1>1, <2>1
      <4> HIDE DEF best
      <4> QED
        BY <4>1
    <3>2. BlockAt(found.index) = BlockOf(nmsDetections[best])
      BY <3>1 DEF BlockAt
    <3> QED
      BY <1>4, <2>2, <3>2, Zenon
  <2>4. best \in Valid /\ \A i \in Valid : A(i) <= A(best)
    <3>1. \A i \in Valid : i \in 1 .. l
      BY <1>1 DEF Valid
    <3> QED
      BY <1>5, <2>1, <3>1
  <2>5. largest' \in -1 .. MaxDetections - 1 /\ largest' + 1 = best /\ largest' >= 0
    BY <1>1, <1>4, <2>1, BoundsAssumption
  <2> HIDE DEF best
  <2>6. Types'
    BY <1>4, <2>5 DEF IInv, Types
  <2>7. Result'
    <3>1. D(best) \in Rects /\ InFrame(D(best)) /\ ReachesThreshold(Area(D(best)))
      BY <1>1, <2>1, <2>2
    <3> QED
      BY <1>4, <1>7, <2>3, <3>1 DEF Result
  <2>8. ReportsLargestValid'
    <3>1. /\ best \in Valid' /\ blks' = <<BlockOf(nmsDetections'[best])>>
          /\ \A j \in Valid' : Area(nmsDetections'[j]) <= Area(nmsDetections'[best])
      BY <1>4, <1>8, <2>3, <2>4
    <3> QED
      BY <3>1 DEF ReportsLargestValid
  <2>9. Green'
    <3>1. /\ pc' = "send" /\ largest' + 1 \in DOMAIN nmsDetections'
          /\ blks' = <<BlockOf(nmsDetections'[largest' + 1])>>
      <4>1. largest' + 1 = best /\ best \in DOMAIN nmsDetections
        <5>1. DOMAIN nmsDetections = 1 .. l
          BY <1>1
        <5>2. best \in 1 .. l
          BY <2>1
        <5>3. largest' + 1 = best
          BY <2>5
        <5> QED
          BY <5>1, <5>2, <5>3, Zenon
      <4>2. pc' = "send" /\ nmsDetections' = nmsDetections
        BY <1>4
      <4> QED
        BY <2>3, <4>1, <4>2, Zenon
    <3> QED
      BY <3>1 DEF Green
  <2> QED
    BY <1>6, <2>6, <2>7, <2>8, <2>9 DEF IInv
<1> QED
  BY <1>9, <1>10

(* The bytes of the result.                                                *)
LEMMA ResultPacked ==
  ASSUME Result
  PROVE  /\ \A p \in DOMAIN PackedFrame(blks) : PackedFrame(blks)[p] \in Byte
         /\ PackedFrame(blks)[3] # 0 <=> blks # <<>>
         /\ LET block == IF blks = <<>> THEN [theta |-> 0, delta_theta |-> 0] ELSE blks[1]
            IN  Bits(PackedFrame(blks)) =
                  Modern!ProtocolFrame(block.theta % 256, block.delta_theta % 256)
<1>1. CASE blks = <<>>
  <2> DEFINE none == [theta |-> 0, delta_theta |-> 0]
  <2>1. none.theta = 0 /\ none.delta_theta = 0
    OBVIOUS
  <2> HIDE DEF none
  <2> QED
    BY <1>1, <2>1, EmptyPacked DEF none
<1>2. CASE blks # <<>>
  <2>1. PICK r \in Rects : InFrame(r) /\ ReachesThreshold(Area(r)) /\ blks = <<BlockOf(r)>>
    BY <1>2 DEF Result
  <2> DEFINE b == BlockOf(r)
  <2>2. /\ b \in [theta : -128 .. 127, delta_theta : -128 .. 127]
        /\ b.delta_theta # 0
    <3>1. r \in Rectangle
      BY RectsTyped
    <3>2. b.delta_theta = DeltaTheta(r) /\ DeltaTheta(r) >= 1 /\ DeltaTheta(r) \in 0 .. 62
      BY <2>1, <3>1, LargeSpansDegree, AnglesInView DEF BlockOf
    <3> QED
      BY <2>1, <3>1, <3>2, BlockTyped
  <2> HIDE DEF b
  <2>3. blks = <<b>> /\ blks[1] = b
    BY <2>1 DEF b
  <2>4. /\ DOMAIN PackedFrame(<<b>>) = 0 .. 6
        /\ \A p \in 0 .. 6 : PackedFrame(<<b>>)[p] \in Byte
        /\ PackedFrame(<<b>>)[3] = b.delta_theta
        /\ Bits(PackedFrame(<<b>>)) = Modern!ProtocolFrame(b.theta % 256, b.delta_theta % 256)
    BY <2>2, BlockPacked
  <2> QED
    BY <1>2, <2>2, <2>3, <2>4
<1> QED
  BY <1>1, <1>2

LEMMA SendKeeps == IInv /\ Send => IInv'
<1> SUFFICES ASSUME IInv, Send PROVE IInv'
  OBVIOUS
<1>1. /\ pc = "send" /\ txBuf' = PackedFrame(blks)
      /\ pc' = IF display THEN "display" ELSE "hog"
      /\ UNCHANGED <<detections, nmsDetections, lineCount, nmsFiltered, largest, blks, display>>
  BY DEF Send
<1>2. Types'
  BY <1>1 DEF IInv, Types
<1>3. Stages' /\ ReportsLargestValid'
  BY <1>1 DEF IInv, Stages, ReportsLargestValid
<1>4. Result'
  <2>1. \A p \in DOMAIN txBuf' : txBuf'[p] \in Byte
    BY <1>1, ResultPacked DEF IInv
  <2>2. txBuf' = PackedFrame(blks')
    BY <1>1
  <2> QED
    BY <1>1, <2>1, <2>2 DEF IInv, Result
<1>5. Green'
  BY <1>1 DEF IInv, Green, Types
<1> QED
  BY <1>2, <1>3, <1>4, <1>5 DEF IInv

LEMMA DisplayKeeps == IInv /\ Display => IInv'
<1> SUFFICES ASSUME IInv, Display PROVE IInv'
  OBVIOUS
<1>1. Types'
  BY BoundsAssumption DEF IInv, Types, Display
<1>2. Stages' /\ ReportsLargestValid'
  BY DEF Stages, ReportsLargestValid, Display
<1>3. Result'
  BY DEF IInv, Result, Display
<1>4. Green'
  BY DEF IInv, Green, Display
<1> QED
  BY <1>1, <1>2, <1>3, <1>4 DEF IInv

LEMMA StutterKeeps == IInv /\ UNCHANGED vars => IInv'
<1> SUFFICES ASSUME IInv, UNCHANGED vars PROVE IInv'
  OBVIOUS
<1>1. Types'
  BY DEF IInv, Types, vars
<1>2. Stages'
  BY DEF IInv, Stages, vars
<1>3. Result'
  BY DEF IInv, Result, vars
<1>4. Green'
  BY DEF IInv, Green, vars
<1>5. ReportsLargestValid'
  BY DEF IInv, ReportsLargestValid, Valid, vars
<1> QED
  BY <1>1, <1>2, <1>3, <1>4, <1>5 DEF IInv

LEMMA InvariantHolds == Spec => []IInv
<1>1. IInv /\ [Next]_vars => IInv'
  BY DetectMultiScaleKeeps, SuppressKeeps, FilterLinesKeeps, CropThrowsKeeps,
     FilterDetectionsKeeps, SendKeeps, DisplayKeeps, StutterKeeps DEF Next
<1> QED
  BY <1>1, InitHolds, PTL DEF Spec

(* The detection that is reported is the largest of this frame that passed
   the line filter and is above the threshold, none is reported if there is
   no such one, and the green box is that of the reported one.             *)
THEOREM LargestAlwaysReported == Spec => []LargestReported
<1>1. ASSUME IInv PROVE LargestReported
  <2>1. blks \in Seq([theta : -128 .. 127, delta_theta : -128 .. 127])
    <3> DEFINE V == [theta : -128 .. 127, delta_theta : -128 .. 127]
    <3>1. CASE blks = <<>>
      BY <3>1, EmptySeq
    <3>2. CASE blks # <<>>
      <4>1. PICK r \in Rects : InFrame(r) /\ blks = <<BlockOf(r)>>
        BY <1>1, <3>2 DEF IInv, Result
      <4> DEFINE b == BlockOf(r)
      <4>2. b \in V
        BY <4>1, RectsTyped, BlockTyped
      <4>3. blks = <<b>>
        BY <4>1
      <4> HIDE DEF V, b
      <4>4. blks \in Seq(V)
        BY <4>2, <4>3
      <4> QED
        BY <4>4 DEF V
    <3> QED
      BY <3>1, <3>2
  <2>2. TypeOK
    BY <1>1, <2>1 DEF IInv, Types, Result, TypeOK
  <2>3. DrawsReportedBox
    BY <1>1, Zenon DEF IInv, Green, DrawsReportedBox
  <2> QED
    BY <1>1, <2>2, <2>3 DEF IInv, LargestReported
<1> QED
  BY <1>1, InvariantHolds, PTL

(* The angles on the wire are inside the field of view of the camera,
   whatever rectangles the detector returns.                               *)
THEOREM AngleAlwaysInView == Spec => []AngleInView
<1>1. ASSUME IInv PROVE AngleInView
  <2>1. CASE blks = <<>>
    BY <2>1 DEF AngleInView
  <2>2. CASE blks # <<>>
    <3>1. PICK r \in Rects : InFrame(r) /\ blks = <<BlockOf(r)>>
      BY <1>1, <2>2 DEF IInv, Result
    <3>2. /\ Theta(r) \in -31 .. 31 /\ DeltaTheta(r) \in 0 .. 62
          /\ Theta(r) + DeltaTheta(r) <= 32
      BY <3>1, RectsTyped, AnglesInView
    <3>3. BlockOf(r).theta = Theta(r) /\ BlockOf(r).delta_theta = DeltaTheta(r)
      BY DEF BlockOf
    <3> DEFINE b == BlockOf(r)
    <3>4. b.theta >= -31 /\ b.theta + b.delta_theta <= 32
      BY <3>2, <3>3
    <3> HIDE DEF b
    <3>5. \A i \in DOMAIN blks : blks[i] = b
      BY <3>1 DEF b
    <3> QED
      BY <3>4, <3>5 DEF AngleInView
  <2> QED
    BY <2>1, <2>2
<1> QED
  BY <1>1, InvariantHolds, PTL

(* The bytes on the UART are those that the protocol lays down for the
   result of the frame, and tell whether there is a pedestrian.            *)
THEOREM WireAlwaysCarriesResult == Spec => []WireCarriesResult
<1>1. ASSUME IInv PROVE WireCarriesResult
  <2>1. \A t, d : Modern!IsValid(Modern!ProtocolFrame(t, d))
    BY ProtocolBytes DEF Modern!IsValid, Modern!SOP, Modern!DLC, Modern!EOP
  <2>2. WellFormedFrame
    <3> DEFINE block == IF blks = <<>> THEN [theta |-> 0, delta_theta |-> 0] ELSE blks[1]
               frame == Modern!ProtocolFrame(block.theta % 256, block.delta_theta % 256)
    <3> SUFFICES ASSUME txBuf # <<>>, pc \in {"display", "hog"}
                 PROVE  Bits(txBuf) = frame /\ Modern!IsValid(frame)
      BY Zenon DEF WellFormedFrame, Bits
    <3>1. txBuf = PackedFrame(blks)
      BY <1>1 DEF IInv, Result
    <3>2. Result
      BY <1>1, Zenon DEF IInv
    <3>3. Bits(PackedFrame(blks)) = frame
      BY <3>2, ResultPacked
    <3>4. Modern!IsValid(frame)
      BY <2>1
    <3> HIDE DEF frame
    <3> QED
      BY <3>1, <3>3, <3>4, Zenon
  <2>3. PedestrianVisibleOnWire
    <3> SUFFICES ASSUME pc = "hog", txBuf # <<>> PROVE txBuf[3] # 0 <=> blks # <<>>
      BY DEF PedestrianVisibleOnWire
    <3>1. txBuf = PackedFrame(blks)
      BY <1>1 DEF IInv, Result
    <3> QED
      BY <1>1, <3>1, ResultPacked, Zenon DEF IInv
  <2> QED
    BY <2>2, <2>3 DEF WireCarriesResult
<1> QED
  BY <1>1, InvariantHolds, PTL

LEMMA ScoredAlready ==
  ASSUME NEW found \in Seq(Rects), NEW scores \in [DOMAIN found -> Scores]
  PROVE  Keyed(found, scores)
<1>1. Len(found) \in Nat /\ DOMAIN found = 1 .. Len(found)
  BY LenProperties
<1> QED
  BY <1>1, ScoresAssumption DEF Keyed

(* nms2 meets its definition for the detections of any frame.              *)
LEMMA ScoredCorrect ==
  ASSUME detections \in Seq(Rects)
  PROVE  ScoredSuppressionCorrect
<1> SUFFICES ASSUME NEW scores \in [DOMAIN detections -> Scores],
                    NEW neighbors \in 0 .. 1, NEW minSum \in Scores
             PROVE  LET Enough(k) ==
                          LET all == StandsFor(detections, scores, NmsThreshold, k)
                          IN  Cardinality(all) > neighbors /\ MapThenSumSet(LAMBDA i : scores[i], all) >= minSum
                        kept == {k \in Kept(detections, scores, NmsThreshold) : Enough(k)}
                        returned == nms2(detections, scores, NmsThreshold, neighbors, minSum)
                    IN  \E order \in [1 .. Cardinality(kept) -> kept] :
                          /\ \A m, n \in DOMAIN order : m < n => Precedes(scores, order[m], order[n])
                          /\ returned = [n \in DOMAIN order |-> detections[order[n]]]
  BY Zenon DEF ScoredSuppressionCorrect
<1> DEFINE kept == {k \in Kept(detections, scores, NmsThreshold) :
                      Suffices(StandsFor(detections, scores, NmsThreshold, k), scores, neighbors, minSum)}
           returned == nms2(detections, scores, NmsThreshold, neighbors, minSum)
<1>1. RankedCopy(returned, detections, scores, kept)
  <2>1. neighbors \in Nat
    OBVIOUS
  <2> QED
    BY <2>1, ScoredAlready, Nms2MeetsDefinition
<1>2. \E order \in [1 .. Cardinality(kept) -> kept] :
        /\ \A m, n \in DOMAIN order : m < n => Precedes(scores, order[m], order[n])
        /\ returned = [n \in DOMAIN order |-> detections[order[n]]]
  <2> HIDE DEF kept, returned
  <2> QED
    BY <1>1, Zenon DEF RankedCopy, Ranking
<1> QED
  BY <1>2, Zenon DEF Suffices, SumOfScores

(* Both variants of the suppression meet their definition in every frame:
   nms if it asks for no neighbours, as the configuration does, and nms2 for
   any scores and limits.                                                  *)
THEOREM SuppressionsAlwaysCorrect ==
  ASSUME NmsNeighbors = 0
  PROVE  Spec => []SuppressionsCorrect
<1>1. ASSUME IInv PROVE SuppressionCorrect
  <2> SUFFICES ASSUME pc = "lines" PROVE SuppressionCorrect
    BY DEF SuppressionCorrect
  <2> DEFINE R == {detections[i] : i \in DOMAIN detections}
  <2>1. detections \in Seq(Rects) /\ nmsDetections = nms(detections, NmsThreshold, NmsNeighbors)
    BY <1>1 DEF IInv, Types, Stages
  <2>2. Meets(nmsDetections, detections, NmsThreshold, NmsNeighbors, DOMAIN detections)
    BY <2>1, KeptAmongFound
  <2>3. /\ nmsDetections \in Seq(R)
        /\ \A m, n \in DOMAIN nmsDetections :
             m # n => ~OverlapsBeyond(nmsDetections[m], nmsDetections[n], NmsThreshold)
        /\ \A i \in DOMAIN detections : \E n \in DOMAIN nmsDetections :
             \/ nmsDetections[n] = detections[i]
             \/ /\ OverlapsBeyond(nmsDetections[n], detections[i], NmsThreshold)
                /\ Bottom(nmsDetections[n]) >= Bottom(detections[i])
    BY <2>2 DEF Meets
  <2>4. ToSet(nmsDetections) \subseteq ToSet(detections)
    <3>1. \A n \in DOMAIN nmsDetections : nmsDetections[n] \in R
      <4> HIDE DEF R
      <4> QED
        BY <2>3, ElementOfSeq, LenProperties
    <3> QED
      BY <3>1 DEF ToSet
  <2>5. ASSUME NEW r \in ToSet(detections)
        PROVE  \E k \in ToSet(nmsDetections) :
                  k = r \/ (OverlapsBeyond(k, r, NmsThreshold) /\ Bottom(k) >= Bottom(r))
    <3>1. PICK i \in DOMAIN detections : r = detections[i]
      BY DEF ToSet
    <3>2. PICK n \in DOMAIN nmsDetections :
             \/ nmsDetections[n] = r
             \/ /\ OverlapsBeyond(nmsDetections[n], r, NmsThreshold)
                /\ Bottom(nmsDetections[n]) >= Bottom(r)
      BY <2>3, <3>1
    <3>3. nmsDetections[n] \in ToSet(nmsDetections)
      BY DEF ToSet
    <3> QED
      BY <3>2, <3>3
  <2> QED
    BY <2>3, <2>4, <2>5, Zenon DEF SuppressionCorrect
<1>2. ASSUME IInv PROVE ScoredSuppressionCorrect
  BY <1>2, ScoredCorrect, Zenon DEF IInv, Types
<1>3. IInv => SuppressionsCorrect
  BY <1>1, <1>2, Zenon DEF SuppressionsCorrect
<1> QED
  BY <1>3, InvariantHolds, PTL

-----------------------------------------------------------------------------
(* The constants                                                           *)

(* ModernConstants.h has an entry for each platform of BuildConstants.h,
   with the same capability and the same default, and both have the same
   field of view, the same marker bytes and the same length of the data
   field: whichever of them a piece of code includes.                      *)
THEOREM ConstantsAgree ==
  /\ \A platform \in Platform :
       LET config == Modern!PLATFORM_CONFIGS[platform]
       IN  /\ config.platformId = platform
           /\ config.supportsGPU <=> HasGPU(platform)
           /\ config.defaultScaleFactor = DefaultScaleFactor(platform)
  /\ CAMERA_FOV_DEGREES = 100 * Modern!CAMERA_FOV_DEGREES
  /\ SOP = Modern!SOP /\ EOP = Modern!EOP /\ DLC = Modern!DLC
<1>1. ASSUME NEW platform \in Platform
      PROVE  LET config == Modern!PLATFORM_CONFIGS[platform]
             IN  /\ config.platformId = platform
                 /\ config.supportsGPU <=> HasGPU(platform)
                 /\ config.defaultScaleFactor = DefaultScaleFactor(platform)
  BY SMT DEF Platform, NVIDIA, RSP, PC, HasGPU, DefaultScaleFactor, Modern!PLATFORM_CONFIGS
<1>2. /\ CAMERA_FOV_DEGREES = 100 * Modern!CAMERA_FOV_DEGREES
      /\ SOP = Modern!SOP /\ EOP = Modern!EOP /\ DLC = Modern!DLC
  BY SMT DEF CAMERA_FOV_DEGREES, SOP, EOP, DLC, Modern!CAMERA_FOV_DEGREES, Modern!SOP, Modern!EOP, Modern!DLC
<1> QED
  BY <1>1, <1>2, Zenon
=============================================================================
