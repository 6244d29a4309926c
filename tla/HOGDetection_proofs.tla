------------------------ MODULE HOGDetection_proofs -------------------------
(***************************************************************************)
(* Proofs about what the HOG algorithm reports: the directions, the boxes  *)
(* and what the caller's span gets, for every box the detector may find,   *)
(* inside the frame or outside, and every number of detections, lines,     *)
(* thresholds and calls.                                                   *)
(***************************************************************************)
EXTENDS HOGDetection, SequenceTheorems, FiniteSetTheorems, WellFoundedInduction, TLAPS

(* What is known of a result by itself.                                    *)
FromBox(r) ==
  /\ r.box.x \in Nat /\ r.box.w \in Nat /\ r.box.x + r.box.w <= FrameWidth
  /\ InFrame(r.box) /\ Area(r.box) >= MIN_DETECTION_AREA
  /\ r.angle = Angle(r.box) /\ r.deltaAngle = DeltaAngle(r.box)

(* The inductive invariant: the results are a sequence, each computed from
   a box of the frame.                                                     *)
ResultsFromBoxes == results \in Seq(ToSet(results)) /\ \A r \in ToSet(results) : FromBox(r)

-----------------------------------------------------------------------------
(* The whole part of a quotient, towards zero.                             *)
LEMMA TruncateBounds ==
  ASSUME NEW n \in Int, NEW d \in Nat \ {0}
  PROVE  /\ Truncate(n, d) \in Int
         /\ -d < d * Truncate(n, d) - n /\ d * Truncate(n, d) - n < d
         /\ n >= 0 => d * Truncate(n, d) <= n
<1>1. CASE n >= 0
  BY <1>1 DEF Truncate
<1>2. CASE ~(n >= 0)
  <2>1. (-n) \div d \in Int /\ d * ((-n) \div d) <= -n /\ -n < d * ((-n) \div d) + d
    BY <1>2
  <2> QED
    BY <1>2, <2>1 DEF Truncate
<1> QED
  BY <1>1, <1>2

(* The angles that the running detection puts on the wire, for a box of the
   frame: they fit into a signed byte.                                     *)
LEMMA WireAngles ==
  ASSUME NEW r, InFrame(r)
  PROVE  /\ Theta(r) \in Int /\ DeltaTheta(r) \in Int
         /\ -9600 < 9600 * Theta(r) - (622 * r.x - 298560)
         /\ 9600 * Theta(r) - (622 * r.x - 298560) < 9600
         /\ -9600 < 9600 * DeltaTheta(r) - 622 * r.w
         /\ 9600 * DeltaTheta(r) <= 622 * r.w
<1> DEFINE n == 622 * r.x - 298560
           m == 622 * r.w
           a == Truncate(n, 9600)
           b == Truncate(m, 9600)
<1>1. r.x \in Nat /\ r.w \in Nat /\ r.x + r.w <= 960
  BY DEF InFrame, FrameWidth
<1>2. n \in Int /\ -298560 <= n /\ n <= 298560
  BY <1>1, SMT
<1>3. m \in Int /\ 0 <= m /\ m <= 597120
  BY <1>1, SMT
<1>4. \A k \in Int : /\ Truncate(k, 9600) \in Int
                     /\ -9600 < 9600 * Truncate(k, 9600) - k
                     /\ 9600 * Truncate(k, 9600) - k < 9600
                     /\ k >= 0 => 9600 * Truncate(k, 9600) <= k
  BY TruncateBounds, SMT
<1> HIDE DEF n, m
<1>5. a \in Int /\ -9600 < 9600 * a - n /\ 9600 * a - n < 9600
  BY <1>2, <1>4, SMT
<1>6. b \in Int /\ -9600 < 9600 * b - m /\ 9600 * b <= m
  <2>1. m >= 0
    BY <1>3, SMT
  <2> QED
    BY <1>3, <1>4, <2>1, SMT
<1> HIDE DEF a, b
<1>7. -128 <= a /\ a <= 127 /\ -128 <= b /\ b <= 127
  BY <1>2, <1>3, <1>5, <1>6, SMT
<1>8. Int8(a) = a /\ Int8(b) = b
  BY <1>5, <1>6, <1>7, SMT DEF Int8
<1>9. Theta(r) = a /\ DeltaTheta(r) = b
  BY <1>8, SMT DEF Theta, DeltaTheta, a, b, n, m
<1> QED
  BY <1>5, <1>6, <1>9, SMT DEF n, m

(* The angle of a box of the frame needs no clamping.                      *)
LEMMA AngleUnclamped ==
  ASSUME NEW r, InFrame(r)
  PROVE  /\ Angle(r) = 62 * (2 * r.x + r.w - 960)
         /\ -59520 <= Angle(r) /\ Angle(r) <= 59520
<1>1. r.x \in Nat /\ r.w \in Nat /\ r.x + r.w <= 960
  BY DEF InFrame, FrameWidth
<1> QED
  BY <1>1 DEF Angle, Most, Least, HalfFOV, Degree, FrameWidth

-----------------------------------------------------------------------------
(* One more result.                                                        *)
LEMMA OneMore ==
  ASSUME NEW s, s \in Seq(ToSet(s)), NEW e
  PROVE  /\ Append(s, e) \in Seq(ToSet(Append(s, e)))
         /\ ToSet(Append(s, e)) \subseteq ToSet(s) \cup {e}
<1> DEFINE t == Append(s, e)
           S == ToSet(s) \cup {e}
<1>1. s \in Seq(S) /\ e \in S
  BY DEF ToSet
<1>2. t \in Seq(S) /\ Len(t) = Len(s) + 1
  BY <1>1
<1>3. \A i \in 1 .. Len(t) : t[i] \in S
  BY <1>2
<1>4. ToSet(t) \subseteq S
  BY <1>2, <1>3 DEF ToSet
<1>5. Len(t) \in Nat /\ DOMAIN t = 1 .. Len(t) /\ \A i \in 1 .. Len(t) : t[i] \in ToSet(t)
  BY <1>2 DEF ToSet
<1>6. t \in Seq(ToSet(t))
  <2> HIDE DEF t
  <2>1. t \in [1 .. Len(t) -> ToSet(t)]
    BY <1>2, <1>5
  <2> QED
    BY <1>5, <2>1
<1> QED
  BY <1>4, <1>6

LEMMA InvInit == Init => ResultsFromBoxes
<1> SUFFICES ASSUME Init PROVE ResultsFromBoxes
  OBVIOUS
<1>1. results = <<>> /\ ToSet(results) = {}
  BY DEF Init, ToSet
<1> QED
  BY <1>1 DEF ResultsFromBoxes

LEMMA InvStep == ResultsFromBoxes /\ [Next]_vars => ResultsFromBoxes'
<1> SUFFICES ASSUME ResultsFromBoxes, [Next]_vars PROVE ResultsFromBoxes'
  OBVIOUS
<1>1. CASE results' = results
  BY <1>1 DEF ResultsFromBoxes, ToSet
<1>2. CASE FilterOne /\ results' # results
  <2> DEFINE d == kept[Current]
  <2>1. /\ results' = Append(results, ResultOf(d))
        /\ InFrame(d.box) /\ Area(d.box) >= MIN_DETECTION_AREA
    BY <1>2 DEF FilterOne, Passes
  <2>2. FromBox(ResultOf(d))
    BY <2>1 DEF FromBox, ResultOf, InFrame
  <2>3. /\ results' \in Seq(ToSet(results'))
        /\ ToSet(results') \subseteq ToSet(results) \cup {ResultOf(d)}
    BY <2>1, OneMore DEF ResultsFromBoxes
  <2> QED
    BY <2>2, <2>3 DEF ResultsFromBoxes, ToSet
<1>3. CASE DetectReturns
  <2>1. results' = <<>> /\ ToSet(results') = {}
    BY <1>3 DEF DetectReturns, Return, ToSet
  <2> QED
    BY <2>1 DEF ResultsFromBoxes, ToSet
<1>4. CASE Configure \/ SetHOGConfig \/ Call \/ DetectMultiScale \/ ApplyNMS \/ FilterEnd \/ Throw
  <2>1. results' = results
    BY <1>4 DEF Configure, SetHOGConfig, Call, DetectMultiScale, ApplyNMS, FilterEnd, Throw
  <2> QED
    BY <1>1, <2>1
<1>5. CASE UNCHANGED vars
  BY <1>1, <1>5 DEF vars
<1> QED
  BY <1>1, <1>2, <1>3, <1>4, <1>5 DEF Next

LEMMA InvAlways == Spec => []ResultsFromBoxes
  BY InvInit, InvStep, PTL DEF Spec

-----------------------------------------------------------------------------
(* The arithmetic of the next lemma: twice the whole degrees to the left
   edge and those of the width, against the exact angle of the centre.     *)
LEMMA WholeDegrees ==
  ASSUME NEW x \in Nat, NEW w \in Nat, NEW theta \in Int, NEW delta \in Int,
         -9600 < 9600 * theta - (622 * x - 298560), 9600 * theta - (622 * x - 298560) < 9600,
         -9600 < 9600 * delta - 622 * w, 9600 * delta <= 622 * w,
         x + w <= 960
  PROVE  /\ -3840 < (2 * theta + delta) * 960 - 62 * (2 * x + w - 960)
         /\ (2 * theta + delta) * 960 - 62 * (2 * x + w - 960) < 3840
  BY SMT

(* Both detections see every pedestrian in the same direction, to less than
   two degrees.                                                            *)
LEMMA BoxesAgree ==
  ASSUME NEW r, FromBox(r)
  PROVE  (2 * Theta(r.box) + DeltaTheta(r.box)) * FrameWidth - r.angle
           \in -2 * Degree + 1 .. 2 * Degree - 1
<1> DEFINE theta == Theta(r.box)
           delta == DeltaTheta(r.box)
           x == r.box.x
           w == r.box.w
<1>1. /\ theta \in Int /\ delta \in Int
      /\ -9600 < 9600 * theta - (622 * x - 298560)
      /\ 9600 * theta - (622 * x - 298560) < 9600
      /\ -9600 < 9600 * delta - 622 * w
      /\ 9600 * delta <= 622 * w
  BY WireAngles DEF FromBox
<1>2. r.angle = 62 * (2 * x + w - 960)
  BY AngleUnclamped DEF FromBox
<1>3. x \in Nat /\ w \in Nat /\ x + w <= 960
  BY DEF FromBox, FrameWidth
<1>4. /\ -3840 < (2 * theta + delta) * 960 - 62 * (2 * x + w - 960)
      /\ (2 * theta + delta) * 960 - 62 * (2 * x + w - 960) < 3840
  <2> HIDE DEF theta, delta, x, w
  <2> QED
    BY <1>1, <1>3, WholeDegrees, SMT
<1>5. FrameWidth = 960 /\ Degree = 1920
  BY DEF Degree, FrameWidth
<1> HIDE DEF theta, delta, x, w
<1> DEFINE e == (2 * theta + delta) * 960 - 62 * (2 * x + w - 960)
<1>6. e \in -3839 .. 3839
  <2>1. e \in Int
    BY <1>1, <1>3
  <2>2. -3840 < e /\ e < 3840
    BY <1>4
  <2> HIDE DEF e
  <2> QED
    BY <2>1, <2>2
<1>7. (2 * theta + delta) * FrameWidth - r.angle = e
  BY <1>2, <1>5
<1> HIDE DEF e
<1>8. e \in -2 * Degree + 1 .. 2 * Degree - 1
  BY <1>5, <1>6
<1>9. (2 * theta + delta) * FrameWidth - r.angle \in -2 * Degree + 1 .. 2 * Degree - 1
  BY <1>7, <1>8, Zenon
<1> QED
  BY <1>9 DEF theta, delta

(* CDetection and the algorithm see a pedestrian in the same direction, for
   every box of any detector.                                              *)
THEOREM AnglesAlwaysAgree == Spec => []AnglesAgree
<1>1. ResultsFromBoxes => AnglesAgree
  BY BoxesAgree DEF ResultsFromBoxes, AnglesAgree
<1> QED
  BY <1>1, InvAlways, PTL

(* Every result lies in the frame, and the calculations of ModernConstants.h
   give the same angles for it and accept them.                            *)
LEMMA ModernAgrees ==
  ASSUME NEW r, FromBox(r)
  PROVE  /\ Modern!CalculateAngle(2 * r.box.x + r.box.w, FrameWidth, FrameWidth) = r.angle
         /\ Modern!CalculateDeltaAngle(r.box.w, FrameWidth) = r.deltaAngle
         /\ Modern!ValidateAngle(r.angle, FrameWidth)
<1>1. r.angle = 62 * (2 * r.box.x + r.box.w - 960) /\ -59520 <= r.angle /\ r.angle <= 59520
  BY AngleUnclamped DEF FromBox
<1>2. r.box.x \in Nat /\ r.box.w \in Nat
  BY DEF FromBox
<1>3. Modern!HALF_FOV(FrameWidth) = 59520
  BY DEF Modern!HALF_FOV, Modern!CAMERA_FOV_DEGREES, FrameWidth
<1>4. Modern!CalculateAngle(2 * r.box.x + r.box.w, FrameWidth, FrameWidth) = r.angle
  BY <1>1, <1>2, <1>3 DEF Modern!CalculateAngle, Modern!CAMERA_FOV_DEGREES, FrameWidth
<1>5. Modern!CalculateDeltaAngle(r.box.w, FrameWidth) = r.deltaAngle
  BY <1>2 DEF FromBox, DeltaAngle, Modern!CalculateDeltaAngle, Modern!CAMERA_FOV_DEGREES
<1>6. Modern!ValidateAngle(r.angle, FrameWidth)
  BY <1>1, <1>3 DEF Modern!ValidateAngle
<1> QED
  BY <1>4, <1>5, <1>6

(* ModernConstants.h calculates the angle of every result again and passes
   it, and no result leaves the frame.                                     *)
THEOREM ResultsAlwaysInView == Spec => []ResultsInView
<1>1. ASSUME ResultsFromBoxes PROVE ResultsInView
  <2> SUFFICES ASSUME NEW n \in DOMAIN results
               PROVE  /\ InFrame(results[n].box)
                      /\ Modern!CalculateAngle(ExtractCenters(results)[n].x, FrameWidth, FrameWidth) = results[n].angle
                      /\ Modern!CalculateDeltaAngle(results[n].box.w, FrameWidth) = results[n].deltaAngle
                      /\ Modern!ValidateAngle(results[n].angle, FrameWidth)
    BY DEF ResultsInView
  <2>1. FromBox(results[n])
    BY <1>1 DEF ResultsFromBoxes, ToSet
  <2>2. ExtractCenters(results)[n].x = 2 * results[n].box.x + results[n].box.w
    BY DEF ExtractCenters
  <2> QED
    BY <2>1, <2>2, ModernAgrees DEF FromBox
<1> QED
  BY <1>1, InvAlways, PTL

(* Whichever of the three calculations of the program one asks, a reported
   pedestrian is in the same direction, for every box of any detector.     *)
THEOREM DirectionsAlwaysAgree == Spec => []DirectionsAgree
  BY AnglesAlwaysAgree, ResultsAlwaysInView, PTL DEF DirectionsAgree

-----------------------------------------------------------------------------
(* Folds over sets: what they compute, by induction over the set.  A set of
   natural numbers has a least element.                                    *)
LEMMA LeastElement ==
  ASSUME NEW T \in SUBSET Nat, T # {}
  PROVE  \E m \in T : \A k \in T : m <= k
<1> DEFINE R == OpToRel(<, Nat)
<1>1. \E x \in T : \A y \in T : <<y, x>> \notin R
  BY NatLessThanWellFounded, WFMin
<1>2. R = {p \in Nat \X Nat : p[1] < p[2]}
  BY Zenon DEF OpToRel
<1> HIDE DEF R
<1>3. PICK m \in T : \A k \in T : <<k, m>> \notin R
  BY <1>1
<1>4. ASSUME NEW k \in T PROVE m <= k
  <2>1. <<k, m>> \in R <=> k < m
    BY <1>2
  <2> QED
    BY <1>3, <2>1
<1> QED
  BY <1>4

(* What the folds do: they take one element after the other, next[s] out of
   the rest s, until none is left.                                         *)
TakesOne(S, next) == \A s \in SUBSET S : s # {} => next[s] \in s

(* What is left has one element less.                                      *)
LEMMA FewerLeft ==
  ASSUME NEW S, IsFiniteSet(S), NEW next, TakesOne(S, next), NEW s \in SUBSET S, s # {}
  PROVE  /\ next[s] \in s /\ s \ {next[s]} \in SUBSET S
         /\ Cardinality(s) \in Nat /\ Cardinality(s \ {next[s]}) = Cardinality(s) - 1
         /\ Cardinality(s) <= Cardinality(S)
<1>1. next[s] \in s
  BY DEF TakesOne
<1>2. IsFiniteSet(s) /\ Cardinality(s) <= Cardinality(S)
  BY FS_Subset
<1> QED
  BY <1>1, <1>2, FS_CardinalityType, FS_RemoveElement

(* What holds of the empty set, and of a set if it holds without the element
   that is taken, holds of every set.                                      *)
Inductive(P, S, next) == {} \in P /\ \A s \in SUBSET S : s # {} /\ s \ {next[s]} \in P => s \in P

LEMMA TakingInduction ==
  ASSUME NEW S, IsFiniteSet(S), NEW next, TakesOne(S, next), NEW P, Inductive(P, S, next)
  PROVE  SUBSET S \subseteq P
<1> USE DEF Inductive
<1> DEFINE T == {Cardinality(s) : s \in {t \in SUBSET S : t \notin P}}
<1> SUFFICES ASSUME T # {} PROVE FALSE
  OBVIOUS
<1>1. T \in SUBSET Nat
  <2> SUFFICES ASSUME NEW t \in SUBSET S, t \notin P PROVE Cardinality(t) \in Nat
    OBVIOUS
  <2> QED
    BY FewerLeft
<1>2. PICK m \in T : \A k \in T : m <= k
  <2> HIDE DEF T
  <2> QED
    BY <1>1, LeastElement
<1>3. PICK t \in SUBSET S : t \notin P /\ Cardinality(t) = m
  OBVIOUS
<1>4. t # {} /\ t \ {next[t]} \notin P
  BY <1>3
<1>5. /\ t \ {next[t]} \in SUBSET S /\ m \in Nat
      /\ Cardinality(t \ {next[t]}) = m - 1
  BY <1>3, <1>4, FewerLeft
<1>6. m - 1 \in T
  BY <1>4, <1>5
<1> HIDE DEF T
<1> QED
  BY <1>2, <1>5, <1>6

(* One step of a fold: add[<<x, a>>] from what it has, a, and the next
   element, x.                                                             *)
FoldStep(f, base, next, add, s) == IF s = {} THEN base ELSE add[<<next[s], f[s \ {next[s]}]>>]

Adds(add, S, V) == add \in [S \X V -> V]

Folds(f, S, V, base, next, add) ==
  /\ f \in [SUBSET S -> V]
  /\ \A s \in SUBSET S : f[s] = FoldStep(f, base, next, add, s)

(* The function that such a recursion defines exists: for the sets of no
   more than k elements, for every k.                                      *)
LEMMA FoldExists ==
  ASSUME NEW S, IsFiniteSet(S), NEW next, TakesOne(S, next),
         NEW V, NEW base \in V, NEW add, Adds(add, S, V)
  PROVE  \E f : Folds(f, S, V, base, next, add)
<1> USE DEF Adds
<1> DEFINE Upto(k) == {s \in SUBSET S : Cardinality(s) <= k}
           Good(f, k) == /\ f \in [Upto(k) -> V]
                         /\ \A s \in Upto(k) : f[s] = FoldStep(f, base, next, add, s)
           T == {k \in Nat : ~ \E f : Good(f, k)}
<1>1. T = {}
  <2> SUFFICES ASSUME T # {} PROVE FALSE
    OBVIOUS
  <2>1. PICK m \in T : \A k \in T : m <= k
    <3>1. T \in SUBSET Nat
      <4> HIDE DEF Good
      <4> QED
        OBVIOUS
    <3> HIDE DEF T
    <3> QED
      BY <3>1, LeastElement
  <2>2. CASE m = 0
    <3> DEFINE f == [s \in Upto(0) |-> base]
    <3>1. ASSUME NEW s \in Upto(0) PROVE s = {}
      <4>1. IsFiniteSet(s) /\ Cardinality(s) \in Nat
        BY FS_Subset, FS_CardinalityType
      <4>2. Cardinality(s) = 0
        BY <4>1
      <4> QED
        BY <4>1, <4>2, FS_EmptySet
    <3>2. Good(f, 0)
      BY <3>1 DEF FoldStep
    <3> QED
      BY <2>1, <2>2, <3>2
  <2>3. CASE m # 0
    <3>1. m \in Nat /\ m - 1 \in Nat /\ m - 1 \notin T
      <4> HIDE DEF Good
      <4>1. m \in Nat
        OBVIOUS
      <4> HIDE DEF T
      <4> QED
        BY <2>1, <2>3, <4>1
    <3>2. PICK f : Good(f, m - 1)
      BY <3>1
    <3> DEFINE more == [s \in Upto(m) |-> FoldStep(f, base, next, add, s)]
    <3>3. ASSUME NEW s \in Upto(m), s # {}
          PROVE  s \ {next[s]} \in Upto(m - 1) /\ s \ {next[s]} \in Upto(m) /\ next[s] \in S
      <4>1. /\ next[s] \in s /\ s \ {next[s]} \in SUBSET S /\ Cardinality(s) \in Nat
            /\ Cardinality(s \ {next[s]}) = Cardinality(s) - 1
        BY <3>3, FewerLeft
      <4> QED
        BY <3>1, <4>1
    <3>4. \A s \in Upto(m - 1) : s \in Upto(m) /\ more[s] = f[s]
      <4> SUFFICES ASSUME NEW s \in Upto(m - 1) PROVE s \in Upto(m) /\ more[s] = f[s]
        OBVIOUS
      <4>1. s \in Upto(m)
        BY <3>1, FS_CardinalityType, FS_Subset
      <4> QED
        BY <3>2, <4>1
    <3> HIDE DEF Upto
    <3>5. ASSUME NEW s \in Upto(m) PROVE more[s] \in V /\ more[s] = FoldStep(more, base, next, add, s)
      <4>1. CASE s = {}
        BY <4>1 DEF FoldStep
      <4>2. CASE s # {}
        <5>1. more[s \ {next[s]}] = f[s \ {next[s]}] /\ f[s \ {next[s]}] \in V
          BY <3>2, <3>3, <3>4, <4>2
        <5>2. more[s] = add[<<next[s], f[s \ {next[s]}]>>]
          BY <4>2 DEF FoldStep
        <5>3. add[<<next[s], f[s \ {next[s]}]>>] \in V
          BY <3>3, <4>2, <5>1
        <5> HIDE DEF more
        <5> QED
          BY <4>2, <5>1, <5>2, <5>3 DEF FoldStep
      <4> QED
        BY <4>1, <4>2
    <3>6. more \in [Upto(m) -> V]
      BY <3>5
    <3>7. Good(more, m)
      BY <3>5, <3>6
    <3> QED
      BY <2>1, <3>7
  <2> QED
    BY <2>2, <2>3
<1>2. Cardinality(S) \in Nat /\ Upto(Cardinality(S)) = SUBSET S
  BY FS_CardinalityType, FS_Subset
<1>3. PICK f : Good(f, Cardinality(S))
  BY <1>1, <1>2
<1> HIDE DEF Upto
<1> QED
  BY <1>2, <1>3 DEF Folds

-----------------------------------------------------------------------------
(* What NMSBoxes selects.                                                  *)
Detections == [box : Rects, confidence : Confidences]

(* Indices of a set whose scores can be compared.                          *)
Scored(S) == S \subseteq DOMAIN found /\ \A i \in S : found[i].confidence \in Nat

(* A set of indices has a last one by score: of those with the least score
   the one with the highest index.                                         *)
LEMMA LastExists ==
  ASSUME found \in Seq(Detections), NEW S, Scored(S), S # {}
  PROVE  LastByScore(S) \in S /\ \A j \in S \ {LastByScore(S)} : Before(j, LastByScore(S))
<1> DEFINE C == {found[i].confidence : i \in S}
           N == Len(found)
<1>1. PICK m \in C : \A k \in C : m <= k
  <2>1. C \in SUBSET Nat /\ C # {}
    BY DEF Scored
  <2> HIDE DEF C
  <2> QED
    BY <2>1, LeastElement
<1> DEFINE E == {N - i : i \in {j \in S : found[j].confidence = m}}
<1>2. N \in Nat /\ S \subseteq 1 .. N
  BY LenProperties DEF Scored
<1>3. PICK e \in E : \A k \in E : e <= k
  <2>1. E \in SUBSET Nat
    <3> HIDE DEF N
    <3> QED
      BY <1>2
  <2>2. E # {}
    OBVIOUS
  <2> HIDE DEF E
  <2> QED
    BY <2>1, <2>2, LeastElement
<1>4. PICK i \in S : found[i].confidence = m /\ e = N - i
  OBVIOUS
<1>5. ASSUME NEW j \in S \ {i} PROVE Before(j, i)
  <2>1. m <= found[j].confidence /\ found[j].confidence \in Nat /\ m \in Nat
    BY <1>1, <1>4 DEF Scored
  <2>2. CASE found[j].confidence = m
    <3>1. N - j \in E
      BY <2>2
    <3>2. N - i <= N - j
      BY <1>3, <1>4, <3>1
    <3>3. i \in 1 .. N /\ j \in 1 .. N /\ i # j
      BY <1>2
    <3> HIDE DEF N
    <3>4. j < i
      BY <1>2, <3>2, <3>3
    <3> QED
      BY <1>4, <2>2, <3>4 DEF Before
  <2>3. CASE found[j].confidence # m
    <3>1. found[j].confidence > found[i].confidence
      BY <1>4, <2>1, <2>3
    <3> QED
      BY <3>1 DEF Before
  <2> QED
    BY <2>2, <2>3
<1> QED
  BY <1>5 DEF LastByScore

(* The fold behind NMSBoxes: a recursion over the subsets.                 *)
SelectStep(sel, s) == IF s = {} THEN <<>> ELSE Select(LastByScore(s), sel[s \ {LastByScore(s)}])

ByScore(S) == [s \in SUBSET S |-> LastByScore(s)]

(* Indices are taken by score, the last first.                             *)
LEMMA ByScoreTakes ==
  ASSUME found \in Seq(Detections), NEW S, Scored(S)
  PROVE  IsFiniteSet(S) /\ TakesOne(S, ByScore(S))
<1>1. IsFiniteSet(S)
  <2>1. Len(found) \in Nat /\ DOMAIN found = 1 .. Len(found)
    BY LenProperties
  <2>2. IsFiniteSet(1 .. Len(found))
    BY <2>1, FS_Interval
  <2> QED
    BY <2>1, <2>2, FS_Subset DEF Scored
<1>2. ASSUME NEW s \in SUBSET S, s # {} PROVE LastByScore(s) \in s
  <2>1. Scored(s)
    BY DEF Scored
  <2> QED
    BY <1>2, <2>1, LastExists
<1> QED
  BY <1>1, <1>2 DEF TakesOne, ByScore

(* The selection is a fold over the indices.                               *)
LEMMA SelectionExists ==
  ASSUME found \in Seq(Detections), NEW S, Scored(S)
  PROVE  \E sel : sel = [s \in SUBSET S |-> SelectStep(sel, s)]
<1> DEFINE V == Seq(S)
           add == [p \in S \X V |-> Select(p[1], p[2])]
<1>1. Adds(add, S, V) /\ <<>> \in V
  <2>1. ASSUME NEW p \in S \X V PROVE Select(p[1], p[2]) \in V
    <3>1. p[1] \in S /\ p[2] \in Seq(S)
      OBVIOUS
    <3> QED
      BY <3>1, AppendProperties DEF Select
  <2>2. <<>> \in V
    OBVIOUS
  <2> HIDE DEF V
  <2> QED
    BY <2>1, <2>2 DEF Adds
<1>2. IsFiniteSet(S) /\ TakesOne(S, ByScore(S))
  BY ByScoreTakes
<1>3. PICK f : Folds(f, S, V, <<>>, ByScore(S), add)
  <2> HIDE DEF V, add
  <2> QED
    BY <1>1, <1>2, FoldExists
<1> HIDE DEF V
<1>4. ASSUME NEW s \in SUBSET S PROVE f[s] = SelectStep(f, s)
  <2>1. f[s] = FoldStep(f, <<>>, ByScore(S), add, s)
    BY <1>3 DEF Folds
  <2>2. CASE s = {}
    BY <2>1, <2>2 DEF FoldStep, SelectStep
  <2>3. CASE s # {}
    <3>1. ByScore(S)[s] = LastByScore(s) /\ LastByScore(s) \in S
      BY <1>2, <2>3 DEF TakesOne, ByScore
    <3>2. f[s \ {LastByScore(s)}] \in V
      BY <1>3 DEF Folds
    <3> QED
      BY <2>1, <2>3, <3>1, <3>2 DEF FoldStep, SelectStep
  <2> QED
    BY <2>2, <2>3
<1>5. f = [s \in SUBSET S |-> f[s]]
  BY <1>3 DEF Folds
<1> QED
  BY <1>4, <1>5

(* What a selection of indices from a set has to be: ranked, without two
   that overlap, and whoever is missing overlaps one before it.            *)
SelectedFrom(s, indices) ==
  /\ indices \in Seq(s) /\ Len(indices) <= Cardinality(s)
  /\ \A m, n \in DOMAIN indices : m < n =>
       /\ Before(indices[m], indices[n])
       /\ ~OverlapsBeyond(found[indices[n]].box, found[indices[m]].box, 30)
  /\ \A i \in s : \/ \E n \in DOMAIN indices : indices[n] = i
                  \/ \E n \in DOMAIN indices : /\ Before(indices[n], i)
                                               /\ OverlapsBeyond(found[i].box, found[indices[n]].box, 30)

(* One more index, the last of its set.                                    *)
LEMMA LastSelected ==
  ASSUME found \in Seq(Detections), NEW S, Scored(S), NEW s \in SUBSET S, s # {},
         NEW indices, SelectedFrom(s \ {LastByScore(s)}, indices)
  PROVE  SelectedFrom(s, Select(LastByScore(s), indices))
<1> DEFINE i == LastByScore(s)
           r == s \ {i}
           more == Select(i, indices)
<1>1. i \in s /\ Cardinality(s) \in Nat /\ Cardinality(r) = Cardinality(s) - 1
  <2>1. i \in s /\ IsFiniteSet(s)
    <3>1. IsFiniteSet(S) /\ TakesOne(S, ByScore(S))
      BY ByScoreTakes
    <3> QED
      BY <3>1, FS_Subset DEF TakesOne, ByScore
  <2> QED
    BY <2>1, FS_CardinalityType, FS_RemoveElement
<1>2. \A j \in r : Before(j, i)
  <2>1. Scored(s)
    BY DEF Scored
  <2> QED
    BY <2>1, LastExists
<1>3. /\ indices \in Seq(r) /\ indices \in Seq(s) /\ Len(indices) \in Nat /\ Len(indices) <= Cardinality(s) - 1
      /\ DOMAIN indices = 1 .. Len(indices) /\ \A n \in DOMAIN indices : indices[n] \in r
  BY <1>1, LenProperties, ElementOfSeq DEF SelectedFrom
<1> HIDE DEF i
<1>4. CASE Suppressed(i, indices)
  <2>1. more = indices
    BY <1>4 DEF Select
  <2>2. \E n \in DOMAIN indices : /\ Before(indices[n], i)
                                  /\ OverlapsBeyond(found[i].box, found[indices[n]].box, 30)
    BY <1>2, <1>3, <1>4 DEF Suppressed
  <2> QED
    BY <1>1, <1>3, <2>1, <2>2 DEF SelectedFrom, i
<1>5. CASE ~Suppressed(i, indices)
  <2>1. more = Append(indices, i)
    BY <1>5 DEF Select
  <2> DEFINE k == Len(indices) + 1
  <2>2. /\ more \in Seq(s) /\ Len(more) = k /\ DOMAIN more = 1 .. k /\ more[k] = i
        /\ \A n \in DOMAIN indices : n \in DOMAIN more /\ n < k /\ more[n] = indices[n]
        /\ \A n \in DOMAIN more : n = k \/ n \in DOMAIN indices
    BY <1>1, <1>3, <2>1
  <2> HIDE DEF more, k, r
  <2>3. ASSUME NEW m \in DOMAIN more, NEW n \in DOMAIN more, m < n
        PROVE  /\ Before(more[m], more[n])
               /\ ~OverlapsBeyond(found[more[n]].box, found[more[m]].box, 30)
    <3>1. m \in DOMAIN indices
      BY <1>3, <2>2, <2>3 DEF k
    <3>2. CASE n = k
      BY <1>2, <1>3, <1>5, <2>2, <3>1, <3>2 DEF Suppressed
    <3>3. CASE n \in DOMAIN indices
      BY <2>2, <2>3, <3>1, <3>3 DEF SelectedFrom, r, i
    <3> QED
      BY <2>2, <3>2, <3>3
  <2>4. ASSUME NEW j \in s
        PROVE  \/ \E n \in DOMAIN more : more[n] = j
               \/ \E n \in DOMAIN more : /\ Before(more[n], j)
                                         /\ OverlapsBeyond(found[j].box, found[more[n]].box, 30)
    <3>1. CASE j = i
      BY <1>3, <2>2, <3>1 DEF k
    <3>2. CASE j # i
      <4>1. \/ \E n \in DOMAIN indices : indices[n] = j
            \/ \E n \in DOMAIN indices : /\ Before(indices[n], j)
                                         /\ OverlapsBeyond(found[j].box, found[indices[n]].box, 30)
        BY <3>2 DEF SelectedFrom, i
      <4> QED
        BY <2>2, <4>1
    <3> QED
      BY <3>1, <3>2
  <2>5. Len(more) <= Cardinality(s)
    BY <1>1, <1>3, <2>2 DEF k
  <2> QED
    BY <2>2, <2>3, <2>4, <2>5 DEF SelectedFrom, more, i
<1> QED
  BY <1>4, <1>5

Above == {i \in DOMAIN found : found[i].confidence > hitThreshold}

(* NMSBoxes returns such a selection of the indices above the threshold.   *)
LEMMA NMSBoxesSelects ==
  ASSUME found \in Seq(Detections), Scored(Above)
  PROVE  SelectedFrom(Above, NMSBoxes)
<1> DEFINE sel == CHOOSE sel : sel = [s \in SUBSET Above |-> SelectStep(sel, s)]
<1>1. sel = [s \in SUBSET Above |-> SelectStep(sel, s)]
  BY SelectionExists
<1>2. NMSBoxes = sel[Above]
  BY Zenon DEF NMSBoxes, MapThenFoldSet, SelectStep, Above
<1> HIDE DEF sel
<1>3. \A s \in SUBSET Above : sel[s] = SelectStep(sel, s)
  BY <1>1
<1> DEFINE P == {s \in SUBSET Above : SelectedFrom(s, sel[s])}
<1>4. {} \in P
  <2>1. sel[{}] = <<>>
    BY <1>3 DEF SelectStep
  <2>2. SelectedFrom({}, <<>>)
    <3>1. Cardinality({}) = 0 /\ Len(<<>>) = 0 /\ DOMAIN <<>> = {} /\ <<>> \in Seq({})
      BY FS_EmptySet
    <3> QED
      BY <3>1 DEF SelectedFrom
  <2> QED
    BY <2>1, <2>2
<1>5. ASSUME NEW s \in SUBSET Above, s # {}, s \ {LastByScore(s)} \in P PROVE s \in P
  <2>1. sel[s] = Select(LastByScore(s), sel[s \ {LastByScore(s)}])
    BY <1>3, <1>5 DEF SelectStep
  <2>2. SelectedFrom(s \ {LastByScore(s)}, sel[s \ {LastByScore(s)}])
    BY <1>5
  <2> QED
    BY <1>5, <2>1, <2>2, LastSelected
<1>6. Inductive(P, Above, ByScore(Above))
  BY <1>4, <1>5 DEF Inductive, ByScore
<1>7. Above \in P
  <2> HIDE DEF P
  <2> QED
    BY <1>6, ByScoreTakes, TakingInduction
<1> QED
  BY <1>2, <1>7

-----------------------------------------------------------------------------
(* The inductive invariant of a detection.                                 *)
Types ==
  /\ initialized \in BOOLEAN /\ hitThreshold \in Thresholds
  /\ pc \in {"idle", "hog", "nms", "filter", "return"}
  /\ found \in Seq(Detections) /\ Len(found) <= MaxDetections
  /\ kept \in Seq(Detections) /\ Len(kept) <= Len(found)
  /\ lines \in Seq(LineCounts) /\ Len(lines) <= Len(kept)
  /\ results \in Seq(Result)
  /\ span \in [1 .. SpanSize -> Result \cup {Unset}]

(* The boxes that applyNMS copied: ranked, above the threshold, without two
   that overlap, and whoever is missing overlaps one at least as confident. *)
KeptBySuppression ==
  /\ \A n \in DOMAIN kept : kept[n] \in Found /\ kept[n].confidence > hitThreshold
  /\ \A m, n \in DOMAIN kept : m < n =>
       /\ kept[n].confidence <= kept[m].confidence
       /\ ~OverlapsBeyond(kept[n].box, kept[m].box, 30)
  /\ \A d \in Found : d.confidence > hitThreshold =>
       \/ d \in ToSet(kept)
       \/ \E k \in ToSet(kept) : OverlapsBeyond(k.box, d.box, 30) /\ k.confidence >= d.confidence

(* The results are those of the boxes the filter has passed, in the order
   of the boxes.                                                           *)
ResultsOfPassed ==
  /\ \A m \in DOMAIN results : \E i \in DOMAIN lines : results[m] = ResultOf(kept[i])
  /\ \A m, n \in DOMAIN results : m < n =>
       \E i, j \in DOMAIN lines : /\ i < j
                                  /\ results[m] = ResultOf(kept[i]) /\ results[n] = ResultOf(kept[j])
  /\ \A i \in DOMAIN lines : Passes(kept[i], lines[i]) =>
       \E m \in DOMAIN results : results[m] = ResultOf(kept[i])

Succeeds == pc = "return" /\ rc = "RC_SUCCESS"

IInv ==
  /\ Types
  /\ ResultsOfPassed
  /\ pc \in {"idle", "hog", "nms"} => kept = <<>> /\ lines = <<>> /\ results = <<>>
  /\ pc = "filter" \/ Succeeds \/ kept # <<>> => KeptBySuppression
  /\ Succeeds => Len(lines) = Len(kept)

(* Two boxes of HOG overlap the same way, whichever comes first.           *)
LEMMA OverlapSymmetric ==
  ASSUME NEW r \in Rects, NEW s \in Rects
  PROVE  OverlapsBeyond(r, s, 30) <=> OverlapsBeyond(s, r, 30)
<1>1. /\ r.x \in Int /\ r.y \in Int /\ r.w \in Int /\ r.h \in Int
      /\ s.x \in Int /\ s.y \in Int /\ s.w \in Int /\ s.h \in Int
  BY HOGAssumption
<1>2. IntersectionArea(r, s) = IntersectionArea(s, r)
  <2>1. Common(r.x, r.w, s.x, s.w) = Common(s.x, s.w, r.x, r.w)
    BY <1>1, SMT DEF Common, Least, Most
  <2>2. Common(r.y, r.h, s.y, s.h) = Common(s.y, s.h, r.y, r.h)
    BY <1>1, SMT DEF Common, Least, Most
  <2> QED
    BY <2>1, <2>2, Zenon DEF IntersectionArea
<1> DEFINE common == IntersectionArea(s, r)
           a == Area(r)
           b == Area(s)
<1>3. a \in Int /\ b \in Int /\ common \in Int
  BY <1>1, SMT DEF Area, IntersectionArea, Common, Least, Most
<1> HIDE DEF common, a, b
<1>4. 100 * common > 30 * (a + b - common) <=> 100 * common > 30 * (b + a - common)
  BY <1>3, SMT
<1> QED
  BY <1>2, <1>4, Zenon DEF OverlapsBeyond, common, a, b

(* What is computed from a box of the frame is a result.                   *)
LEMMA ResultTyped ==
  ASSUME NEW d \in Detections, InFrame(d.box)
  PROVE  ResultOf(d) \in Result
<1>1. -59520 <= Angle(d.box) /\ Angle(d.box) <= 59520 /\ Angle(d.box) = 62 * (2 * d.box.x + d.box.w - 960)
  BY AngleUnclamped
<1>2. d.box.x \in Nat /\ d.box.w \in Nat /\ d.box \in Rects /\ d.confidence \in Confidences
  BY DEF InFrame, Detections
<1>3. HalfFOV = 59520
  BY DEF HalfFOV, Degree, FrameWidth
<1>4. Angle(d.box) \in -HalfFOV .. HalfFOV
  <2>1. Angle(d.box) \in Int /\ HalfFOV \in Int
    BY <1>1, <1>2, <1>3
  <2>2. -HalfFOV <= Angle(d.box) /\ Angle(d.box) <= HalfFOV
    BY <1>1, <1>3
  <2> QED
    BY <2>1, <2>2
<1>5. DeltaAngle(d.box) \in Nat
  BY <1>2 DEF DeltaAngle
<1> QED
  BY <1>2, <1>4, <1>5 DEF ResultOf, Result

LEMMA IInvInit == Init => IInv
<1> SUFFICES ASSUME Init PROVE IInv
  OBVIOUS
<1>1. found = <<>> /\ kept = <<>> /\ lines = <<>> /\ results = <<>> /\ pc = "idle"
  BY DEF Init
<1>2. Len(<<>>) = 0 /\ MaxDetections \in Nat
  BY HOGAssumption
<1>3. span \in [1 .. SpanSize -> Result \cup {Unset}]
  BY DEF Init
<1>4. Types
  BY <1>1, <1>2, <1>3 DEF Init, Types
<1>5. DOMAIN lines = {} /\ DOMAIN results = {}
  BY <1>1
<1>6. ResultsOfPassed
  BY <1>5 DEF ResultsOfPassed
<1> QED
  BY <1>1, <1>4, <1>6 DEF IInv, Succeeds

LEMMA DetectMultiScaleKeeps == IInv /\ DetectMultiScale => IInv'
<1> SUFFICES ASSUME IInv, DetectMultiScale PROVE IInv'
  OBVIOUS
<1>1. UNCHANGED <<initialized, hitThreshold, kept, lines, results, rc, span>> /\ pc' = "nms"
  BY DEF DetectMultiScale, config
<1>2. kept = <<>> /\ lines = <<>> /\ results = <<>>
  BY DEF IInv, DetectMultiScale
<1>3. PICK n \in 0 .. MaxDetections : found' \in [1 .. n -> Detections]
  BY DEF DetectMultiScale, Detections
<1>4. found' \in Seq(Detections) /\ Len(found') = n /\ n \in Nat /\ n <= MaxDetections
  BY <1>3, HOGAssumption
<1>5. Types'
  BY <1>1, <1>2, <1>4 DEF IInv, Types
<1>6. ResultsOfPassed'
  BY <1>1 DEF IInv, ResultsOfPassed
<1> QED
  BY <1>1, <1>2, <1>5, <1>6 DEF IInv, Succeeds

(* applyNMS keeps what NMSBoxes selects.                                   *)
LEMMA FilteredBySuppression ==
  ASSUME Types, ApplyNMS
  PROVE  /\ kept' \in Seq(Detections) /\ Len(kept') <= Len(found)
         /\ KeptBySuppression'
<1> DEFINE indices == NMSBoxes
           N == Len(found)
<1>1. /\ found \in Seq(Detections) /\ N \in Nat /\ DOMAIN found = 1 .. N
      /\ \A i \in DOMAIN found : found[i] \in Detections
  BY LenProperties, ElementOfSeq DEF Types
<1>2. \A i \in DOMAIN found : found[i].confidence \in Int /\ found[i].box \in Rects
  BY <1>1, HOGAssumption DEF Detections
<1>3. hitThreshold \in Int /\ hitThreshold >= 0
  BY HOGAssumption DEF Types, ApplyNMS
<1>4. Scored(Above)
  BY <1>2, <1>3 DEF Scored, Above
<1>5. SelectedFrom(Above, indices)
  BY <1>1, <1>4, NMSBoxesSelects
<1>6. UNCHANGED <<found, hitThreshold>> /\ kept' = [n \in DOMAIN indices |-> found[indices[n]]]
  BY DEF ApplyNMS, Filtered, config
<1> HIDE DEF indices
<1> DEFINE k == Len(indices)
<1>7. /\ k \in Nat /\ DOMAIN indices = 1 .. k
      /\ \A n \in 1 .. k : indices[n] \in Above /\ indices[n] \in DOMAIN found
      /\ k <= Cardinality(Above)
  BY <1>5, LenProperties, ElementOfSeq DEF SelectedFrom, Above
<1>8. k <= N
  <2>1. IsFiniteSet(1 .. N) /\ Cardinality(1 .. N) = N
    BY <1>1, FS_Interval
  <2>2. Above \subseteq 1 .. N
    BY <1>1 DEF Above
  <2>3. Cardinality(Above) <= N /\ Cardinality(Above) \in Nat
    BY <2>1, <2>2, FS_Subset, FS_CardinalityType
  <2> QED
    BY <1>1, <1>7, <2>3
<1>9. /\ kept' \in [1 .. k -> Detections] /\ DOMAIN kept' = 1 .. k
      /\ \A n \in 1 .. k : kept'[n] = found[indices[n]]
  BY <1>1, <1>6, <1>7
<1>10. kept' \in Seq(Detections) /\ Len(kept') = k
  BY <1>7, <1>9
<1>11. ASSUME NEW n \in 1 .. k PROVE kept'[n] \in Found /\ kept'[n].confidence > hitThreshold
  BY <1>7, <1>9 DEF Found, ToSet, Above
<1>12. ASSUME NEW m \in 1 .. k, NEW n \in 1 .. k, m < n
       PROVE  /\ kept'[n].confidence <= kept'[m].confidence
              /\ ~OverlapsBeyond(kept'[n].box, kept'[m].box, 30)
  <2>1. /\ Before(indices[m], indices[n])
        /\ ~OverlapsBeyond(found[indices[n]].box, found[indices[m]].box, 30)
    BY <1>5, <1>7, <1>12 DEF SelectedFrom
  <2>2. found[indices[n]].confidence <= found[indices[m]].confidence
    BY <1>2, <1>7, <2>1 DEF Before
  <2> QED
    BY <1>9, <2>1, <2>2
<1>13. ASSUME NEW d \in Found, d.confidence > hitThreshold
       PROVE  \/ d \in ToSet(kept')
              \/ \E e \in ToSet(kept') : OverlapsBeyond(e.box, d.box, 30) /\ e.confidence >= d.confidence
  <2>1. PICK i \in DOMAIN found : found[i] = d
    BY DEF Found, ToSet
  <2>2. i \in Above
    BY <1>13, <2>1 DEF Above
  <2>3. CASE \E n \in DOMAIN indices : indices[n] = i
    BY <1>7, <1>9, <2>1, <2>3 DEF ToSet
  <2>4. CASE \E n \in DOMAIN indices : /\ Before(indices[n], i)
                                       /\ OverlapsBeyond(found[i].box, found[indices[n]].box, 30)
    <3>1. PICK n \in 1 .. k : /\ Before(indices[n], i)
                              /\ OverlapsBeyond(found[i].box, found[indices[n]].box, 30)
      BY <1>7, <2>4
    <3> DEFINE e == kept'[n]
    <3>2. e = found[indices[n]] /\ e \in ToSet(kept')
      BY <1>9 DEF ToSet
    <3>3. indices[n] \in DOMAIN found
      BY <1>7
    <3>4. OverlapsBeyond(e.box, d.box, 30)
      BY <1>2, <2>1, <3>1, <3>2, <3>3, OverlapSymmetric
    <3>5. e.confidence >= d.confidence
      BY <1>2, <2>1, <3>1, <3>2, <3>3 DEF Before
    <3> QED
      BY <3>2, <3>4, <3>5
  <2> QED
    BY <1>5, <2>2, <2>3, <2>4 DEF SelectedFrom
<1>14. Found' = Found /\ hitThreshold' = hitThreshold
  BY <1>6 DEF Found
<1> HIDE DEF k, N
<1>15. KeptBySuppression'
  BY <1>9, <1>11, <1>12, <1>13, <1>14 DEF KeptBySuppression
<1> QED
  BY <1>8, <1>10, <1>15 DEF k, N

LEMMA ApplyNMSKeeps == IInv /\ ApplyNMS => IInv'
<1> SUFFICES ASSUME IInv, ApplyNMS PROVE IInv'
  OBVIOUS
<1>1. UNCHANGED <<initialized, hitThreshold, found, lines, results, rc, span>> /\ pc' = "filter"
  BY DEF ApplyNMS, config
<1>2. kept = <<>> /\ lines = <<>> /\ results = <<>>
  BY DEF IInv, ApplyNMS
<1>3. kept' \in Seq(Detections) /\ Len(kept') <= Len(found) /\ KeptBySuppression'
  BY FilteredBySuppression DEF IInv
<1>4. Len(lines') <= Len(kept')
  <2>1. Len(lines') = 0 /\ Len(kept') \in Nat
    BY <1>1, <1>2, <1>3, LenProperties
  <2> QED
    BY <2>1
<1>5. Types'
  BY <1>1, <1>3, <1>4 DEF IInv, Types
<1>6. DOMAIN lines' = {} /\ DOMAIN results' = {}
  BY <1>1, <1>2
<1>7. ResultsOfPassed'
  BY <1>6 DEF ResultsOfPassed
<1> QED
  BY <1>1, <1>3, <1>5, <1>7 DEF IInv, Succeeds

(* The results after one more box.                                         *)
LEMMA FilterOnePasses ==
  ASSUME IInv, FilterOne
  PROVE  Types' /\ ResultsOfPassed'
<1> DEFINE c == Current
           d == kept[c]
<1>1. UNCHANGED <<initialized, hitThreshold, found, kept, pc, rc, span>> /\ pc = "filter"
  BY DEF FilterOne, config
<1>2. PICK count \in LineCounts :
        /\ lines' = Append(lines, count)
        /\ results' = IF Passes(d, count) THEN Append(results, ResultOf(d)) ELSE results
  BY DEF FilterOne
<1>3. /\ lines \in Seq(LineCounts) /\ Len(lines) \in Nat /\ DOMAIN lines = 1 .. Len(lines)
      /\ kept \in Seq(Detections) /\ Len(kept) \in Nat /\ DOMAIN kept = 1 .. Len(kept)
      /\ results \in Seq(Result) /\ Len(results) \in Nat /\ DOMAIN results = 1 .. Len(results)
  BY LenProperties DEF IInv, Types
<1>4. c = Len(lines) + 1 /\ c <= Len(kept) /\ InFrame(d.box)
  BY DEF FilterOne, Current
<1>5. c \in DOMAIN kept /\ d \in Detections
  BY <1>3, <1>4, ElementOfSeq
<1>6. ResultOf(d) \in Result
  BY <1>4, <1>5, ResultTyped
<1> HIDE DEF c, d
<1>7. /\ lines' \in Seq(LineCounts) /\ Len(lines') = c /\ DOMAIN lines' = 1 .. c /\ lines'[c] = count
      /\ \A i \in DOMAIN lines : i \in DOMAIN lines' /\ lines'[i] = lines[i] /\ i < c
      /\ \A i \in DOMAIN lines' : i = c \/ i \in DOMAIN lines
      /\ c \in DOMAIN lines'
  BY <1>2, <1>3, <1>4
<1>8. CASE Passes(d, count)
  <2> DEFINE k == Len(results) + 1
  <2>1. /\ results' \in Seq(Result) /\ DOMAIN results' = 1 .. k /\ results'[k] = ResultOf(d)
        /\ \A m \in DOMAIN results : m \in DOMAIN results' /\ results'[m] = results[m] /\ m < k
        /\ \A m \in DOMAIN results' : m = k \/ m \in DOMAIN results
        /\ k \in DOMAIN results'
    BY <1>2, <1>3, <1>6, <1>8
  <2> HIDE DEF k
  <2>2. Types'
    BY <1>1, <1>4, <1>7, <2>1 DEF IInv, Types
  <2>3. \A m \in DOMAIN results' : \E i \in DOMAIN lines' : results'[m] = ResultOf(kept'[i])
    BY <1>1, <1>7, <2>1 DEF IInv, ResultsOfPassed, d
  <2>4. ASSUME NEW m \in DOMAIN results', NEW n \in DOMAIN results', m < n
        PROVE  \E i, j \in DOMAIN lines' :
                  i < j /\ results'[m] = ResultOf(kept'[i]) /\ results'[n] = ResultOf(kept'[j])
    <3>1. m \in DOMAIN results
      BY <1>3, <2>1, <2>4 DEF k
    <3>2. CASE n = k
      <4>1. PICK i \in DOMAIN lines : results[m] = ResultOf(kept[i])
        BY <3>1 DEF IInv, ResultsOfPassed
      <4>2. i \in DOMAIN lines' /\ i < c /\ results'[m] = ResultOf(kept'[i])
        BY <1>1, <1>7, <2>1, <3>1, <4>1
      <4>3. results'[n] = ResultOf(kept'[c])
        BY <1>1, <2>1, <3>2 DEF d
      <4> QED
        BY <1>7, <4>2, <4>3
    <3>3. CASE n \in DOMAIN results
      <4>1. PICK i \in DOMAIN lines, j \in DOMAIN lines :
              i < j /\ results[m] = ResultOf(kept[i]) /\ results[n] = ResultOf(kept[j])
        BY <2>4, <3>1, <3>3 DEF IInv, ResultsOfPassed
      <4> QED
        BY <1>1, <1>7, <2>1, <3>1, <3>3, <4>1
    <3> QED
      BY <2>1, <3>2, <3>3
  <2>5. ASSUME NEW i \in DOMAIN lines', Passes(kept'[i], lines'[i])
        PROVE  \E m \in DOMAIN results' : results'[m] = ResultOf(kept'[i])
    <3>1. CASE i = c
      BY <1>1, <2>1, <3>1 DEF d
    <3>2. CASE i \in DOMAIN lines
      <4>1. PICK m \in DOMAIN results : results[m] = ResultOf(kept[i])
        BY <1>1, <1>7, <2>5, <3>2 DEF IInv, ResultsOfPassed
      <4> QED
        BY <1>1, <2>1, <4>1
    <3> QED
      BY <1>7, <3>1, <3>2
  <2> QED
    BY <2>2, <2>3, <2>4, <2>5 DEF ResultsOfPassed
<1>9. CASE ~Passes(d, count)
  <2>1. results' = results
    BY <1>2, <1>9
  <2>2. Types'
    BY <1>1, <1>4, <1>7, <2>1 DEF IInv, Types
  <2>3. ~Passes(kept'[c], lines'[c])
    BY <1>1, <1>7, <1>9 DEF d
  <2>4. ASSUME NEW i \in DOMAIN lines', Passes(kept'[i], lines'[i])
        PROVE  \E m \in DOMAIN results' : results'[m] = ResultOf(kept'[i])
    BY <1>1, <1>7, <2>1, <2>3, <2>4 DEF IInv, ResultsOfPassed
  <2>5. /\ \A m \in DOMAIN results' : \E i \in DOMAIN lines' : results'[m] = ResultOf(kept'[i])
        /\ \A m, n \in DOMAIN results' : m < n =>
             \E i, j \in DOMAIN lines' :
                i < j /\ results'[m] = ResultOf(kept'[i]) /\ results'[n] = ResultOf(kept'[j])
    BY <1>1, <1>7, <2>1 DEF IInv, ResultsOfPassed
  <2> QED
    BY <2>2, <2>4, <2>5 DEF ResultsOfPassed
<1> QED
  BY <1>8, <1>9

LEMMA FilterOneKeeps == IInv /\ FilterOne => IInv'
<1> SUFFICES ASSUME IInv, FilterOne PROVE IInv'
  OBVIOUS
<1>1. UNCHANGED <<hitThreshold, found, kept, pc>> /\ pc = "filter"
  BY DEF FilterOne, config
<1>2. KeptBySuppression'
  BY <1>1 DEF IInv, KeptBySuppression, Found
<1> QED
  BY <1>1, <1>2, FilterOnePasses DEF IInv, Succeeds

(* The other steps touch neither the results nor what they come from.      *)
LEMMA ResultsKept ==
  ASSUME IInv, UNCHANGED <<found, kept, lines, results, span>>
  PROVE  /\ initialized' \in BOOLEAN /\ hitThreshold' \in Thresholds
            /\ pc' \in {"idle", "hog", "nms", "filter", "return"} => Types'
         /\ ResultsOfPassed'
         /\ KeptBySuppression /\ hitThreshold' = hitThreshold => KeptBySuppression'
<1>1. initialized' \in BOOLEAN /\ hitThreshold' \in Thresholds
         /\ pc' \in {"idle", "hog", "nms", "filter", "return"} => Types'
  BY DEF IInv, Types
<1>2. ResultsOfPassed'
  BY DEF IInv, ResultsOfPassed
<1>3. KeptBySuppression /\ hitThreshold' = hitThreshold => KeptBySuppression'
  BY DEF KeptBySuppression, Found
<1> QED
  BY <1>1, <1>2, <1>3

LEMMA ElsewhereKeeps ==
  IInv /\ (Configure \/ SetHOGConfig \/ Call \/ FilterEnd \/ Throw \/ UNCHANGED vars) => IInv'
<1> SUFFICES ASSUME IInv, Configure \/ SetHOGConfig \/ Call \/ FilterEnd \/ Throw \/ UNCHANGED vars
             PROVE  IInv'
  OBVIOUS
<1>1. UNCHANGED <<found, kept, lines, results, span>>
  BY DEF Configure, SetHOGConfig, Call, FilterEnd, Throw, vars, config, frame
<1>2. initialized \in BOOLEAN /\ hitThreshold \in Thresholds /\ pc \in {"idle", "hog", "nms", "filter", "return"}
  BY DEF IInv, Types
<1>3. CASE Configure \/ SetHOGConfig
  <2>1. /\ pc = "idle" /\ pc' = "idle" /\ initialized' \in BOOLEAN /\ hitThreshold' \in Thresholds
    BY <1>2, <1>3 DEF Configure, SetHOGConfig, frame
  <2> QED
    BY <1>1, <2>1, ResultsKept DEF IInv, Succeeds
<1>4. CASE Call
  <2>1. /\ pc = "idle" /\ UNCHANGED <<initialized, hitThreshold>>
        /\ (pc' = "return" /\ rc' # "RC_SUCCESS") \/ pc' = "hog"
    BY <1>4 DEF Call, Finish, config
  <2> QED
    BY <1>1, <1>2, <2>1, ResultsKept DEF IInv, Succeeds
<1>5. CASE FilterEnd
  <2>1. /\ pc = "filter" /\ pc' = "return" /\ UNCHANGED <<initialized, hitThreshold>>
        /\ Len(lines) + 1 > Len(kept)
    BY <1>5 DEF FilterEnd, Finish, Current, config
  <2>2. Len(lines) = Len(kept)
    <3>1. Len(lines) \in Nat /\ Len(kept) \in Nat /\ Len(lines) <= Len(kept)
      BY LenProperties DEF IInv, Types
    <3> QED
      BY <2>1, <3>1
  <2> QED
    BY <1>1, <1>2, <2>1, <2>2, ResultsKept DEF IInv, Succeeds
<1>6. CASE Throw
  <2>1. pc' = "return" /\ rc' # "RC_SUCCESS" /\ UNCHANGED <<initialized, hitThreshold>>
    BY <1>6 DEF Throw, Finish, config
  <2> QED
    BY <1>1, <1>2, <2>1, ResultsKept DEF IInv, Succeeds
<1>7. CASE UNCHANGED vars
  <2>1. UNCHANGED <<initialized, hitThreshold, pc, rc>>
    BY <1>7 DEF vars, config
  <2> QED
    BY <1>1, <1>2, <2>1, ResultsKept DEF IInv, Succeeds
<1> QED
  BY <1>3, <1>4, <1>5, <1>6, <1>7

LEMMA DetectReturnsKeeps == IInv /\ DetectReturns => IInv'
<1> SUFFICES ASSUME IInv, DetectReturns PROVE IInv'
  OBVIOUS
<1>1. /\ UNCHANGED <<initialized, hitThreshold>> /\ pc' = "idle"
      /\ found' = <<>> /\ kept' = <<>> /\ lines' = <<>> /\ results' = <<>>
  BY DEF DetectReturns, Return, config
<1>2. span' \in [1 .. SpanSize -> Result \cup {Unset}]
  <2>1. results \in Seq(Result) /\ span \in [1 .. SpanSize -> Result \cup {Unset}] /\ SpanSize \in Nat
    BY HOGAssumption DEF IInv, Types
  <2>2. Len(results) \in Nat /\ \A n \in 1 .. Len(results) : results[n] \in Result
    BY <2>1, LenProperties, ElementOfSeq
  <2> DEFINE count == Least(Len(results), SpanSize)
  <2>3. count \in Nat /\ count <= Len(results)
    BY <2>1, <2>2 DEF Least
  <2>4. span' = span \/ span' = CopyInto(count, SpanSize)
    BY DEF DetectReturns, Return
  <2> HIDE DEF count
  <2>5. CopyInto(count, SpanSize) \in [1 .. SpanSize -> Result \cup {Unset}]
    <3>1. ASSUME NEW n \in 1 .. SpanSize
          PROVE  (IF n <= count THEN results[n] ELSE span[n]) \in Result \cup {Unset}
      BY <2>1, <2>2, <2>3
    <3> QED
      BY <3>1 DEF CopyInto
  <2> QED
    BY <2>1, <2>4, <2>5
<1>3. Len(<<>>) = 0 /\ MaxDetections \in Nat
  BY HOGAssumption
<1>4. Types'
  BY <1>1, <1>2, <1>3 DEF IInv, Types
<1>5. DOMAIN lines' = {} /\ DOMAIN results' = {}
  BY <1>1
<1>6. ResultsOfPassed'
  BY <1>5 DEF ResultsOfPassed
<1> QED
  BY <1>1, <1>4, <1>6 DEF IInv, Succeeds

LEMMA IInvStep == IInv /\ [Next]_vars => IInv'
  BY DetectMultiScaleKeeps, ApplyNMSKeeps, FilterOneKeeps, ElsewhereKeeps, DetectReturnsKeeps DEF Next

LEMMA IInvAlways == Spec => []IInv
  BY IInvInit, IInvStep, PTL DEF Spec

(* A result before another one stands for a box that was kept before it.   *)
LEMMA TwoResults ==
  ASSUME IInv, Succeeds, NEW m \in DOMAIN results, NEW n \in DOMAIN results, m < n
  PROVE  /\ results[n].confidence <= results[m].confidence
         /\ ~OverlapsBeyond(results[n].box, results[m].box, 30)
<1>1. PICK i \in DOMAIN lines, j \in DOMAIN lines :
        i < j /\ results[m] = ResultOf(kept[i]) /\ results[n] = ResultOf(kept[j])
  BY DEF IInv, ResultsOfPassed
<1>2. i \in DOMAIN kept /\ j \in DOMAIN kept
  BY LenProperties DEF IInv, Types
<1> QED
  BY <1>1, <1>2 DEF IInv, KeptBySuppression, ResultOf

LEMMA OfFrame == IInv => ResultsOfFrame
<1> SUFFICES ASSUME IInv, Succeeds
             PROVE  /\ \A r \in ToSet(results) :
                         [box |-> r.box, confidence |-> r.confidence] \in Found /\ r.confidence > hitThreshold
                    /\ \A m, n \in DOMAIN results :
                          m # n => ~OverlapsBeyond(results[m].box, results[n].box, 30)
                    /\ \A d \in Found : d.confidence > hitThreshold =>
                          \/ Listed(d) \/ Rejected(d)
                          \/ \E k \in ToSet(kept) : /\ OverlapsBeyond(k.box, d.box, 30)
                                                    /\ k.confidence >= d.confidence
  BY DEF ResultsOfFrame, Succeeds
<1>1. /\ KeptBySuppression /\ ResultsOfPassed /\ DOMAIN lines = DOMAIN kept
      /\ DOMAIN results = 1 .. Len(results) /\ Len(results) \in Nat
      /\ \A n \in DOMAIN results : results[n] \in Result
      /\ \A i \in DOMAIN kept : kept[i] \in Detections
  BY LenProperties, ElementOfSeq DEF IInv, Types
<1>2. ASSUME NEW r \in ToSet(results)
      PROVE  [box |-> r.box, confidence |-> r.confidence] \in Found /\ r.confidence > hitThreshold
  <2>1. PICK i \in DOMAIN kept : r = ResultOf(kept[i])
    BY <1>1 DEF ResultsOfPassed, ToSet
  <2>2. [box |-> r.box, confidence |-> r.confidence] = kept[i]
    BY <1>1, <2>1 DEF ResultOf, Detections
  <2> QED
    BY <1>1, <2>1, <2>2 DEF KeptBySuppression, ResultOf
<1>3. ASSUME NEW m \in DOMAIN results, NEW n \in DOMAIN results, m # n
      PROVE  ~OverlapsBeyond(results[m].box, results[n].box, 30)
  <2>1. results[m].box \in Rects /\ results[n].box \in Rects
    BY <1>1 DEF Result
  <2>2. m < n \/ n < m
    BY <1>1, <1>3
  <2> QED
    BY <2>1, <2>2, TwoResults, OverlapSymmetric
<1>4. ASSUME NEW d \in Found, d.confidence > hitThreshold
      PROVE  \/ Listed(d) \/ Rejected(d)
             \/ \E k \in ToSet(kept) : OverlapsBeyond(k.box, d.box, 30) /\ k.confidence >= d.confidence
  <2>1. CASE d \in ToSet(kept)
    <3>1. PICK i \in DOMAIN lines : kept[i] = d
      BY <1>1, <2>1 DEF ToSet
    <3>2. CASE Passes(kept[i], lines[i])
      <4>1. PICK m \in DOMAIN results : results[m] = ResultOf(d)
        BY <1>1, <3>1, <3>2 DEF ResultsOfPassed
      <4> QED
        BY <4>1 DEF Listed, ResultOf, ToSet
    <3>3. CASE ~Passes(kept[i], lines[i])
      BY <3>1, <3>3 DEF Rejected
    <3> QED
      BY <3>2, <3>3
  <2> QED
    BY <1>1, <1>4, <2>1 DEF KeptBySuppression
<1> QED
  BY <1>2, <1>3, <1>4

(* A detection that succeeds returns what there is in this frame, whatever
   HOG finds, however many lines Hough finds in it, and for every threshold. *)
THEOREM ResultsAlwaysComplete == Spec => []ResultsComplete
<1>1. IInv => TypeOK
  <2> SUFFICES ASSUME IInv PROVE TypeOK
    OBVIOUS
  <2>1. DOMAIN span = 1 .. SpanSize /\ \A n \in DOMAIN span : span[n] \in Result \cup {Unset}
    BY DEF IInv, Types
  <2>2. Range(span) \subseteq Result \cup {Unset}
    BY <2>1 DEF Range
  <2> QED
    BY <2>1, <2>2 DEF IInv, Types, TypeOK
<1>2. IInv => ResultsComplete
  BY <1>1, OfFrame DEF ResultsComplete
<1> QED
  BY <1>2, IInvAlways, PTL

(* A span that is too small gets the most confident results, for every size
   of it, and a call that fails leaves it alone.                           *)
THEOREM SpanAlwaysWritten == Spec => SpanWritten
<1> DEFINE Rest == DetectReturns /\ api = "detect" /\ rc = "RC_SUCCESS" =>
                     \A n \in SpanSize + 1 .. Len(results), m \in 1 .. SpanSize :
                        results[n].confidence <= span'[m].confidence
           Alone == pc = "return" /\ rc # "RC_SUCCESS" => span' = span
<1>1. IInv /\ [Next]_vars => [Rest]_vars
  <2> SUFFICES ASSUME IInv, DetectReturns, api = "detect", rc = "RC_SUCCESS",
                      NEW n \in SpanSize + 1 .. Len(results), NEW m \in 1 .. SpanSize
               PROVE  results[n].confidence <= span'[m].confidence
    OBVIOUS
  <2>1. /\ Len(results) \in Nat /\ DOMAIN results = 1 .. Len(results) /\ SpanSize \in Nat /\ Succeeds
    BY LenProperties, HOGAssumption DEF IInv, Types, DetectReturns, Return, Succeeds
  <2>2. n \in DOMAIN results /\ m \in DOMAIN results /\ m < n
    BY <2>1
  <2>3. Least(Len(results), SpanSize) = SpanSize
    <3>1. ~(Len(results) <= SpanSize)
      BY <2>1
    <3> QED
      BY <3>1, Zenon DEF Least
  <2>4. span' = CopyInto(SpanSize, SpanSize)
    BY <2>3 DEF DetectReturns, Return
  <2>5. span'[m] = results[m]
    BY <2>1, <2>4 DEF CopyInto
  <2> QED
    BY <2>1, <2>2, <2>5, TwoResults
<1>2. [Next]_vars => [Alone]_vars
  BY DEF Next, Configure, SetHOGConfig, Call, DetectMultiScale, ApplyNMS, FilterOne, FilterEnd, Throw,
         DetectReturns, Return, vars
<1>3. Spec => SpanHasMostConfident
  <2>1. Spec => [][Rest]_vars
    BY <1>1, IInvAlways, PTL DEF Spec
  <2> QED
    BY <2>1 DEF SpanHasMostConfident
<1>4. Spec => FailureKeepsSpan
  <2>1. Spec => [][Alone]_vars
    BY <1>2, PTL DEF Spec
  <2> QED
    BY <2>1 DEF FailureKeepsSpan
<1> QED
  BY <1>3, <1>4 DEF SpanWritten

-----------------------------------------------------------------------------
(* What the utilities find.                                                *)
(* The greatest of some positions.                                         *)
LEMMA GreatestPosition ==
  ASSUME NEW n \in Nat, NEW K \in SUBSET (1 .. n), K # {}
  PROVE  Max(K) \in K /\ \A k \in K : k <= Max(K)
<1> DEFINE T == {n - k : k \in K}
<1>1. PICK m \in T : \A d \in T : m <= d
  <2>1. \A k \in K : k \in Nat /\ k <= n /\ n - k \in Nat
    OBVIOUS
  <2>2. T \in SUBSET Nat
    BY <2>1
  <2>3. T # {}
    OBVIOUS
  <2> HIDE DEF T
  <2> QED
    BY <2>2, <2>3, LeastElement
<1>2. PICK x \in K : m = n - x
  OBVIOUS
<1>3. ASSUME NEW k \in K PROVE x >= k /\ k <= x
  <2>1. n - k \in T
    OBVIOUS
  <2>2. n - x <= n - k
    BY <1>1, <1>2, <2>1
  <2> QED
    BY <2>2
<1> QED
  BY <1>3 DEF Max

(* The positions from the greatest one down.                               *)
Down(K) == [t \in SUBSET K |-> Max(t)]

LEMMA DownTakes ==
  ASSUME NEW n \in Nat, NEW K \in SUBSET (1 .. n)
  PROVE  IsFiniteSet(K) /\ TakesOne(K, Down(K))
<1>1. IsFiniteSet(K)
  <2>1. IsFiniteSet(1 .. n)
    BY FS_Interval
  <2> QED
    BY <2>1, FS_Subset
<1>2. ASSUME NEW t \in SUBSET K, t # {} PROVE Max(t) \in t
  <2>1. t \in SUBSET (1 .. n)
    OBVIOUS
  <2> QED
    BY <1>2, <2>1, GreatestPosition
<1> QED
  BY <1>1, <1>2 DEF TakesOne, Down

(* CopyIf appends the result at the greatest position to a copy of the
   rest.                                                                   *)
LEMMA CopyIfFolds ==
  ASSUME NEW s \in Seq(Result), NEW K \in SUBSET DOMAIN s
  PROVE  \E c \in [SUBSET K -> Seq(Result)] :
            /\ CopyIf(s, K) = c[K] /\ c[{}] = <<>>
            /\ \A t \in SUBSET K : t # {} => c[t] = Append(c[t \ {Max(t)}], s[Max(t)])
<1> DEFINE V == Seq(Result)
           add == [p \in K \X V |-> Append(p[2], s[p[1]])]
<1>1. Len(s) \in Nat /\ DOMAIN s = 1 .. Len(s) /\ \A i \in DOMAIN s : s[i] \in Result
  BY LenProperties, ElementOfSeq
<1>2. IsFiniteSet(K) /\ TakesOne(K, Down(K))
  BY <1>1, DownTakes
<1>3. add \in [K \X V -> V] /\ <<>> \in V
  <2>1. ASSUME NEW p \in K \X V PROVE Append(p[2], s[p[1]]) \in V
    <3>1. p[1] \in K /\ p[2] \in Seq(Result)
      OBVIOUS
    <3>2. s[p[1]] \in Result
      BY <1>1, <3>1
    <3> QED
      BY <3>1, <3>2, AppendProperties
  <2>2. <<>> \in V
    OBVIOUS
  <2> HIDE DEF V
  <2> QED
    BY <2>1, <2>2
<1>4. PICK c : Folds(c, K, V, <<>>, Down(K), add)
  <2>1. Adds(add, K, V)
    BY <1>3 DEF Adds
  <2> HIDE DEF V, add
  <2> QED
    BY <1>2, <1>3, <2>1, FoldExists
<1>5. \A t \in SUBSET K : c[t] \in V /\ c[t] = FoldStep(c, <<>>, Down(K), add, t)
  BY <1>4 DEF Folds
<1> HIDE DEF V
<1>6. ASSUME NEW t \in SUBSET K, t # {}
      PROVE c[t] = Append(c[t \ {Max(t)}], s[Max(t)])
  <2>1. Down(K)[t] = Max(t) /\ Max(t) \in K
    BY <1>2, <1>6 DEF TakesOne, Down
  <2>2. c[t] = add[<<Max(t), c[t \ {Max(t)}]>>]
    BY <1>5, <1>6, <2>1 DEF FoldStep
  <2>3. c[t \ {Max(t)}] \in V
    BY <1>5
  <2> QED
    BY <2>1, <2>2, <2>3
<1>7. c[{}] = <<>>
  BY <1>5 DEF FoldStep
<1> HIDE DEF add
<1> DEFINE Step(f, t) == IF t = {} THEN <<>> ELSE Append(f[t \ {Max(t)}], s[Max(t)])
           Fold(f) == f = [t \in SUBSET K |-> Step(f, t)]
<1>8. c = [t \in SUBSET K |-> c[t]]
  BY <1>4 DEF Folds
<1>9. Fold(c)
  <2>1. \A t \in SUBSET K : c[t] = Step(c, t)
    BY <1>6, <1>7
  <2> HIDE DEF Step
  <2> QED
    BY <1>8, <2>1
<1>10. \A f : Fold(f) => f = c
  <2> SUFFICES ASSUME NEW f, Fold(f) PROVE f = c
    OBVIOUS
  <2> HIDE DEF Step
  <2>1. f = [t \in SUBSET K |-> f[t]] /\ \A t \in SUBSET K : f[t] = Step(f, t)
    OBVIOUS
  <2> DEFINE P == {t \in SUBSET K : f[t] = c[t]}
  <2>2. {} \in P
    BY <1>7, <2>1 DEF Step
  <2>3. ASSUME NEW t \in SUBSET K, t # {}, t \ {Down(K)[t]} \in P PROVE t \in P
    <3>1. Down(K)[t] = Max(t)
      BY DEF Down
    <3>2. f[t \ {Max(t)}] = c[t \ {Max(t)}]
      BY <2>3, <3>1
    <3>3. f[t] = Append(f[t \ {Max(t)}], s[Max(t)])
      BY <2>1, <2>3 DEF Step
    <3> QED
      BY <1>6, <2>3, <3>2, <3>3
  <2>4. Inductive(P, K, Down(K))
    BY <2>2, <2>3 DEF Inductive
  <2>5. SUBSET K \subseteq P
    <3> HIDE DEF P
    <3> QED
      BY <1>2, <2>4, TakingInduction
  <2> HIDE DEF Fold
  <2> QED
    BY <1>8, <2>1, <2>5
<1>11. CopyIf(s, K) = (CHOOSE f : Fold(f))[K]
  BY Zenon DEF CopyIf, MapThenFoldSet
<1>12. (CHOOSE f : Fold(f)) = c
  <2> HIDE DEF Fold
  <2> QED
    BY <1>9, <1>10
<1>13. c \in [SUBSET K -> V]
  BY <1>4 DEF Folds
<1> QED
  BY <1>6, <1>7, <1>11, <1>12, <1>13 DEF V

(* What a copy has: as many results as there are positions, each from one
   of them; the first ones, if these are the positions.                    *)
LEMMA CopyIfCopies ==
  ASSUME NEW s \in Seq(Result), NEW K \in SUBSET DOMAIN s
  PROVE  /\ CopyIf(s, K) \in Seq(Result) /\ Len(CopyIf(s, K)) = Cardinality(K)
         /\ \A r \in ToSet(CopyIf(s, K)) : \E i \in K : r = s[i]
         /\ \A k \in 0 .. Len(s) : K = 1 .. k => CopyIf(s, K) = SubSeq(s, 1, k)
<1>1. Len(s) \in Nat /\ DOMAIN s = 1 .. Len(s) /\ \A i \in DOMAIN s : s[i] \in Result
  BY LenProperties, ElementOfSeq
<1>2. IsFiniteSet(K) /\ TakesOne(K, Down(K))
  BY <1>1, DownTakes
<1>3. PICK c \in [SUBSET K -> Seq(Result)] :
        /\ CopyIf(s, K) = c[K] /\ c[{}] = <<>>
        /\ \A t \in SUBSET K : t # {} => c[t] = Append(c[t \ {Max(t)}], s[Max(t)])
  BY CopyIfFolds
<1> DEFINE Copied(t) ==
             /\ Len(c[t]) = Cardinality(t)
             /\ \A n \in DOMAIN c[t] : \E i \in t : c[t][n] = s[i]
             /\ \A k \in 0 .. Len(s) : t = 1 .. k => c[t] = SubSeq(s, 1, k)
           P == {t \in SUBSET K : Copied(t)}
<1>4. {} \in P
  <2>1. Len(<<>>) = 0 /\ DOMAIN <<>> = {} /\ Cardinality({}) = 0
    BY FS_EmptySet
  <2>2. \A k \in 0 .. Len(s) : {} = 1 .. k => k = 0
    BY <1>1
  <2>3. SubSeq(s, 1, 0) = <<>>
    BY <1>1
  <2> QED
    BY <1>3, <2>1, <2>2, <2>3
<1>5. ASSUME NEW t \in SUBSET K, t # {}, t \ {Down(K)[t]} \in P PROVE t \in P
  <2> DEFINE m == Max(t)
             r == t \ {m}
             copy == c[r]
  <2>1. Down(K)[t] = m
    BY DEF Down
  <2>2. Copied(r)
    BY <1>5, <2>1
  <2>3. /\ m \in t /\ m \in DOMAIN s /\ \A k \in t : k <= m
        /\ Cardinality(t) \in Nat /\ Cardinality(r) = Cardinality(t) - 1
    <3>1. m \in t /\ \A k \in t : k <= m
      BY <1>1, <1>5, GreatestPosition
    <3> QED
      BY <1>2, <1>5, <2>1, <3>1, FewerLeft
  <2>4. c[t] = Append(copy, s[m]) /\ copy \in Seq(Result) /\ s[m] \in Result
    BY <1>1, <1>3, <1>5, <2>3
  <2>5. Len(copy) = Cardinality(r) /\ \A n \in DOMAIN copy : \E i \in r : copy[n] = s[i]
    BY <2>2
  <2>6. /\ Len(c[t]) = Len(copy) + 1 /\ Len(copy) \in Nat
        /\ \A n \in DOMAIN c[t] : c[t][n] = s[m] \/ (n \in DOMAIN copy /\ c[t][n] = copy[n])
    <3> HIDE DEF copy, m
    <3> QED
      BY <2>4
  <2>7. ASSUME NEW k \in 0 .. Len(s), t = 1 .. k PROVE c[t] = SubSeq(s, 1, k)
    <3>1. k \in t /\ m = k /\ k - 1 \in 0 .. Len(s) /\ r = 1 .. k - 1
      <4>1. k \in Nat /\ k # 0
        BY <1>1, <1>5, <2>7
      <4>2. k \in t /\ m <= k /\ k <= m /\ m \in Nat
        BY <1>1, <2>3, <2>7, <4>1
      <4>3. m = k
        BY <4>1, <4>2
      <4> HIDE DEF m
      <4> QED
        BY <1>1, <2>7, <4>1, <4>2, <4>3
    <3>2. copy = SubSeq(s, 1, k - 1)
      BY <2>2, <3>1
    <3>3. SubSeq(s, 1, k) = Append(SubSeq(s, 1, k - 1), s[k])
      BY <1>1, <3>1
    <3> QED
      BY <2>4, <3>1, <3>2, <3>3
  <2> HIDE DEF copy, m
  <2>8. Len(c[t]) = Cardinality(t)
    BY <2>3, <2>5, <2>6
  <2>9. \A n \in DOMAIN c[t] : \E i \in t : c[t][n] = s[i]
    BY <2>3, <2>5, <2>6
  <2>10. Copied(t)
    BY <2>7, <2>8, <2>9
  <2> HIDE DEF Copied
  <2> QED
    BY <2>10
<1>6. Inductive(P, K, Down(K))
  BY <1>4, <1>5 DEF Inductive
<1>7. K \in P
  <2> HIDE DEF P
  <2> QED
    BY <1>2, <1>6, TakingInduction
<1>8. Copied(K)
  BY <1>7
<1> QED
  BY <1>3, <1>8 DEF ToSet

(* The most confident results first.                                       *)
Ranked(s) == \A m, n \in DOMAIN s : m < n => s[n].confidence <= s[m].confidence

(* The first j of the first n results.                                     *)
LEMMA FirstOfFirst ==
  ASSUME NEW s \in Seq(Result), NEW n \in 0 .. Len(s), NEW j \in 0 .. n
  PROVE  /\ SubSeq(s, 1, n) \in Seq(Result) /\ Len(SubSeq(s, 1, n)) = n
         /\ \A i \in 1 .. n : SubSeq(s, 1, n)[i] = s[i]
         /\ SubSeq(SubSeq(s, 1, n), 1, j) = SubSeq(s, 1, j)
<1>1. Len(s) \in Nat /\ n \in Nat /\ j \in Nat /\ j <= n /\ n <= Len(s)
  BY LenProperties
<1>2. /\ SubSeq(s, 1, n) \in Seq(Result) /\ Len(SubSeq(s, 1, n)) = n
      /\ \A i \in 1 .. n : SubSeq(s, 1, n)[i] = s[i]
  BY <1>1
<1>3. SubSeq(SubSeq(s, 1, n), 1, j) = SubSeq(s, 1, j)
  BY <1>1, <1>2
<1> QED
  BY <1>2, <1>3

(* What the type of a sequence of results says.                            *)
LEMMA ResultTypes ==
  ASSUME NEW s \in Seq(Result)
  PROVE  /\ Len(s) \in Nat /\ DOMAIN s = 1 .. Len(s)
         /\ \A i \in DOMAIN s : /\ s[i] \in Result
                                /\ s[i].confidence \in Int /\ s[i].confidence \in Confidences
<1>1. Len(s) \in Nat /\ DOMAIN s = 1 .. Len(s) /\ \A i \in DOMAIN s : s[i] \in Result
  BY LenProperties, ElementOfSeq
<1>2. \A i \in DOMAIN s : s[i].confidence \in Confidences
  BY <1>1 DEF Result
<1> QED
  BY <1>1, <1>2, HOGAssumption

(* Those at least as confident as a limit are the first ones.              *)
LEMMA ConfidentFirst ==
  ASSUME NEW s \in Seq(Result), Ranked(s), NEW limit \in Int
  PROVE  \E k \in 0 .. Len(s) : \A i \in DOMAIN s : s[i].confidence >= limit <=> i <= k
<1> DEFINE K == {i \in DOMAIN s : s[i].confidence >= limit}
<1>1. /\ Len(s) \in Nat /\ DOMAIN s = 1 .. Len(s)
      /\ \A i \in DOMAIN s : s[i].confidence \in Int
  BY ResultTypes
<1>2. CASE K = {}
  <2>1. \A i \in DOMAIN s : s[i].confidence >= limit <=> i <= 0
    BY <1>1, <1>2
  <2> QED
    BY <1>1, <2>1
<1>3. CASE K # {}
  <2> DEFINE k == Max(K)
  <2>1. K \in SUBSET (1 .. Len(s))
    BY <1>1
  <2>2. k \in K /\ \A i \in K : i <= k
    <3> HIDE DEF K
    <3> QED
      BY <1>1, <1>3, <2>1, GreatestPosition
  <2>3. k \in DOMAIN s /\ s[k].confidence >= limit
    BY <2>2
  <2> HIDE DEF k
  <2>4. ASSUME NEW i \in DOMAIN s PROVE s[i].confidence >= limit <=> i <= k
    <3>1. CASE i = k
      BY <1>1, <2>3, <3>1
    <3>2. CASE i < k
      <4>1. s[k].confidence <= s[i].confidence
        BY <2>3, <3>2 DEF Ranked
      <4> QED
        BY <1>1, <2>3, <3>2, <4>1
    <3>3. CASE k < i
      <4>1. i \notin K
        BY <1>1, <2>2, <2>3, <3>3
      <4> QED
        BY <1>1, <2>3, <3>3, <4>1
    <3> QED
      BY <1>1, <2>3, <3>1, <3>2, <3>3
  <2> QED
    BY <1>1, <2>3, <2>4
<1> QED
  BY <1>2, <1>3

(* Then the filter leaves a prefix.                                        *)
LEMMA FilterIsPrefix ==
  ASSUME NEW s \in Seq(Result), NEW limit \in Int, NEW k \in 0 .. Len(s),
         \A i \in DOMAIN s : s[i].confidence >= limit <=> i <= k
  PROVE  FilterByConfidence(s, limit) = SubSeq(s, 1, k)
<1> DEFINE K == {i \in DOMAIN s : s[i].confidence >= limit}
<1>1. Len(s) \in Nat /\ DOMAIN s = 1 .. Len(s)
  BY LenProperties
<1>2. K = 1 .. k /\ K \in SUBSET DOMAIN s
  BY <1>1
<1>3. FilterByConfidence(s, limit) = CopyIf(s, K)
  BY DEF FilterByConfidence
<1> HIDE DEF K
<1>4. \A j \in 0 .. Len(s) : K = 1 .. j => CopyIf(s, K) = SubSeq(s, 1, j)
  BY <1>2, CopyIfCopies
<1> QED
  BY <1>2, <1>3, <1>4

(* A limit on the confidence and one on the number, in either order.       *)
LEMMA LimitsCommute ==
  ASSUME NEW s \in Seq(Result), Ranked(s), NEW limit \in Int, NEW n \in 0 .. Len(s)
  PROVE  FilterByConfidence(SubSeq(s, 1, n), limit) = GetTopN(FilterByConfidence(s, limit), n)
<1>1. PICK k \in 0 .. Len(s) : \A i \in DOMAIN s : s[i].confidence >= limit <=> i <= k
  BY ConfidentFirst
<1>2. FilterByConfidence(s, limit) = SubSeq(s, 1, k)
  BY <1>1, FilterIsPrefix
<1>3. Len(s) \in Nat /\ DOMAIN s = 1 .. Len(s) /\ n \in Nat /\ k \in Nat /\ n <= Len(s) /\ k <= Len(s)
  BY LenProperties
<1> DEFINE j == Least(n, k)
           top == SubSeq(s, 1, n)
<1>4. j \in 0 .. n /\ j \in 0 .. k /\ \A i \in 1 .. n : i <= k <=> i <= j
  BY <1>3 DEF Least
<1>5. /\ top \in Seq(Result) /\ Len(top) = n /\ \A i \in 1 .. n : top[i] = s[i]
      /\ DOMAIN top = 1 .. n
  <2>1. top \in Seq(Result) /\ Len(top) = n /\ \A i \in 1 .. n : top[i] = s[i]
    BY FirstOfFirst, <1>4
  <2> QED
    BY <2>1, LenProperties
<1> HIDE DEF j
<1>6. FilterByConfidence(top, limit) = SubSeq(top, 1, j)
  <2> HIDE DEF top
  <2>1. ASSUME NEW i \in DOMAIN top PROVE top[i].confidence >= limit <=> i <= j
    <3>1. i \in 1 .. n /\ i \in DOMAIN s /\ top[i] = s[i]
      BY <1>3, <1>5
    <3> QED
      BY <1>1, <1>4, <3>1
  <2>2. j \in 0 .. Len(top)
    BY <1>4, <1>5
  <2> QED
    BY <1>5, <2>1, <2>2, FilterIsPrefix
<1>7. SubSeq(top, 1, j) = SubSeq(s, 1, j)
  BY <1>4, FirstOfFirst
<1>8. /\ GetTopN(SubSeq(s, 1, k), n) = SubSeq(SubSeq(s, 1, k), 1, j)
      /\ SubSeq(SubSeq(s, 1, k), 1, j) = SubSeq(s, 1, j)
  <2>1. Len(SubSeq(s, 1, k)) = k
    BY <1>4, FirstOfFirst
  <2> QED
    BY <1>4, <2>1, FirstOfFirst DEF GetTopN, j
<1> QED
  BY <1>2, <1>6, <1>7, <1>8

(* The sum of a sequence.                                                  *)
SumOf(f) == FoldLeft(+, 0, f)

(* It adds the last summand to the sum of the rest.                        *)
LEMMA SumFolds ==
  ASSUME NEW f \in Seq(Int)
  PROVE  \E c \in [SUBSET DOMAIN f -> Int] :
            /\ SumOf(f) = c[DOMAIN f] /\ c[{}] = 0
            /\ \A t \in SUBSET DOMAIN f : t # {} => c[t] = c[t \ {Max(t)}] + f[Max(t)]
<1> DEFINE K == DOMAIN f
           add == [p \in K \X Int |-> p[2] + f[p[1]]]
<1>1. Len(f) \in Nat /\ K = 1 .. Len(f) /\ \A i \in K : f[i] \in Int
  BY LenProperties, ElementOfSeq
<1>2. IsFiniteSet(K) /\ TakesOne(K, Down(K))
  <2>1. K \in SUBSET (1 .. Len(f))
    BY <1>1
  <2> HIDE DEF K
  <2> QED
    BY <1>1, <2>1, DownTakes
<1> HIDE DEF K
<1>3. Adds(add, K, Int)
  <2>1. ASSUME NEW p \in K \X Int PROVE p[2] + f[p[1]] \in Int
    BY <1>1
  <2> QED
    BY <2>1 DEF Adds
<1>4. PICK c : Folds(c, K, Int, 0, Down(K), add)
  <2> HIDE DEF add
  <2> QED
    BY <1>2, <1>3, FoldExists
<1>5. \A t \in SUBSET K : c[t] \in Int /\ c[t] = FoldStep(c, 0, Down(K), add, t)
  BY <1>4 DEF Folds
<1>6. ASSUME NEW t \in SUBSET K, t # {}
      PROVE c[t] = c[t \ {Max(t)}] + f[Max(t)]
  <2>1. Down(K)[t] = Max(t) /\ Max(t) \in K
    BY <1>2, <1>6 DEF TakesOne, Down
  <2>2. c[t] = add[<<Max(t), c[t \ {Max(t)}]>>]
    BY <1>5, <1>6, <2>1 DEF FoldStep
  <2>3. c[t \ {Max(t)}] \in Int
    BY <1>5
  <2> QED
    BY <2>1, <2>2, <2>3
<1>7. c[{}] = 0
  BY <1>5 DEF FoldStep
<1> HIDE DEF add
<1> DEFINE Step(g, t) == IF t = {} THEN 0 ELSE g[t \ {Max(t)}] + f[Max(t)]
           Fold(g) == g = [t \in SUBSET K |-> Step(g, t)]
<1>8. c = [t \in SUBSET K |-> c[t]]
  BY <1>4 DEF Folds
<1>9. Fold(c)
  <2>1. \A t \in SUBSET K : c[t] = Step(c, t)
    BY <1>6, <1>7
  <2> HIDE DEF Step
  <2> QED
    BY <1>8, <2>1
<1>10. \A g : Fold(g) => g = c
  <2> SUFFICES ASSUME NEW g, Fold(g) PROVE g = c
    OBVIOUS
  <2> HIDE DEF Step
  <2>1. g = [t \in SUBSET K |-> g[t]] /\ \A t \in SUBSET K : g[t] = Step(g, t)
    OBVIOUS
  <2> DEFINE P == {t \in SUBSET K : g[t] = c[t]}
  <2>2. {} \in P
    BY <1>7, <2>1 DEF Step
  <2>3. ASSUME NEW t \in SUBSET K, t # {}, t \ {Down(K)[t]} \in P PROVE t \in P
    <3>1. Down(K)[t] = Max(t)
      BY DEF Down
    <3>2. g[t \ {Max(t)}] = c[t \ {Max(t)}]
      BY <2>3, <3>1
    <3>3. g[t] = g[t \ {Max(t)}] + f[Max(t)]
      BY <2>1, <2>3 DEF Step
    <3> QED
      BY <1>6, <2>3, <3>2, <3>3
  <2>4. Inductive(P, K, Down(K))
    BY <2>2, <2>3 DEF Inductive
  <2>5. SUBSET K \subseteq P
    <3> HIDE DEF P
    <3> QED
      BY <1>2, <2>4, TakingInduction
  <2> HIDE DEF Fold
  <2> QED
    BY <1>8, <2>1, <2>5
<1>11. SumOf(f) = (CHOOSE g : Fold(g))[K]
  BY Zenon DEF SumOf, FoldLeft, MapThenFoldSet, K
<1>12. (CHOOSE g : Fold(g)) = c
  <2> HIDE DEF Fold
  <2> QED
    BY <1>9, <1>10
<1>13. c \in [SUBSET K -> Int]
  BY <1>4 DEF Folds
<1> QED
  BY <1>6, <1>7, <1>11, <1>12, <1>13 DEF K

LEMMA OneMoreTime ==
  ASSUME NEW k \in Nat, NEW m \in Int
  PROVE  (k + 1) * m = k * m + m
  BY SMT

(* A sum lies between what it would be with the least summand for all, and
   with the greatest.                                                      *)
LEMMA SumBounds ==
  ASSUME NEW f \in Seq(Int), NEW lo \in Int, NEW hi \in Int,
         \A i \in DOMAIN f : lo <= f[i] /\ f[i] <= hi
  PROVE  SumOf(f) \in Int /\ Len(f) * lo <= SumOf(f) /\ SumOf(f) <= Len(f) * hi
<1> DEFINE K == DOMAIN f
<1>1. Len(f) \in Nat /\ K = 1 .. Len(f) /\ \A i \in K : f[i] \in Int
  BY LenProperties, ElementOfSeq
<1>2. PICK c \in [SUBSET K -> Int] :
        /\ SumOf(f) = c[K] /\ c[{}] = 0
        /\ \A t \in SUBSET K : t # {} => c[t] = c[t \ {Max(t)}] + f[Max(t)]
  BY SumFolds
<1> HIDE DEF K
<1>3. IsFiniteSet(K) /\ TakesOne(K, Down(K)) /\ Cardinality(K) = Len(f)
  <2>1. K \in SUBSET (1 .. Len(f))
    BY <1>1
  <2>2. \A n \in Nat : Cardinality(1 .. n) = n
    BY FS_Interval
  <2> QED
    BY <1>1, <2>1, <2>2, DownTakes
<1> DEFINE P == {t \in SUBSET K : Cardinality(t) * lo <= c[t] /\ c[t] <= Cardinality(t) * hi}
<1>4. {} \in P
  BY <1>2, FS_EmptySet
<1>5. ASSUME NEW t \in SUBSET K, t # {}, t \ {Down(K)[t]} \in P PROVE t \in P
  <2> DEFINE m == Max(t)
             r == t \ {m}
             k == Cardinality(r)
  <2>1. Down(K)[t] = m
    BY DEF Down
  <2>2. /\ m \in K /\ r \in SUBSET K /\ k \in Nat /\ Cardinality(t) = k + 1
    <3> HIDE DEF P, k, r
    <3>1. Down(K)[t] \in t /\ t \ {Down(K)[t]} \in SUBSET K
          /\ Cardinality(t) \in Nat /\ Cardinality(t \ {Down(K)[t]}) = Cardinality(t) - 1
      BY <1>3, <1>5, FewerLeft
    <3>2. k = Cardinality(t) - 1 /\ IsFiniteSet(r)
      BY <1>3, <2>1, <3>1, FS_Subset DEF k, r
    <3>3. k \in Nat
      BY <3>2, FS_CardinalityType DEF k
    <3> QED
      BY <2>1, <3>1, <3>2, <3>3 DEF r
  <2>3. c[t] = c[r] + f[m] /\ c[r] \in Int /\ f[m] \in Int /\ lo <= f[m] /\ f[m] <= hi
    BY <1>1, <1>2, <1>5, <2>2 DEF K
  <2>4. k * lo <= c[r] /\ c[r] <= k * hi
    BY <1>5, <2>1
  <2> HIDE DEF m, r, k
  <2>5. (k + 1) * lo = k * lo + lo /\ (k + 1) * hi = k * hi + hi
    BY <2>2, OneMoreTime
  <2> DEFINE a == k * lo
             b == k * hi
  <2>6. a \in Int /\ b \in Int
    BY <2>2
  <2>7. a + lo <= c[t] /\ c[t] <= b + hi
    <3> HIDE DEF a, b
    <3>1. a <= c[r] /\ c[r] <= b
      BY <2>4 DEF a, b
    <3> QED
      BY <2>3, <2>6, <3>1
  <2>8. Cardinality(t) * lo <= c[t] /\ c[t] <= Cardinality(t) * hi
    BY <2>2, <2>5, <2>7
  <2> QED
    BY <2>8
<1>6. Inductive(P, K, Down(K))
  BY <1>4, <1>5 DEF Inductive
<1>7. K \in P
  <2> HIDE DEF P
  <2> QED
    BY <1>3, <1>6, TakingInduction
<1> QED
  BY <1>2, <1>3, <1>7

(* The statistics of ranked results.                                       *)
LEMMA StatisticsRanked ==
  ASSUME NEW s \in Seq(Result), Ranked(s), s # <<>>
  PROVE  LET stats == CalculateStatistics(s) IN
           /\ stats.maxConfidence = s[1].confidence
           /\ stats.minConfidence = s[Len(s)].confidence
           /\ stats.sumConfidence \in stats.count * stats.minConfidence .. stats.count * stats.maxConfidence
<1> DEFINE N == Len(s)
           C == {d["confidence"] : d \in ToSet(s)}
           f == [i \in DOMAIN s |-> s[i].confidence]
           hi == s[1].confidence
           lo == s[N].confidence
<1>1. /\ N \in Nat /\ DOMAIN s = 1 .. N /\ N # 0
      /\ \A i \in DOMAIN s : s[i] \in Result /\ s[i].confidence \in Int
  BY ResultTypes, EmptySeq
<1>2. 1 \in DOMAIN s /\ N \in DOMAIN s /\ hi \in Int /\ lo \in Int
  BY <1>1
<1>3. ASSUME NEW i \in DOMAIN s PROVE lo <= s[i].confidence /\ s[i].confidence <= hi
  <2>1. i = 1 \/ s[i].confidence <= hi
    BY <1>1, <1>2 DEF Ranked
  <2>2. i = N \/ lo <= s[i].confidence
    BY <1>1, <1>2 DEF Ranked
  <2> QED
    BY <1>1, <1>2, <2>1, <2>2
<1>4. C = {s[i].confidence : i \in DOMAIN s}
  BY DEF ToSet
<1>5. Max(C) = hi
  <2>1. hi \in C /\ \A c \in C : hi >= c /\ c \in Int
    BY <1>1, <1>2, <1>3, <1>4
  <2> HIDE DEF C, hi
  <2>2. \A x \in C : (\A c \in C : x >= c) => x = hi
    BY <1>2, <2>1
  <2> QED
    BY <2>1, <2>2 DEF Max
<1>6. Min(C) = lo
  <2>1. lo \in C /\ \A c \in C : lo <= c /\ c \in Int
    BY <1>1, <1>2, <1>3, <1>4
  <2> HIDE DEF C, lo
  <2>2. \A x \in C : (\A c \in C : x <= c) => x = lo
    BY <1>2, <2>1
  <2> QED
    BY <2>1, <2>2 DEF Min
<1>7. f \in Seq(Int) /\ Len(f) = N /\ \A i \in DOMAIN f : lo <= f[i] /\ f[i] <= hi
  <2>1. f \in [1 .. N -> Int]
    BY <1>1
  <2>2. f \in Seq(Int) /\ Len(f) = N
    <3> HIDE DEF f, N
    <3> QED
      BY <1>1, <2>1
  <2> QED
    BY <1>3, <2>2
<1>8. SumOf(f) \in Int /\ N * lo <= SumOf(f) /\ SumOf(f) <= N * hi
  <2> HIDE DEF f, lo, hi, N
  <2> QED
    BY <1>2, <1>7, SumBounds
<1>9. LET stats == CalculateStatistics(s) IN
        /\ stats.count = N /\ stats.maxConfidence = Max(C) /\ stats.minConfidence = Min(C)
        /\ stats.sumConfidence = SumOf(f)
  BY DEF CalculateStatistics, SumOf
<1>10. N * lo \in Int /\ N * hi \in Int
  BY <1>1, <1>2
<1> HIDE DEF f, lo, hi, N, C
<1>11. SumOf(f) \in N * lo .. N * hi
  BY <1>8, <1>10
<1> QED
  BY <1>5, <1>6, <1>9, <1>11 DEF lo, hi, N

(* The whole frame holds every box of it that has an area.                 *)
LEMMA FrameHolds ==
  ASSUME NEW r, InFrame(r), Area(r) >= MIN_DETECTION_AREA
  PROVE  IntersectionArea([x |-> 0, y |-> 0, w |-> FrameWidth, h |-> FrameHeight], r) > 0
<1>1. /\ r.x \in Nat /\ r.w \in Nat /\ r.x + r.w <= 960
      /\ r.y \in Nat /\ r.h \in Nat /\ r.y + r.h <= 540
  BY DEF InFrame, FrameWidth, FrameHeight
<1>2. Common(0, 960, r.x, r.w) = r.w /\ Common(0, 540, r.y, r.h) = r.h
  BY <1>1, SMT DEF Common, Least, Most
<1>3. IntersectionArea([x |-> 0, y |-> 0, w |-> FrameWidth, h |-> FrameHeight], r) = Area(r)
  BY <1>2 DEF IntersectionArea, Area, FrameWidth, FrameHeight
<1>4. Area(r) \in Nat
  BY <1>1, SMT DEF Area
<1> QED
  BY <1>3, <1>4 DEF MIN_DETECTION_AREA

(* The area of the whole frame keeps every result.                         *)
LEMMA AreaKeepsAll ==
  ASSUME NEW s \in Seq(Result), \A i \in DOMAIN s : FromBox(s[i])
  PROVE  FilterByArea(s, [x |-> 0, y |-> 0, w |-> FrameWidth, h |-> FrameHeight]) = s
<1> DEFINE area == [x |-> 0, y |-> 0, w |-> FrameWidth, h |-> FrameHeight]
           K == {i \in DOMAIN s : IntersectionArea(area, s[i].box) > 0}
<1>1. Len(s) \in Nat /\ DOMAIN s = 1 .. Len(s)
  BY LenProperties
<1>2. K = DOMAIN s
  BY FrameHolds DEF FromBox
<1>3. FilterByArea(s, area) = CopyIf(s, K)
  BY DEF FilterByArea
<1> HIDE DEF area, K
<1>4. CopyIf(s, K) = SubSeq(s, 1, Len(s))
  <2>1. K \in SUBSET DOMAIN s /\ K = 1 .. Len(s) /\ Len(s) \in 0 .. Len(s)
    BY <1>1, <1>2
  <2>2. \A k \in 0 .. Len(s) : K = 1 .. k => CopyIf(s, K) = SubSeq(s, 1, k)
    BY <2>1, CopyIfCopies
  <2> QED
    BY <2>1, <2>2
<1>5. SubSeq(s, 1, Len(s)) = s
  OBVIOUS
<1> QED
  BY <1>3, <1>4, <1>5 DEF area

(* Results are only ever appended in the order of the boxes that NMS kept. *)
LEMMA ResultsRanked == IInv => Ranked(results) /\ results \in Seq(Result)
<1> SUFFICES ASSUME IInv PROVE Ranked(results)
  BY DEF IInv, Types
<1>1. ASSUME NEW m \in DOMAIN results, NEW n \in DOMAIN results, m < n
      PROVE  results[n].confidence <= results[m].confidence
  <2>1. PICK i \in DOMAIN lines, j \in DOMAIN lines :
          i < j /\ results[m] = ResultOf(kept[i]) /\ results[n] = ResultOf(kept[j])
    BY <1>1 DEF IInv, ResultsOfPassed
  <2>2. i \in DOMAIN kept /\ j \in DOMAIN kept
    BY LenProperties DEF IInv, Types
  <2>3. KeptBySuppression
    BY <2>2 DEF IInv
  <2> QED
    BY <2>1, <2>2, <2>3 DEF KeptBySuppression, ResultOf
<1> QED
  BY <1>1 DEF Ranked

(* The results are ranked at every moment of every call, for every box and
   confidence the detector may return: the first n are the n most confident
   ones, the two limits commute, the statistics lie between the first and
   the last result, and the area of the whole frame keeps them all.        *)
THEOREM ResultsAlwaysRanked == Spec => []ResultsAreRanked
<1>1. ASSUME IInv, ResultsFromBoxes PROVE ResultsAreRanked
  <2>1. /\ results \in Seq(Result) /\ Ranked(results)
        /\ Len(results) \in Nat /\ DOMAIN results = 1 .. Len(results)
    BY <1>1, ResultsRanked, LenProperties
  <2>2. ASSUME NEW n \in 0 .. Len(results)
        PROVE  LET top == GetTopN(results, n) IN
                 /\ Len(top) = n
                 /\ \A r \in ToSet(top), m \in n + 1 .. Len(results) : results[m].confidence <= r.confidence
                 /\ \A limit \in Confidences :
                      FilterByConfidence(top, limit) = GetTopN(FilterByConfidence(results, limit), n)
    <3> DEFINE top == SubSeq(results, 1, n)
    <3>1. GetTopN(results, n) = top
      <4>1. n <= Len(results)
        BY <2>1
      <4> QED
        BY <4>1, Zenon DEF GetTopN, Least
    <3>2. top \in Seq(Result) /\ Len(top) = n /\ \A i \in 1 .. n : top[i] = results[i]
      BY <2>1, FirstOfFirst
    <3>3. DOMAIN top = 1 .. n
      BY <3>2, LenProperties
    <3>4. \A limit \in Confidences :
             FilterByConfidence(top, limit) = GetTopN(FilterByConfidence(results, limit), n)
      BY <2>1, HOGAssumption, LimitsCommute
    <3> HIDE DEF top
    <3>5. ASSUME NEW r \in ToSet(top), NEW m \in n + 1 .. Len(results)
          PROVE  results[m].confidence <= r.confidence
      <4>1. PICK i \in 1 .. n : r = results[i]
        BY <3>2, <3>3 DEF ToSet
      <4>2. i \in DOMAIN results /\ m \in DOMAIN results /\ i < m
        BY <2>1
      <4> QED
        BY <2>1, <4>1, <4>2 DEF Ranked
    <3> QED
      BY <3>1, <3>2, <3>4, <3>5
  <2>3. ASSUME results # <<>>
        PROVE  LET stats == CalculateStatistics(results) IN
                 /\ stats.maxConfidence = results[1].confidence
                 /\ stats.minConfidence = results[Len(results)].confidence
                 /\ stats.sumConfidence
                      \in stats.count * stats.minConfidence .. stats.count * stats.maxConfidence
    BY <2>1, <2>3, StatisticsRanked
  <2>4. FilterByArea(results, [x |-> 0, y |-> 0, w |-> FrameWidth, h |-> FrameHeight]) = results
    <3>1. \A i \in DOMAIN results : FromBox(results[i])
      BY <1>1 DEF ResultsFromBoxes, ToSet
    <3> QED
      BY <2>1, <3>1, AreaKeepsAll
  <2> QED
    BY <2>2, <2>3, <2>4 DEF ResultsAreRanked
<1> QED
  BY <1>1, IInvAlways, InvAlways, PTL
=============================================================================
