--------------------------- MODULE Common_proofs ----------------------------
(***************************************************************************)
(* Proofs about what Common/ keeps in files: the log and the configuration,*)
(* for every set of threads, every size and number of log files, all       *)
(* categories, keys and texts, and any number of lines, operations and     *)
(* kills.                                                                  *)
(*                                                                         *)
(* The argument about the log is about the lines of all files, from the    *)
(* oldest on, as one sequence.  A line that is written is added at its     *)
(* end; a renaming leaves it as it is, but for the lines of the backup it  *)
(* replaces; the other system calls leave it as it is.  That backup is the *)
(* oldest one, and its lines the first ones, until a file could not be     *)
(* renamed; from then on lines are lost, and the others keep their order.  *)
(*                                                                         *)
(* The configuration that is saved is known by the lines it is written as, *)
(* and by what is read in them.  The file has a beginning of them, and,    *)
(* after a kill or a write that failed, the rest of one line more; what is *)
(* loaded from such a beginning is a part of what was saved.               *)
(***************************************************************************)
EXTENDS Logger, Configuration, Integers, SequenceTheorems, FiniteSetTheorems,
        WellFoundedInduction, TLAPS

-----------------------------------------------------------------------------
(* A set of natural numbers has a least element.                           *)
LEMMA LeastElement ==
  ASSUME NEW T \in SUBSET Nat, T # {}
  PROVE  \E m \in T : \A k \in T : m <= k
<1> DEFINE R == OpToRel(<, Nat)
<1>1. \E x \in T : \A y \in T : <<y, x>> \notin R
  BY NatLessThanWellFounded, WFMin
<1>2. R = {p \in Nat \X Nat : p[1] < p[2]}
  BY Zenon DEF OpToRel
<1> HIDE DEF R
<1>3. PICK m \in T : \A k \in T : <<k, m>> \notin R
  BY <1>1
<1>4. ASSUME NEW k \in T PROVE m <= k
  <2>1. <<k, m>> \in R <=> k < m
    BY <1>2
  <2> QED
    BY <1>3, <2>1
<1> QED
  BY <1>4

(* What holds of 1, and of a position if it holds of the one before it.    *)
LEMMA PositionInduction ==
  ASSUME NEW n \in Nat, NEW P, \A k \in 1 .. n : k = 1 \/ k - 1 \in P => k \in P
  PROVE  1 .. n \subseteq P
<1> DEFINE T == {k \in 1 .. n : k \notin P}
<1> SUFFICES ASSUME T # {} PROVE FALSE
  OBVIOUS
<1>1. PICK m \in T : \A k \in T : m <= k
  <2>1. T \in SUBSET Nat
    OBVIOUS
  <2> HIDE DEF T
  <2> QED
    BY <2>1, LeastElement
<1>2. m \in 1 .. n /\ m # 1 /\ m - 1 \notin P
  OBVIOUS
<1>3. m - 1 \in T /\ m - 1 < m
  BY <1>2
<1> HIDE DEF T
<1> QED
  BY <1>1, <1>2, <1>3

(* What holds of the oldest file, and of a file if it holds of the next
   older one.                                                              *)
LEMMA FileInduction ==
  ASSUME NEW P, \A i \in Index : i = Oldest \/ i + 1 \in P => i \in P
  PROVE  Index \subseteq P
<1> DEFINE N == Oldest
           Q == {k \in 1 .. N + 1 : N + 1 - k \in P}
<1>1. N \in Nat /\ Index = 0 .. N
  BY LoggerAssumption DEF Oldest, Index, Current
<1> HIDE DEF N
<1>2. ASSUME NEW k \in 1 .. N + 1, k = 1 \/ k - 1 \in Q PROVE k \in Q
  <2>1. N + 1 - k \in Index
    BY <1>1
  <2>2. CASE k = 1
    <3>1. N + 1 - k = Oldest
      BY <1>1, <2>2 DEF N
    <3> QED
      BY <2>1, <3>1
  <2>3. CASE k # 1
    <3>1. N + 1 - k + 1 = N + 1 - (k - 1)
      BY <1>1
    <3>2. N + 1 - (k - 1) \in P
      BY <1>2, <2>3
    <3> QED
      BY <2>1, <3>1, <3>2
  <2> QED
    BY <2>2, <2>3
<1>3. 1 .. N + 1 \subseteq Q
  <2>1. N + 1 \in Nat
    BY <1>1
  <2> HIDE DEF Q
  <2> QED
    BY <1>2, <2>1, PositionInduction
<1>4. ASSUME NEW i \in Index PROVE i \in P
  <2>1. N + 1 - i \in 1 .. N + 1 /\ N + 1 - (N + 1 - i) = i
    BY <1>1
  <2> QED
    BY <1>3, <2>1
<1> QED
  BY <1>4

(* The lines of all files, by their index, from the oldest on.             *)
Joined(p) == FlattenSeq([k \in 1 .. Oldest + 1 |-> p[Oldest + 1 - k]])

(* The lines of every file.                                                *)
LogText == Seq(Timestamp)
Files == [Index -> LogText]

(* Lines that come after others.                                           *)
Cat(s, t) == s \o t

LEMMA CatType ==
  ASSUME NEW s \in LogText, NEW t \in LogText
  PROVE  Cat(s, t) \in LogText /\ Len(Cat(s, t)) = Len(s) + Len(t)
  BY ConcatProperties DEF Cat, LogText

LEMMA CatEmpty ==
  ASSUME NEW s \in LogText
  PROVE  Cat(s, <<>>) = s /\ Cat(<<>>, s) = s
  BY ConcatEmptySeq DEF Cat

LEMMA CatAssociative ==
  ASSUME NEW s \in LogText, NEW t \in LogText, NEW u \in LogText
  PROVE  Cat(Cat(s, t), u) = Cat(s, Cat(t, u))
  BY ConcatAssociative DEF Cat

(* The lines of the files from the oldest to each file.                    *)
JoinsFrom(p, join) ==
  /\ join[Oldest] = p[Oldest]
  /\ \A i \in Index : i # Oldest => join[i] = Cat(join[i + 1], p[i])
  /\ Joined(p) = join[Current]

FlattenStep(seqs, flat, i) == IF i = 1 THEN seqs[i] ELSE flat[i - 1] \o seqs[i]

LEMMA FlattenExists ==
  ASSUME NEW seqs, NEW n \in Nat, n # 0, Len(seqs) = n
  PROVE  \E flat : /\ flat = [i \in 1 .. n |-> FlattenStep(seqs, flat, i)]
                   /\ FlattenSeq(seqs) = flat[n]
<1> DEFINE P == {k \in 1 .. n : \E flat : flat = [i \in 1 .. k |-> FlattenStep(seqs, flat, i)]}
<1>2. ASSUME NEW k \in 1 .. n, k = 1 \/ k - 1 \in P PROVE k \in P
  <2>1. CASE k = 1
    <3> DEFINE flat == [i \in 1 .. 1 |-> seqs[1]]
    <3>1. flat = [i \in 1 .. 1 |-> FlattenStep(seqs, flat, i)]
      BY DEF FlattenStep
    <3> QED
      BY <2>1, <3>1
  <2>2. CASE k # 1
    <3>1. PICK low : low = [i \in 1 .. k - 1 |-> FlattenStep(seqs, low, i)]
      BY <1>2, <2>2
    <3> DEFINE flat == [i \in 1 .. k |-> FlattenStep(seqs, low, i)]
    <3>2. \A i \in 1 .. k - 1 : flat[i] = low[i]
      <4>1. \A i \in 1 .. k - 1 : low[i] = FlattenStep(seqs, low, i)
        BY <3>1
      <4>2. \A i \in 1 .. k - 1 : i \in 1 .. k
        OBVIOUS
      <4> QED
        BY <4>1, <4>2
    <3>3. flat = [i \in 1 .. k |-> flat[i]]
      OBVIOUS
    <3>4. \A i \in 1 .. k : flat[i] = FlattenStep(seqs, flat, i)
      <4>1. \A i \in 1 .. k : flat[i] = FlattenStep(seqs, low, i)
        OBVIOUS
      <4>2. \A i \in 1 .. k : i = 1 \/ i - 1 \in 1 .. k - 1
        OBVIOUS
      <4> HIDE DEF flat
      <4> QED
        BY <3>2, <4>1, <4>2 DEF FlattenStep
    <3> HIDE DEF flat
    <3>5. flat = [i \in 1 .. k |-> FlattenStep(seqs, flat, i)]
      BY <3>3, <3>4
    <3> QED
      BY <3>5
  <2> QED
    BY <2>1, <2>2
<1>3. \E flat : flat = [i \in 1 .. n |-> FlattenStep(seqs, flat, i)]
  <2>1. 1 .. n \subseteq P
    <3> HIDE DEF P
    <3> QED
      BY <1>2, PositionInduction
  <2>2. n \in P
    BY <2>1
  <2> QED
    BY <2>2
<1> DEFINE flat == CHOOSE flat : flat = [i \in 1 .. Len(seqs) |-> FlattenStep(seqs, flat, i)]
<1>4. flat = [i \in 1 .. n |-> FlattenStep(seqs, flat, i)]
  BY <1>3
<1>5. FlattenSeq(seqs) = flat[n]
  <2>1. FlattenSeq(seqs) = flat[Len(seqs)]
    BY Zenon DEF FlattenSeq, FlattenStep
  <2> QED
    BY <2>1
<1> QED
  BY <1>4, <1>5

LEMMA JoinExists ==
  ASSUME NEW p \in Files
  PROVE  \E join \in Files : JoinsFrom(p, join)
<1> DEFINE N == Oldest
           seqs == [k \in 1 .. N + 1 |-> p[N + 1 - k]]
<1>1. N \in Nat /\ Index = 0 .. N /\ Current = 0
  BY LoggerAssumption DEF Oldest, Index, Current
<1> HIDE DEF N
<1>2. \A k \in 1 .. N + 1 : N + 1 - k \in Index /\ seqs[k] = p[N + 1 - k] /\ seqs[k] \in LogText
  BY <1>1 DEF Files
<1>3. Len(seqs) = N + 1
  <2>1. seqs \in [1 .. N + 1 -> LogText]
    BY <1>1, <1>2
  <2> QED
    BY <1>1, <2>1
<1>4. Joined(p) = FlattenSeq(seqs)
  BY DEF Joined, N
<1> HIDE DEF seqs
<1>5. PICK flat : /\ flat = [k \in 1 .. N + 1 |-> FlattenStep(seqs, flat, k)]
                  /\ FlattenSeq(seqs) = flat[N + 1]
  BY <1>1, <1>3, FlattenExists
<1>6. \A k \in 1 .. N + 1 : flat[k] = FlattenStep(seqs, flat, k)
  BY <1>5
<1> DEFINE P == {k \in 1 .. N + 1 : flat[k] \in LogText}
<1>7. 1 .. N + 1 \subseteq P
  <2>1. ASSUME NEW k \in 1 .. N + 1, k = 1 \/ k - 1 \in P PROVE k \in P
    <3>1. CASE k = 1
      BY <1>2, <1>6, <3>1 DEF FlattenStep
    <3>2. CASE k # 1
      <4>1. flat[k] = flat[k - 1] \o seqs[k] /\ flat[k - 1] \in LogText /\ seqs[k] \in LogText
        BY <1>2, <1>6, <2>1, <3>2 DEF FlattenStep
      <4>2. flat[k] \in LogText
        BY <4>1, ConcatProperties DEF LogText
      <4> QED
        BY <4>2
    <3> QED
      BY <3>1, <3>2
  <2>2. N + 1 \in Nat
    BY <1>1
  <2> HIDE DEF P
  <2> QED
    BY <2>1, <2>2, PositionInduction
<1> DEFINE join == [i \in Index |-> flat[N + 1 - i]]
<1>8. \A i \in Index : N + 1 - i \in 1 .. N + 1 /\ join[i] = flat[N + 1 - i]
  BY <1>1
<1>9. join \in Files
  BY <1>7, <1>8 DEF Files
<1>10. join[N] = p[N]
  <2>1. N \in Index /\ N + 1 - N = 1 /\ 1 \in 1 .. N + 1 /\ N + 1 - 1 = N
    BY <1>1
  <2>2. join[N] = flat[1] /\ flat[1] = seqs[1] /\ seqs[1] = p[N]
    BY <1>2, <1>6, <1>8, <2>1 DEF FlattenStep
  <2> QED
    BY <2>2
<1>11. ASSUME NEW i \in Index, i # N PROVE join[i] = Cat(join[i + 1], p[i])
  <2> DEFINE k == N + 1 - i
  <2>1. /\ k \in 1 .. N + 1 /\ k # 1 /\ i + 1 \in Index /\ k - 1 = N + 1 - (i + 1)
        /\ N + 1 - k = i
    BY <1>1, <1>11
  <2>2. join[i] = flat[k] /\ join[i + 1] = flat[k - 1]
    BY <1>8, <2>1
  <2> HIDE DEF k, join
  <2>3. flat[k] = flat[k - 1] \o seqs[k] /\ seqs[k] = p[i]
    BY <1>2, <1>6, <2>1 DEF FlattenStep
  <2> QED
    BY <2>2, <2>3 DEF Cat
<1>12. Joined(p) = join[Current]
  <2>1. Current \in Index /\ N + 1 - Current = N + 1
    BY <1>1
  <2> QED
    BY <1>4, <1>5, <1>8, <2>1
<1> HIDE DEF join
<1>13. JoinsFrom(p, join)
  BY <1>10, <1>11, <1>12 DEF JoinsFrom, N
<1> QED
  BY <1>9, <1>13

(* The files older than j are the same, the newer ones are.                *)
SameAbove(p, q, j) == \A i \in Index : i > j => p[i] = q[i]
SameBelow(p, q, j) == \A i \in Index : i < j => p[i] = q[i]

(* Where the older files are the same, so are their lines.                 *)
LEMMA SameHead ==
  ASSUME NEW p, NEW q, NEW c, NEW d, JoinsFrom(p, c), JoinsFrom(q, d),
         NEW j \in Index, SameAbove(p, q, j)
  PROVE  SameAbove(c, d, j)
<1> DEFINE P == {i \in Index : i > j => c[i] = d[i]}
<1>1. Oldest \in Nat /\ Index = 0 .. Oldest
  BY LoggerAssumption DEF Oldest, Index, Current
<1>2. ASSUME NEW i \in Index, i = Oldest \/ i + 1 \in P PROVE i \in P
  <2>1. CASE i = Oldest
    BY <2>1 DEF JoinsFrom, SameAbove
  <2>2. CASE i # Oldest
    <3>1. i > j => c[i + 1] = d[i + 1]
      <4>1. i > j => i + 1 > j
        BY <1>1
      <4> QED
        BY <1>2, <2>2, <4>1
    <3> QED
      BY <2>2, <3>1 DEF JoinsFrom, SameAbove
  <2> QED
    BY <2>1, <2>2
<1>3. Index \subseteq P
  <2> HIDE DEF P
  <2> QED
    BY <1>2, FileInduction
<1> QED
  BY <1>3 DEF SameAbove

(* One join is as the other with s before it.                              *)
Longer(c, d, s, j) == c[j] = Cat(s, d[j])

(* Where the newer files are the same, what comes before all of the older
   ones comes before all of them.                                          *)
LEMMA SameTail ==
  ASSUME NEW p \in Files, NEW q \in Files,
         NEW c \in Files, NEW d \in Files, NEW j \in Index, NEW s \in LogText,
         JoinsFrom(p, c), JoinsFrom(q, d), SameBelow(p, q, j), Longer(c, d, s, j)
  PROVE  Joined(p) = Cat(s, Joined(q))
<1> DEFINE P == {i \in Index : i <= j => c[i] = Cat(s, d[i])}
<1>1. Oldest \in Nat /\ Index = 0 .. Oldest
  BY LoggerAssumption DEF Oldest, Index, Current
<1>2. ASSUME NEW i \in Index, i = Oldest \/ i + 1 \in P PROVE i \in P
  <2>0. i = j \/ i < j \/ ~(i <= j)
    BY <1>1
  <2>1. CASE i = j
    BY <2>1 DEF Longer
  <2>2. CASE ~(i <= j)
    BY <2>2
  <2>3. CASE i < j
    <3>1. i # Oldest /\ i + 1 \in Index /\ i + 1 <= j
      BY <1>1, <2>3
    <3>2. c[i + 1] = Cat(s, d[i + 1])
      BY <1>2, <3>1
    <3>3. c[i] = Cat(c[i + 1], p[i]) /\ d[i] = Cat(d[i + 1], q[i]) /\ p[i] = q[i]
      BY <2>3, <3>1 DEF JoinsFrom, SameBelow
    <3>4. Cat(Cat(s, d[i + 1]), q[i]) = Cat(s, Cat(d[i + 1], q[i]))
      <4>1. d[i + 1] \in LogText /\ q[i] \in LogText
        BY <3>1 DEF Files
      <4> HIDE DEF P
      <4>2. ASSUME NEW a \in LogText, NEW b \in LogText, NEW e \in LogText
            PROVE  Cat(Cat(a, b), e) = Cat(a, Cat(b, e))
        BY CatAssociative
      <4> QED
        BY <4>1, <4>2
    <3> QED
      BY <3>2, <3>3, <3>4
  <2> QED
    BY <2>0, <2>1, <2>2, <2>3
<1>3. Index \subseteq P
  <2> HIDE DEF P
  <2> QED
    BY <1>2, FileInduction
<1>4. Current \in Index /\ Current <= j
  BY <1>1 DEF Current
<1>5. c[Current] = Cat(s, d[Current])
  BY <1>3, <1>4
<1> QED
  BY <1>5 DEF JoinsFrom

(* More lines in the current file.                                         *)
LEMMA JoinedAppend ==
  ASSUME NEW p \in Files, NEW q \in Files,
         NEW u \in LogText, q[Current] = Cat(p[Current], u), \A i \in Index : i # Current => q[i] = p[i]
  PROVE  Joined(q) = Cat(Joined(p), u)
<1>1. PICK c \in Files : JoinsFrom(p, c)
  BY JoinExists
<1>2. PICK d \in Files : JoinsFrom(q, d)
  BY JoinExists
<1>3. Oldest \in Nat /\ Oldest # Current /\ Index = 0 .. Oldest /\ Current = 0
  BY LoggerAssumption DEF Oldest, Index, Current
<1>4. Current \in Index /\ Current + 1 \in Index /\ \A i \in Index : i > Current <=> i # Current
  BY <1>3
<1>5. c[Current + 1] = d[Current + 1]
  <2>0. SameAbove(p, q, Current)
    BY <1>4 DEF SameAbove
  <2>1. SameAbove(c, d, Current)
    BY <1>1, <1>2, <1>4, <2>0, SameHead
  <2>2. Current + 1 > Current
    BY <1>3
  <2> QED
    BY <1>4, <2>1, <2>2 DEF SameAbove
<1>6. c[Current] = Cat(c[Current + 1], p[Current]) /\ d[Current] = Cat(d[Current + 1], q[Current])
  BY <1>1, <1>2, <1>3, <1>4 DEF JoinsFrom
<1>7. Cat(Cat(c[Current + 1], p[Current]), u) = Cat(c[Current + 1], Cat(p[Current], u))
  <2>1. c[Current + 1] \in LogText /\ p[Current] \in LogText
    BY <1>4 DEF Files
  <2> QED
    BY <2>1, CatAssociative
<1> QED
  BY <1>1, <1>2, <1>5, <1>6, <1>7 DEF JoinsFrom

(* File n takes the place of the next older one.                           *)
MovedUp(p, q, n) ==
  /\ n # Oldest /\ q[n] = <<>> /\ q[n + 1] = p[n]
  /\ n + 1 # Oldest => p[n + 1] = <<>>
  /\ \A i \in Index : i # n /\ i # n + 1 => q[i] = p[i]

(* Only the oldest file can be lost by that.                               *)
LEMMA JoinedRename ==
  ASSUME NEW p \in Files, NEW q \in Files,
         NEW n \in Index, MovedUp(p, q, n)
  PROVE  Joined(p) = Cat(p[n + 1], Joined(q))
<1>1. PICK c \in Files : JoinsFrom(p, c)
  BY JoinExists
<1>2. PICK d \in Files : JoinsFrom(q, d)
  BY JoinExists
<1>3. Oldest \in Nat /\ Index = 0 .. Oldest
  BY LoggerAssumption DEF Oldest, Index, Current
<1>4. n + 1 \in Index /\ n \in Nat
  BY <1>3 DEF MovedUp
<1>5. c[n] = Cat(c[n + 1], p[n]) /\ d[n] = Cat(d[n + 1], q[n])
  BY <1>1, <1>2 DEF JoinsFrom, MovedUp
<1>6. p[n] \in LogText /\ p[n + 1] \in LogText /\ c[n + 1] \in LogText /\ d[n + 1] \in LogText
  BY <1>4 DEF Files
<1>7. d[n] = d[n + 1]
  BY <1>5, <1>6, CatEmpty DEF MovedUp
<1>8. c[n] = Cat(p[n + 1], d[n])
  <2>1. CASE n + 1 = Oldest
    <3>1. c[n + 1] = p[n + 1] /\ d[n + 1] = p[n]
      BY <1>1, <1>2, <2>1 DEF JoinsFrom, MovedUp
    <3> QED
      BY <1>5, <1>7, <3>1
  <2>2. CASE n + 1 # Oldest
    <3>1. n + 1 + 1 \in Index /\ n + 1 + 1 > n + 1
      BY <1>3, <1>4, <2>2
    <3>2. c[n + 1] = Cat(c[n + 1 + 1], <<>>) /\ d[n + 1] = Cat(d[n + 1 + 1], p[n])
      BY <1>1, <1>2, <1>4, <2>2 DEF JoinsFrom, MovedUp
    <3>3. c[n + 1 + 1] = d[n + 1 + 1]
      <4>1. SameAbove(p, q, n + 1)
        BY <1>3, <1>4 DEF SameAbove, MovedUp
      <4>2. SameAbove(c, d, n + 1)
        BY <1>1, <1>2, <1>4, <4>1, SameHead
      <4> QED
        BY <3>1, <4>2 DEF SameAbove
    <3>4. c[n + 1] = c[n + 1 + 1]
      BY <3>1, <3>2, CatEmpty DEF Files
    <3>5. c[n] = d[n]
      BY <1>5, <1>7, <3>2, <3>3, <3>4
    <3>6. d[n] \in LogText /\ p[n + 1] = <<>>
      BY <2>2 DEF MovedUp, Files
    <3> QED
      BY <3>5, <3>6, CatEmpty
  <2> QED
    BY <2>1, <2>2
<1>9. SameBelow(p, q, n)
  BY <1>3, <1>4 DEF SameBelow, MovedUp
<1> DEFINE s == p[n + 1]
<1>10. s \in LogText /\ Longer(c, d, s, n)
  BY <1>6, <1>8 DEF Longer
<1> HIDE DEF s
<1>11. Joined(p) = Cat(s, Joined(q))
  BY <1>1, <1>2, <1>9, <1>10, SameTail
<1> QED
  BY <1>11 DEF s

(* s is t without some of its lines: each line has its place in t.          *)
Places(s, t, place) ==
  /\ \A i \in 1 .. Len(s) : t[place[i]] = s[i]
  /\ \A i, j \in 1 .. Len(s) : i < j => place[i] < place[j]

Thins(s, t) == \E place \in [1 .. Len(s) -> 1 .. Len(t)] : Places(s, t, place)

LEMMA CatLines ==
  ASSUME NEW s \in LogText, NEW u \in LogText
  PROVE  /\ Len(s) \in Nat /\ Len(u) \in Nat
         /\ Len(Cat(s, u)) = Len(s) + Len(u)
         /\ \A i \in 1 .. Len(s) : Cat(s, u)[i] = s[i]
         /\ \A i \in 1 .. Len(u) : Cat(s, u)[Len(s) + i] = u[i]
<1>1. Len(s) \in Nat /\ Len(u) \in Nat
  BY DEF LogText
<1>2. /\ Len(s \o u) = Len(s) + Len(u)
      /\ \A i \in 1 .. Len(s) + Len(u) : (s \o u)[i] = IF i <= Len(s) THEN s[i] ELSE u[i - Len(s)]
  BY ConcatProperties DEF LogText
<1>3. \A i \in 1 .. Len(s) : i \in 1 .. Len(s) + Len(u) /\ i <= Len(s)
  BY <1>1
<1>4. \A i \in 1 .. Len(u) : /\ Len(s) + i \in 1 .. Len(s) + Len(u) /\ ~(Len(s) + i <= Len(s))
                             /\ Len(s) + i - Len(s) = i
  BY <1>1
<1> QED
  BY <1>1, <1>2, <1>3, <1>4 DEF Cat

LEMMA ThinsSelf ==
  ASSUME NEW s \in LogText
  PROVE  Thins(s, s)
<1> DEFINE place == [i \in 1 .. Len(s) |-> i]
<1>1. place \in [1 .. Len(s) -> 1 .. Len(s)] /\ Places(s, s, place)
  BY DEF Places
<1> QED
  BY <1>1 DEF Thins

LEMMA ThinsMore ==
  ASSUME NEW s \in LogText, NEW t \in LogText, NEW u \in LogText, Thins(s, t), Thins(t, u)
  PROVE  Thins(s, u)
<1>0. Len(s) \in Nat /\ Len(t) \in Nat /\ Len(u) \in Nat
  BY DEF LogText
<1>1. PICK f \in [1 .. Len(s) -> 1 .. Len(t)] : Places(s, t, f)
  BY DEF Thins
<1>2. PICK g \in [1 .. Len(t) -> 1 .. Len(u)] : Places(t, u, g)
  BY DEF Thins
<1> DEFINE h == [i \in 1 .. Len(s) |-> g[f[i]]]
<1>3. h \in [1 .. Len(s) -> 1 .. Len(u)]
  OBVIOUS
<1>4. \A i \in 1 .. Len(s) : u[h[i]] = s[i]
  BY <1>1, <1>2 DEF Places
<1>5. \A i, j \in 1 .. Len(s) : i < j => h[i] < h[j]
  BY <1>1, <1>2 DEF Places
<1> QED
  BY <1>3, <1>4, <1>5 DEF Thins, Places

LEMMA ThinsBefore ==
  ASSUME NEW s \in LogText, NEW u \in LogText
  PROVE  Thins(s, Cat(s, u))
<1> DEFINE place == [i \in 1 .. Len(s) |-> i]
<1>1. /\ Len(s) \in Nat /\ Len(u) \in Nat /\ Len(Cat(s, u)) = Len(s) + Len(u)
      /\ \A i \in 1 .. Len(s) : Cat(s, u)[i] = s[i]
  BY CatLines
<1>2. place \in [1 .. Len(s) -> 1 .. Len(Cat(s, u))]
  BY <1>1
<1>3. Places(s, Cat(s, u), place)
  BY <1>1 DEF Places
<1> QED
  BY <1>2, <1>3 DEF Thins

LEMMA ThinsAfter ==
  ASSUME NEW s \in LogText, NEW u \in LogText
  PROVE  Thins(s, Cat(u, s))
<1> DEFINE place == [i \in 1 .. Len(s) |-> Len(u) + i]
<1>1. /\ Len(s) \in Nat /\ Len(u) \in Nat /\ Len(Cat(u, s)) = Len(u) + Len(s)
      /\ \A i \in 1 .. Len(s) : Cat(u, s)[Len(u) + i] = s[i]
  BY CatLines
<1>2. place \in [1 .. Len(s) -> 1 .. Len(Cat(u, s))]
  BY <1>1
<1>3. Places(s, Cat(u, s), place)
  BY <1>1 DEF Places
<1> QED
  BY <1>2, <1>3 DEF Thins

(* The same lines added to both.                                           *)
LEMMA ThinsCat ==
  ASSUME NEW s \in LogText, NEW t \in LogText, NEW u \in LogText, Thins(s, t)
  PROVE  Thins(Cat(s, u), Cat(t, u))
<1>1. PICK f \in [1 .. Len(s) -> 1 .. Len(t)] : Places(s, t, f)
  BY DEF Thins
<1> DEFINE a == Len(s)
           b == Len(t)
           e == Len(u)
           h == [i \in 1 .. a + e |-> IF i <= a THEN f[i] ELSE b + (i - a)]
<1>2. /\ a \in Nat /\ b \in Nat /\ e \in Nat
      /\ Len(Cat(s, u)) = a + e /\ Len(Cat(t, u)) = b + e
      /\ \A i \in 1 .. a : Cat(s, u)[i] = s[i]
      /\ \A i \in 1 .. b : Cat(t, u)[i] = t[i]
      /\ \A i \in 1 .. e : Cat(s, u)[a + i] = u[i] /\ Cat(t, u)[b + i] = u[i]
  BY CatLines
<1>3. \A i \in 1 .. a : f[i] \in 1 .. b
  BY <1>1
<1> HIDE DEF a, b, e
<1>4. \A i \in 1 .. a + e : \/ i \in 1 .. a /\ h[i] = f[i]
                            \/ i - a \in 1 .. e /\ i = a + (i - a) /\ h[i] = b + (i - a)
  BY <1>2
<1>5. \A i \in 1 .. a + e : h[i] \in 1 .. b + e
  BY <1>2, <1>3, <1>4
<1>6. h \in [1 .. a + e -> 1 .. b + e]
  BY <1>5
<1> HIDE DEF h
<1>7. ASSUME NEW i \in 1 .. a + e PROVE Cat(t, u)[h[i]] = Cat(s, u)[i]
  <2>1. CASE i \in 1 .. a /\ h[i] = f[i]
    <3>1. t[f[i]] = s[i]
      BY <1>1, <2>1 DEF Places, a
    <3> QED
      BY <1>2, <1>3, <2>1, <3>1
  <2>2. CASE i - a \in 1 .. e /\ i = a + (i - a) /\ h[i] = b + (i - a)
    BY <1>2, <2>2
  <2> QED
    BY <1>4, <2>1, <2>2
<1>8. ASSUME NEW i \in 1 .. a + e, NEW j \in 1 .. a + e, i < j PROVE h[i] < h[j]
  <2>1. i \in 1 .. a /\ j \in 1 .. a => f[i] < f[j]
    BY <1>1, <1>8 DEF Places, a
  <2> QED
    BY <1>2, <1>3, <1>4, <1>8, <2>1
<1> QED
  BY <1>2, <1>6, <1>7, <1>8 DEF Thins, Places

LEMMA ThinsIsThinned ==
  ASSUME NEW s \in LogText, NEW t \in LogText, Thins(s, t)
  PROVE  IsThinned(s, t)
<1>1. PICK f \in [1 .. Len(s) -> 1 .. Len(t)] : Places(s, t, f)
  BY DEF Thins
<1>2. DOMAIN s = 1 .. Len(s) /\ DOMAIN t = 1 .. Len(t)
  BY DEF LogText
<1>3. ASSUME NEW i \in DOMAIN s, NEW j \in DOMAIN s, i < j
      PROVE  \E m, n \in DOMAIN t : m < n /\ t[m] = s[i] /\ t[n] = s[j]
  <2>1. f[i] < f[j] /\ t[f[i]] = s[i] /\ t[f[j]] = s[j]
    BY <1>1, <1>2, <1>3 DEF Places
  <2>2. f[i] \in DOMAIN t /\ f[j] \in DOMAIN t
    BY <1>1, <1>2, <1>3
  <2> QED
    BY <2>1, <2>2
<1>4. ToSet(s) = {s[i] : i \in 1 .. Len(s)} /\ ToSet(t) = {t[i] : i \in 1 .. Len(t)}
  BY <1>2 DEF ToSet
<1>5. ToSet(s) \subseteq ToSet(t)
  <2>1. \A i \in 1 .. Len(s) : f[i] \in 1 .. Len(t) /\ t[f[i]] = s[i]
    BY <1>1 DEF Places
  <2> QED
    BY <1>4, <2>1
<1>6. \A i, j \in DOMAIN s : i < j => \E m, n \in DOMAIN t : m < n /\ t[m] = s[i] /\ t[n] = s[j]
  BY <1>2, <1>3
<1> QED
  BY <1>5, <1>6 DEF IsThinned

(* A file that is thrown away takes its lines with it, and no others.      *)
Cleared(p, n) == [p EXCEPT ![n] = <<>>]

LEMMA JoinedCleared ==
  ASSUME NEW p \in Files, NEW n \in Index
  PROVE  Cleared(p, n) \in Files /\ Thins(Joined(Cleared(p, n)), Joined(p))
<1> DEFINE q == Cleared(p, n)
<1>1. q \in Files /\ q[n] = <<>> /\ \A i \in Index : i # n => q[i] = p[i]
  BY DEF Cleared, Files, LogText
<1> HIDE DEF q
<1>2. PICK c \in Files : JoinsFrom(p, c)
  BY JoinExists
<1>3. PICK d \in Files : JoinsFrom(q, d)
  BY <1>1, JoinExists
<1>4. Oldest \in Nat /\ Index = 0 .. Oldest /\ Current = 0
  BY LoggerAssumption DEF Oldest, Index, Current
<1>5. SameAbove(c, d, n)
  <2>1. SameAbove(p, q, n)
    BY <1>1, <1>4 DEF SameAbove
  <2> QED
    BY <1>2, <1>3, <2>1, SameHead
<1>6. Thins(d[n], c[n])
  <2>1. c[n] \in LogText /\ p[n] \in LogText /\ d[n] \in LogText
    BY DEF Files
  <2>2. CASE n = Oldest
    <3>1. c[n] = p[n] /\ d[n] = <<>>
      BY <1>1, <1>2, <1>3, <2>2 DEF JoinsFrom
    <3>2. Cat(<<>>, p[n]) = p[n]
      BY <2>1, CatEmpty
    <3>3. <<>> \in LogText
      BY DEF LogText
    <3>4. Thins(<<>>, Cat(<<>>, p[n]))
      BY <2>1, <3>3, ThinsBefore
    <3> QED
      BY <3>1, <3>2, <3>4
  <2>3. CASE n # Oldest
    <3>1. n + 1 \in Index /\ n + 1 > n
      BY <1>4, <2>3
    <3>2. c[n] = Cat(c[n + 1], p[n]) /\ d[n] = Cat(d[n + 1], <<>>)
      BY <1>1, <1>2, <1>3, <2>3 DEF JoinsFrom
    <3>3. d[n + 1] = c[n + 1] /\ c[n + 1] \in LogText
      BY <1>5, <3>1 DEF SameAbove, Files
    <3>4. d[n] = c[n + 1]
      BY <3>2, <3>3, CatEmpty
    <3> QED
      BY <2>1, <3>2, <3>3, <3>4, ThinsBefore
  <2> QED
    BY <2>2, <2>3
<1> DEFINE P == {i \in Index : i <= n => Thins(d[i], c[i])}
<1>7. ASSUME NEW i \in Index, i = Oldest \/ i + 1 \in P PROVE i \in P
  <2>1. i = n \/ i < n \/ ~(i <= n)
    BY <1>4
  <2>2. CASE i = n
    BY <1>6, <2>2
  <2>3. CASE ~(i <= n)
    BY <2>3
  <2>4. CASE i < n
    <3>1. i # Oldest /\ i + 1 \in Index /\ i + 1 <= n
      BY <1>4, <2>4
    <3>2. Thins(d[i + 1], c[i + 1])
      BY <1>7, <3>1
    <3>3. c[i] = Cat(c[i + 1], p[i]) /\ d[i] = Cat(d[i + 1], p[i])
      <4>1. q[i] = p[i]
        BY <1>1, <1>4, <2>4
      <4> QED
        BY <1>2, <1>3, <3>1, <4>1 DEF JoinsFrom
    <3>4. c[i + 1] \in LogText /\ d[i + 1] \in LogText /\ p[i] \in LogText
      BY <3>1 DEF Files
    <3>5. Thins(Cat(d[i + 1], p[i]), Cat(c[i + 1], p[i]))
      BY <3>2, <3>4, ThinsCat
    <3> QED
      BY <3>3, <3>5
  <2> QED
    BY <2>1, <2>2, <2>3, <2>4
<1>8. Index \subseteq P
  <2> HIDE DEF P
  <2> QED
    BY <1>7, FileInduction
<1>9. Current \in Index /\ Current <= n
  BY <1>4
<1>10. Thins(d[Current], c[Current])
  BY <1>8, <1>9
<1> QED
  BY <1>1, <1>2, <1>3, <1>10 DEF JoinsFrom, q

LEMMA OneMoreTime ==
  ASSUME NEW k \in Nat, NEW m \in Nat
  PROVE  (k + 1) * m = k * m + m
  BY SMT

(* Full files.                                                             *)
LEMMA JoinedFull ==
  ASSUME NEW p \in Files, NEW m \in Nat,
         \A i \in Index : Len(p[i]) = m
  PROVE  Len(Joined(p)) = Oldest * m + m
<1>1. PICK c \in Files : JoinsFrom(p, c)
  BY JoinExists
<1>2. Oldest \in Nat /\ Index = 0 .. Oldest /\ Current = 0
  BY LoggerAssumption DEF Oldest, Index, Current
<1> DEFINE N == Oldest
           P == {i \in Index : Len(c[i]) = (N - i) * m + m}
<1>3. ASSUME NEW i \in Index, i = Oldest \/ i + 1 \in P PROVE i \in P
  <2>1. CASE i = Oldest
    <3>1. N - i = 0 /\ c[i] = p[i]
      BY <1>1, <1>2, <2>1 DEF JoinsFrom
    <3>2. 0 * m = 0
      OBVIOUS
    <3> HIDE DEF N
    <3>3. Len(c[i]) = (N - i) * m + m
      BY <3>1, <3>2
    <3> QED
      BY <3>3 DEF N
  <2>2. CASE i # Oldest
    <3>1. i + 1 \in Index /\ N - (i + 1) \in Nat /\ N - i = N - (i + 1) + 1
      BY <1>2, <2>2
    <3>2. c[i] = Cat(c[i + 1], p[i]) /\ c[i + 1] \in LogText /\ p[i] \in LogText
      BY <1>1, <2>2, <3>1 DEF JoinsFrom, Files
    <3>3. Len(c[i]) = Len(c[i + 1]) + m
      BY <3>2, CatType
    <3>4. Len(c[i + 1]) = (N - (i + 1)) * m + m
      BY <1>3, <2>2
    <3> DEFINE k == N - (i + 1)
    <3>5. (k + 1) * m = k * m + m
      BY <3>1, OneMoreTime
    <3>6. Len(c[i]) = (N - i) * m + m
      BY <3>1, <3>3, <3>4, <3>5
    <3> QED
      BY <3>6
  <2> QED
    BY <2>1, <2>2
<1>4. Index \subseteq P
  <2> HIDE DEF P
  <2> QED
    BY <1>3, FileInduction
<1>5. Current \in P /\ N - Current = N
  BY <1>2, <1>4
<1>6. Len(c[Current]) = N * m + m
  BY <1>5
<1> QED
  BY <1>1, <1>6 DEF JoinsFrom

(* Lines at the end of others.                                             *)
Ends(s, t) == \E u \in LogText : t = Cat(u, s)

LEMMA EndsCat ==
  ASSUME NEW s \in LogText, NEW t \in LogText, NEW u \in LogText, Ends(s, t)
  PROVE  Ends(Cat(s, u), Cat(t, u))
<1>1. PICK x \in LogText : t = Cat(x, s)
  BY DEF Ends
<1>2. Cat(t, u) = Cat(x, Cat(s, u))
  BY <1>1, CatAssociative
<1> QED
  BY <1>2 DEF Ends

LEMMA EndsTail ==
  ASSUME NEW s \in LogText, NEW t \in LogText, NEW u \in LogText, Ends(Cat(u, s), t)
  PROVE  Ends(s, t)
<1>1. PICK x \in LogText : t = Cat(x, Cat(u, s))
  BY DEF Ends
<1>2. t = Cat(Cat(x, u), s) /\ Cat(x, u) \in LogText
  BY <1>1, CatAssociative, CatType
<1> QED
  BY <1>2 DEF Ends

LEMMA EndsSuffix ==
  ASSUME NEW s \in LogText, NEW t \in LogText, Ends(s, t)
  PROVE  IsSuffix(s, t)
<1>1. PICK u \in LogText : t = Cat(u, s)
  BY DEF Ends
<1>2. Len(s) \in Nat /\ Len(u) \in Nat
  BY DEF LogText
<1>3. /\ t = u \o s /\ Len(t) = Len(u) + Len(s)
      /\ \A i \in 1 .. Len(u) + Len(s) : t[i] = IF i <= Len(u) THEN u[i] ELSE s[i - Len(u)]
  BY <1>1, ConcatProperties DEF Cat, LogText
<1> DEFINE r(q) == [i \in 1 .. Len(q) |-> q[Len(q) - i + 1]]
<1>4. Reverse(s) = r(s) /\ Reverse(t) = r(t)
  BY Zenon DEF Reverse
<1>5. r(s) \in Seq(Timestamp) /\ r(t) \in Seq(Timestamp) /\ Len(r(s)) = Len(s) /\ Len(r(t)) = Len(t)
  BY DEF LogText
<1>6. SubSeq(r(s), 1, Len(s)) = SubSeq(r(t), 1, Len(s))
  <2>1. \A i \in 1 .. Len(s) : r(t)[i] = r(s)[i]
    BY <1>2, <1>3
  <2>2. /\ SubSeq(r(s), 1, Len(s)) = [i \in 1 .. Len(s) |-> r(s)[i]]
        /\ SubSeq(r(t), 1, Len(s)) = [i \in 1 .. Len(s) |-> r(t)[i]]
    BY <1>2, <1>3, <1>5
  <2> QED
    BY <2>1, <2>2
<1> HIDE DEF r
<1> QED
  BY <1>2, <1>3, <1>4, <1>5, <1>6 DEF IsSuffix, IsPrefix

LEMMA AppendIsCat ==
  ASSUME NEW s \in LogText, NEW e \in Timestamp
  PROVE  Append(s, e) = Cat(s, <<e>>) /\ <<e>> \in LogText
<1>1. s \in Seq(Timestamp) /\ <<e>> \in LogText
  BY DEF LogText
<1>2. Append(s, e) = s \o <<e>>
  BY <1>1, AppendIsConcat
<1> QED
  BY <1>1, <1>2 DEF Cat

-----------------------------------------------------------------------------
(* The files as a function of every index.                                 *)
Contents(d) == [i \in Index |-> IF i \in DOMAIN d THEN d[i] ELSE <<>>]

LEMMA ContentsType ==
  ASSUME NEW d, DOMAIN d \subseteq Index, \A i \in DOMAIN d : d[i] \in Seq(Timestamp)
  PROVE  Contents(d) \in Files
  BY DEF Contents, Files, LogText

LEMMA ContentsJoined ==
  ASSUME NEW d
  PROVE  Joined(Contents(d)) = FlattenSeq([k \in 1 .. Oldest + 1 |->
           IF Oldest + 1 - k \in DOMAIN d THEN d[Oldest + 1 - k] ELSE <<>>])
<1>1. \A k \in 1 .. Oldest + 1 : Oldest + 1 - k \in Index
  BY LoggerAssumption DEF Oldest, Index, Current
<1> QED
  BY <1>1 DEF Joined, Contents

LEMMA RetainedIsJoined ==
  Retained = Joined(Contents(disk)) /\ Retained' = Joined(Contents(disk'))
  BY ContentsJoined, Zenon DEF Retained

LEMMA JoinedType ==
  ASSUME NEW p \in Files
  PROVE  Joined(p) \in LogText
<1>1. PICK c \in Files : JoinsFrom(p, c)
  BY JoinExists
<1>2. Current \in Index
  BY LoggerAssumption DEF Oldest, Index, Current
<1> QED
  BY <1>1, <1>2 DEF JoinsFrom, Files

(* The files hold some of what was written, and the end of it as long as
   every file could be renamed.                                            *)
KeepsOrder == Thins(Retained, written)
KeepsEnd == ~failed => Ends(Retained, written)

(* While the files are renamed the log is closed, and the place that the
   next one moves to is free; then the current file is missing; and the new
   one is empty.  A file that stays where it was takes such a place.       *)
RotationOrdered ==
  /\ opened => Current \in DOMAIN disk
  /\ \A t \in Thread :
       /\ pc[t] # "idle" => stamp[t] \in Timestamp
       /\ pc[t] \in {"rename", "reopen"} => ~opened
       /\ pc[t] = "rename" =>
            step # Oldest /\ (~failed /\ step + 1 # Oldest => step + 1 \notin DOMAIN disk)
       /\ pc[t] = "reopen" /\ ~failed => Current \notin DOMAIN disk
       /\ pc[t] = "append" /\ opened => disk[Current] = <<>>

(* The place in the row of files that is free for a moment.                *)
Hole(i) ==
  IF \E t \in Thread : pc[t] = "rename" THEN i = step + 1 ELSE i = Current /\ ~opened

(* As long as nobody kills the program and every file can be renamed: the
   backups are full and in a row, and so is the current file when it becomes
   one of them.                                                            *)
BackupsFull ==
  crashes = 0 /\ ~failed =>
    /\ \A i \in DOMAIN disk \ {Current} : Len(disk[i]) = MaxFileSize + 1
    /\ \A t \in Thread : pc[t] = "rename" =>
         Current \in DOMAIN disk /\ Len(disk[Current]) = MaxFileSize + 1
    /\ \A i \in DOMAIN disk, j \in Index : j < i => j \in DOMAIN disk \/ Hole(j)

(* A line is in a file, or its thread is still on the way.                 *)
Arrived(line) ==
  \/ line \in ToSet(written)
  \/ \E t \in Thread : pc[t] # "idle" /\ stamp[t] = line

Rotates == \E t \in Thread : pc[t] \in {"rename", "reopen"}

LinesArrive == crashes = 0 /\ (opened \/ Rotates) => \A line \in 1 .. clock : Arrived(line)

IInv ==
  /\ TypeOK /\ FilesBounded /\ BackupsKept
  /\ KeepsOrder /\ KeepsEnd /\ RotationOrdered /\ BackupsFull /\ LinesArrive

-----------------------------------------------------------------------------
(* What the system calls do to the row of files.                           *)
LEMMA OpenKeepsFiles ==
  ASSUME NEW d
  PROVE  /\ Contents(OpenToAppend(d)) = Contents(d)
         /\ Current \notin DOMAIN d => Contents(OpenTruncated(d)) = Contents(d)
  BY DEF Contents, OpenToAppend, OpenTruncated

LEMMA AppendFiles ==
  ASSUME TypeOK, Current \in DOMAIN disk,
         NEW t \in Thread, NEW from, AppendLine(t, from), stamp[t] \in Timestamp
  PROVE  /\ Retained' = Cat(Retained, <<stamp[t]>>)
         /\ written' = Cat(written, <<stamp[t]>>)
         /\ <<stamp[t]>> \in LogText
<1> DEFINE p == Contents(disk)
           q == Contents(disk')
           u == <<stamp[t]>>
<1>1. Current \in Index
  BY LoggerAssumption DEF Index, Current, Oldest
<1>2. /\ DOMAIN disk' = DOMAIN disk
      /\ \A i \in DOMAIN disk : disk'[i] = IF i = Current THEN Append(disk[i], stamp[t]) ELSE disk[i]
  BY DEF AppendLine, TypeOK
<1>3. p \in Files /\ q \in Files
  <2>1. \A i \in DOMAIN disk' : disk'[i] \in Seq(Timestamp)
    <3>1. Append(disk[Current], stamp[t]) \in Seq(Timestamp)
      BY DEF TypeOK
    <3> QED
      BY <1>2, <3>1 DEF TypeOK
  <2> QED
    BY <1>2, <2>1, ContentsType DEF TypeOK
<1>4. u \in LogText /\ Append(disk[Current], stamp[t]) = Cat(disk[Current], u) /\ written' = Cat(written, u)
  BY AppendIsCat DEF AppendLine, TypeOK, LogText
<1>5. q[Current] = Cat(p[Current], u) /\ \A i \in Index : i # Current => q[i] = p[i]
  BY <1>1, <1>2, <1>4 DEF Contents
<1> HIDE DEF u, p, q
<1>6. Joined(q) = Cat(Joined(p), u)
  BY <1>3, <1>4, <1>5, JoinedAppend
<1> QED
  BY <1>4, <1>6, RetainedIsJoined DEF u, p, q

LEMMA TruncatedFile ==
  ASSUME NEW d, DOMAIN d \subseteq Index, \A i \in DOMAIN d : d[i] \in Seq(Timestamp)
  PROVE  Contents(OpenTruncated(d)) = Cleared(Contents(d), Current)
<1>1. Current \in Index
  BY LoggerAssumption DEF Index, Current, Oldest
<1> QED
  BY <1>1 DEF Contents, OpenTruncated, Cleared

LEMMA RenameFiles ==
  ASSUME TypeOK, RotationOrdered, NEW t \in Thread, RenameBackup(t)
  PROVE  /\ failed' \in BOOLEAN /\ (failed => failed')
         /\ \/ UNCHANGED disk /\ (~failed' => step \notin DOMAIN disk)
            \/ /\ step \in DOMAIN disk /\ step + 1 \in Index /\ failed' = failed
               /\ DOMAIN disk' = (DOMAIN disk \ {step}) \cup {step + 1}
               /\ \A i \in DOMAIN disk' : disk'[i] = disk[IF i = step + 1 THEN step ELSE i]
               /\ MovedUp(Cleared(Contents(disk), step + 1), Contents(disk'), step)
               /\ ~failed => MovedUp(Contents(disk), Contents(disk'), step)
<1>1. step # Oldest /\ (~failed /\ step + 1 # Oldest => step + 1 \notin DOMAIN disk)
  BY DEF RotationOrdered, RenameBackup
<1>2. step \in Nat /\ step + 1 \in Index /\ step \in Index
  BY <1>1, LoggerAssumption DEF TypeOK, Index, Current, Oldest
<1>3. CASE step \notin DOMAIN disk
  BY <1>3 DEF RenameBackup, Renamed, TypeOK
<1>4. CASE step \in DOMAIN disk /\ disk' = Renamed(disk, step, step + 1) /\ failed' = failed
  <2>1. disk' = [i \in (DOMAIN disk \ {step}) \cup {step + 1} |-> disk[IF i = step + 1 THEN step ELSE i]]
    BY <1>4 DEF Renamed
  <2>2. /\ DOMAIN disk' = (DOMAIN disk \ {step}) \cup {step + 1}
        /\ \A i \in DOMAIN disk' : disk'[i] = disk[IF i = step + 1 THEN step ELSE i]
    BY <2>1
  <2>3. step # step + 1
    BY <1>2
  <2>4. ~failed => MovedUp(Contents(disk), Contents(disk'), step)
    BY <1>1, <1>2, <1>4, <2>2, <2>3 DEF MovedUp, Contents
  <2>5. MovedUp(Cleared(Contents(disk), step + 1), Contents(disk'), step)
    BY <1>1, <1>2, <1>4, <2>2, <2>3 DEF MovedUp, Contents, Cleared
  <2> QED
    BY <1>2, <1>4, <2>2, <2>4, <2>5 DEF TypeOK
<1>5. CASE failed' = TRUE /\ disk' = disk
  BY <1>5
<1> QED
  BY <1>3, <1>4, <1>5 DEF RenameBackup

-----------------------------------------------------------------------------
(* Every variable stays in its range, and one thread is inside at a time.  *)
LEMMA TypeOKInit == Init => TypeOK
<1> SUFFICES ASSUME Init PROVE TypeOK
  OBVIOUS
<1>1. failed \in BOOLEAN
  BY Zenon DEF Init
<1>2. /\ DOMAIN disk = {Current} /\ disk[Current] = <<>> /\ Current \in Index
      /\ written \in Seq(Timestamp) /\ step \in Index
  BY LoggerAssumption DEF Init, OpenToAppend, Index, Current, Oldest
<1>3. /\ pc = [t \in Thread |-> "idle"] /\ stamp = [t \in Thread |-> 0]
      /\ mutex = Free /\ clock = 0 /\ opened = TRUE /\ crashes = 0
  BY DEF Init
<1> QED
  BY <1>1, <1>2, <1>3, LoggerAssumption DEF TypeOK

LEMMA TypeOKStep ==
  ASSUME TypeOK, RotationOrdered, Next
  PROVE  TypeOK'
<1> USE DEF TypeOK, Moves, Unlock
<1>0. Current \in Index /\ step - 1 \in Int
  BY LoggerAssumption DEF Index, Current, Oldest
<1>1. ASSUME NEW t \in Thread, TakeTimestamp(t) PROVE TypeOK'
  BY <1>1, LoggerAssumption DEF TakeTimestamp, logVars, Timestamp
<1>2. ASSUME NEW t \in Thread, Lock(t) PROVE TypeOK'
  BY <1>2, LoggerAssumption DEF Lock
<1>3. ASSUME NEW t \in Thread, NEW from \in {"write", "append"}, opened, AppendLine(t, from) PROVE TypeOK'
  <2>1. stamp[t] \in Timestamp /\ Current \in DOMAIN disk
    BY <1>3 DEF AppendLine, RotationOrdered
  <2>2. Append(disk[Current], stamp[t]) \in Seq(Timestamp) /\ Append(written, stamp[t]) \in Seq(Timestamp)
    BY <2>1
  <2>3. DOMAIN disk' = DOMAIN disk /\ \A i \in DOMAIN disk' : disk'[i] \in Seq(Timestamp)
    BY <1>3, <2>2 DEF AppendLine
  <2> QED
    BY <1>3, <2>2, <2>3, LoggerAssumption DEF AppendLine
<1>4. ASSUME NEW t \in Thread, WriteRefused(t) \/ LineDropped(t) PROVE TypeOK'
  BY <1>4, LoggerAssumption DEF WriteRefused, LineDropped
<1>5. ASSUME NEW t \in Thread, RotateFile(t) PROVE TypeOK'
  <2>1. Oldest - 1 \in Index
    BY LoggerAssumption DEF Index, Current, Oldest
  <2> QED
    BY <1>5, <2>1 DEF RotateFile, CloseFor
<1>6. ASSUME NEW t \in Thread, RenameBackup(t) PROVE TypeOK'
  <2>1. /\ UNCHANGED <<stamp, clock, mutex, opened, written, crashes>>
        /\ pc' = pc \/ pc' = [pc EXCEPT ![t] = "reopen"]
        /\ pc[t] = "rename"
    BY <1>6 DEF RenameBackup
  <2>2. step' \in Index
    BY <1>6, LoggerAssumption DEF RenameBackup, Index, Current, Oldest
  <2>3. DOMAIN disk' \subseteq Index /\ (\A i \in DOMAIN disk' : disk'[i] \in Seq(Timestamp)) /\ failed' \in BOOLEAN
    BY <1>6, RenameFiles
  <2> QED
    BY <2>1, <2>2, <2>3
<1>7. ASSUME NEW t \in Thread, OpenNew(t) PROVE TypeOK'
  BY <1>0, <1>7 DEF OpenNew, OpenTruncated
<1>8. CASE Restart
  BY <1>0, <1>8, LoggerAssumption DEF Restart, RestartWith, OpenToAppend
<1> QED
  BY <1>1, <1>2, <1>3, <1>4, <1>5, <1>6, <1>7, <1>8 DEF Next, ThreadStep, Write, WriteRotated

LEMMA OneInside ==
  ASSUME TypeOK, NEW t \in Thread, NEW u \in Thread,
         pc[t] \notin {"idle", "lock"}, pc[u] \notin {"idle", "lock"}
  PROVE  t = u
  BY DEF TypeOK

(* The renaming is in order, and no file grows too much.                   *)
LEMMA RotationStep ==
  ASSUME TypeOK, RotationOrdered, FilesBounded, Next
  PROVE  RotationOrdered' /\ FilesBounded'
<1> USE DEF TypeOK, RotationOrdered, FilesBounded, Moves, Unlock
<1>1. ASSUME NEW t \in Thread, TakeTimestamp(t) PROVE RotationOrdered' /\ FilesBounded'
  <2>1. stamp'[t] \in Timestamp
    BY <1>1, LoggerAssumption DEF TakeTimestamp, Timestamp
  <2> QED
    BY <1>1, <2>1 DEF TakeTimestamp, logVars
<1>2. ASSUME NEW t \in Thread, Lock(t) PROVE RotationOrdered' /\ FilesBounded'
  BY <1>2 DEF Lock
<1>3. ASSUME NEW t \in Thread, NEW from \in {"write", "append"}, opened, AppendLine(t, from),
             Len(disk[Current]) <= MaxFileSize
      PROVE  RotationOrdered' /\ FilesBounded'
  <2>1. Len(Append(disk[Current], stamp[t])) <= MaxFileSize + 1
    BY <1>3, LoggerAssumption DEF AppendLine
  <2>2. DOMAIN disk' = DOMAIN disk /\ \A i \in DOMAIN disk' : Len(disk'[i]) <= MaxFileSize + 1
    BY <1>3, <2>1 DEF AppendLine
  <2>3. \A u \in Thread : pc'[u] # "append"
    BY <1>3, OneInside DEF AppendLine
  <2> QED
    BY <1>3, <2>2, <2>3 DEF AppendLine
<1>4. ASSUME NEW t \in Thread, WriteRefused(t) \/ LineDropped(t) PROVE RotationOrdered' /\ FilesBounded'
  BY <1>4 DEF WriteRefused, LineDropped
<1>5. ASSUME NEW t \in Thread, RotateFile(t) PROVE RotationOrdered' /\ FilesBounded'
  <2>1. \A u \in Thread : pc'[u] \in {"rename", "reopen", "append"} => u = t
    BY <1>5, OneInside DEF RotateFile, CloseFor
  <2>2. step' # Oldest /\ step' + 1 = Oldest
    BY <1>5, LoggerAssumption DEF RotateFile, CloseFor, Oldest
  <2> QED
    BY <1>5, <2>1, <2>2 DEF RotateFile, CloseFor
<1>6. ASSUME NEW t \in Thread, RenameBackup(t) PROVE RotationOrdered' /\ FilesBounded'
  <2>1. /\ UNCHANGED <<stamp, opened>> /\ ~opened /\ step \in Nat
        /\ pc' \in [Thread -> {"idle", "lock", "write", "rename", "reopen", "append"}]
        /\ \A u \in Thread : pc'[u] \in {"rename", "reopen", "append"} => u = t
        /\ \A u \in Thread : pc'[u] # "idle" => pc[u] # "idle"
        /\ pc'[t] = IF step = Current THEN "reopen" ELSE "rename"
    BY <1>6, OneInside, LoggerAssumption DEF RenameBackup, Index, Current, Oldest
  <2>2. ~failed' => step \notin DOMAIN disk'
    <3>1. step # step + 1
      BY <2>1
    <3> QED
      BY <1>6, <3>1, RenameFiles
  <2>3. step # Current => step' # Oldest /\ step' + 1 = step
    BY <1>6, <2>1, LoggerAssumption DEF RenameBackup, Index, Current, Oldest
  <2>4. FilesBounded'
    BY <1>6, RenameFiles
  <2> QED
    BY <2>1, <2>2, <2>3, <2>4
<1>7. ASSUME NEW t \in Thread, OpenNew(t) PROVE RotationOrdered' /\ FilesBounded'
  <2>1. \A u \in Thread : pc'[u] \in {"rename", "reopen", "append"} => u = t
    BY <1>7, OneInside DEF OpenNew
  <2>2. pc'[t] = "append" /\ UNCHANGED stamp /\ \A u \in Thread : pc'[u] # "idle" => pc[u] # "idle"
    BY <1>7 DEF OpenNew
  <2>3. /\ opened' => Current \in DOMAIN disk' /\ disk'[Current] = <<>>
        /\ FilesBounded'
    BY <1>7, LoggerAssumption DEF OpenNew, OpenTruncated
  <2> QED
    BY <2>1, <2>2, <2>3
<1>8. CASE Restart
  BY <1>8, LoggerAssumption DEF Restart, RestartWith, OpenToAppend
<1>9. ASSUME NEW t \in Thread, Write(t) PROVE RotationOrdered' /\ FilesBounded'
  <2>1. Len(disk[Current]) <= MaxFileSize
    BY <1>9, LoggerAssumption DEF Write, SizeExceeded
  <2> QED
    BY <1>3, <1>9, <2>1 DEF Write
<1>10. ASSUME NEW t \in Thread, WriteRotated(t) PROVE RotationOrdered' /\ FilesBounded'
  <2>1. Len(disk[Current]) <= MaxFileSize
    BY <1>10, LoggerAssumption DEF WriteRotated, AppendLine
  <2> QED
    BY <1>3, <1>10, <2>1 DEF WriteRotated
<1> QED
  BY <1>1, <1>2, <1>4, <1>5, <1>6, <1>7, <1>8, <1>9, <1>10 DEF Next, ThreadStep

-----------------------------------------------------------------------------
(* A step writes nothing, or one line, or loses lines.  As long as every
   file can be renamed, only a renaming does.                              *)
WritesNothing == Contents(disk') = Contents(disk) /\ written' = written
WritesOne == \E u \in LogText : Len(u) = 1 /\ Retained' = Cat(Retained, u) /\ written' = Cat(written, u)
RenamesOne ==
  /\ \E t \in Thread : RenameBackup(t)
  /\ step \in DOMAIN disk /\ step + 1 \in Index /\ MovedUp(Contents(disk), Contents(disk'), step)
LosesSome == Thins(Retained', Retained) /\ written' = written

LEMMA StepOnFiles ==
  ASSUME TypeOK, TypeOK', RotationOrdered, Next
  PROVE  /\ WritesNothing \/ WritesOne \/ LosesSome
         /\ failed => failed'
         /\ ~failed' => WritesNothing \/ WritesOne \/ RenamesOne
<1> DEFINE Known == /\ WritesNothing \/ WritesOne \/ LosesSome
                    /\ failed => failed'
                    /\ ~failed' => WritesNothing \/ WritesOne \/ RenamesOne
<1>1. ASSUME NEW t \in Thread, NEW from \in {"write", "append"}, opened, AppendLine(t, from) PROVE Known
  <2>1. stamp[t] \in Timestamp /\ Current \in DOMAIN disk
    BY <1>1 DEF AppendLine, RotationOrdered, TypeOK, Moves
  <2>2. Len(<<stamp[t]>>) = 1
    OBVIOUS
  <2>3. WritesOne
    BY <1>1, <2>1, <2>2, AppendFiles DEF WritesOne
  <2> QED
    BY <1>1, <2>3 DEF AppendLine
<1>2. ASSUME NEW t \in Thread, RenameBackup(t) PROVE Known
  <2>1. written' = written /\ (failed => failed')
    BY <1>2, RenameFiles DEF RenameBackup
  <2>2. CASE UNCHANGED disk
    <3>1. WritesNothing
      BY <2>1, <2>2 DEF WritesNothing
    <3> QED
      BY <2>1, <3>1
  <2>3. CASE /\ step \in DOMAIN disk /\ step + 1 \in Index /\ failed' = failed
             /\ MovedUp(Cleared(Contents(disk), step + 1), Contents(disk'), step)
             /\ ~failed => MovedUp(Contents(disk), Contents(disk'), step)
    <3> DEFINE p == Contents(disk)
               q == Contents(disk')
               r == Cleared(p, step + 1)
    <3>1. p \in Files /\ q \in Files /\ step \in Index
      BY ContentsType DEF TypeOK
    <3>2. r \in Files /\ Thins(Joined(r), Joined(p))
      BY <2>3, <3>1, JoinedCleared
    <3>3. MovedUp(r, q, step) /\ r[step + 1] = <<>>
      BY <2>3, <3>1 DEF Cleared, Files
    <3> HIDE DEF p, q, r
    <3>4. Joined(r) = Cat(<<>>, Joined(q))
      BY <3>1, <3>2, <3>3, JoinedRename
    <3>5. Joined(r) = Joined(q)
      <4>1. Joined(q) \in LogText
        BY <3>1, JoinedType
      <4> QED
        BY <3>4, <4>1, CatEmpty
    <3>6. LosesSome
      BY <2>1, <3>2, <3>5, RetainedIsJoined DEF LosesSome, p, q
    <3>7. ~failed' => RenamesOne
      BY <1>2, <2>3 DEF RenamesOne
    <3> QED
      BY <2>1, <3>6, <3>7
  <2> QED
    BY <1>2, <2>2, <2>3, RenameFiles
<1>3. ASSUME NEW t \in Thread, OpenNew(t) PROVE Known
  <2>1. written' = written /\ failed' = failed
    BY <1>3 DEF OpenNew
  <2>2. CASE UNCHANGED disk
    <3>1. WritesNothing
      BY <2>1, <2>2 DEF WritesNothing
    <3> QED
      BY <2>1, <3>1
  <2>3. CASE disk' = OpenTruncated(disk)
    <3>1. ~failed => Current \notin DOMAIN disk
      BY <1>3 DEF OpenNew, Moves, RotationOrdered
    <3>2. ~failed => WritesNothing
      BY <2>1, <2>3, <3>1, OpenKeepsFiles DEF WritesNothing
    <3>3. Contents(disk') = Cleared(Contents(disk), Current)
      BY <2>3, TruncatedFile DEF TypeOK
    <3>4. Contents(disk) \in Files /\ Current \in Index
      BY ContentsType, LoggerAssumption DEF TypeOK, Index, Current, Oldest
    <3>5. Thins(Joined(Contents(disk')), Joined(Contents(disk)))
      BY <3>3, <3>4, JoinedCleared
    <3>6. LosesSome
      BY <2>1, <3>5, RetainedIsJoined DEF LosesSome
    <3> QED
      BY <2>1, <3>2, <3>6
  <2> QED
    BY <1>3, <2>2, <2>3 DEF OpenNew
<1>4. CASE Restart
  <2>1. WritesNothing
    BY <1>4, OpenKeepsFiles DEF Restart, RestartWith, WritesNothing
  <2> QED
    BY <1>4, <2>1 DEF Restart, RestartWith
<1>5. ASSUME NEW t \in Thread,
             TakeTimestamp(t) \/ Lock(t) \/ WriteRefused(t) \/ LineDropped(t) \/ RotateFile(t)
      PROVE  Known
  BY <1>5 DEF TakeTimestamp, Lock, WriteRefused, LineDropped, RotateFile, CloseFor, logVars, WritesNothing
<1>6. Known
  BY <1>1, <1>2, <1>3, <1>4, <1>5 DEF Next, ThreadStep, Write, WriteRotated
<1> QED
  BY <1>6

LEMMA FilesTypes ==
  ASSUME TypeOK
  PROVE  Contents(disk) \in Files /\ Retained \in LogText /\ written \in LogText
<1>1. Contents(disk) \in Files
  BY ContentsType DEF TypeOK
<1> QED
  BY <1>1, JoinedType, RetainedIsJoined DEF TypeOK, LogText

LEMMA FilesTypesNext ==
  ASSUME TypeOK'
  PROVE  Contents(disk') \in Files /\ Retained' \in LogText
<1>1. Contents(disk') \in Files
  BY ContentsType DEF TypeOK
<1> QED
  BY <1>1, JoinedType, RetainedIsJoined

(* What a renaming loses.                                                  *)
LEMMA RenameLoses ==
  ASSUME TypeOK, TypeOK', RenamesOne
  PROVE  Contents(disk)[step + 1] \in LogText /\ Retained = Cat(Contents(disk)[step + 1], Retained')
<1> DEFINE p == Contents(disk)
           q == Contents(disk')
<1>1. p \in Files /\ q \in Files
  BY FilesTypes, FilesTypesNext
<1>2. step \in Index /\ step + 1 \in Index /\ MovedUp(p, q, step)
  BY DEF RenamesOne, TypeOK
<1> HIDE DEF p, q
<1>3. p[step + 1] \in LogText
  BY <1>1, <1>2 DEF Files
<1>4. Joined(p) = Cat(p[step + 1], Joined(q))
  BY <1>1, <1>2, JoinedRename
<1> QED
  BY <1>3, <1>4, RetainedIsJoined DEF p, q

(* The files go on holding some of what was written, in order.             *)
LEMMA KeepsOrderStep ==
  ASSUME TypeOK, TypeOK', RotationOrdered, KeepsOrder, Next
  PROVE  KeepsOrder'
<1>1. Retained \in LogText /\ written \in LogText /\ Retained' \in LogText
  BY FilesTypes, FilesTypesNext
<1>2. CASE WritesNothing
  <2>1. Retained' = Retained /\ written' = written
    BY <1>2, RetainedIsJoined DEF WritesNothing
  <2> QED
    BY <2>1 DEF KeepsOrder
<1>3. CASE WritesOne
  <2>1. PICK u \in LogText : Retained' = Cat(Retained, u) /\ written' = Cat(written, u)
    BY <1>3 DEF WritesOne
  <2> QED
    BY <1>1, <2>1, ThinsCat DEF KeepsOrder
<1>4. CASE LosesSome
  <2>1. Thins(Retained', Retained) /\ Thins(Retained, written) /\ written' = written
    BY <1>4 DEF LosesSome, KeepsOrder
  <2>2. Thins(Retained', written)
    BY <1>1, <2>1, ThinsMore
  <2> QED
    BY <2>1, <2>2 DEF KeepsOrder
<1> QED
  BY <1>2, <1>3, <1>4, StepOnFiles

(* They go on holding its end until a file cannot be renamed.              *)
LEMMA KeepsEndStep ==
  ASSUME TypeOK, TypeOK', RotationOrdered, KeepsEnd, Next
  PROVE  KeepsEnd'
<1> SUFFICES ASSUME ~failed' PROVE Ends(Retained', written')
  BY DEF KeepsEnd
<1>0. Ends(Retained, written)
  BY StepOnFiles DEF KeepsEnd
<1>1. Retained \in LogText /\ written \in LogText /\ Retained' \in LogText
  BY FilesTypes, FilesTypesNext
<1>2. CASE WritesNothing
  <2>1. Retained' = Retained /\ written' = written
    BY <1>2, RetainedIsJoined DEF WritesNothing
  <2> QED
    BY <1>0, <2>1
<1>3. CASE WritesOne
  <2>1. PICK u \in LogText : Retained' = Cat(Retained, u) /\ written' = Cat(written, u)
    BY <1>3 DEF WritesOne
  <2> QED
    BY <1>0, <1>1, <2>1, EndsCat
<1>4. CASE RenamesOne
  <2>1. PICK u \in LogText : Retained = Cat(u, Retained')
    BY <1>4, RenameLoses
  <2>2. written' = written
    BY <1>4 DEF RenamesOne, RenameBackup
  <2>3. Ends(Cat(u, Retained'), written)
    BY <1>0, <2>1
  <2> QED
    BY <1>1, <2>2, <2>3, EndsTail
<1> QED
  BY <1>2, <1>3, <1>4, StepOnFiles

-----------------------------------------------------------------------------
(* Until somebody kills the program, or a file cannot be renamed, the
   backups stay full and in a row.                                         *)
LEMMA NeverKilled ==
  ASSUME TypeOK, Next, crashes' = 0
  PROVE  crashes = 0 /\ ~Restart
  BY DEF TypeOK, Next, ThreadStep, TakeTimestamp, Lock, Write, WriteRefused, AppendLine, RotateFile, CloseFor,
         RenameBackup, OpenNew, WriteRotated, LineDropped, logVars, Restart, RestartWith

LEMMA NeverRefused ==
  ASSUME TypeOK, TypeOK', RotationOrdered, Next, ~failed'
  PROVE  ~failed
  BY StepOnFiles

LEMMA BackupsFullStep ==
  ASSUME TypeOK, TypeOK', RotationOrdered, RotationOrdered', FilesBounded, BackupsFull, Next
  PROVE  BackupsFull'
<1> SUFFICES ASSUME crashes' = 0, ~failed'
             PROVE  /\ \A i \in DOMAIN disk' \ {Current} : Len(disk'[i]) = MaxFileSize + 1
                    /\ \A t \in Thread : pc'[t] = "rename" =>
                         Current \in DOMAIN disk' /\ Len(disk'[Current]) = MaxFileSize + 1
                    /\ \A i \in DOMAIN disk', j \in Index : j < i => j \in DOMAIN disk' \/ Hole(j)'
  BY DEF BackupsFull
<1>0. crashes = 0 /\ ~failed /\ ~Restart
  BY NeverKilled, NeverRefused
<1>1. /\ \A i \in DOMAIN disk \ {Current} : Len(disk[i]) = MaxFileSize + 1
      /\ \A t \in Thread : pc[t] = "rename" =>
           Current \in DOMAIN disk /\ Len(disk[Current]) = MaxFileSize + 1
      /\ \A i \in DOMAIN disk, j \in Index : j < i => j \in DOMAIN disk \/ Hole(j)
  BY <1>0 DEF BackupsFull
<1>2. \A i \in Index : i \in Nat
  BY LoggerAssumption DEF Index, Current, Oldest
<1> USE DEF TypeOK, Moves, Unlock, Hole
<1>3. ASSUME NEW t \in Thread,
             TakeTimestamp(t) \/ Lock(t) \/ WriteRefused(t) \/ LineDropped(t)
      PROVE  BackupsFull'
  <2>1. /\ UNCHANGED <<disk, opened, step>>
        /\ \A u \in Thread : pc'[u] = "rename" <=> pc[u] = "rename"
    BY <1>3 DEF TakeTimestamp, Lock, WriteRefused, LineDropped, logVars
  <2> QED
    BY <1>1, <2>1 DEF BackupsFull
<1>4. ASSUME NEW t \in Thread, NEW from \in {"write", "append"}, opened, AppendLine(t, from)
      PROVE  BackupsFull'
  <2>1. /\ UNCHANGED <<opened, step>>
        /\ \A u \in Thread : pc'[u] # "rename" /\ pc[u] # "rename"
    BY <1>4 DEF AppendLine, RotationOrdered
  <2>2. DOMAIN disk' = DOMAIN disk /\ \A i \in DOMAIN disk \ {Current} : disk'[i] = disk[i]
    BY <1>4 DEF AppendLine
  <2> QED
    BY <1>1, <2>1, <2>2 DEF BackupsFull
<1>5. ASSUME NEW t \in Thread, RotateFile(t) PROVE BackupsFull'
  <2>1. Current \in DOMAIN disk /\ Len(disk[Current]) = MaxFileSize + 1 /\ UNCHANGED disk
    BY <1>5, LoggerAssumption DEF RotateFile, CloseFor, SizeExceeded, RotationOrdered, FilesBounded
  <2>2. \A i \in Index : ~Hole(i)
    BY <1>5 DEF RotateFile, CloseFor, RotationOrdered
  <2> QED
    BY <1>1, <2>1, <2>2 DEF BackupsFull
<1>6. ASSUME NEW t \in Thread, RenameBackup(t) PROVE BackupsFull'
  <2>1. pc[t] = "rename" /\ Current \in DOMAIN disk /\ Len(disk[Current]) = MaxFileSize + 1
    BY <1>1, <1>6 DEF RenameBackup
  <2>2. \A j \in Index : Hole(j) <=> j = step + 1
    BY <2>1
  <2>3. \A j \in Index : Hole(j)' <=> j = step
    <3>1. CASE step = Current
      <4>1. pc' = [pc EXCEPT ![t] = "reopen"] /\ opened' = FALSE
        BY <1>6, <3>1 DEF RenameBackup, RotationOrdered
      <4>2. \A u \in Thread : pc'[u] # "rename"
        BY <2>1, <4>1, OneInside
      <4> QED
        BY <3>1, <4>1, <4>2
    <3>2. CASE step # Current
      <4>1. pc' = pc /\ step' + 1 = step
        BY <1>2, <1>6, <3>2 DEF RenameBackup
      <4> QED
        BY <2>1, <4>1
    <3> QED
      BY <3>1, <3>2
  <2>4. step # Current => \A u \in Thread : pc'[u] = "rename" => Current # step /\ Current # step + 1
    BY <1>2, <1>6 DEF Current
  <2>5. step = Current => \A u \in Thread : pc'[u] # "rename"
    <3>1. step = Current => pc' = [pc EXCEPT ![t] = "reopen"]
      BY <1>6 DEF RenameBackup
    <3> QED
      BY <2>1, <3>1, OneInside
  <2>6. CASE UNCHANGED disk /\ step \notin DOMAIN disk
    <3>1. step # Current
      BY <2>1, <2>6
    <3>2. \A i \in DOMAIN disk : ~(step < i)
      <4>1. step \in Index /\ step # step + 1
        BY <1>2
      <4> QED
        BY <1>1, <2>2, <2>6, <4>1
    <3>3. \A i \in DOMAIN disk, j \in Index : j < i => j \in DOMAIN disk
      <4>1. ASSUME NEW i \in DOMAIN disk, NEW j \in Index, j < i PROVE j # step + 1
        BY <1>2, <3>2, <4>1
      <4> QED
        BY <1>1, <2>2, <4>1
    <3> QED
      BY <1>1, <2>1, <2>6, <3>3 DEF BackupsFull
  <2>7. CASE /\ step \in DOMAIN disk /\ step + 1 \in Index
             /\ DOMAIN disk' = (DOMAIN disk \ {step}) \cup {step + 1}
             /\ \A i \in DOMAIN disk' : disk'[i] = disk[IF i = step + 1 THEN step ELSE i]
    <3>1. \A i \in DOMAIN disk' \ {Current} : Len(disk'[i]) = MaxFileSize + 1
      BY <1>1, <2>1, <2>7
    <3>2. \A u \in Thread : pc'[u] = "rename" =>
            Current \in DOMAIN disk' /\ Len(disk'[Current]) = MaxFileSize + 1
      BY <2>1, <2>4, <2>5, <2>7
    <3>3. ASSUME NEW i \in DOMAIN disk', NEW j \in Index, j < i PROVE j \in DOMAIN disk' \/ Hole(j)'
      <4>1. CASE j = step \/ j = step + 1
        BY <2>3, <2>7, <4>1
      <4>2. CASE j # step /\ j # step + 1
        <5>1. \E k \in DOMAIN disk : j < k
          <6>1. CASE i = step + 1
            BY <1>2, <2>7, <3>3, <4>2, <6>1
          <6>2. CASE i # step + 1
            BY <2>7, <3>3, <6>2
          <6> QED
            BY <6>1, <6>2
        <5>2. j \in DOMAIN disk
          BY <1>1, <2>2, <4>2, <5>1
        <5> QED
          BY <2>7, <4>2, <5>2
      <4> QED
        BY <4>1, <4>2
    <3> QED
      BY <3>1, <3>2, <3>3 DEF BackupsFull
  <2> QED
    BY <1>6, <2>6, <2>7, RenameFiles
<1>7. ASSUME NEW t \in Thread, OpenNew(t) PROVE BackupsFull'
  <2>1. pc[t] = "reopen" /\ ~opened /\ Current \notin DOMAIN disk
    BY <1>0, <1>7 DEF OpenNew, RotationOrdered
  <2>2. \A u \in Thread : pc[u] # "rename" /\ pc'[u] # "rename"
    BY <1>7, <2>1, OneInside DEF OpenNew
  <2>3. \A j \in Index : Hole(j) => j = Current
    BY <2>1, <2>2
  <2>4. CASE opened' = FALSE /\ UNCHANGED disk
    BY <1>1, <2>1, <2>2, <2>4 DEF BackupsFull
  <2>5. CASE disk' = OpenTruncated(disk)
    <3>1. DOMAIN disk' = DOMAIN disk \cup {Current} /\ \A i \in DOMAIN disk \ {Current} : disk'[i] = disk[i]
      BY <2>5 DEF OpenTruncated
    <3>2. \A j \in Index : ~(j < Current)
      BY <1>2 DEF Current
    <3> QED
      BY <1>1, <2>2, <2>3, <3>1, <3>2 DEF BackupsFull
  <2> QED
    BY <1>7, <2>4, <2>5 DEF OpenNew
<1>8. BackupsFull'
  BY <1>0, <1>3, <1>4, <1>5, <1>6, <1>7 DEF Next, ThreadStep, Write, WriteRotated
<1> QED
  BY <1>8 DEF BackupsFull

(* A renaming that loses lines loses them from a full row of files.        *)
LEMMA RowIsFull ==
  ASSUME TypeOK, RotationOrdered, BackupsFull, RenamesOne, crashes = 0, ~failed,
         step + 1 \in DOMAIN disk
  PROVE  /\ Len(Contents(disk)[step + 1]) = MaxFileSize + 1
         /\ Len(Retained) = Oldest * (MaxFileSize + 1) + (MaxFileSize + 1)
<1> DEFINE p == Contents(disk)
           m == MaxFileSize + 1
<1>1. PICK t \in Thread : RenameBackup(t)
  BY DEF RenamesOne
<1>2. pc[t] = "rename" /\ step + 1 = Oldest
  BY <1>1 DEF RenameBackup, RotationOrdered
<1>3. /\ \A i \in DOMAIN disk \ {Current} : Len(disk[i]) = m
      /\ Current \in DOMAIN disk /\ Len(disk[Current]) = m
      /\ \A i \in DOMAIN disk, j \in Index : j < i => j \in DOMAIN disk \/ j = step + 1
  BY <1>2 DEF BackupsFull, Hole
<1>4. \A j \in Index : j \in DOMAIN disk
  <2>1. \A j \in Index : j = Oldest \/ j < Oldest
    BY LoggerAssumption DEF Index, Current, Oldest
  <2> QED
    BY <1>2, <1>3, <2>1
<1>5. \A i \in Index : Len(p[i]) = m
  BY <1>3, <1>4 DEF Contents
<1>6. p \in Files /\ m \in Nat
  BY FilesTypes, LoggerAssumption
<1>7. step + 1 \in Index
  BY DEF RenamesOne
<1> HIDE DEF p, m
<1>8. Len(Joined(p)) = Oldest * m + m
  BY <1>5, <1>6, JoinedFull
<1> QED
  BY <1>5, <1>7, <1>8, RetainedIsJoined DEF p, m

LEMMA BackupsKeptStep ==
  ASSUME TypeOK, TypeOK', RotationOrdered, BackupsFull, BackupsKept, Next
  PROVE  BackupsKept'
<1> DEFINE full == Oldest * (MaxFileSize + 1)
<1> SUFFICES ASSUME crashes' = 0, ~failed'
             PROVE  Len(Retained') = Len(written') \/ Len(Retained') >= full
  BY DEF BackupsKept
<1>1. full \in Nat
  <2>1. Oldest \in Nat /\ MaxFileSize + 1 \in Nat
    BY LoggerAssumption DEF Oldest
  <2> QED
    BY <2>1
<1>2. crashes = 0 /\ ~failed
  BY NeverKilled, NeverRefused
<1>3. Len(Retained) = Len(written) \/ Len(Retained) >= full
  BY <1>2 DEF BackupsKept
<1>4. Retained \in LogText /\ written \in LogText /\ Retained' \in LogText
  BY FilesTypes, FilesTypesNext
<1>5. Len(Retained) \in Nat /\ Len(written) \in Nat /\ Len(Retained') \in Nat
  BY <1>4 DEF LogText
<1>6. CASE WritesNothing
  <2>1. Retained' = Retained /\ written' = written
    BY <1>6, RetainedIsJoined DEF WritesNothing
  <2> QED
    BY <1>3, <2>1
<1>7. CASE WritesOne
  <2>1. PICK u \in LogText : Len(u) = 1 /\ Retained' = Cat(Retained, u) /\ written' = Cat(written, u)
    BY <1>7 DEF WritesOne
  <2>2. Len(Retained') = Len(Retained) + 1 /\ Len(written') = Len(written) + 1
    <3>1. \A s \in LogText : Len(Cat(s, u)) = Len(s) + Len(u)
      BY <2>1, CatType
    <3> QED
      BY <1>4, <2>1, <3>1
  <2> HIDE DEF full
  <2> QED
    BY <1>1, <1>3, <1>5, <2>2
<1>8. CASE RenamesOne
  <2> DEFINE u == Contents(disk)[step + 1]
  <2>1. u \in LogText /\ Retained = Cat(u, Retained') /\ step + 1 \in Index
    BY <1>8, RenameLoses DEF RenamesOne
  <2>2. written' = written
    BY <1>8 DEF RenamesOne, RenameBackup
  <2>3. Len(Retained) = Len(u) + Len(Retained') /\ Len(u) \in Nat
    <3> HIDE DEF u
    <3>1. \A s \in LogText : Len(Cat(u, s)) = Len(u) + Len(s)
      BY <2>1, CatType
    <3> QED
      BY <1>4, <2>1, <3>1 DEF LogText
  <2>4. CASE step + 1 \in DOMAIN disk
    <3>1. Len(u) = MaxFileSize + 1 /\ Len(Retained) = full + (MaxFileSize + 1) /\ MaxFileSize \in Nat
      BY <1>2, <1>8, <2>4, RowIsFull, LoggerAssumption
    <3> HIDE DEF full, u
    <3> QED
      BY <1>1, <1>5, <2>3, <3>1
  <2>5. CASE step + 1 \notin DOMAIN disk
    <3>1. u = <<>>
      BY <2>1, <2>5 DEF Contents
    <3>2. Len(Retained') = Len(Retained)
      BY <1>5, <2>3, <3>1
    <3> QED
      BY <1>3, <2>2, <3>2
  <2> QED
    BY <2>4, <2>5
<1> QED
  BY <1>6, <1>7, <1>8, StepOnFiles

(* Until somebody kills the program or a file cannot be opened again, no
   line is lost.                                                           *)
LEMMA ToSetAppend ==
  ASSUME NEW s \in LogText, NEW e
  PROVE  ToSet(Append(s, e)) = ToSet(s) \cup {e}
<1>1. /\ Len(s) \in Nat /\ Len(Append(s, e)) = Len(s) + 1 /\ DOMAIN Append(s, e) = 1 .. Len(s) + 1
      /\ \A i \in 1 .. Len(s) + 1 : Append(s, e)[i] = IF i = Len(s) + 1 THEN e ELSE s[i]
      /\ DOMAIN s = 1 .. Len(s)
  BY DEF LogText
<1>2. ToSet(s) = {s[i] : i \in 1 .. Len(s)}
  BY <1>1 DEF ToSet
<1>3. ToSet(Append(s, e)) = {Append(s, e)[i] : i \in 1 .. Len(s) + 1}
  BY <1>1, Zenon DEF ToSet
<1> QED
  BY <1>1, <1>2, <1>3

LEMMA LinesArriveStep ==
  ASSUME TypeOK, TypeOK', RotationOrdered, RotationOrdered', LinesArrive, Next
  PROVE  LinesArrive'
<1> SUFFICES ASSUME crashes' = 0, opened' \/ Rotates', NEW line \in 1 .. clock'
             PROVE  Arrived(line)'
  BY DEF LinesArrive
<1>0. crashes = 0 /\ ~Restart
  BY NeverKilled
<1> USE DEF TypeOK, Moves, Unlock
<1>1. \A u \in Thread : pc'[u] \in {"rename", "reopen"} => Rotates'
  BY DEF Rotates
<1>2. ASSUME opened \/ Rotates, line \in 1 .. clock PROVE Arrived(line)
  BY <1>0, <1>2 DEF LinesArrive
<1>3. ASSUME UNCHANGED <<written, stamp>>, opened \/ Rotates, line \in 1 .. clock,
             \A u \in Thread : pc[u] # "idle" => pc'[u] # "idle"
      PROVE  Arrived(line)'
  <2>1. Arrived(line)
    BY <1>2, <1>3
  <2> QED
    BY <1>3, <2>1 DEF Arrived
<1>4. ASSUME NEW t \in Thread, TakeTimestamp(t) PROVE Arrived(line)'
  <2>1. /\ written' = written /\ clock' = clock + 1 /\ stamp'[t] = clock' /\ pc'[t] # "idle" /\ pc[t] = "idle"
        /\ \A u \in Thread \ {t} : pc'[u] = pc[u] /\ stamp'[u] = stamp[u]
    BY <1>4 DEF TakeTimestamp, logVars
  <2>2. opened \/ Rotates
    BY <1>4 DEF TakeTimestamp, logVars, Rotates
  <2>3. CASE line = clock'
    BY <2>1, <2>3 DEF Arrived
  <2>4. CASE line # clock'
    <3>1. line \in 1 .. clock
      BY <2>1, <2>4, LoggerAssumption DEF Timestamp
    <3>2. Arrived(line)
      BY <1>2, <2>2, <3>1
    <3> QED
      BY <2>1, <3>2 DEF Arrived
  <2> QED
    BY <2>3, <2>4
<1>5. ASSUME NEW t \in Thread, Lock(t) PROVE Arrived(line)'
  <2>1. opened \/ Rotates
    BY <1>5 DEF Lock, Rotates
  <2> QED
    BY <1>3, <1>5, <2>1 DEF Lock
<1>6. ASSUME NEW t \in Thread, NEW from \in {"write", "append"}, opened, AppendLine(t, from)
      PROVE  Arrived(line)'
  <2>1. Arrived(line)
    BY <1>2, <1>6 DEF AppendLine
  <2>2. ToSet(written') = ToSet(written) \cup {stamp[t]}
    BY <1>6, ToSetAppend DEF AppendLine, LogText
  <2>3. \A u \in Thread \ {t} : pc'[u] = pc[u] /\ stamp'[u] = stamp[u]
    BY <1>6 DEF AppendLine
  <2> QED
    BY <2>1, <2>2, <2>3 DEF Arrived
<1>7. ASSUME NEW t \in Thread, WriteRefused(t) \/ LineDropped(t) PROVE FALSE
  <2>1. pc[t] \notin {"idle", "lock", "rename", "reopen"} /\ ~opened' /\ pc'[t] = "idle"
        /\ \A u \in Thread \ {t} : pc'[u] = pc[u]
    BY <1>7 DEF WriteRefused, LineDropped
  <2>2. ~Rotates'
    BY <2>1, OneInside DEF Rotates
  <2> QED
    BY <2>1, <2>2
<1>8. ASSUME NEW t \in Thread, RotateFile(t) PROVE Arrived(line)'
  BY <1>3, <1>8 DEF RotateFile, CloseFor
<1>9. ASSUME NEW t \in Thread, RenameBackup(t) PROVE Arrived(line)'
  <2>1. Rotates /\ \A u \in Thread : pc[u] # "idle" => pc'[u] # "idle"
    BY <1>9 DEF RenameBackup, Rotates
  <2> QED
    BY <1>3, <1>9, <2>1 DEF RenameBackup
<1>10. ASSUME NEW t \in Thread, OpenNew(t) PROVE Arrived(line)'
  <2>1. Rotates /\ \A u \in Thread : pc[u] # "idle" => pc'[u] # "idle"
    BY <1>10 DEF OpenNew, Rotates
  <2> QED
    BY <1>3, <1>10, <2>1 DEF OpenNew
<1> QED
  BY <1>0, <1>4, <1>5, <1>6, <1>7, <1>8, <1>9, <1>10 DEF Next, ThreadStep, Write, WriteRotated

-----------------------------------------------------------------------------
LEMMA IInvInit == Init => IInv
<1> SUFFICES ASSUME Init PROVE IInv
  OBVIOUS
<1>1. TypeOK
  BY TypeOKInit
<1>2. DOMAIN disk = {Current} /\ disk[Current] = <<>> /\ opened /\ written = <<>> /\ clock = 0
  BY DEF Init, OpenToAppend
<1>3. \A t \in Thread : pc[t] = "idle"
  BY DEF Init
<1>4. FilesBounded /\ RotationOrdered
  BY <1>2, <1>3, LoggerAssumption DEF FilesBounded, RotationOrdered
<1>5. Retained = <<>>
  <2>1. Contents(disk) \in Files /\ \A i \in Index : Contents(disk)[i] = <<>> /\ Len(<<>>) = 0
    BY <1>1, <1>2, FilesTypes DEF Contents
  <2> DEFINE p == Contents(disk)
  <2>2. p \in Files /\ \A i \in Index : Len(p[i]) = 0
    BY <2>1
  <2> HIDE DEF p
  <2>3. Len(Joined(p)) = Oldest * 0 + 0 /\ Oldest \in Nat
    BY <2>2, JoinedFull, LoggerAssumption DEF Oldest
  <2>4. Len(Retained) = 0 /\ Retained \in LogText
    BY <1>1, <2>3, RetainedIsJoined, FilesTypes DEF p
  <2> QED
    BY <2>4 DEF LogText
<1>6. KeepsOrder /\ KeepsEnd /\ BackupsKept
  <2>1. <<>> \in LogText /\ Cat(<<>>, <<>>) = <<>>
    <3>1. <<>> \in LogText
      BY DEF LogText
    <3> QED
      BY <3>1, CatEmpty
  <2>2. Thins(<<>>, <<>>)
    BY <2>1, ThinsSelf
  <2> QED
    BY <1>2, <1>5, <2>1, <2>2 DEF KeepsOrder, KeepsEnd, Ends, BackupsKept
<1>7. BackupsFull
  <2>1. \A j \in Index : ~(j < Current)
    BY LoggerAssumption DEF Index, Current, Oldest
  <2> QED
    BY <1>2, <1>3, <2>1 DEF BackupsFull
<1>8. LinesArrive
  BY <1>2 DEF LinesArrive
<1> QED
  BY <1>1, <1>4, <1>6, <1>7, <1>8 DEF IInv

LEMMA IInvStep == IInv /\ [Next]_vars => IInv'
<1> SUFFICES ASSUME IInv, [Next]_vars PROVE IInv'
  OBVIOUS
<1>1. CASE UNCHANGED vars
  BY <1>1 DEF vars, logVars, IInv, TypeOK, FilesBounded, BackupsKept, Retained, KeepsOrder, KeepsEnd,
              RotationOrdered, BackupsFull, Hole, LinesArrive, Rotates, Arrived
<1>2. CASE Next
  <2>1. TypeOK' /\ RotationOrdered' /\ FilesBounded'
    BY <1>2, TypeOKStep, RotationStep DEF IInv
  <2>2. KeepsOrder' /\ KeepsEnd' /\ BackupsFull' /\ BackupsKept' /\ LinesArrive'
    BY <1>2, <2>1, KeepsOrderStep, KeepsEndStep, BackupsFullStep, BackupsKeptStep, LinesArriveStep DEF IInv
  <2> QED
    BY <2>1, <2>2 DEF IInv
<1> QED
  BY <1>1, <1>2

LEMMA Invariance == Spec => []IInv
<1>1. Init => IInv
  BY IInvInit
<1>2. IInv /\ [Next]_vars => IInv'
  BY IInvStep
<1> QED
  BY <1>1, <1>2, PTL DEF Spec

(* Every variable stays in its range, one thread at most is inside the
   destination, no file grows past the limit by more than one line, and as
   long as the program was not killed and every file could be renamed,
   rotation throws away nothing but a backup that stands behind a full row
   of files.                                                               *)
THEOREM FilesAlwaysKept == Spec => []FilesKept
<1>1. IInv => FilesKept
  BY DEF IInv, FilesKept
<1> QED
  BY <1>1, Invariance, PTL

(* Wherever a rotation is interrupted and whatever file cannot be renamed,
   the files hold lines in the order in which they were written, none of
   them twice; until a file cannot be renamed, they hold the end of what was
   written, without a gap.                                                 *)
THEOREM NeverAGapInLog == Spec => []NoGapInLog
<1>1. ASSUME IInv PROVE NoGapInLog
  <2>1. TypeOK /\ Thins(Retained, written) /\ (~failed => Ends(Retained, written))
    BY <1>1 DEF IInv, KeepsOrder, KeepsEnd
  <2>2. Retained \in LogText /\ written \in LogText
    BY <2>1, FilesTypes
  <2> QED
    BY <2>1, <2>2, ThinsIsThinned, EndsSuffix DEF NoGapInLog
<1> QED
  BY <1>1, Invariance, PTL

(* A line is lost only if its file cannot be opened again, or if the
   program is killed.                                                      *)
THEOREM LinesAlwaysArrive == Spec => []LinesArriveWhileOpen
<1>1. IInv => LinesArriveWhileOpen
  BY DEF IInv, LinesArrive, Arrived, LinesArriveWhileOpen
<1> QED
  BY <1>1, Invariance, PTL

(* A program that starts again finds in its files what they held when it
   was killed.                                                             *)
THEOREM RestartAlwaysKeepsLog == Spec => RestartKeepsLog
<1>1. ASSUME [Next]_vars, crashes' # crashes PROVE Retained' = Retained
  <2>1. CASE Restart
    BY <2>1, RetainedIsJoined, OpenKeepsFiles DEF Restart, RestartWith
  <2>2. CASE ~Restart
    BY <1>1, <2>2 DEF Next, ThreadStep, TakeTimestamp, Lock, Write, WriteRefused, AppendLine, RotateFile,
       CloseFor, RenameBackup, OpenNew, WriteRotated, LineDropped, logVars, vars
  <2> QED
    BY <2>1, <2>2
<1> QED
  BY <1>1, PTL DEF Spec, RestartKeepsLog

-----------------------------------------------------------------------------
(* Sequences that are joined                                               *)

(* A set of places in a sequence has a greatest one.                       *)
LEMMA GreatestElement ==
  ASSUME NEW n \in Nat, NEW S \in SUBSET (1 .. n), S # {}
  PROVE  \E m \in S : \A k \in S : k <= m
<1> DEFINE T == {n - k : k \in S}
<1>1. T \in SUBSET Nat /\ T # {}
  <2>1. \A k \in S : n - k \in Nat
    OBVIOUS
  <2>2. PICK k \in S : TRUE
    OBVIOUS
  <2>3. n - k \in T
    OBVIOUS
  <2> QED
    BY <2>1, <2>3
<1>2. PICK t \in T : \A k \in T : t <= k
  <2> HIDE DEF T
  <2> QED
    BY <1>1, LeastElement
<1>3. PICK m \in S : t = n - m
  BY <1>2
<1>4. ASSUME NEW k \in S PROVE k <= m
  <2>1. n - k \in T
    OBVIOUS
  <2>2. n - m <= n - k
    BY <1>2, <1>3, <2>1
  <2>3. k \in Int /\ m \in Int
    OBVIOUS
  <2> QED
    BY <2>2, <2>3
<1> QED
  BY <1>4

(* A sequence that stands in another one, behind its first elements.       *)
Placed(F, B, off) ==
  /\ off \in Nat /\ off + Len(B) <= Len(F)
  /\ \A j \in 1 .. Len(B) : F[off + j] = B[j]

(* A sequence holds each of the first k, and nothing else.                 *)
Covered(F, seqs, k, V) ==
  /\ F \in Seq(V)
  /\ \A i \in 1 .. k : \E off : Placed(F, seqs[i], off)
  /\ \A m \in 1 .. Len(F) : \E i \in 1 .. k, off \in Nat :
       Placed(F, seqs[i], off) /\ m - off \in 1 .. Len(seqs[i])

(* One sequence more at the end.                                           *)
LEMMA CoveredNext ==
  ASSUME NEW V, NEW seqs, NEW k \in Nat, NEW G, Covered(G, seqs, k, V), seqs[k + 1] \in Seq(V)
  PROVE  Covered(G \o seqs[k + 1], seqs, k + 1, V)
<1> DEFINE B == seqs[k + 1]
           F == G \o B
<1>1. /\ F \in Seq(V) /\ Len(F) = Len(G) + Len(B) /\ Len(G) \in Nat /\ Len(B) \in Nat
      /\ \A i \in 1 .. Len(G) + Len(B) : F[i] = IF i <= Len(G) THEN G[i] ELSE B[i - Len(G)]
  BY ConcatProperties, LenProperties DEF Covered
<1> HIDE DEF F, B
<1>2. \A off, s : Placed(G, s, off) => Placed(F, s, off)
  <2> SUFFICES ASSUME NEW off, NEW s, Placed(G, s, off) PROVE Placed(F, s, off)
    OBVIOUS
  <2>1. \A j \in 1 .. Len(s) : off + j \in 1 .. Len(G)
    BY <1>1 DEF Placed
  <2> QED
    BY <1>1, <2>1 DEF Placed
<1>3. Placed(F, B, Len(G))
  BY <1>1 DEF Placed
<1>4. ASSUME NEW i \in 1 .. k + 1 PROVE \E off : Placed(F, seqs[i], off)
  <2>1. CASE i = k + 1
    BY <1>3, <2>1 DEF B
  <2>2. CASE i # k + 1
    <3>1. i \in 1 .. k
      BY <2>2
    <3> QED
      BY <1>2, <3>1 DEF Covered
  <2> QED
    BY <2>1, <2>2
<1>5. ASSUME NEW m \in 1 .. Len(F)
      PROVE  \E i \in 1 .. k + 1, off \in Nat : Placed(F, seqs[i], off) /\ m - off \in 1 .. Len(seqs[i])
  <2>1. CASE m <= Len(G)
    <3>1. PICK i \in 1 .. k, off \in Nat : Placed(G, seqs[i], off) /\ m - off \in 1 .. Len(seqs[i])
      BY <1>1, <2>1 DEF Covered
    <3>2. i \in 1 .. k + 1
      OBVIOUS
    <3> QED
      BY <1>2, <3>1, <3>2
  <2>2. CASE m > Len(G)
    <3>1. m - Len(G) \in 1 .. Len(B) /\ k + 1 \in 1 .. k + 1
      BY <1>1, <2>2
    <3> QED
      BY <1>1, <1>3, <3>1 DEF B
  <2> QED
    BY <1>1, <2>1, <2>2
<1> QED
  BY <1>1, <1>4, <1>5 DEF Covered, F, B

(* What is joined consists of the parts, each in its place.                *)
LEMMA FlattenPlaces ==
  ASSUME NEW V, NEW seqs, NEW n \in Nat, seqs \in [1 .. n -> Seq(V)]
  PROVE  Covered(FlattenSeq(seqs), seqs, n, V)
<1>1. Len(seqs) = n /\ seqs \in Seq(Seq(V)) /\ \A i \in 1 .. n : seqs[i] \in Seq(V)
  OBVIOUS
<1>2. CASE n = 0
  <2>1. FlattenSeq(seqs) = seqs
    BY <1>1, <1>2, Zenon DEF FlattenSeq
  <2>2. seqs \in Seq(V) /\ 1 .. Len(seqs) = {} /\ 1 .. n = {}
    <3>1. seqs = <<>>
      BY <1>1, <1>2
    <3> QED
      BY <1>1, <1>2, <3>1
  <2> QED
    BY <2>1, <2>2 DEF Covered
<1>3. CASE n # 0
  <2>1. PICK flat : /\ flat = [i \in 1 .. n |-> FlattenStep(seqs, flat, i)]
                    /\ FlattenSeq(seqs) = flat[n]
    BY <1>1, <1>3, FlattenExists
  <2>2. \A i \in 1 .. n : flat[i] = FlattenStep(seqs, flat, i)
    BY <2>1
  <2> DEFINE P == {k \in 1 .. n : Covered(flat[k], seqs, k, V)}
  <2>3. ASSUME NEW k \in 1 .. n, k = 1 \/ k - 1 \in P PROVE k \in P
    <3>1. CASE k = 1
      <4>1. flat[1] = seqs[1] /\ seqs[1] \in Seq(V) /\ Len(seqs[1]) \in Nat
        BY <1>1, <2>2, <3>1, LenProperties DEF FlattenStep
      <4>2. Placed(seqs[1], seqs[1], 0)
        BY <4>1 DEF Placed
      <4>3. \A m \in 1 .. Len(seqs[1]) : m - 0 \in 1 .. Len(seqs[1])
        OBVIOUS
      <4>4. 1 .. 1 = {1}
        OBVIOUS
      <4>5. Covered(seqs[1], seqs, 1, V)
        BY <4>1, <4>2, <4>3, <4>4 DEF Covered
      <4> QED
        BY <3>1, <4>1, <4>5
    <3>2. CASE k # 1
      <4>1. k - 1 \in Nat /\ k - 1 + 1 = k
        BY <3>2
      <4>2. Covered(flat[k - 1], seqs, k - 1, V)
        BY <2>3, <3>2
      <4>3. flat[k] = flat[k - 1] \o seqs[k]
        BY <2>2, <3>2 DEF FlattenStep
      <4>4. Covered(flat[k - 1] \o seqs[k - 1 + 1], seqs, k - 1 + 1, V)
        BY <1>1, <4>1, <4>2, CoveredNext
      <4> QED
        BY <4>1, <4>3, <4>4
    <3> QED
      BY <3>1, <3>2
  <2>4. 1 .. n \subseteq P
    <3> HIDE DEF P
    <3> QED
      BY <2>3, PositionInduction
  <2>5. n \in P
    BY <1>3, <2>4
  <2> QED
    BY <2>1, <2>5
<1> QED
  BY <1>2, <1>3

-----------------------------------------------------------------------------
(* The file                                                                *)

(* The category of a line is the one of the last header before it.         *)
InCategory(lines, i, c) ==
  \E h \in 1 .. i : /\ lines[h].kind = "header" /\ lines[h].name = c
                    /\ \A j \in h + 1 .. i : lines[j].kind # "header"

(* The last header before a line gives its category.                       *)
LEMMA CategoryFound ==
  ASSUME NEW lines, NEW i \in Nat, NEW c, InCategory(lines, i, c)
  PROVE  CategoryAt(lines, i) = c
<1> DEFINE headers == {j \in 1 .. i : lines[j].kind = "header"}
           IsLast(j) == \A h \in headers : h <= j
           last == CHOOSE j \in headers : IsLast(j)
<1>1. PICK h \in 1 .. i : /\ lines[h].kind = "header" /\ lines[h].name = c
                          /\ \A j \in h + 1 .. i : lines[j].kind # "header"
  BY DEF InCategory
<1>2. h \in headers /\ IsLast(h)
  <2>1. ASSUME NEW g \in headers PROVE g <= h
    <3>1. g \notin h + 1 .. i /\ g \in 1 .. i
      BY <1>1
    <3> QED
      BY <3>1
  <2> QED
    BY <1>1, <2>1
<1>3. last \in headers /\ IsLast(last)
  BY <1>2
<1>4. last = h
  BY <1>2, <1>3
<1>5. headers # {}
  BY <1>2
<1>6. CategoryAt(lines, i) = IF headers = {} THEN "SYSTEM" ELSE lines[last].name
  BY Zenon DEF CategoryAt
<1> HIDE DEF headers, last
<1> QED
  BY <1>1, <1>4, <1>5, <1>6

(* Only the headers matter.                                                *)
LEMMA SameCategory ==
  ASSUME NEW p, NEW q, NEW i \in Nat,
         \A j \in 1 .. i : /\ p[j].kind = "header" <=> q[j].kind = "header"
                           /\ p[j].kind = "header" => p[j].name = q[j].name
  PROVE  CategoryAt(p, i) = CategoryAt(q, i)
<1> DEFINE P == {j \in 1 .. i : p[j].kind = "header"}
           Q == {j \in 1 .. i : q[j].kind = "header"}
           EndOf(S) == CHOOSE j \in S : \A h \in S : h <= j
<1>1. P = Q
  OBVIOUS
<1>2. /\ CategoryAt(p, i) = IF P = {} THEN "SYSTEM" ELSE p[EndOf(P)].name
      /\ CategoryAt(q, i) = IF Q = {} THEN "SYSTEM" ELSE q[EndOf(Q)].name
  BY Zenon DEF CategoryAt
<1>3. ASSUME P # {} PROVE EndOf(P) \in P
  <2>1. \E j \in P : \A h \in P : h <= j
    BY <1>3, GreatestElement
  <2> QED
    BY <2>1
<1>4. \A j \in P : p[j].name = q[j].name
  OBVIOUS
<1> HIDE DEF P, Q, EndOf
<1> QED
  BY <1>1, <1>2, <1>3, <1>4

(* What is read in each line.                                              *)
LEMMA ReadTyped ==
  ASSUME NEW raw \in Seq(RawLine)
  PROVE  /\ LinesRead(raw) \in Seq(Line) /\ Len(LinesRead(raw)) = Len(raw) /\ Len(raw) \in Nat
         /\ \A i \in 1 .. Len(raw) : raw[i] \in RawLine /\ LinesRead(raw)[i] = Read[raw[i]]
<1> DEFINE n == Len(raw)
<1>1. n \in Nat /\ DOMAIN raw = 1 .. n /\ \A i \in 1 .. n : raw[i] \in RawLine
  BY LenProperties, ElementOfSeq
<1>2. LinesRead(raw) = [i \in 1 .. n |-> Read[raw[i]]]
  BY <1>1 DEF LinesRead
<1>3. \A i \in 1 .. n : Read[raw[i]] \in Line
  BY <1>1, ConfigurationAssumption
<1> HIDE DEF n
<1>4. LinesRead(raw) \in [1 .. n -> Line]
  BY <1>2, <1>3
<1>5. LinesRead(raw) \in Seq(Line) /\ Len(LinesRead(raw)) = n
  BY <1>1, <1>4
<1> QED
  BY <1>1, <1>2, <1>5 DEF n

(* saveToFile writes the header of a category, and the lines of each key.  *)
EntryOf(values, k) == IF k \in DOMAIN values THEN EntryLines[k][values[k].text] ELSE <<>>

LEMMA KeysInOrder ==
  /\ Len(KeyOrder) \in Nat /\ DOMAIN KeyOrder = 1 .. Len(KeyOrder)
  /\ \A i \in 1 .. Len(KeyOrder) : KeyOrder[i] \in Key
  /\ \A k \in Key : \E i \in 1 .. Len(KeyOrder) : KeyOrder[i] = k
BY ConfigurationAssumption, LenProperties, ElementOfSeq DEF Key, ToSet

Written(c, values, V, seqs, F) ==
  /\ seqs = [i \in 1 .. Len(KeyOrder) |-> EntryOf(values, KeyOrder[i])]
  /\ Covered(F, seqs, Len(KeyOrder), V)
  /\ SectionOf(c, values) \in Seq(RawLine) /\ Len(SectionOf(c, values)) = Len(F) + 1
  /\ SectionOf(c, values)[1] = HeaderLine[c]
  /\ \A j \in 1 .. Len(F) : SectionOf(c, values)[j + 1] = F[j]

LEMMA SectionWritten ==
  ASSUME NEW c \in Category, NEW values, DOMAIN values \subseteq Key, DOMAIN values # {},
         NEW V, HeaderLine[c] \in RawLine, V \subseteq RawLine,
         \A k \in DOMAIN values : EntryLines[k][values[k].text] \in Seq(V)
  PROVE  \E seqs, F : Written(c, values, V, seqs, F)
<1> DEFINE n == Len(KeyOrder)
           seqs == [i \in DOMAIN KeyOrder |->
                      IF KeyOrder[i] \in DOMAIN values THEN EntryLines[KeyOrder[i]][values[KeyOrder[i]].text] ELSE <<>>]
           F == FlattenSeq(seqs)
           h == HeaderLine[c]
           B == SectionOf(c, values)
<1>1. B = <<h>> \o F
  BY Zenon DEF SectionOf
<1>2. /\ n \in Nat /\ DOMAIN KeyOrder = 1 .. n
      /\ \A i \in 1 .. n : KeyOrder[i] \in Key
  BY KeysInOrder
<1>3. seqs = [i \in 1 .. n |-> EntryOf(values, KeyOrder[i])]
  BY <1>2 DEF EntryOf
<1> HIDE DEF B, h, n, seqs
<1>4. seqs \in [1 .. n -> Seq(V)]
  <2>1. <<>> \in Seq(V)
    OBVIOUS
  <2>2. \A k \in Key : EntryOf(values, k) \in Seq(V)
    BY <2>1 DEF EntryOf
  <2> QED
    BY <1>2, <1>3, <2>2
<1>5. Covered(F, seqs, n, V)
  BY <1>2, <1>4, FlattenPlaces
<1> HIDE DEF F
<1>6. F \in Seq(RawLine) /\ Len(F) \in Nat
  BY <1>5, SeqMonotonic, LenProperties DEF Covered
<1>7. h \in RawLine
  BY DEF h
<1>8. /\ B \in Seq(RawLine) /\ Len(B) = Len(F) + 1 /\ B[1] = h
      /\ \A j \in 1 .. Len(F) : B[j + 1] = F[j]
  <2>1. <<h>> \in Seq(RawLine) /\ Len(<<h>>) = 1 /\ <<h>>[1] = h
    BY <1>7
  <2>2. /\ B \in Seq(RawLine) /\ Len(B) = 1 + Len(F)
        /\ \A i \in 1 .. 1 + Len(F) : B[i] = IF i <= 1 THEN <<h>>[i] ELSE F[i - 1]
    <3> DEFINE s == <<h>>
    <3>1. s \in Seq(RawLine) /\ Len(s) = 1
      BY <2>1
    <3> HIDE DEF s
    <3>2. /\ s \o F \in Seq(RawLine) /\ Len(s \o F) = Len(s) + Len(F)
          /\ \A i \in 1 .. Len(s) + Len(F) : (s \o F)[i] = IF i <= Len(s) THEN s[i] ELSE F[i - Len(s)]
      BY <1>6, <3>1, ConcatProperties
    <3> QED
      BY <1>1, <3>1, <3>2 DEF s
  <2>3. B[1] = h
    BY <1>6, <2>1, <2>2
  <2>4. \A j \in 1 .. Len(F) : B[j + 1] = F[j]
    BY <1>6, <2>2
  <2> QED
    BY <1>6, <2>2, <2>3, <2>4
<1> QED
  BY <1>3, <1>5, <1>8, Zenon DEF Written, B, h, n

LEMMA HeaderRead ==
  ASSUME NEW c \in Category
  PROVE  HeaderLine[c] \in RawLine /\ Read[HeaderLine[c]].kind = "header" /\ Read[HeaderLine[c]].name = c
<1> DEFINE h == [kind |-> "header", name |-> c]
<1>1. HeaderLine[c] \in RawLine /\ Read[HeaderLine[c]] = h
  BY ConfigurationAssumption
<1>2. h.kind = "header" /\ h.name = c
  OBVIOUS
<1> HIDE DEF h
<1> QED
  BY <1>1, <1>2

LEMMA LinesTyped ==
  ASSUME NEW f, IsConfiguration(f)
  PROVE  LinesOf(f) \in Seq(RawLine) /\ Len(LinesOf(f)) \in Nat
<1> DEFINE n == Len(CategoryOrder)
           seqs == [i \in DOMAIN CategoryOrder |-> SectionOf(CategoryOrder[i], f[CategoryOrder[i]])]
<1>1. n \in Nat /\ DOMAIN CategoryOrder = 1 .. n /\ \A i \in 1 .. n : CategoryOrder[i] \in Category
  BY ConfigurationAssumption, LenProperties, ElementOfSeq DEF Category, ToSet
<1>2. ASSUME NEW c \in Category PROVE SectionOf(c, f[c]) \in Seq(RawLine)
  <2> DEFINE values == f[c]
  <2>0. DOMAIN values \subseteq Key /\ \A k \in DOMAIN values : values[k] \in Value
    BY DEF IsConfiguration
  <2>1. ASSUME NEW k \in DOMAIN values PROVE EntryLines[k][values[k].text] \in Seq(RawLine)
    <3>1. k \in Key /\ values[k].text \in Text
      BY <2>0 DEF Value
    <3> HIDE DEF values
    <3> QED
      BY <3>1, ConfigurationAssumption
  <2>2. HeaderLine[c] \in RawLine
    BY HeaderRead
  <2> HIDE DEF values
  <2>3. CASE DOMAIN values = {}
    <3>1. SectionOf(c, values) = <<>>
      BY <2>3 DEF SectionOf
    <3> QED
      BY <3>1 DEF values
  <2>4. CASE DOMAIN values # {}
    <3>1. SectionOf(c, values) \in Seq(RawLine)
      <4>1. RawLine \subseteq RawLine
        OBVIOUS
      <4>2. \E entries, F : Written(c, values, RawLine, entries, F)
        BY <2>0, <2>1, <2>2, <2>4, <4>1, SectionWritten
      <4> QED
        BY <4>2 DEF Written
    <3> QED
      BY <3>1 DEF values
  <2> QED
    BY <2>3, <2>4
<1>3. LinesOf(f) = FlattenSeq(seqs)
  BY Zenon DEF LinesOf
<1> HIDE DEF n
<1>4. seqs \in [1 .. n -> Seq(RawLine)]
  BY <1>1, <1>2
<1> HIDE DEF seqs
<1>5. Covered(LinesOf(f), seqs, n, RawLine)
  BY <1>1, <1>3, <1>4, FlattenPlaces
<1> QED
  BY <1>5, LenProperties DEF Covered

(* The lines of one category, if they can be read: its header, and an entry
   for each key.                                                           *)
IsEntry(line, values) ==
  /\ Read[line].kind = "entry" /\ Read[line].key \in DOMAIN values
  /\ Read[line].text = TextRead(Read[line].key, values[Read[line].key])

IsSection(B, c, values) ==
  /\ B \in Seq(RawLine)
  /\ B # <<>> => B[1] = HeaderLine[c] /\ Read[B[1]].kind = "header" /\ Read[B[1]].name = c
  /\ \A j \in 2 .. Len(B) : IsEntry(B[j], values)
  /\ \A k \in DOMAIN values : \E j \in 2 .. Len(B) : Read[B[j]].key = k

LEMMA SectionDescribes ==
  ASSUME NEW c \in Category, NEW values, DOMAIN values \subseteq Key,
         \A k \in DOMAIN values : values[k] \in Value /\ Legible(k, values[k])
  PROVE  IsSection(SectionOf(c, values), c, values)
<1>1. CASE DOMAIN values = {}
  <2>1. SectionOf(c, values) = <<>>
    BY <1>1 DEF SectionOf
  <2>2. <<>> \in Seq(RawLine) /\ Len(<<>>) = 0 /\ 2 .. 0 = {}
    OBVIOUS
  <2> QED
    BY <1>1, <2>1, <2>2 DEF IsSection
<1>2. CASE DOMAIN values # {}
  <2> DEFINE n == Len(KeyOrder)
             Entry(k) == EntryLines[k][values[k].text][1]
             V == {Entry(k) : k \in DOMAIN values}
             h == HeaderLine[c]
             B == SectionOf(c, values)
  <2>1. ASSUME NEW k \in DOMAIN values
        PROVE  /\ Entry(k) \in RawLine /\ IsEntry(Entry(k), values) /\ Read[Entry(k)].key = k
               /\ EntryLines[k][values[k].text] = <<Entry(k)>>
    <3> DEFINE e == EntryLines[k][values[k].text]
    <3>1. e \in Seq(RawLine)
      <4>1. k \in Key /\ values[k].text \in Text
        BY DEF Value
      <4> QED
        BY <4>1, ConfigurationAssumption
    <3>2. Len(e) = 1 /\ Read[e[1]].kind = "entry" /\ Read[e[1]].key = k
      BY DEF Legible
    <3>3. Read[e[1]].text = TextRead(k, values[k])
      BY DEF TextRead
    <3> HIDE DEF e
    <3>4. e[1] \in RawLine /\ e = <<e[1]>>
      <4> DEFINE s == <<e[1]>>
      <4>1. e[1] \in RawLine
        <5>1. 1 \in 1 .. Len(e)
          BY <3>2
        <5> QED
          BY <3>1, <5>1, ElementOfSeq
      <4>2. s \in Seq(RawLine) /\ Len(s) = 1 /\ s[1] = e[1]
        BY <4>1
      <4> HIDE DEF s
      <4>3. \A i \in 1 .. Len(e) : e[i] = s[i]
        BY <3>2, <4>2
      <4>4. e = s
        BY <3>1, <3>2, <4>2, <4>3, SeqEqual
      <4> QED
        BY <4>1, <4>4 DEF s
    <3>5. IsEntry(e[1], values)
      BY <3>2, <3>3 DEF IsEntry
    <3> QED
      BY <3>2, <3>4, <3>5 DEF e
  <2> HIDE DEF Entry
  <2>2. V \subseteq RawLine /\ (\A v \in V : IsEntry(v, values)) /\ \A k \in DOMAIN values : Entry(k) \in V
    BY <2>1
  <2> HIDE DEF V
  <2>3. \A k \in DOMAIN values : EntryLines[k][values[k].text] \in Seq(V)
    <3>1. \A k \in DOMAIN values : <<Entry(k)>> \in Seq(V)
      BY <2>2
    <3> QED
      BY <2>1, <3>1
  <2>4. h \in RawLine /\ Read[h].kind = "header" /\ Read[h].name = c
    BY HeaderRead
  <2> HIDE DEF h, B, n
  <2>5. PICK seqs, F :
           /\ seqs = [i \in 1 .. n |-> EntryOf(values, KeyOrder[i])]
           /\ Covered(F, seqs, n, V)
           /\ B \in Seq(RawLine) /\ Len(B) = Len(F) + 1
           /\ B[1] = h
           /\ \A j \in 1 .. Len(F) : B[j + 1] = F[j]
    <3>1. HeaderLine[c] \in RawLine /\ V \subseteq RawLine
      BY <2>2, <2>4 DEF h
    <3>2. \E seqs, F : Written(c, values, V, seqs, F)
      BY <1>2, <2>3, <3>1, SectionWritten
    <3> QED
      BY <3>2, Zenon DEF Written, h, B, n
  <2>6. Len(F) \in Nat /\ \A j \in 1 .. Len(F) : F[j] \in V
    BY <2>5, LenProperties, ElementOfSeq DEF Covered
  <2>7. ASSUME NEW j \in 2 .. Len(B) PROVE IsEntry(B[j], values)
    <3>1. j - 1 \in 1 .. Len(F) /\ j - 1 + 1 = j
      BY <2>5, <2>6
    <3>2. B[j] = F[j - 1]
      BY <2>5, <3>1
    <3> QED
      BY <2>2, <2>6, <3>1, <3>2
  <2>8. ASSUME NEW k \in DOMAIN values PROVE \E j \in 2 .. Len(B) : Read[B[j]].key = k
    <3>1. PICK i \in 1 .. n : KeyOrder[i] = k
      BY KeysInOrder DEF n
    <3>2. seqs[i] = <<Entry(k)>>
      BY <2>1, <2>5, <3>1 DEF EntryOf
    <3>3. PICK off : Placed(F, seqs[i], off)
      BY <2>5 DEF Covered
    <3>4. off \in Nat /\ off + 1 <= Len(F) /\ F[off + 1] = Entry(k)
      BY <3>2, <3>3 DEF Placed
    <3>5. off + 1 \in 1 .. Len(F)
      BY <2>6, <3>4
    <3>6. off + 1 + 1 \in 2 .. Len(B) /\ B[off + 1 + 1] = Entry(k)
      BY <2>5, <2>6, <3>4, <3>5
    <3> QED
      BY <2>1, <3>6
  <2>9. IsSection(B, c, values)
    BY <2>4, <2>5, <2>7, <2>8 DEF IsSection, h
  <2> QED
    BY <2>9 DEF B
<1> QED
  BY <1>1, <1>2

(* The lines say what the configuration says.                              *)
Describes(L, f) ==
  /\ L \in Seq(Line)
  /\ \A i \in 1 .. Len(L) : L[i].kind = "entry" =>
       \E c \in Category : /\ CategoryAt(L, i) = c /\ L[i].key \in DOMAIN f[c]
                           /\ L[i].text = TextRead(L[i].key, f[c][L[i].key])
  /\ \A c \in Category : \A k \in DOMAIN f[c] : \E i \in 1 .. Len(L) :
       L[i].kind = "entry" /\ L[i].key = k /\ CategoryAt(L, i) = c

(* In the whole file the entries of a section are of its category.         *)
LEMMA InSection ==
  ASSUME NEW F \in Seq(RawLine), NEW B, NEW c, NEW values, IsSection(B, c, values),
         NEW off, Placed(F, B, off), NEW j \in 1 .. Len(B)
  PROVE  CategoryAt(LinesRead(F), off + j) = c /\ F[off + j] = B[j] /\ off + j \in 1 .. Len(F)
<1>0. Len(F) \in Nat /\ \A i \in 1 .. Len(F) : LinesRead(F)[i] = Read[F[i]]
  BY ReadTyped
<1>1. off \in Nat /\ Len(B) \in Nat /\ off + Len(B) <= Len(F)
  BY LenProperties DEF Placed, IsSection
<1>2. B # <<>>
  BY <1>1
<1>3. Read[F[off + 1]].kind = "header" /\ Read[F[off + 1]].name = c
  BY <1>1, <1>2 DEF Placed, IsSection
<1>4. ASSUME NEW i \in off + 1 + 1 .. off + j PROVE LinesRead(F)[i].kind # "header"
  <2>1. i - off \in 2 .. Len(B) /\ i - off \in 1 .. Len(B) /\ i = off + (i - off) /\ i \in 1 .. Len(F)
    BY <1>0, <1>1
  <2>2. F[i] = B[i - off] /\ Read[B[i - off]].kind = "entry"
    BY <2>1 DEF Placed, IsSection, IsEntry
  <2> QED
    BY <1>0, <2>1, <2>2
<1>5. off + 1 \in 1 .. off + j /\ off + j \in Nat /\ off + 1 \in 1 .. Len(F)
  BY <1>0, <1>1
<1>6. InCategory(LinesRead(F), off + j, c)
  BY <1>0, <1>3, <1>4, <1>5 DEF InCategory
<1>7. F[off + j] = B[j]
  BY DEF Placed
<1>8. off + j \in 1 .. Len(F)
  BY <1>0, <1>1
<1> QED
  BY <1>5, <1>6, <1>7, <1>8, CategoryFound

(* The lines of a configuration that can be read tell it: each entry is a
   value of it, and each value has an entry.                               *)
LEMMA LinesDescribe ==
  ASSUME NEW f, IsConfiguration(f), AllLegible(f)
  PROVE  /\ Describes(LinesRead(LinesOf(f)), f)
         /\ \A m \in 1 .. Len(LinesOf(f)) :
              Read[LinesOf(f)[m]].kind = "entry" \/ \E c \in Category : LinesOf(f)[m] = HeaderLine[c]
<1> DEFINE n == Len(CategoryOrder)
           Sec(c) == SectionOf(c, f[c])
           seqs == [i \in DOMAIN CategoryOrder |-> Sec(CategoryOrder[i])]
           R == LinesOf(f)
           L == LinesRead(LinesOf(f))
<1>1. /\ n \in Nat /\ DOMAIN CategoryOrder = 1 .. n
      /\ \A i \in 1 .. n : CategoryOrder[i] \in Category
      /\ \A c \in Category : \E i \in 1 .. n : CategoryOrder[i] = c
  BY ConfigurationAssumption, LenProperties, ElementOfSeq DEF Category, ToSet
<1>2. ASSUME NEW c \in Category PROVE IsSection(Sec(c), c, f[c])
  <2> DEFINE values == f[c]
  <2>1. DOMAIN values \subseteq Key /\ \A k \in DOMAIN values : values[k] \in Value
    BY DEF IsConfiguration
  <2>2. ASSUME NEW k \in DOMAIN values PROVE Legible(k, values[k])
    <3>1. <<c, k>> \in Entries(f) /\ <<c, k>>[1] = c /\ <<c, k>>[2] = k
      BY <2>1 DEF Entries
    <3> QED
      BY <3>1 DEF AllLegible
  <2> HIDE DEF values
  <2>3. IsSection(SectionOf(c, values), c, values)
    BY <2>1, <2>2, SectionDescribes
  <2> QED
    BY <2>3 DEF values
<1>3. R = FlattenSeq(seqs)
  BY Zenon DEF LinesOf
<1> HIDE DEF n, Sec, R, L
<1>4. seqs \in [1 .. n -> Seq(RawLine)]
  BY <1>1, <1>2 DEF IsSection
<1>5. \A i \in 1 .. n : seqs[i] = Sec(CategoryOrder[i])
  BY <1>1
<1> HIDE DEF seqs
<1>6. Covered(R, seqs, n, RawLine)
  BY <1>1, <1>3, <1>4, FlattenPlaces
<1>7. /\ R \in Seq(RawLine) /\ Len(R) \in Nat /\ L \in Seq(Line) /\ Len(L) = Len(R)
      /\ \A i \in 1 .. Len(R) : L[i] = Read[R[i]]
  BY <1>6, ReadTyped DEF Covered, L, R
<1>8. ASSUME NEW m \in 1 .. Len(L), L[m].kind = "entry"
      PROVE  \E c \in Category : /\ CategoryAt(L, m) = c /\ L[m].key \in DOMAIN f[c]
                                  /\ L[m].text = TextRead(L[m].key, f[c][L[m].key])
  <2>1. PICK i \in 1 .. n, off \in Nat : Placed(R, seqs[i], off) /\ m - off \in 1 .. Len(seqs[i])
    BY <1>6, <1>7 DEF Covered
  <2> DEFINE c == CategoryOrder[i]
             B == seqs[i]
             j == m - off
  <2>2. c \in Category /\ IsSection(B, c, f[c]) /\ j \in 1 .. Len(B) /\ off + j = m
    BY <1>1, <1>2, <1>5, <2>1
  <2> HIDE DEF c, B, j
  <2>3. CategoryAt(L, m) = c /\ L[m] = Read[B[j]]
    <3>1. CategoryAt(LinesRead(R), off + j) = c /\ R[off + j] = B[j]
      BY <1>7, <2>1, <2>2, InSection DEF B
    <3> QED
      BY <1>7, <2>2, <3>1 DEF L, R
  <2>4. j # 1
    <3> SUFFICES ASSUME j = 1 PROVE FALSE
      OBVIOUS
    <3>1. B # <<>>
      BY <2>2
    <3>2. Read[B[1]].kind = "header"
      BY <2>2, <3>1 DEF IsSection
    <3> QED
      BY <1>8, <2>3, <3>2
  <2>5. j \in 2 .. Len(B)
    BY <2>2, <2>4
  <2>6. IsEntry(B[j], f[c])
    BY <2>2, <2>5 DEF IsSection
  <2> QED
    BY <2>2, <2>3, <2>6 DEF IsEntry
<1>9. ASSUME NEW c \in Category, NEW k \in DOMAIN f[c]
      PROVE  \E m \in 1 .. Len(L) : L[m].kind = "entry" /\ L[m].key = k /\ CategoryAt(L, m) = c
  <2>1. PICK i \in 1 .. n : CategoryOrder[i] = c
    BY <1>1
  <2>2. PICK off : Placed(R, seqs[i], off)
    BY <1>6 DEF Covered
  <2> DEFINE B == seqs[i]
  <2>3. IsSection(B, c, f[c])
    BY <1>2, <1>5, <2>1
  <2> HIDE DEF B
  <2>4. PICK j \in 2 .. Len(B) : Read[B[j]].key = k
    BY <2>3 DEF IsSection
  <2>5. j \in 1 .. Len(B) /\ Read[B[j]].kind = "entry"
    BY <2>3 DEF IsSection, IsEntry
  <2>6. CategoryAt(L, off + j) = c /\ L[off + j] = Read[B[j]] /\ off + j \in 1 .. Len(L)
    <3>1. CategoryAt(LinesRead(R), off + j) = c /\ R[off + j] = B[j] /\ off + j \in 1 .. Len(R)
      BY <1>7, <2>2, <2>3, <2>5, InSection DEF B
    <3> QED
      BY <1>7, <3>1 DEF L, R
  <2> QED
    BY <2>4, <2>5, <2>6
<1>10. Describes(L, f)
  BY <1>7, <1>8, <1>9 DEF Describes
<1>11. ASSUME NEW m \in 1 .. Len(R)
       PROVE  Read[R[m]].kind = "entry" \/ \E c \in Category : R[m] = HeaderLine[c]
  <2>1. PICK i \in 1 .. n, off \in Nat : Placed(R, seqs[i], off) /\ m - off \in 1 .. Len(seqs[i])
    BY <1>6, <1>7 DEF Covered
  <2> DEFINE c == CategoryOrder[i]
             B == seqs[i]
             j == m - off
  <2>2. c \in Category /\ IsSection(B, c, f[c]) /\ j \in 1 .. Len(B) /\ off + j = m
    BY <1>1, <1>2, <1>5, <2>1
  <2> HIDE DEF c, B, j
  <2>3. R[m] = B[j]
    BY <1>7, <2>1, <2>2, InSection DEF B
  <2>4. CASE j = 1
    <3>1. B # <<>>
      BY <2>2
    <3>2. B[1] = HeaderLine[c]
      BY <2>2, <3>1 DEF IsSection
    <3> QED
      BY <2>2, <2>3, <2>4, <3>2
  <2>5. CASE j # 1
    <3>1. j \in 2 .. Len(B)
      BY <2>2, <2>5
    <3> QED
      BY <2>2, <2>3, <3>1 DEF IsSection, IsEntry
  <2> QED
    BY <2>4, <2>5
<1> QED
  BY <1>10, <1>11 DEF L, R

-----------------------------------------------------------------------------
(* The inductive invariant.  While a save is under way, the lines in the    *)
(* file and those that are left are together the lines of the configuration *)
(* that is saved; an interrupted one leaves their beginning, and the rest   *)
(* of one line more.                                                        *)

(* The first n lines of L.                                                 *)
Begins(lines, n, L) ==
  n \in 0 .. Len(L) /\ n <= Len(lines) /\ \A i \in 1 .. n : lines[i] = L[i]

(* The end of the file is what was left of a line.                         *)
Interrupted(lines, L) ==
  \E n \in Nat :
    /\ Begins(lines, n, L)
    /\ \/ Len(lines) = n
       \/ /\ Len(lines) = n + 1 /\ n + 1 <= Len(L)
          /\ L[n + 1] \in RawLine /\ lines[n + 1] \in CutShort[L[n + 1]]

Saving ==
  LET L == LinesOf(saved)
  IN  /\ complete = "no" /\ conf = saved
      /\ Begins(file, Len(file), L) /\ Len(file) + Len(toWrite) = Len(L)
      /\ \A j \in 1 .. Len(toWrite) : toWrite[j] = L[Len(file) + j]

Recoverable ==
  /\ configMutex = "save" => Saving
  /\ configMutex = "free" /\ complete = "no" => Interrupted(file, LinesOf(saved))
  /\ complete = "yes" => /\ Len(file) = Len(LinesOf(saved))
                         /\ Begins(file, Len(file), LinesOf(saved))

ConfigurationIInv == ConfigurationTypeOK /\ Recoverable

LEMMA EmptyTyped == IsConfiguration(Empty)
BY DEF Empty, IsConfiguration

LEMMA DefaultTyped == Default \in [Range(Param) -> Text]
<1>1. Range(Param) = {"hitThreshold", "scaleFactor", "minNeighbors"}
  <2>1. DOMAIN Param = 1 .. 3 /\ Param[1] = "hitThreshold" /\ Param[2] = "scaleFactor" /\ Param[3] = "minNeighbors"
    BY DEF Param
  <2>2. 1 .. 3 = {1, 2, 3}
    OBVIOUS
  <2> QED
    BY <2>1, <2>2 DEF Range
<1>2. /\ DOMAIN Default = {"hitThreshold", "scaleFactor", "minNeighbors"}
      /\ Default = [p \in DOMAIN Default |-> Default[p]]
  BY DEF Default
<1>3. Range(Default) \subseteq Text
  BY ConfigurationAssumption
<1>4. \A p \in DOMAIN Default : Default[p] \in Text
  BY <1>3 DEF Range
<1> HIDE DEF Default
<1> QED
  BY <1>1, <1>2, <1>4

(* What loadFromFile makes of a text is a value.                           *)
LEMMA ParsedTyped ==
  ASSUME NEW t \in Text
  PROVE  Parsed(t) \in Value
<1>1. {"true", "false", "0"} \subseteq Text /\ StoI[t] \in Text \cup {Fails} /\ StoF[t] \in Text \cup {Fails}
  BY ConfigurationAssumption
<1> QED
  BY <1>1 DEF Parsed, Value

LEMMA ConfigurationIInvInit == ConfigurationInit => ConfigurationIInv
<1> SUFFICES ASSUME ConfigurationInit PROVE ConfigurationIInv
  OBVIOUS
<1>1. ConfigurationTypeOK
  <2>1. file \in Seq(RawLine) /\ toWrite \in Seq(RawLine) /\ ops \in 0 .. MaxOps
    BY ConfigurationAssumption DEF ConfigurationInit
  <2>2. 1 \in DOMAIN Param
    BY DEF Param
  <2> QED
    BY <2>1, <2>2, EmptyTyped, DefaultTyped DEF ConfigurationInit, ConfigurationTypeOK
<1>2. Recoverable
  BY DEF ConfigurationInit, Recoverable
<1> QED
  BY <1>1, <1>2 DEF ConfigurationIInv

(* A configuration with one value more, or another one, or one less.       *)
LEMMA PutTyped ==
  ASSUME IsConfiguration(conf), NEW c \in Category, NEW k \in Key, NEW v \in Value
  PROVE  IsConfiguration(Put(c, k, v))
BY DEF IsConfiguration, Put

LEMMA RemoveTyped ==
  ASSUME IsConfiguration(conf), NEW c \in Category, NEW k
  PROVE  IsConfiguration([conf EXCEPT ![c] = Restrict(@, DOMAIN @ \ {k})])
BY DEF IsConfiguration, Restrict

LEMMA EntriesFound ==
  ASSUME NEW lines \in Seq(Line), NEW c \in Category, NEW k \in Key
  PROVE  /\ EntriesOf(lines)[c][k] \in SUBSET (1 .. Len(lines)) /\ Len(lines) \in Nat
         /\ \A i \in 1 .. Len(lines) :
              i \in EntriesOf(lines)[c][k]
                <=> lines[i].kind = "entry" /\ lines[i].key = k /\ CategoryAt(lines, i) = c
BY LenProperties DEF EntriesOf

(* loadFromFile leaves a configuration.                                    *)
LEMMA LoadedTyped ==
  ASSUME IsConfiguration(conf), file \in Seq(RawLine)
  PROVE  IsConfiguration(LoadedBy(EntriesOf(LinesRead(file))))
<1> DEFINE entries == EntriesOf(LinesRead(file))
           IsLast(i, S) == \A j \in S : j <= i
           EndOf(S) == CHOOSE i \in S : IsLast(i, S)
           f == LoadedBy(entries)
<1>1. /\ LinesRead(file) \in Seq(Line) /\ Len(LinesRead(file)) = Len(file) /\ Len(file) \in Nat
      /\ \A i \in 1 .. Len(file) : LinesRead(file)[i] = Read[file[i]] /\ LinesRead(file)[i] \in Line
  BY ReadTyped, ElementOfSeq
<1>2. ASSUME NEW c \in Category, NEW k \in Key, entries[c][k] # {}
      PROVE  Parsed(Read[file[EndOf(entries[c][k])]].text) \in Value
  <2> DEFINE S == entries[c][k]
  <2>1. S \in SUBSET (1 .. Len(file)) /\ \A i \in S : LinesRead(file)[i].kind = "entry"
    BY <1>1, EntriesFound
  <2> HIDE DEF S
  <2>2. \E i \in S : IsLast(i, S)
    BY <1>1, <1>2, <2>1, GreatestElement DEF S
  <2>3. EndOf(S) \in S
    BY <2>2
  <2> HIDE DEF EndOf
  <2>4. Read[file[EndOf(S)]] \in Line /\ Read[file[EndOf(S)]].kind = "entry"
    BY <1>1, <2>1, <2>3
  <2>5. Read[file[EndOf(S)]].text \in Text
    BY <2>4 DEF Line
  <2> QED
    BY <2>5, ParsedTyped DEF S
<1>3. f = [c \in Category |->
             [k \in DOMAIN conf[c] \cup {x \in Key : entries[c][x] # {}} |->
                IF entries[c][k] = {} THEN conf[c][k] ELSE Parsed(Read[file[EndOf(entries[c][k])]].text)]]
  BY Zenon DEF LoadedBy
<1> HIDE DEF f, entries, EndOf
<1> QED
  BY <1>2, <1>3 DEF IsConfiguration, f, entries

(* What is left of a line is nothing, or one line.                         *)
LEMMA RestTyped ==
  ASSUME NEW line \in RawLine, NEW rest \in Rest(line)
  PROVE  /\ rest \in Seq(RawLine)
         /\ rest = <<>> \/ \E l \in RawLine : rest = <<l>> /\ l \in CutShort[line]
<1>1. CASE rest = <<>>
  BY <1>1
<1>2. CASE \E l \in CutShort[line] : rest = <<l>>
  <2>1. PICK l \in CutShort[line] : rest = <<l>>
    BY <1>2
  <2>2. l \in RawLine
    BY ConfigurationAssumption
  <2> QED
    BY <2>1, <2>2
<1> QED
  BY <1>1, <1>2 DEF Rest

LEMMA RestAdded ==
  ASSUME file \in Seq(RawLine), toWrite \in Seq(RawLine), toWrite # <<>>,
         NEW rest \in Rest(Head(toWrite))
  PROVE  file \o rest \in Seq(RawLine)
<1>1. Head(toWrite) \in RawLine
  BY HeadTailProperties
<1>2. rest \in Seq(RawLine)
  BY <1>1, RestTyped
<1> QED
  BY <1>2, ConcatProperties

(* Every step leaves every variable in its range.                          *)
LEMMA ConfigurationTypes ==
  ConfigurationTypeOK /\ [ConfigurationNext]_configurationVars => ConfigurationTypeOK'
<1> SUFFICES ASSUME ConfigurationTypeOK, [ConfigurationNext]_configurationVars
             PROVE  ConfigurationTypeOK'
  OBVIOUS
<1>1. DOMAIN Param = 1 .. 3 /\ Len(Param) = 3 /\ 1 \in DOMAIN Param
      /\ \A i \in DOMAIN Param : Param[i] \in Range(Param) /\ Param[i] \in Key
  <2>1. DOMAIN Param = 1 .. 3 /\ Len(Param) = 3
    BY DEF Param
  <2>2. \A i \in DOMAIN Param : Param[i] \in Range(Param)
    BY DEF Range
  <2> QED
    BY <2>1, <2>2, ConfigurationAssumption
<1>2. StepDone => doing' \in {"idle", "configure", "initialize"} /\ parameter' \in DOMAIN Param
  BY <1>1 DEF StepDone, ConfigurationTypeOK
<1>3. Operation => ops' \in 0 .. MaxOps
  BY ConfigurationAssumption DEF Operation, ConfigurationTypeOK
<1>4. CASE LoadFromFile
  <2>1. IsConfiguration(conf')
    BY <1>4, LoadedTyped DEF LoadFromFile, Load, ConfigurationTypeOK
  <2> QED
    BY <1>3, <1>4, <2>1 DEF LoadFromFile, Load, hogVars, ConfigurationTypeOK
<1>5. CASE SaveBegin
  <2>1. toWrite' \in Seq(RawLine) /\ file' \in Seq(RawLine)
    BY <1>5, LinesTyped DEF SaveBegin, ConfigurationTypeOK
  <2> QED
    BY <1>3, <1>5, <2>1 DEF SaveBegin, hogVars, ConfigurationTypeOK
<1>6. CASE SaveLine
  <2>1. Head(toWrite) \in RawLine /\ Tail(toWrite) \in Seq(RawLine) /\ Append(file, Head(toWrite)) \in Seq(RawLine)
    BY <1>6, HeadTailProperties, AppendProperties DEF SaveLine, ConfigurationTypeOK
  <2> QED
    BY <1>6, <2>1 DEF SaveLine, hogVars, ConfigurationTypeOK
<1>7. CASE SaveEnd \/ SaveFails
  <2>1. file' \in Seq(RawLine)
    <3>1. CASE SaveEnd
      BY <3>1 DEF SaveEnd, ConfigurationTypeOK
    <3>2. CASE SaveFails
      <4>1. PICK rest \in Rest(Head(toWrite)) : file' = file \o rest
        BY <3>2 DEF SaveFails
      <4>2. file \in Seq(RawLine) /\ toWrite \in Seq(RawLine) /\ toWrite # <<>>
        BY <3>2 DEF SaveFails, ConfigurationTypeOK
      <4> QED
        BY <4>1, <4>2, RestAdded
    <3> QED
      BY <1>7, <3>1, <3>2
  <2>2. toWrite' = <<>> /\ configMutex' = "free" /\ complete' \in {"user", "no", "yes"}
    BY <1>7 DEF SaveEnd, SaveFails, ConfigurationTypeOK
  <2>3. toWrite' \in Seq(RawLine)
    BY <2>2
  <2> QED
    BY <1>7, <2>1, <2>2, <2>3 DEF SaveEnd, SaveFails, hogVars, ConfigurationTypeOK
<1>8. CASE SetValue
  <2>1. PICK e \in Edits : conf' = Put(e.category, e.key, e.value)
    BY <1>8 DEF SetValue
  <2>2. e.category \in Category /\ e.key \in Key /\ e.value \in Value
    BY ConfigurationAssumption
  <2>3. IsConfiguration(conf')
    BY <2>1, <2>2, PutTyped DEF ConfigurationTypeOK
  <2> QED
    BY <1>3, <1>8, <2>3 DEF SetValue, hogVars, ConfigurationTypeOK
<1>9. CASE RemoveKey
  <2>1. PICK e \in Edits : conf' = [conf EXCEPT ![e.category] = Restrict(@, DOMAIN @ \ {e.key})]
    BY <1>9 DEF RemoveKey
  <2>2. e.category \in Category
    BY ConfigurationAssumption
  <2>3. IsConfiguration(conf')
    BY <2>1, <2>2, RemoveTyped DEF ConfigurationTypeOK
  <2> QED
    BY <1>3, <1>9, <2>3 DEF RemoveKey, hogVars, ConfigurationTypeOK
<1>10. CASE Clear
  BY <1>3, <1>10, EmptyTyped DEF Clear, hogVars, ConfigurationTypeOK
<1>11. CASE Configure
  <2>1. hog' \in [Range(Param) -> Text]
    BY <1>11, ConfigurationAssumption DEF Configure
  <2> QED
    BY <1>1, <1>3, <1>11, <2>1 DEF Configure, managerVars, ConfigurationTypeOK
<1>12. CASE StoreParameter
  <2> DEFINE p == Param[parameter]
             v == [type |-> TypeOfParam(p), text |-> hog[p]]
  <2>1. p \in Range(Param) /\ p \in Key /\ hog[p] \in Text /\ "DETECTION" \in Category
    BY <1>1, ConfigurationAssumption DEF ConfigurationTypeOK
  <2> HIDE DEF p
  <2>2. v \in Value
    BY <2>1 DEF TypeOfParam, Value
  <2>3. conf' = Put("DETECTION", p, v)
    BY <1>12 DEF StoreParameter, Store, p
  <2> HIDE DEF v
  <2>4. IsConfiguration(conf')
    BY <2>1, <2>2, <2>3, PutTyped DEF ConfigurationTypeOK
  <2> QED
    BY <1>2, <1>12, <2>4 DEF StoreParameter, ConfigurationTypeOK
<1>13. CASE Initialize
  BY <1>1, <1>3, <1>13 DEF Initialize, managerVars, ConfigurationTypeOK
<1>14. CASE FetchParameter
  <2> DEFINE p == Param[parameter]
  <2>1. p \in Range(Param) /\ "DETECTION" \in Category /\ "0" \in Text
    BY <1>1, ConfigurationAssumption DEF ConfigurationTypeOK
  <2> HIDE DEF p
  <2>2. Default[p] \in Text
    BY <2>1, DefaultTyped
  <2>3. p \in DOMAIN conf["DETECTION"] => conf["DETECTION"][p].text \in Text
    BY <2>1 DEF ConfigurationTypeOK, IsConfiguration, Value
  <2>4. Fetched(p) \in Text
    BY <2>1, <2>2, <2>3 DEF Fetched, GetValue, IntValue, FloatValue
  <2>5. hog' = [hog EXCEPT ![p] = Fetched(p)]
    BY <1>14 DEF FetchParameter, p
  <2>6. hog' \in [Range(Param) -> Text]
    BY <2>4, <2>5 DEF ConfigurationTypeOK
  <2> QED
    BY <1>2, <1>14, <2>6 DEF FetchParameter, managerVars, ConfigurationTypeOK
<1>15. CASE RestartProgram
  <2>1. file' \in Seq(RawLine)
    <3>1. CASE toWrite = <<>>
      BY <1>15, <3>1 DEF RestartProgram, ConfigurationTypeOK
    <3>2. CASE toWrite # <<>>
      BY <1>15, <3>2, RestAdded DEF RestartProgram, ConfigurationTypeOK
    <3> QED
      BY <3>1, <3>2
  <2> QED
    BY <1>1, <1>3, <1>15, <2>1, EmptyTyped, DefaultTyped DEF RestartProgram, ConfigurationTypeOK
<1>16. CASE UNCHANGED configurationVars
  BY <1>16 DEF configurationVars, managerVars, hogVars, ConfigurationTypeOK
<1> QED
  BY <1>4, <1>5, <1>6, <1>7, <1>8, <1>9, <1>10, <1>11, <1>12, <1>13, <1>14, <1>15, <1>16
     DEF ConfigurationNext

(* Every step keeps the file recoverable.                                  *)
LEMMA RecoverableStep ==
  ConfigurationIInv /\ [ConfigurationNext]_configurationVars => Recoverable'
<1> SUFFICES ASSUME ConfigurationIInv, [ConfigurationNext]_configurationVars
             PROVE  Recoverable'
  OBVIOUS
<1>1. /\ ConfigurationTypeOK /\ Recoverable
      /\ configMutex \in {"free", "save"} /\ complete \in {"user", "no", "yes"}
      /\ file \in Seq(RawLine) /\ toWrite \in Seq(RawLine)
      /\ Len(file) \in Nat /\ Len(toWrite) \in Nat
  BY LenProperties DEF ConfigurationIInv, ConfigurationTypeOK
<1> DEFINE L == LinesOf(saved)
<1>2. L \in Seq(RawLine) /\ Len(L) \in Nat
  BY <1>1, LinesTyped DEF ConfigurationTypeOK
<1>3. CASE SaveBegin
  <2>1. /\ file' = <<>> /\ toWrite' = LinesOf(conf) /\ saved' = conf /\ conf' = conf
        /\ complete' = "no" /\ configMutex' = "save"
    BY <1>3 DEF SaveBegin
  <2>2. LinesOf(conf) \in Seq(RawLine) /\ Len(LinesOf(conf)) \in Nat
    BY <1>1, LinesTyped DEF ConfigurationTypeOK
  <2>3. LinesOf(saved)' = LinesOf(conf) /\ LinesOf(saved') = LinesOf(conf)
    BY <2>1
  <2> DEFINE M == LinesOf(conf)
  <2> HIDE DEF M
  <2>4. Begins(<<>>, Len(<<>>), M) /\ Len(<<>>) + Len(M) = Len(M)
        /\ \A j \in 1 .. Len(M) : M[j] = M[Len(<<>>) + j]
    BY <2>2 DEF Begins, M
  <2>5. Saving'
    BY <2>1, <2>3, <2>4 DEF Saving, M
  <2> QED
    BY <2>1, <2>5 DEF Recoverable
<1>4. CASE SaveLine
  <2>1. /\ configMutex = "save" /\ configMutex' = "save" /\ toWrite # <<>>
        /\ file' = Append(file, Head(toWrite)) /\ toWrite' = Tail(toWrite)
        /\ saved' = saved /\ conf' = conf /\ complete' = complete
    BY <1>4 DEF SaveLine
  <2>2. /\ complete = "no" /\ conf = saved
        /\ Begins(file, Len(file), L) /\ Len(file) + Len(toWrite) = Len(L)
        /\ \A j \in 1 .. Len(toWrite) : toWrite[j] = L[Len(file) + j]
    BY <1>1, <2>1 DEF Recoverable, Saving
  <2> HIDE DEF L
  <2>3. /\ Len(toWrite) # 0 /\ Head(toWrite) = toWrite[1]
        /\ Len(toWrite') = Len(toWrite) - 1
        /\ \A j \in 1 .. Len(toWrite) - 1 : toWrite'[j] = toWrite[j + 1]
    BY <1>1, <2>1, HeadTailProperties
  <2>4. /\ Len(file') = Len(file) + 1 /\ file'[Len(file) + 1] = toWrite[1]
        /\ \A i \in 1 .. Len(file) : file'[i] = file[i]
    BY <1>1, <2>1, <2>3, AppendProperties
  <2>5. Begins(file', Len(file'), L)
    <3>1. toWrite[1] = L[Len(file) + 1]
      BY <1>1, <2>2, <2>3
    <3>2. Len(file') \in 0 .. Len(L)
      BY <1>1, <1>2, <2>2, <2>3, <2>4
    <3>3. ASSUME NEW i \in 1 .. Len(file') PROVE file'[i] = L[i]
      <4>1. i \in 1 .. Len(file) \/ i = Len(file) + 1
        BY <1>1, <2>4
      <4> QED
        BY <2>2, <2>4, <3>1, <4>1 DEF Begins
    <3>4. Len(file') \in Nat
      BY <1>1, <2>4
    <3>5. Len(file') <= Len(file')
      BY <3>4
    <3> QED
      BY <3>2, <3>3, <3>5 DEF Begins
  <2>6. Len(file') + Len(toWrite') = Len(L)
    <3>1. Len(file) \in Nat /\ Len(toWrite) \in Nat
      BY <1>1, LenProperties
    <3>2. Len(file') = Len(file) + 1 /\ Len(toWrite') = Len(toWrite) - 1
      BY <2>3, <2>4
    <3>3. Len(file) + Len(toWrite) = Len(L)
      BY <2>2
    <3> QED
      BY <3>1, <3>2, <3>3
  <2>7. \A j \in 1 .. Len(toWrite') : toWrite'[j] = L[Len(file') + j]
    <3> SUFFICES ASSUME NEW j \in 1 .. Len(toWrite') PROVE toWrite'[j] = L[Len(file') + j]
      OBVIOUS
    <3>1. j + 1 \in 1 .. Len(toWrite) /\ j \in 1 .. Len(toWrite) - 1
      BY <1>1, <2>3
    <3>2. toWrite[j + 1] = L[Len(file) + (j + 1)]
      BY <2>2, <3>1
    <3>3. Len(file) + (j + 1) = Len(file') + j
      BY <1>1, <2>4
    <3> QED
      BY <2>3, <3>1, <3>2, <3>3
  <2>8. Saving'
    BY <2>1, <2>2, <2>5, <2>6, <2>7 DEF Saving, L
  <2> QED
    BY <2>1, <2>2, <2>8 DEF Recoverable
<1>5. CASE SaveEnd
  <2>1. /\ configMutex = "save" /\ toWrite = <<>> /\ configMutex' = "free" /\ complete' = "yes"
        /\ file' = file /\ saved' = saved
    BY <1>5 DEF SaveEnd
  <2>2. Begins(file, Len(file), L) /\ Len(file) + Len(toWrite) = Len(L)
    BY <1>1, <2>1 DEF Recoverable, Saving
  <2> HIDE DEF L
  <2>3. Len(file) = Len(L)
    BY <1>1, <1>2, <2>1, <2>2
  <2> QED
    BY <2>1, <2>2, <2>3 DEF Recoverable, L
<1>6. ASSUME configMutex = "save",
             file' = file \/ (toWrite # <<>> /\ \E rest \in Rest(Head(toWrite)) : file' = file \o rest)
      PROVE  complete = "no" /\ Interrupted(file', L)
  <2>1. /\ complete = "no"
        /\ Begins(file, Len(file), L) /\ Len(file) + Len(toWrite) = Len(L)
        /\ \A j \in 1 .. Len(toWrite) : toWrite[j] = L[Len(file) + j]
    BY <1>1, <1>6 DEF Recoverable, Saving
  <2> HIDE DEF L
  <2>2. Interrupted(file, L)
    BY <1>1, <2>1 DEF Interrupted
  <2>3. CASE file' = file
    BY <2>1, <2>2, <2>3
  <2>4. CASE toWrite # <<>> /\ \E rest \in Rest(Head(toWrite)) : file' = file \o rest
    <3>1. PICK rest \in Rest(Head(toWrite)) : file' = file \o rest
      BY <2>4
    <3>2. Head(toWrite) = toWrite[1] /\ Head(toWrite) \in RawLine /\ Len(toWrite) >= 1
      BY <1>1, <2>4, HeadTailProperties
    <3>3. toWrite[1] = L[Len(file) + 1] /\ Len(file) + 1 <= Len(L)
      BY <1>1, <1>2, <2>1, <3>2
    <3>4. CASE rest = <<>>
      <4>1. file' = file
        BY <1>1, <3>1, <3>4, ConcatEmptySeq
      <4> QED
        BY <2>1, <2>2, <4>1
    <3>5. CASE \E l \in RawLine : rest = <<l>> /\ l \in CutShort[Head(toWrite)]
      <4>1. PICK l \in RawLine : rest = <<l>> /\ l \in CutShort[Head(toWrite)]
        BY <3>5
      <4>2. /\ Len(file') = Len(file) + 1 /\ file'[Len(file) + 1] = l
            /\ \A i \in 1 .. Len(file) : file'[i] = file[i]
        <5>1. rest \in Seq(RawLine) /\ Len(rest) = 1 /\ rest[1] = l
          BY <4>1
        <5>2. /\ Len(file \o rest) = Len(file) + Len(rest)
              /\ \A i \in 1 .. Len(file) + Len(rest) :
                   (file \o rest)[i] = IF i <= Len(file) THEN file[i] ELSE rest[i - Len(file)]
          BY <1>1, <5>1, ConcatProperties
        <5>3. \A i \in 1 .. Len(file) : i \in 1 .. Len(file) + 1 /\ i <= Len(file)
          BY <1>1
        <5>4. Len(file) + 1 \in 1 .. Len(file) + 1 /\ ~(Len(file) + 1 <= Len(file)) /\ Len(file) + 1 - Len(file) = 1
          BY <1>1
        <5> QED
          BY <3>1, <5>1, <5>2, <5>3, <5>4
      <4>3. Begins(file', Len(file), L)
        BY <1>1, <2>1, <4>2 DEF Begins
      <4>4. L[Len(file) + 1] \in RawLine /\ file'[Len(file) + 1] \in CutShort[L[Len(file) + 1]]
        BY <3>2, <3>3, <4>1, <4>2
      <4> QED
        BY <1>1, <2>1, <3>3, <4>2, <4>3, <4>4 DEF Interrupted
    <3> QED
      BY <3>2, <3>4, <3>5, RestTyped
  <2> QED
    BY <1>6, <2>3, <2>4
<1>10. CASE RestartProgram
  <2>1. configMutex' = "free" /\ saved' = saved /\ complete' = complete
    BY <1>10 DEF RestartProgram
  <2>2. CASE configMutex = "free"
    <3>1. file' = file
      BY <1>1, <1>10, <2>2 DEF RestartProgram, ConfigurationTypeOK
    <3> QED
      BY <1>1, <2>1, <2>2, <3>1 DEF Recoverable
  <2>3. CASE configMutex = "save"
    <3>1. complete = "no" /\ Interrupted(file', L)
      BY <1>6, <1>10, <2>3 DEF RestartProgram
    <3> QED
      BY <2>1, <3>1 DEF Recoverable
  <2> QED
    BY <1>1, <2>2, <2>3
<1>11. CASE SaveFails
  <2>1. configMutex' = "free" /\ saved' = saved /\ complete' = complete
    BY <1>11 DEF SaveFails
  <2>2. complete = "no" /\ Interrupted(file', L)
    BY <1>6, <1>11 DEF SaveFails
  <2> QED
    BY <2>1, <2>2 DEF Recoverable
<1>7. ASSUME /\ UNCHANGED <<file, saved, complete, configMutex>>
             /\ configMutex = "save" => UNCHANGED <<conf, toWrite>>
      PROVE  Recoverable'
  <2>1. CASE configMutex = "save"
    BY <1>1, <1>7, <2>1 DEF Recoverable, Saving
  <2>2. CASE configMutex = "free"
    BY <1>1, <1>7, <2>2 DEF Recoverable
  <2> QED
    BY <1>1, <2>1, <2>2
<1>8. CASE LoadFromFile \/ SetValue \/ RemoveKey \/ Clear \/ StoreParameter
  BY <1>7, <1>8 DEF LoadFromFile, Load, SetValue, RemoveKey, Clear, StoreParameter
<1>9. CASE Configure \/ Initialize \/ FetchParameter \/ UNCHANGED configurationVars
  BY <1>7, <1>9 DEF Configure, Initialize, FetchParameter, managerVars, configurationVars
<1> QED
  BY <1>3, <1>4, <1>5, <1>8, <1>9, <1>10, <1>11 DEF ConfigurationNext

LEMMA ConfigurationInvariance == ConfigurationSpec => []ConfigurationIInv
<1>1. ConfigurationIInv /\ [ConfigurationNext]_configurationVars => ConfigurationIInv'
  BY ConfigurationTypes, RecoverableStep DEF ConfigurationIInv
<1> QED
  BY <1>1, ConfigurationIInvInit, PTL DEF ConfigurationSpec

(* The configuration stays typed, and nothing changes it while it is being
   written to the file.                                                    *)
THEOREM SavesAlwaysConsistent == ConfigurationSpec => SavesAreConsistent
<1>1. ConfigurationIInv => ConfigurationTypeOK
  BY DEF ConfigurationIInv
<1>2. [ConfigurationNext]_configurationVars
        => [configMutex = "save" /\ configMutex' = "save" => conf' = conf]_configurationVars
  <2> SUFFICES ASSUME [ConfigurationNext]_configurationVars, configMutex = "save", configMutex' = "save"
               PROVE  conf' = conf
    OBVIOUS
  <2> USE DEF ConfigurationNext, LoadFromFile, Load, SaveBegin, SaveLine, SaveFails, SaveEnd, SetValue, RemoveKey,
              Clear, Configure, StoreParameter, Initialize, FetchParameter, RestartProgram,
              managerVars, configurationVars
  <2> QED
    OBVIOUS
<1> QED
  BY <1>1, <1>2, ConfigurationInvariance, PTL
     DEF ConfigurationSpec, SavesAreConsistent, OneConfigurationSaved

-----------------------------------------------------------------------------
(* A load of what a save left                                              *)

(* A line of the beginning of L says in the file what it says in L.        *)
LEMMA BeginsFound ==
  ASSUME NEW lines, NEW n \in Nat, NEW L, Len(L) \in Nat, Begins(lines, n, L), NEW i \in 1 .. n
  PROVE  lines[i] = L[i] /\ CategoryAt(lines, i) = CategoryAt(L, i) /\ i \in 1 .. Len(L)
<1>1. i \in 1 .. Len(L) /\ i \in Nat /\ \A j \in 1 .. i : j \in 1 .. n
  BY DEF Begins
<1>2. \A j \in 1 .. i : lines[j] = L[j]
  BY <1>1 DEF Begins
<1> QED
  BY <1>1, <1>2, SameCategory DEF Begins

(* What is read of lines that are the beginning of others, with the rest of
   one line more.                                                          *)
InterruptedRead(lines, L) ==
  \E n \in Nat :
    /\ Begins(lines, n, L)
    /\ \/ Len(lines) = n
       \/ /\ Len(lines) = n + 1 /\ n + 1 <= Len(L)
          /\ lines[n + 1].kind = "entry" => L[n + 1].kind = "entry" /\ lines[n + 1].key = L[n + 1].key

(* In what a readable configuration writes, the rest of a line that is read
   as an entry is of an entry with the same key.                           *)
LEMMA RestRead ==
  ASSUME NEW line \in RawLine, NEW rest \in CutShort[line],
         Read[line].kind = "entry" \/ \E c \in Category : line = HeaderLine[c]
  PROVE  Read[rest].kind = "entry" => Read[line].kind = "entry" /\ Read[rest].key = Read[line].key
BY ConfigurationAssumption

LEMMA InterruptedIsRead ==
  ASSUME NEW raw \in Seq(RawLine), NEW R \in Seq(RawLine), Interrupted(raw, R),
         \A i \in 1 .. Len(R) : Read[R[i]].kind = "entry" \/ \E c \in Category : R[i] = HeaderLine[c]
  PROVE  InterruptedRead(LinesRead(raw), LinesRead(R))
<1>1. PICK n \in Nat :
        /\ Begins(raw, n, R)
        /\ \/ Len(raw) = n
           \/ /\ Len(raw) = n + 1 /\ n + 1 <= Len(R)
              /\ R[n + 1] \in RawLine /\ raw[n + 1] \in CutShort[R[n + 1]]
  BY DEF Interrupted
<1>2. /\ Len(LinesRead(raw)) = Len(raw) /\ Len(raw) \in Nat
      /\ \A i \in 1 .. Len(raw) : LinesRead(raw)[i] = Read[raw[i]]
      /\ Len(LinesRead(R)) = Len(R) /\ Len(R) \in Nat
      /\ \A i \in 1 .. Len(R) : LinesRead(R)[i] = Read[R[i]]
  BY ReadTyped
<1>3. n \in 0 .. Len(R) /\ n <= Len(raw) /\ \A i \in 1 .. n : raw[i] = R[i] /\ i \in 1 .. Len(R) /\ i \in 1 .. Len(raw)
  BY <1>1, <1>2 DEF Begins
<1>4. Begins(LinesRead(raw), n, LinesRead(R))
  BY <1>2, <1>3 DEF Begins
<1>5. CASE Len(raw) = n
  BY <1>2, <1>4, <1>5 DEF InterruptedRead
<1>6. CASE /\ Len(raw) = n + 1 /\ n + 1 <= Len(R)
           /\ R[n + 1] \in RawLine /\ raw[n + 1] \in CutShort[R[n + 1]]
  <2>1. n + 1 \in 1 .. Len(R) /\ n + 1 \in 1 .. Len(raw)
    BY <1>2, <1>6
  <2>2. Read[raw[n + 1]].kind = "entry" =>
          Read[R[n + 1]].kind = "entry" /\ Read[raw[n + 1]].key = Read[R[n + 1]].key
    BY <1>6, <2>1, RestRead
  <2> QED
    BY <1>2, <1>4, <1>6, <2>1, <2>2 DEF InterruptedRead
<1> QED
  BY <1>1, <1>5, <1>6

LEMMA BeginsRead ==
  ASSUME NEW raw \in Seq(RawLine), NEW R \in Seq(RawLine), Begins(raw, Len(raw), R), Len(raw) = Len(R)
  PROVE  Begins(LinesRead(raw), Len(LinesRead(raw)), LinesRead(R)) /\ Len(LinesRead(raw)) = Len(LinesRead(R))
<1>1. /\ Len(LinesRead(raw)) = Len(raw) /\ Len(raw) \in Nat
      /\ \A i \in 1 .. Len(raw) : LinesRead(raw)[i] = Read[raw[i]]
      /\ Len(LinesRead(R)) = Len(R)
      /\ \A i \in 1 .. Len(R) : LinesRead(R)[i] = Read[R[i]]
  BY ReadTyped
<1> QED
  BY <1>1 DEF Begins

(* After a kill: what is loaded stands in L, with the same text but for one
   entry at most.                                                          *)
Restores(lines, f, e) ==
  \A c \in Category, k \in Key : \A i \in EntriesOf(lines)[c][k] :
    k \in DOMAIN f[c] /\ (lines[i].text = TextRead(k, f[c][k]) \/ <<c, k>> = e)

(* An interrupted save has no entry that was not saved, and one at most
   whose text is another: that of the line that was cut short.             *)
LEMMA InterruptedLoads ==
  ASSUME NEW f, NEW L, Describes(L, f), NEW lines \in Seq(Line), InterruptedRead(lines, L)
  PROVE  \E e : Restores(lines, f, e)
<1>1. PICK n \in Nat :
        /\ Begins(lines, n, L)
        /\ \/ Len(lines) = n
           \/ /\ Len(lines) = n + 1 /\ n + 1 <= Len(L)
              /\ lines[n + 1].kind = "entry" => L[n + 1].kind = "entry" /\ lines[n + 1].key = L[n + 1].key
  BY DEF InterruptedRead
<1> DEFINE e == <<CategoryAt(lines, n + 1), lines[n + 1].key>>
<1>2. Len(L) \in Nat
  BY LenProperties DEF Describes
<1>3. ASSUME NEW c \in Category, NEW k \in Key, NEW i \in EntriesOf(lines)[c][k]
      PROVE  k \in DOMAIN f[c] /\ (lines[i].text = TextRead(k, f[c][k]) \/ <<c, k>> = e)
  <2>1. i \in 1 .. Len(lines) /\ lines[i].kind = "entry" /\ lines[i].key = k /\ CategoryAt(lines, i) = c
    BY EntriesFound
  <2>2. CASE i \in 1 .. n
    <3>1. lines[i] = L[i] /\ CategoryAt(L, i) = c /\ i \in 1 .. Len(L)
      BY <1>1, <1>2, <2>1, <2>2, BeginsFound
    <3> QED
      BY <2>1, <3>1 DEF Describes
  <2>3. CASE i \notin 1 .. n
    <3>1. i = n + 1 /\ n + 1 <= Len(L) /\ L[n + 1].kind = "entry" /\ lines[n + 1].key = L[n + 1].key
      BY <1>1, <2>1, <2>3
    <3>2. L[i].kind = "entry" /\ L[i].key = k /\ i \in 1 .. Len(L) /\ i \in Nat
      BY <1>2, <2>1, <3>1
    <3>3. \A j \in 1 .. i : /\ lines[j].kind = "header" <=> L[j].kind = "header"
                            /\ lines[j].kind = "header" => lines[j].name = L[j].name
      <4> SUFFICES ASSUME NEW j \in 1 .. i
                   PROVE  /\ lines[j].kind = "header" <=> L[j].kind = "header"
                          /\ lines[j].kind = "header" => lines[j].name = L[j].name
        OBVIOUS
      <4>1. CASE j = i
        BY <2>1, <3>2, <4>1
      <4>2. CASE j # i
        <5>1. j \in 1 .. n
          BY <3>1, <4>2
        <5> QED
          BY <1>1, <5>1 DEF Begins
      <4> QED
        BY <4>1, <4>2
    <3>4. CategoryAt(L, i) = c
      BY <2>1, <3>2, <3>3, SameCategory
    <3>5. k \in DOMAIN f[c]
      BY <3>2, <3>4 DEF Describes
    <3>6. <<c, k>> = e
      BY <2>1, <3>1
    <3> QED
      BY <3>5, <3>6
  <2> QED
    BY <2>2, <2>3
<1> HIDE DEF e
<1> QED
  BY <1>3 DEF Restores

(* After a complete save: what is loaded is what stands in L.              *)
LEMMA CompleteLoads ==
  ASSUME NEW f, NEW L, Describes(L, f), NEW lines \in Seq(Line),
         Begins(lines, Len(lines), L), Len(lines) = Len(L)
  PROVE  \A c \in Category, k \in Key :
           /\ \A i \in EntriesOf(lines)[c][k] : k \in DOMAIN f[c] /\ lines[i].text = TextRead(k, f[c][k])
           /\ k \in DOMAIN f[c] => EntriesOf(lines)[c][k] # {}
<1> SUFFICES ASSUME NEW c \in Category, NEW k \in Key
             PROVE  /\ \A i \in EntriesOf(lines)[c][k] : k \in DOMAIN f[c] /\ lines[i].text = TextRead(k, f[c][k])
                    /\ k \in DOMAIN f[c] => EntriesOf(lines)[c][k] # {}
  OBVIOUS
<1>1. Len(L) \in Nat
  BY LenProperties DEF Describes
<1>2. \A i \in 1 .. Len(L) : lines[i] = L[i] /\ CategoryAt(lines, i) = CategoryAt(L, i)
  BY <1>1, BeginsFound
<1>3. ASSUME NEW i \in EntriesOf(lines)[c][k]
      PROVE  k \in DOMAIN f[c] /\ lines[i].text = TextRead(k, f[c][k])
  <2>1. i \in 1 .. Len(L) /\ L[i].kind = "entry" /\ L[i].key = k /\ CategoryAt(L, i) = c
    BY <1>2, EntriesFound
  <2> QED
    BY <1>2, <2>1 DEF Describes
<1>4. ASSUME k \in DOMAIN f[c] PROVE EntriesOf(lines)[c][k] # {}
  <2>1. PICK i \in 1 .. Len(L) : L[i].kind = "entry" /\ L[i].key = k /\ CategoryAt(L, i) = c
    BY <1>4 DEF Describes
  <2>2. i \in EntriesOf(lines)[c][k]
    BY <1>2, <2>1, EntriesFound
  <2> QED
    BY <2>2
<1> QED
  BY <1>3, <1>4

(* What the load of an empty configuration makes of the entries.           *)
LEMMA LoadedFromFile ==
  ASSUME conf = Empty, file \in Seq(RawLine), LoadFromFile, NEW c \in Category
  PROVE  /\ DOMAIN conf'[c] = {k \in Key : EntriesOf(LinesRead(file))[c][k] # {}}
         /\ \A k \in DOMAIN conf'[c] : \E i \in EntriesOf(LinesRead(file))[c][k] :
              conf'[c][k] = Parsed(LinesRead(file)[i].text)
<1> DEFINE entries == EntriesOf(LinesRead(file))
           IsLast(i, S) == \A j \in S : j <= i
           EndOf(S) == CHOOSE i \in S : IsLast(i, S)
<1>0. /\ LinesRead(file) \in Seq(Line) /\ Len(LinesRead(file)) = Len(file) /\ Len(file) \in Nat
      /\ \A i \in 1 .. Len(file) : LinesRead(file)[i] = Read[file[i]]
  BY ReadTyped
<1>1. conf[c] = <<>> /\ DOMAIN conf[c] = {}
  BY DEF Empty
<1>2. conf' = [d \in Category |->
                 [k \in DOMAIN conf[d] \cup {x \in Key : entries[d][x] # {}} |->
                    IF entries[d][k] = {} THEN conf[d][k] ELSE Parsed(Read[file[EndOf(entries[d][k])]].text)]]
  BY Zenon DEF LoadFromFile, Load, LoadedBy
<1>3. ASSUME NEW k \in Key, entries[c][k] # {}
      PROVE  EndOf(entries[c][k]) \in entries[c][k] /\ EndOf(entries[c][k]) \in 1 .. Len(file)
  <2> DEFINE S == entries[c][k]
  <2>1. S \in SUBSET (1 .. Len(file)) /\ Len(file) \in Nat
    BY <1>0, EntriesFound
  <2> HIDE DEF S
  <2>2. \E i \in S : IsLast(i, S)
    BY <1>3, <2>1, GreatestElement DEF S
  <2>3. EndOf(S) \in S
    BY <2>2
  <2>4. EndOf(S) \in 1 .. Len(file)
    BY <2>1, <2>3
  <2> QED
    BY <2>3, <2>4 DEF S
<1> HIDE DEF entries, EndOf
<1>4. DOMAIN conf'[c] = {k \in Key : entries[c][k] # {}}
  BY <1>1, <1>2
<1>5. \A k \in DOMAIN conf'[c] : conf'[c][k] = Parsed(LinesRead(file)[EndOf(entries[c][k])].text)
  <2> SUFFICES ASSUME NEW k \in DOMAIN conf'[c]
               PROVE  conf'[c][k] = Parsed(LinesRead(file)[EndOf(entries[c][k])].text)
    OBVIOUS
  <2>1. k \in Key /\ entries[c][k] # {}
    BY <1>4
  <2>2. conf'[c][k] = Parsed(Read[file[EndOf(entries[c][k])]].text)
    BY <1>1, <1>2, <2>1
  <2>3. LinesRead(file)[EndOf(entries[c][k])] = Read[file[EndOf(entries[c][k])]]
    BY <1>0, <1>3, <2>1
  <2> QED
    BY <2>2, <2>3
<1> QED
  BY <1>3, <1>4, <1>5 DEF entries

(* What a program finds that loads the file into an empty configuration.   *)
LEMMA Restored ==
  ASSUME ConfigurationIInv, LoadFromFile, conf = Empty, complete # "user", AllLegible(saved)
  PROVE  LET cut == {e \in Entries(conf') : /\ e \in Entries(saved)
                                            /\ conf'[e[1]][e[2]] # Parsed(TextRead(e[2], saved[e[1]][e[2]]))}
         IN  /\ Entries(conf') \subseteq Entries(saved)
             /\ Cardinality(cut) <= 1
             /\ complete = "yes" => cut = {} /\ Entries(conf') = Entries(saved)
<1> DEFINE R == LinesOf(saved)
           L == LinesRead(R)
           lines == LinesRead(file)
           Differs(c, k) == conf'[c][k] # Parsed(TextRead(k, saved[c][k]))
           cut == {e \in Entries(conf') : e \in Entries(saved) /\ Differs(e[1], e[2])}
<1>1. /\ file \in Seq(RawLine) /\ Len(file) \in Nat
      /\ complete \in {"no", "yes"} /\ configMutex = "free"
      /\ \A c \in Category : DOMAIN saved[c] \subseteq Key
  BY LenProperties DEF ConfigurationIInv, ConfigurationTypeOK, IsConfiguration, LoadFromFile, Load
<1>2. /\ Describes(L, saved) /\ R \in Seq(RawLine)
      /\ \A i \in 1 .. Len(R) : Read[R[i]].kind = "entry" \/ \E c \in Category : R[i] = HeaderLine[c]
  BY LinesDescribe, LinesTyped DEF ConfigurationIInv, ConfigurationTypeOK
<1>3. /\ complete = "no" => Interrupted(file, R)
      /\ complete = "yes" => Len(file) = Len(R) /\ Begins(file, Len(file), R)
  BY <1>1 DEF ConfigurationIInv, Recoverable
<1> HIDE DEF R
<1>4. Interrupted(file, R)
  BY <1>1, <1>3 DEF Interrupted
<1>5. /\ lines \in Seq(Line) /\ InterruptedRead(lines, L)
      /\ complete = "yes" => Begins(lines, Len(lines), L) /\ Len(lines) = Len(L)
  BY <1>1, <1>2, <1>3, <1>4, ReadTyped, InterruptedIsRead, BeginsRead
<1> HIDE DEF L, lines
<1>6. PICK last : Restores(lines, saved, last)
  BY <1>2, <1>5, InterruptedLoads
<1>7. ASSUME NEW c \in Category, NEW k \in DOMAIN conf'[c]
      PROVE  k \in Key /\ k \in DOMAIN saved[c] /\ (Differs(c, k) => <<c, k>> = last)
  <2>1. k \in Key /\ \E i \in EntriesOf(lines)[c][k] : conf'[c][k] = Parsed(lines[i].text)
    BY <1>1, LoadedFromFile DEF lines
  <2> QED
    BY <1>6, <2>1 DEF Restores
<1> HIDE DEF Differs
<1>8. Entries(conf') \subseteq Entries(saved)
  BY <1>7 DEF Entries
<1>9. \A e \in cut : e = last
  <2> SUFFICES ASSUME NEW e \in cut PROVE e = last
    OBVIOUS
  <2>1. e[1] \in Category /\ e[2] \in DOMAIN conf'[e[1]] /\ e = <<e[1], e[2]>> /\ Differs(e[1], e[2])
    BY DEF Entries
  <2> QED
    BY <1>7, <2>1
<1>10. Cardinality(cut) <= 1
  <2> HIDE DEF cut
  <2>1. cut \in SUBSET {last}
    BY <1>9
  <2>2. IsFiniteSet({last}) /\ Cardinality({last}) = 1
    BY FS_Singleton
  <2> QED
    BY <2>1, <2>2, FS_Subset
<1>11. ASSUME complete = "yes" PROVE cut = {} /\ Entries(conf') = Entries(saved)
  <2>1. \A c \in Category, k \in Key :
          /\ \A i \in EntriesOf(lines)[c][k] : k \in DOMAIN saved[c] /\ lines[i].text = TextRead(k, saved[c][k])
          /\ k \in DOMAIN saved[c] => EntriesOf(lines)[c][k] # {}
    BY <1>2, <1>5, <1>11, CompleteLoads
  <2>2. ASSUME NEW c \in Category, NEW k \in DOMAIN conf'[c] PROVE ~Differs(c, k)
    <3>1. k \in Key /\ \E i \in EntriesOf(lines)[c][k] : conf'[c][k] = Parsed(lines[i].text)
      BY <1>1, LoadedFromFile DEF lines
    <3> QED
      BY <2>1, <3>1 DEF Differs
  <2>3. cut = {}
    BY <2>2 DEF Entries
  <2>4. ASSUME NEW c \in Category, NEW k \in DOMAIN saved[c] PROVE k \in DOMAIN conf'[c]
    <3>1. k \in Key /\ EntriesOf(lines)[c][k] # {}
      BY <1>1, <2>1
    <3> QED
      BY <1>1, <3>1, LoadedFromFile DEF lines
  <2>5. Entries(saved) \subseteq Entries(conf')
    BY <2>4 DEF Entries
  <2> QED
    BY <1>8, <2>3, <2>5
<1> QED
  BY <1>8, <1>10, <1>11, Zenon DEF Differs

(* A program that starts and loads the file finds the configuration that
   was saved last, if its values can be read; after a kill in the middle of
   the save, or a write that failed, a part of it, with one value at most
   that was cut short.                                                     *)
THEOREM LoadAlwaysRestoresSaved == ConfigurationSpec => LoadRestoresSaved
<1> DEFINE Safe == LET cut == {e \in Entries(conf') : /\ e \in Entries(saved)
                                                      /\ conf'[e[1]][e[2]] # Parsed(TextRead(e[2], saved[e[1]][e[2]]))}
                   IN  /\ Entries(conf') \subseteq Entries(saved)
                       /\ Cardinality(cut) <= 1
                       /\ complete = "yes" => cut = {} /\ Entries(conf') = Entries(saved)
<1>1. ConfigurationIInv /\ [ConfigurationNext]_configurationVars
        => [LoadFromFile /\ conf = Empty /\ complete # "user" /\ AllLegible(saved) => Safe]_configurationVars
  BY Restored, Zenon
<1>2. LoadRestoresSaved <=> [][LoadFromFile /\ conf = Empty /\ complete # "user" /\ AllLegible(saved) => Safe]_configurationVars
  BY DEF LoadRestoresSaved
<1> HIDE DEF Safe
<1> QED
  BY <1>1, <1>2, ConfigurationInvariance, PTL DEF ConfigurationSpec
=============================================================================
