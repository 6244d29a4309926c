---------------------------- MODULE Suppression -----------------------------
(***************************************************************************)
(* The non-maximum suppression of Lib/inc/nms.h: nms, which CDetection     *)
(* calls, and nms2, the variant with scores that has no caller.            *)
(*                                                                         *)
(* Scores are integers here, so that their sum is exact.                   *)
(***************************************************************************)
EXTENDS Geometry, Sequences, SequencesExt, FiniteSetsExt

(* The multimap of a loop, read from its end: falling keys, equal ones in
   the reverse order of their insertion.                                   *)
Precedes(key, i, j) == key[i] > key[j] \/ (key[i] = key[j] /\ i > j)

(* The end of the multimap that holds S, and those in it that overlap.      *)
LastElem(key, S) == CHOOSE i \in S : \A j \in S \ {i} : Precedes(key, i, j)

Near(rects, percent, last, S) ==
  {j \in S \ {last} : OverlapsBeyond(rects[last], rects[j], percent)}

(* Mutant: the sum starts from zero.                                       *)
ScoresOfNeighbors(last, near, scores) == MapThenSumSet(LAMBDA i : scores[i], near)

(* scoresSum: of the rectangle that is taken and those that it removes.    *)
ScoresSum(last, near, scores) == MapThenSumSet(LAMBDA i : scores[i], near \cup {last})

(* The loop: the rectangle at the end is removed, with those near it, and
   pushed to the result if it meets the conditions: on the number of its
   neighbours, and on the sum of the scores in nms2; scored has the latter,
   and is empty in nms.                                                    *)
Suppressed(rects, key, percent, neighbors, scored) ==
  LET from[S \in SUBSET DOMAIN rects] ==
        IF S = {} THEN <<>>
        ELSE LET last == LastElem(key, S)
                 near == Near(rects, percent, last, S)
                 rest == from[S \ (near \cup {last})]
             IN  IF /\ Cardinality(near) >= neighbors
                    /\ \A c \in scored : ScoresSum(last, near, c.scores) >= c.minScoresSum
                 THEN <<rects[last]>> \o rest ELSE rest
  IN  from[DOMAIN rects]

(* Mutant: ordered by the top.                                             *)
Tops(rects) == [i \in DOMAIN rects |-> rects[i].y]

Bottoms(rects) == [i \in DOMAIN rects |-> Bottom(rects[i])]

nms(rects, percent, neighbors) == Suppressed(rects, Bottoms(rects), percent, neighbors, {})

nms2(rects, scores, percent, neighbors, minScoresSum) ==
  Suppressed(rects, scores, percent, neighbors,
             {[scores |-> scores, minScoresSum |-> minScoresSum]})

-----------------------------------------------------------------------------
(* Reference: a rectangle is kept if no kept one that precedes it overlaps
   it.  A kept one stands for itself and for those of which it is the first
   to overlap them.                                                        *)
Kept(rects, key, percent) ==
  CHOOSE K \in SUBSET DOMAIN rects : \A i \in DOMAIN rects :
    i \in K <=> ~\E k \in K : /\ Precedes(key, k, i)
                              /\ OverlapsBeyond(rects[k], rects[i], percent)

StandsFor(rects, key, percent, k) ==
  LET K         == Kept(rects, key, percent)
      Over(j, i) == OverlapsBeyond(rects[j], rects[i], percent)
  IN  {k} \cup {i \in DOMAIN rects \ K :
                  Over(k, i) /\ \A j \in K : Over(j, i) => j = k \/ Precedes(key, k, j)}
=============================================================================
