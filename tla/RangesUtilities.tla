--------------------------- MODULE RangesUtilities --------------------------
(***************************************************************************)
(* Functions over the results of a detection (Common/inc/RangesUtilities.h,*)
(* class DetectionProcessor): sequences of records with a box, a           *)
(* confidence and an angle.  Averages are kept as sums, and centres are in *)
(* half pixels, so that everything is an integer.  groupByAngle is left    *)
(* out: it returns a view of a map that no longer exists.                  *)
(***************************************************************************)
EXTENDS Geometry, Sequences, SequencesExt, FiniteSetsExt

(* The results at the given positions, in their order: what a filter view
   leaves.                                                                 *)
CopyIf(detections, positions) ==
  MapThenFoldSet(LAMBDA d, copied : Append(copied, d), <<>>,
                 LAMBDA i : detections[i], Max, positions)

FilterByConfidence(detections, threshold) ==
  CopyIf(detections, {i \in DOMAIN detections : detections[i].confidence >= threshold})

(* Mutant: one result too many.                                            *)
GetOneMore(detections, n) == SubSeq(detections, 1, Least(n + 1, Len(detections)))

(* The first n: nothing is sorted here.                                    *)
GetTopN(detections, n) == SubSeq(detections, 1, Least(n, Len(detections)))

ExtractCenters(detections) ==
  [i \in DOMAIN detections |->
     [x |-> 2 * detections[i].box.x + detections[i].box.w,
      y |-> 2 * detections[i].box.y + detections[i].box.h]]

FilterByArea(detections, area) ==
  CopyIf(detections, {i \in DOMAIN detections : IntersectionArea(area, detections[i].box) > 0})

(* averageConfidence and averageSize, before and after the division.       *)
CalculateStatistics(detections) ==
  IF detections = <<>>
  THEN [count |-> 0, minConfidence |-> 0, maxConfidence |-> 0, sumConfidence |-> 0,
        minAngle |-> 0, maxAngle |-> 0, averageSize |-> [w |-> 0, h |-> 0]]
  ELSE LET of(field)  == {d[field] : d \in ToSet(detections)}
           Sum(f)     == FoldLeft(+, 0, f)
           widths     == [i \in DOMAIN detections |-> detections[i].box.w]
           heights    == [i \in DOMAIN detections |-> detections[i].box.h]
       IN  [count         |-> Len(detections),
            minConfidence |-> Min(of("confidence")),
            maxConfidence |-> Max(of("confidence")),
            sumConfidence |-> Sum([i \in DOMAIN detections |-> detections[i].confidence]),
            minAngle      |-> Min(of("angle")),
            maxAngle      |-> Max(of("angle")),
            averageSize   |-> [w |-> Sum(widths) \div Len(detections),
                               h |-> Sum(heights) \div Len(detections)]]

-----------------------------------------------------------------------------
WindowFrom(detectionHistory, i, windowSize) ==
  FlattenSeq(SubSeq(detectionHistory, i, i + windowSize - 1))

(* Mutant: the last window is left out.                                    *)
SlidingWindowShort(detectionHistory, windowSize) ==
  IF Len(detectionHistory) >= windowSize
  THEN [i \in 1 .. Len(detectionHistory) - windowSize |->
          WindowFrom(detectionHistory, i, windowSize)]
  ELSE <<>>

(* The results of the i-th to the (i + windowSize - 1)-th frame together,
   for every i.                                                            *)
SlidingWindow(detectionHistory, windowSize) ==
  IF Len(detectionHistory) >= windowSize
  THEN [i \in 1 .. Len(detectionHistory) - windowSize + 1 |->
          WindowFrom(detectionHistory, i, windowSize)]
  ELSE <<>>
=============================================================================
