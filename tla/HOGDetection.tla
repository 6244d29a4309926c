---------------------------- MODULE HOGDetection ----------------------------
(***************************************************************************)
(* The detection algorithm behind the interface IDetectionAlgorithm        *)
(* (Detection/src/HOGDetectionAlgorithm.cpp), called again and again by a  *)
(* caller that keeps its span from one detect to the next.  The HOG        *)
(* detector, NMSBoxes and the Hough transform are OpenCV's.  The detector  *)
(* pads the frame, so a box may leave it; every call of OpenCV may throw.  *)
(*                                                                         *)
(* Confidences and thresholds are integers here (hundredths); angles are   *)
(* exact, in parts of a degree.  Configuration.tla has the way of the      *)
(* parameters through the configuration manager, RangesUtilities.tla and   *)
(* ModernConstants.tla what is meant to be done with the results.          *)
(***************************************************************************)
EXTENDS RangesUtilities

Modern == INSTANCE ModernConstants

CONSTANTS
  Rects,          (* Bound: the boxes HOG can return.                      *)
  Confidences,    (* Bound: the weights it gives them.                     *)
  MaxDetections,  (* Bound: how many it returns for a frame.               *)
  LineCounts,     (* Bound: how many lines Hough finds in a box.           *)
  Thresholds,     (* Bound: the values of hitThreshold.                    *)
  SpanSize,       (* results.size() of the caller's span.                  *)
  Unset           (* An entry of the span that was never written.          *)

ASSUME HOGAssumption ==
  /\ Confidences \subseteq Int /\ Thresholds \subseteq Int
  /\ SpanSize \in Nat /\ MaxDetections \in Nat
  /\ Rects \subseteq [x : Int, y : Int, w : Nat, h : Nat]

MIN_DETECTION_AREA == 1000
MAX_STRAIGHT_LINES == 6

VARIABLES
  initialized,   (* m_isInitialized.                                       *)
  hitThreshold,  (* m_config.hitThreshold.                                 *)
  pc,            (* "idle", "hog", "nms", "filter" or "return".            *)
  api,           (* What was called: "detect" or "vector".                 *)
  found,         (* detections with their weights.                         *)
  kept,          (* nmsDetections with nmsConfidences.                     *)
  lines,         (* lines.size() for the boxes that the filter has seen.   *)
  results,       (* The vector detectLegacy fills.                         *)
  rc,            (* Its return code.                                       *)
  span           (* What the caller's span holds.                          *)

config == <<initialized, hitThreshold>>
frame  == <<found, kept, lines>>
vars   == <<config, frame, pc, api, results, rc, span>>

-----------------------------------------------------------------------------
(* The angle of a box, in parts of a degree: the field of view of 62.0
   degrees is FrameWidth pixels wide.                                      *)
Degree  == 2 * FrameWidth
HalfFOV == 31 * Degree

(* Mutant: the left edge instead of the centre.                            *)
AngleOfLeftEdge(box) ==
  Most(-HalfFOV, Least(HalfFOV, 62 * (2 * box.x - FrameWidth)))

Angle(box)      == Most(-HalfFOV, Least(HalfFOV, 62 * (2 * box.x + box.w - FrameWidth)))
DeltaAngle(box) == 62 * 2 * box.w

ResultOf(d) == [box        |-> d.box,
                confidence |-> d.confidence,
                angle      |-> Angle(d.box),
                deltaAngle |-> DeltaAngle(d.box)]

Passes(d, lineCount) ==
  lineCount <= MAX_STRAIGHT_LINES /\ Area(d.box) >= MIN_DETECTION_AREA

-----------------------------------------------------------------------------
(* dnn::NMSBoxes: the indices of the boxes above the threshold by falling
   score, the first of equals first, without those that overlap an earlier
   one by more than 0.3.                                                   *)
Before(i, j) == \/ found[i].confidence > found[j].confidence
                \/ found[i].confidence = found[j].confidence /\ i < j

LastByScore(S) == CHOOSE i \in S : \A j \in S \ {i} : Before(j, i)

Suppressed(i, indices) == \E n \in DOMAIN indices :
                             OverlapsBeyond(found[i].box, found[indices[n]].box, 30)

Select(i, indices) == IF Suppressed(i, indices) THEN indices ELSE Append(indices, i)

(* What is selected of all but the last, then the last.                    *)
NMSBoxes ==
  MapThenFoldSet(Select, <<>>, LAMBDA i : i, LastByScore,
                 {i \in DOMAIN found : found[i].confidence > hitThreshold})

(* Mutants of applyNMS: a confidence is taken by its position among the
   kept ones; the indices are followed from the last to the first.         *)
FilteredByPosition(indices) ==
  [n \in DOMAIN indices |-> [box |-> found[indices[n]].box, confidence |-> found[n].confidence]]
FilteredBackwards(indices) ==
  [n \in DOMAIN indices |-> found[indices[Len(indices) + 1 - n]]]

(* applyNMS copies what the indices select.                                *)
Filtered(indices) == [n \in DOMAIN indices |-> found[indices[n]]]

-----------------------------------------------------------------------------
Init ==
  /\ initialized \in BOOLEAN    \* initializeHOG may throw in the constructor
  /\ hitThreshold \in Thresholds
  /\ pc = "idle" /\ api = "none"
  /\ found = <<>> /\ kept = <<>> /\ lines = <<>>
  /\ results = <<>> /\ rc = "none"
  /\ span = [n \in 1 .. SpanSize |-> Unset]

Configure ==
  /\ pc = "idle"
  /\ hitThreshold' \in Thresholds
  /\ UNCHANGED <<initialized, frame, pc, api, results, rc, span>>

(* setHOGConfig: when initializeHOG throws, everything stays as it was.    *)
SetHOGConfig ==
  /\ pc = "idle"
  /\ initialized' = TRUE
  /\ hitThreshold' \in Thresholds
  /\ UNCHANGED <<frame, pc, api, results, rc, span>>

Finish(code) == rc' = code /\ pc' = "return"

(* "vector" stands for detectRange and detectLegacy: their caller gets the
   vector as it is.                                                        *)
Call ==
  /\ pc = "idle"
  /\ api' \in {"detect", "vector"}
  /\ IF ~initialized THEN Finish("RC_ERROR_INVALID_STATE")
     ELSE Finish("RC_ERROR_BAD_PARAM") \/ (pc' = "hog" /\ rc' = "none")
  /\ UNCHANGED <<config, frame, results, span>>

DetectMultiScale ==
  /\ pc = "hog"
  /\ found' \in UNION {[1 .. n -> [box : Rects, confidence : Confidences]] : n \in 0 .. MaxDetections}
  /\ pc' = "nms"
  /\ UNCHANGED <<config, kept, lines, api, results, rc, span>>

(* NMSBoxes asserts that the threshold is not negative.                    *)
ApplyNMS ==
  /\ pc = "nms" /\ hitThreshold >= 0
  /\ kept' = Filtered(NMSBoxes)
  /\ pc' = "filter"
  /\ UNCHANGED <<config, found, lines, api, results, rc, span>>

Current == Len(lines) + 1

FilterOne ==
  /\ pc = "filter" /\ Current <= Len(kept) /\ InFrame(kept[Current].box)
  /\ \E count \in LineCounts :
        /\ lines' = Append(lines, count)
        /\ results' = IF Passes(kept[Current], count)
                      THEN Append(results, ResultOf(kept[Current])) ELSE results
  /\ UNCHANGED <<config, found, kept, pc, api, rc, span>>

FilterEnd ==
  /\ pc = "filter" /\ Current > Len(kept)
  /\ Finish("RC_SUCCESS")
  /\ UNCHANGED <<config, frame, api, results, span>>

(* An exception of OpenCV ends the detection; what the vector has stays.   *)
Throw ==
  /\ pc \in {"hog", "nms", "filter"}
  /\ pc = "filter" => Current <= Len(kept)
  /\ Finish("RC_ERROR")
  /\ UNCHANGED <<config, frame, api, results, span>>

CopyInto(count, size) ==
  [n \in 1 .. size |-> IF n <= count THEN results[n] ELSE span[n]]

Return(newSpan) ==
  /\ pc = "return"
  /\ span' = newSpan
  /\ pc' = "idle" /\ api' = "none" /\ rc' = "none"
  /\ found' = <<>> /\ kept' = <<>> /\ lines' = <<>>
  /\ results' = <<>>
  /\ UNCHANGED config

(* Mutants: all results are copied; the return code is not looked at.      *)
DetectReturnsAll ==
  Return(IF api = "detect" /\ rc = "RC_SUCCESS"
         THEN CopyInto(Len(results), Most(Len(results), SpanSize)) ELSE span)
DetectReturnsAnyway ==
  Return(IF api = "detect" THEN CopyInto(Least(Len(results), SpanSize), SpanSize) ELSE span)

(* detect copies what fits.                                                *)
DetectReturns ==
  Return(IF api = "detect" /\ rc = "RC_SUCCESS"
         THEN CopyInto(Least(Len(results), SpanSize), SpanSize) ELSE span)

Next == \/ Configure \/ SetHOGConfig
        \/ Call \/ DetectMultiScale \/ ApplyNMS \/ FilterOne \/ FilterEnd \/ Throw
        \/ DetectReturns

Spec == Init /\ [][Next]_vars

-----------------------------------------------------------------------------
Result == [box : Rects, confidence : Confidences,
           angle : -HalfFOV .. HalfFOV, deltaAngle : Nat]

(* Every variable stays in its range: the span keeps its size.             *)
TypeOK ==
  /\ initialized \in BOOLEAN /\ hitThreshold \in Thresholds
  /\ pc \in {"idle", "hog", "nms", "filter", "return"}
  /\ Len(found) <= MaxDetections /\ Len(kept) <= Len(found) /\ Len(lines) <= Len(kept)
  /\ results \in Seq(Result)
  /\ DOMAIN span = 1 .. SpanSize /\ Range(span) \subseteq Result \cup {Unset}

(* The results of this frame against their definition: each is a box that
   HOG found, with the confidence HOG gave this box, above the threshold;
   no two overlap by more than 0.3; and a found box above the threshold is
   missing only if it was filtered or overlaps one at least as confident.  *)
Found == ToSet(found)

Listed(d) == \E r \in ToSet(results) : r.box = d.box /\ r.confidence = d.confidence

Rejected(d) == \E n \in DOMAIN lines : kept[n].box = d.box /\ ~Passes(kept[n], lines[n])

ResultsOfFrame ==
  pc = "return" /\ rc = "RC_SUCCESS" =>
    /\ \A r \in ToSet(results) :
          [box |-> r.box, confidence |-> r.confidence] \in Found /\ r.confidence > hitThreshold
    /\ \A m, n \in DOMAIN results :
          m # n => ~OverlapsBeyond(results[m].box, results[n].box, 30)
    /\ \A d \in Found : d.confidence > hitThreshold =>
          \/ Listed(d) \/ Rejected(d)
          \/ \E k \in ToSet(kept) : /\ OverlapsBeyond(k.box, d.box, 30)
                                    /\ k.confidence >= d.confidence

(* When there are more results than the span has room for, those that the
   caller does not get are not more confident than those it gets.          *)
SpanHasMostConfident ==
  [][DetectReturns /\ api = "detect" /\ rc = "RC_SUCCESS" =>
       \A n \in SpanSize + 1 .. Len(results), m \in 1 .. SpanSize :
          results[n].confidence <= span'[m].confidence]_vars

(* A failed detect leaves the caller's span alone, whatever part of the
   frame it had evaluated.                                                 *)
FailureKeepsSpan ==
  [][pc = "return" /\ rc # "RC_SUCCESS" => span' = span]_vars

(* The two detections of the program see a pedestrian in the same
   direction: the centre of the range that CDetection reports for a box is
   less than two degrees from the angle here, with 62.2 and 62.0 degrees of
   view and whole degrees there.                                           *)
AnglesAgree ==
  \A r \in ToSet(results) :
    LET centre == (2 * Theta(r.box) + DeltaTheta(r.box)) * FrameWidth
    IN  centre - r.angle \in -2 * Degree + 1 .. 2 * Degree - 1

(* The utilities find the results ranked, although neither getTopN (its doc,
   RangesUtilities.h:77: "Get top N detections by confidence") nor the caller
   sorts them: the first n are the n most confident ones, a limit on the
   confidence and a limit on the number can be applied in either order, as
   processFramesRange and handleDetectionEvent do, and the extremes of the
   statistics are the first and the last result.  The whole frame as the
   area of interest loses none of them.                                    *)
ResultsAreRanked ==
  /\ \A n \in 0 .. Len(results) :
       LET top == GetTopN(results, n) IN
         /\ Len(top) = n
         /\ \A r \in ToSet(top), m \in n + 1 .. Len(results) : results[m].confidence <= r.confidence
         /\ \A limit \in Confidences :
              FilterByConfidence(top, limit) = GetTopN(FilterByConfidence(results, limit), n)
  /\ results # <<>> =>
       LET stats == CalculateStatistics(results) IN
         /\ stats.maxConfidence = results[1].confidence
         /\ stats.minConfidence = results[Len(results)].confidence
         /\ stats.sumConfidence \in stats.count * stats.minConfidence .. stats.count * stats.maxConfidence
  /\ FilterByArea(results, [x |-> 0, y |-> 0, w |-> FrameWidth, h |-> FrameHeight]) = results

(* Whoever calculates the angle again, from the centre of the box and with
   the constants of ModernConstants.h, gets the angle of the result, which
   passes the validation; and no result leaves the frame, although the
   detector pads it.                                                       *)
ResultsInView ==
  \A n \in DOMAIN results :
    LET centre == ExtractCenters(results)[n]
    IN  /\ InFrame(results[n].box)
        /\ Modern!CalculateAngle(centre.x, FrameWidth, FrameWidth) = results[n].angle
        /\ Modern!CalculateDeltaAngle(results[n].box.w, FrameWidth) = results[n].deltaAngle
        /\ Modern!ValidateAngle(results[n].angle, FrameWidth)

(* A detection that succeeds returns what there is in this frame.        *)
ResultsComplete == TypeOK /\ ResultsOfFrame

(* All three calculations of the direction agree, for boxes of the frame. *)
DirectionsAgree == AnglesAgree /\ ResultsInView

(* What detect writes into the span of its caller, and when it does not. *)
SpanWritten == SpanHasMostConfident /\ FailureKeepsSpan
=============================================================================
