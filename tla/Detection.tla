----------------------------- MODULE Detection ------------------------------
(***************************************************************************)
(* What the detection does with one frame (CDetection::run and             *)
(* filterDetections, App/src/CDetection.cpp, with nms of Suppression.tla)  *)
(* and how the transmission packs the result (processDataForTx,            *)
(* App/src/CComTxService.cpp).  The HOG detector and the Hough transform   *)
(* are external: they return any rectangles, also ones that leave the      *)
(* frame, and any number of lines.  What survives from one frame to the    *)
(* next in the program is a variable here and survives too.                *)
(***************************************************************************)
EXTENDS Suppression, BuildConstants

Modern == INSTANCE ModernConstants

CONSTANTS
  Rects,            (* Bound: the rectangles HOG can return.               *)
  MaxDetections,    (* Bound: how many it returns for a frame.             *)
  LineCounts,       (* Bound: how many lines Hough finds in a rectangle.   *)
  NmsThreshold,     (* hog_config_param.nmsThreshold, in percent.          *)
  NmsNeighbors,     (* hog_config_param.nmsNeighbors.                      *)
  Scores            (* Bound: the scores and the limits given to nms2.     *)

ASSUME RectsAssumption  == Rects \subseteq [x : Int, y : Int, w : Nat, h : Nat]
ASSUME ScoresAssumption == Scores \subseteq Int
ASSUME NmsAssumption    == NmsThreshold \in 0 .. 255 /\ NmsNeighbors \in 0 .. 255
ASSUME BoundsAssumption == MaxDetections \in Nat /\ LineCounts \subseteq Nat

VARIABLES
  pc,             (* The next stage for the frame.                         *)
  detections,     (* What HOG found.                                       *)
  nmsDetections,  (* What the non-maximum suppression kept.                *)
  lineCount,      (* lines.size() for each of those.                       *)
  nmsFiltered,    (* 1 for those that pass the line filter, else 0.        *)
  largest,        (* largestDetectionIndex, -1 if there is none.           *)
  blks,           (* The blocks of the result object.                      *)
  txBuf,          (* __tx_buf, the frame on the UART, by byte position.    *)
  display         (* BuildConfig::ENABLE_DISPLAY_CONNECTED, either build.  *)

vars == <<pc, detections, nmsDetections, lineCount, nmsFiltered, largest,
          blks, txBuf, display>>

-----------------------------------------------------------------------------
(* filterDetections                                                        *)

(* THRESHOLD_AREA is 13478.4; the uint32_t that starts with it is 13478.   *)
StartArea == 13478
ReachesThreshold(area) == 10 * area >= 134784

(* The loop: a later detection replaces an earlier one if it is larger.    *)
LoopFrom(first, start) ==
  LET seen[n \in 0 .. Len(nmsDetections)] ==
        IF n = 0 THEN [area |-> start, index |-> largest]
        ELSE IF nmsFiltered[n] = 1 /\ Area(nmsDetections[n]) > seen[n - 1].area
             THEN [area |-> Area(nmsDetections[n]), index |-> first + n - 1]
             ELSE seen[n - 1]
  IN  seen[Len(nmsDetections)]

(* Mutant: the index counts from one.                                      *)
LoopFromOne(start) == LoopFrom(1, start)

Loop(start) == LoopFrom(0, start)

BlockOf(r) == [theta |-> Theta(r), delta_theta |-> DeltaTheta(r)]

(* Whatever lies in memory before or behind the vector.                    *)
Garbage == [theta |-> -128, delta_theta |-> -128]

BlockAt(index) ==
  IF index + 1 \in DOMAIN nmsDetections
  THEN BlockOf(nmsDetections[index + 1]) ELSE Garbage

FilterInto(found, blocks) ==
  /\ pc = "filter"
  /\ largest' = found.index
  /\ blks' = blocks
  /\ pc' = "send"
  /\ UNCHANGED <<detections, nmsDetections, lineCount, nmsFiltered, txBuf, display>>

FilterFrom(start) ==
  LET found == Loop(start)
  IN  FilterInto(found, IF ReachesThreshold(found.area)
                        THEN <<BlockAt(found.index)>> ELSE <<>>)

(* Mutants: a threshold that is an integer; no threshold; every detection
   that passes is reported.                                                *)
FilterDetectionsInteger == FilterFrom(13479)
FilterDetectionsAnySize ==
  LET found == Loop(0)
  IN  FilterInto(found, IF found.area > 0 THEN <<BlockAt(found.index)>> ELSE <<>>)
FilterDetectionsEvery   ==
  LET passed == SelectSeq(nmsDetections, LAMBDA r : ReachesThreshold(Area(r)))
  IN  FilterInto(Loop(StartArea), [i \in DOMAIN passed |-> BlockOf(passed[i])])

FilterDetections == FilterFrom(StartArea)

-----------------------------------------------------------------------------
(* processDataForTx                                                        *)

PAYLOAD_BLOCKS == 10
SOP_INDEX      == ProtocolPosition.sop
DLC_INDEX      == ProtocolPosition.dlc
PAYLOAD_INDEX  == DLC_INDEX + 1
EOP_INDEX      == PAYLOAD_INDEX + DLC

(* EOP is written last; a payload longer than the buffer shows as positions
   behind it.                                                              *)
PackedFrame(blocks) ==
  LET count   == Least(Len(blocks) % 256, PAYLOAD_BLOCKS)
      payload == [i \in 0 .. 2 * count - 1 |->
                    IF i % 2 = 0 THEN blocks[i \div 2 + 1].theta
                                 ELSE blocks[i \div 2 + 1].delta_theta]
      buffer  == [p \in 0 .. Most(PROTOCOL_SIZE, PAYLOAD_INDEX + 2 * count) - 1 |->
                    IF p - PAYLOAD_INDEX \in DOMAIN payload
                    THEN payload[p - PAYLOAD_INDEX] ELSE 0]
  IN  [buffer EXCEPT ![SOP_INDEX] = SOP, ![DLC_INDEX] = DLC, ![EOP_INDEX] = EOP]

-----------------------------------------------------------------------------
Init ==
  /\ pc = "hog"
  /\ detections = <<>> /\ nmsDetections = <<>>
  /\ lineCount = <<>> /\ nmsFiltered = <<>>
  /\ largest = -1
  /\ blks = <<>> /\ txBuf = <<>>
  /\ display \in BOOLEAN

(* hog.detectMultiScale                                                    *)
DetectMultiScale ==
  /\ pc = "hog"
  /\ detections' \in UNION {[1 .. n -> Rects] : n \in 0 .. MaxDetections}
  /\ pc' = "nms"
  /\ UNCHANGED <<nmsDetections, lineCount, nmsFiltered, largest, blks, txBuf, display>>

(* nms, and the resize of nmsFiltered, which keeps old entries.            *)
Suppress ==
  /\ pc = "nms"
  /\ nmsDetections' = nms(detections, NmsThreshold, NmsNeighbors)
  /\ nmsFiltered' = [i \in DOMAIN nmsDetections' |->
                       IF i \in DOMAIN nmsFiltered THEN nmsFiltered[i] ELSE 0]
  /\ pc' = "lines"
  /\ UNCHANGED <<detections, lineCount, largest, blks, txBuf, display>>

(* Mutant: the crop of the frame is not checked.                           *)
FilterLinesUnchecked ==
  /\ pc = "lines"
  /\ lineCount' \in [DOMAIN nmsDetections -> LineCounts]
  /\ nmsFiltered' = [i \in DOMAIN nmsDetections |->
                       IF lineCount'[i] > 4 THEN 0 ELSE 1]
  /\ pc' = "filter"
  /\ UNCHANGED <<detections, nmsDetections, largest, blks, txBuf, display>>

(* The line filter, for every detection that was kept.                     *)
FilterLines ==
  /\ pc = "lines"
  /\ \A i \in DOMAIN nmsDetections : InFrame(nmsDetections[i])
  /\ lineCount' \in [DOMAIN nmsDetections -> LineCounts]
  /\ nmsFiltered' = [i \in DOMAIN nmsDetections |->
                       IF lineCount'[i] > 4 THEN 0 ELSE 1]
  /\ pc' = "filter"
  /\ UNCHANGED <<detections, nmsDetections, largest, blks, txBuf, display>>

(* The crop of a detection that leaves the frame throws in the thread, where
   nobody catches it: std::terminate.                                      *)
CropThrows ==
  /\ pc = "lines"
  /\ \E i \in DOMAIN nmsDetections : ~InFrame(nmsDetections[i])
  /\ pc' = "terminated"
  /\ UNCHANGED <<detections, nmsDetections, lineCount, nmsFiltered, largest, blks, txBuf, display>>

(* The result object goes to the transmission, which writes it.            *)
Send ==
  /\ pc = "send"
  /\ txBuf' = PackedFrame(blks)
  /\ pc' = IF display THEN "display" ELSE "hog"
  /\ UNCHANGED <<detections, nmsDetections, lineCount, nmsFiltered, largest, blks, display>>

(* Mutant: the index is not reset after the frame.                         *)
DisplayNoReset ==
  /\ pc = "display"
  /\ pc' = "hog"
  /\ UNCHANGED <<detections, nmsDetections, lineCount, nmsFiltered, blks, txBuf, largest, display>>

(* The boxes are drawn, the reported one in green.                         *)
Display ==
  /\ pc = "display"
  /\ largest' = -1
  /\ pc' = "hog"
  /\ UNCHANGED <<detections, nmsDetections, lineCount, nmsFiltered, blks, txBuf, display>>

Next == \/ DetectMultiScale \/ Suppress \/ FilterLines \/ CropThrows
        \/ FilterDetections \/ Send \/ Display

Spec == Init /\ [][Next]_vars

-----------------------------------------------------------------------------
Byte == -128 .. 255

(* Every variable stays in its range.                                      *)
TypeOK ==
  /\ pc \in {"hog", "nms", "lines", "filter", "send", "display", "terminated"}
  /\ detections \in Seq(Rects) /\ nmsDetections \in Seq(Rects)
  /\ lineCount \in Seq(LineCounts) /\ nmsFiltered \in Seq({0, 1})
  /\ largest \in -1 .. MaxDetections - 1 /\ display \in BOOLEAN
  /\ blks \in Seq([theta : -128 .. 127, delta_theta : -128 .. 127])
  /\ \A p \in DOMAIN txBuf : txBuf[p] \in Byte

(* The suppression against its definition: the kept detections are among
   the found ones, no two of them overlap, and each found one is kept or
   overlaps a kept one that reaches at least as far down the frame.        *)
SuppressionCorrect ==
  pc = "lines" =>
    LET kept == ToSet(nmsDetections)
    IN  /\ kept \subseteq ToSet(detections)
        /\ \A i, j \in DOMAIN nmsDetections :
              i # j => ~OverlapsBeyond(nmsDetections[i], nmsDetections[j], NmsThreshold)
        /\ \A r \in ToSet(detections) : \E k \in kept :
              k = r \/ (OverlapsBeyond(k, r, NmsThreshold) /\ Bottom(k) >= Bottom(r))

(* nms2 against its definition, for the detections of the first frame, any
   scores and limits: it returns, by falling score, those kept rectangles
   that stand for enough others and whose scores add up to enough.         *)
ScoredSuppressionCorrect ==
  pc = "nms" /\ txBuf = <<>> =>
    \A scores \in [DOMAIN detections -> Scores], neighbors \in 0 .. 1, minSum \in Scores :
      LET Enough(k) ==
            LET all == StandsFor(detections, scores, NmsThreshold, k)
            IN  Cardinality(all) > neighbors /\ MapThenSumSet(LAMBDA i : scores[i], all) >= minSum
          kept == {k \in Kept(detections, scores, NmsThreshold) : Enough(k)}
          returned == nms2(detections, scores, NmsThreshold, neighbors, minSum)
      IN  \E order \in [1 .. Cardinality(kept) -> kept] :
            /\ \A m, n \in DOMAIN order : m < n => Precedes(scores, order[m], order[n])
            /\ returned = [n \in DOMAIN order |-> detections[order[n]]]

(* The detections that may be reported: few lines, and large enough.       *)
Valid == {i \in DOMAIN nmsDetections :
            lineCount[i] <= 4 /\ ReachesThreshold(Area(nmsDetections[i]))}

(* The result has the largest valid detection of this frame, and nothing
   from an earlier frame or from outside the vector.                       *)
ReportsLargestValid ==
  pc = "send" =>
    IF Valid = {} THEN blks = <<>>
    ELSE \E i \in Valid :
           /\ \A j \in Valid : Area(nmsDetections[j]) <= Area(nmsDetections[i])
           /\ blks = <<BlockOf(nmsDetections[i])>>

(* The bytes on the UART are those of ProtocolFrame, the structure in which
   ModernConstants.h lays down the protocol (README.md:141-147), for the
   angles of the result: the blocks fit into the data field and leave the
   reserved bytes and EOP alone, and the negative angles are the same bytes. *)
WellFormedFrame ==
  txBuf # <<>> /\ pc \in {"display", "hog"} =>
    LET block == IF blks = <<>> THEN [theta |-> 0, delta_theta |-> 0] ELSE blks[1]
        frame == Modern!ProtocolFrame(block.theta % 256, block.delta_theta % 256)
    IN  [p \in DOMAIN txBuf |-> txBuf[p] % 256] = frame /\ Modern!IsValid(frame)

(* The reported pedestrian is inside the camera's field of view of 62.2
   degrees (rounding to whole degrees adds one at most), also if the
   detector, which pads the frame, finds a box that leaves it.             *)
AngleInView ==
  \A i \in DOMAIN blks : /\ blks[i].theta >= -31
                         /\ blks[i].theta + blks[i].delta_theta <= 32

(* The frame has no byte that says whether there is a pedestrian; still the
   receiver can tell, because a reported one spans at least one degree.    *)
PedestrianVisibleOnWire ==
  pc = "hog" /\ txBuf # <<>> =>
    (txBuf[3] # 0 <=> blks # <<>>)

(* The box that is drawn in green is the one that is reported.             *)
DrawsReportedBox ==
  pc = "display" /\ largest >= 0 =>
    /\ largest + 1 \in DOMAIN nmsDetections
    /\ blks = <<BlockOf(nmsDetections[largest + 1])>>

(* Both variants of the suppression meet their definition.               *)
SuppressionsCorrect == SuppressionCorrect /\ ScoredSuppressionCorrect

(* The largest valid detection of this frame is what is reported and
   shown.                                                                *)
LargestReported == TypeOK /\ ReportsLargestValid /\ DrawsReportedBox

(* The bytes on the UART follow the protocol and carry the result.       *)
WireCarriesResult == WellFormedFrame /\ PedestrianVisibleOnWire
=============================================================================
