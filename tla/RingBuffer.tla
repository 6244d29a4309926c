----------------------------- MODULE RingBuffer -----------------------------
(***************************************************************************)
(* CRingBuffer<DATA, SIZE> (Lib/inc/CRingBuffer.h) as the program uses it: *)
(* g_framesBuffer, written by the camera thread (CCameraService::run) and  *)
(* read by the detection thread (CDetection::run).                         *)
(*                                                                         *)
(* The class has neither a lock nor an atomic field, so one step of this   *)
(* module is one access to a shared location: the two indices, and the     *)
(* start and the end of the copy of a slot.  Frames are numbered 1, 2, ... *)
(* in the order in which the camera delivered them.                        *)
(*                                                                         *)
(* Both fields and the slots are plain memory: the accesses race.  The     *)
(* outcomes a build can produce and that are modelled here are             *)
(*  - the two loads of the comparison "m_readindex == m_writeindex" happen *)
(*    in either order,                                                     *)
(*  - the second use of m_readindex (the slot that is copied) reuses the   *)
(*    value already loaded, or loads it again,                             *)
(*  - the three stores of one writeData become visible in program order    *)
(*    (StoresInOrder = TRUE: x86, or a compiler and CPU that keep them) or *)
(*    in any order (FALSE: the ARM boards the program targets).            *)
(* All stores of one writeData are visible before the next one starts: the *)
(* camera thread sleeps and enters the kernel in between.                  *)
(***************************************************************************)
EXTENDS Integers

CONSTANTS
  SIZE,           (* The template parameter, the number of slots.          *)
  StoresInOrder,  (* Whether the writer's stores are seen in program order. *)
  MaxFrames,      (* Bound: frames the camera delivers.                    *)
  LapBound        (* Bound: writeData calls that start during one readData. *)

ASSUME SizeAssumption     == SIZE \in Nat \ {0}
ASSUME OrderAssumption    == StoresInOrder \in BOOLEAN
ASSUME BoundsAssumption   == MaxFrames \in Nat /\ LapBound \in Nat

NoFrame == 0      (* The empty cv::Mat a slot and the caller's frame start as. *)
Torn    == -1     (* A cv::Mat read while it was assigned to: undefined.      *)
Unread  == -1     (* An index that the reader has not loaded yet.             *)

Slot    == 0 .. SIZE - 1
Frame   == 1 .. MaxFrames
Content == Frame \cup {NoFrame, Torn}

VARIABLES
  slots,      (* m_pBuffer                                                 *)
  readIndex,  (* m_readindex                                               *)
  writeIndex, (* m_writeindex                                              *)
  pending,    (* Stores of the running writeData that are not visible yet. *)
  target,     (* The slot that writeData writes: its value of m_writeindex. *)
  frame,      (* Number of the last frame given to writeData.              *)
  rpc,        (* Where the reader is: "idle", "load" or "copy".            *)
  loadedR,    (* The reader's value of m_readindex,                        *)
  loadedW,    (* and of m_writeindex.                                      *)
  source,     (* The slot the reader copies.                               *)
  copy,       (* What the reader has copied so far.                        *)
  got,        (* The caller's cv::Mat, filled by the last successful read. *)
  rc,         (* The last return code of readData.                         *)
  laps,       (* writeData calls that started during this readData.        *)
  latest,     (* History: newest frame that m_readindex points to.         *)
  floor,      (* History: latest when the last readData started.           *)
  contended   (* History: the last readData overlapped an index update.    *)

writerVars  == <<slots, readIndex, writeIndex, pending, target, frame>>
readerVars  == <<rpc, loadedR, loadedW, source, copy, got, rc>>
historyVars == <<latest, floor, contended>>
vars == <<writerVars, readerVars, laps, historyVars>>

reading  == rpc # "idle"

(* The indices are between their two stores: the new read index is visible
   and equals the write index that is not advanced yet.                    *)
updating == "read" \notin pending /\ "write" \in pending

-----------------------------------------------------------------------------
(* writeData, called by CCameraService::run for every captured frame.      *)

WriteBegin ==
  /\ pending = {}
  /\ frame < MaxFrames
  /\ reading => laps < LapBound
  /\ frame' = frame + 1
  /\ target' = writeIndex
  /\ slots' = [slots EXCEPT ![writeIndex] = Torn]
  /\ pending' = {"slot", "read", "write"}
  /\ copy' = IF rpc = "copy" /\ source = writeIndex THEN Torn ELSE copy
  /\ laps' = IF reading THEN laps + 1 ELSE laps
  /\ UNCHANGED <<readIndex, writeIndex, rpc, loadedR, loadedW, source, got, rc>>
  /\ UNCHANGED historyVars

StoreSlot ==
  /\ "slot" \in pending
  /\ slots' = [slots EXCEPT ![target] = frame]
  /\ pending' = pending \ {"slot"}
  /\ UNCHANGED <<readIndex, writeIndex, target, frame, laps>>
  /\ UNCHANGED <<readerVars, historyVars>>

PointReaderAt(i) ==
  /\ "read" \in pending
  /\ readIndex' = i
  /\ pending' = pending \ {"read"}
  /\ latest' = frame
  /\ contended' = (contended \/ reading)
  /\ UNCHANGED <<slots, writeIndex, target, frame, laps, floor>>
  /\ UNCHANGED readerVars

(* Mutants: the index is stored before the slot; it is not stored at all.  *)
StoreReadIndexEarly == PointReaderAt(target)
StoreReadIndexStale ==
  (StoresInOrder => "slot" \notin pending) /\ PointReaderAt(readIndex)

StoreReadIndex ==
  /\ StoresInOrder => "slot" \notin pending
  /\ PointReaderAt(target)

AdvanceWriterTo(i) ==
  /\ "write" \in pending
  /\ StoresInOrder => pending = {"write"}
  /\ writeIndex' = i
  /\ pending' = pending \ {"write"}
  /\ UNCHANGED <<slots, readIndex, target, frame, laps>>
  /\ UNCHANGED <<readerVars, historyVars>>

(* Mutant: the index does not wrap around.                                 *)
StoreWriteIndexNoWrap == AdvanceWriterTo(target + 1)

StoreWriteIndex == AdvanceWriterTo((target + 1) % SIZE)

-----------------------------------------------------------------------------
(* readData, called by CDetection::run with a valid pointer, over and over. *)

ReadBegin ==
  /\ rpc = "idle"
  /\ rpc' = "load"
  /\ laps' = 0
  /\ floor' = latest
  /\ contended' = updating
  /\ UNCHANGED <<loadedR, loadedW, source, copy, got, rc, latest>>
  /\ UNCHANGED writerVars

LoadReadIndex ==
  /\ rpc = "load" /\ loadedR = Unread
  /\ loadedR' = readIndex
  /\ UNCHANGED <<rpc, loadedW, source, copy, got, rc, laps>>
  /\ UNCHANGED <<writerVars, historyVars>>

LoadWriteIndex ==
  /\ rpc = "load" /\ loadedW = Unread
  /\ loadedW' = writeIndex
  /\ UNCHANGED <<rpc, loadedR, source, copy, got, rc, laps>>
  /\ UNCHANGED <<writerVars, historyVars>>

bothLoaded == rpc = "load" /\ loadedR # Unread /\ loadedW # Unread

(* The call is over: forget the values it loaded.                          *)
ReadReturn(code, data) ==
  /\ rpc' = "idle"
  /\ loadedR' = Unread
  /\ loadedW' = Unread
  /\ source' = Unread
  /\ copy' = NoFrame
  /\ rc' = code
  /\ got' = data
  /\ UNCHANGED <<writerVars, laps, historyVars>>

ReadEmpty ==
  /\ bothLoaded /\ loadedR = loadedW
  /\ ReadReturn("RC_ERROR_BUFFER_EMTPY", got)

CopyFrom(sources) ==
  /\ bothLoaded /\ loadedR # loadedW
  /\ source' \in sources
  /\ copy' = slots[source']
  /\ rpc' = "copy"
  /\ UNCHANGED <<loadedR, loadedW, got, rc, laps>>
  /\ UNCHANGED <<writerVars, historyVars>>

(* Mutant: the slot at the write index is read, as a queue's tail would be. *)
CopyBeginOldest == CopyFrom({loadedW, writeIndex})

CopyBegin == CopyFrom({loadedR, readIndex})

CopyEnd ==
  /\ rpc = "copy"
  /\ ReadReturn("RC_SUCCESS", copy)

-----------------------------------------------------------------------------
Init ==
  /\ slots = [i \in Slot |-> NoFrame]
  /\ readIndex = 0 /\ writeIndex = 0
  /\ pending = {} /\ target = 0 /\ frame = 0
  /\ rpc = "idle" /\ loadedR = Unread /\ loadedW = Unread /\ source = Unread
  /\ copy = NoFrame /\ got = NoFrame /\ rc = "none"
  /\ laps = 0
  /\ latest = 0 /\ floor = 0 /\ contended = FALSE

WriterStore == StoreSlot \/ StoreReadIndex \/ StoreWriteIndex
WriterStep  == WriteBegin \/ WriterStore

ReaderStep ==
  \/ ReadBegin \/ LoadReadIndex \/ LoadWriteIndex
  \/ ReadEmpty \/ CopyBegin \/ CopyEnd

Next == WriterStep \/ ReaderStep

(* A writeData that was started finishes and the detection loop keeps
   running; the camera may stop delivering frames at any time.             *)
Spec     == Init /\ [][Next]_vars
FairSpec == Spec /\ WF_vars(WriterStore) /\ WF_vars(ReaderStep)

-----------------------------------------------------------------------------
(* Every variable stays in its range.                                      *)
TypeOK ==
  /\ slots \in [Slot -> Content]
  /\ readIndex \in Slot /\ writeIndex \in Slot
  /\ pending \subseteq {"slot", "read", "write"}
  /\ target \in Slot /\ frame \in Frame \cup {NoFrame}
  /\ rpc \in {"idle", "load", "copy"}
  /\ loadedR \in Slot \cup {Unread} /\ loadedW \in Slot \cup {Unread}
  /\ source \in Slot \cup {Unread}
  /\ copy \in Content /\ got \in Content
  /\ rc \in {"none", "RC_ERROR_BUFFER_EMTPY", "RC_SUCCESS"}
  /\ laps \in 0 .. LapBound
  /\ latest \in 0 .. MaxFrames /\ floor \in 0 .. MaxFrames
  /\ contended \in BOOLEAN

(* The frame that readData hands to the detection is never one that the
   camera was writing while it was copied.                                 *)
NoTornRead == got # Torn

(* What the ring promises to its caller: a register of the newest frame.   *)
Register == INSTANCE LatestFrame WITH
              calling <- reading, publishing <- updating

(* The ring buffer implements that register: what a read returns was the
   newest frame during the call, is never older than what was returned
   before, and is missing only if there is a reason.                       *)
ImplementsRegister == Register!Init /\ [][Register!Next]_(Register!vars)

(* Writes and reads come to an end, as those of the register do; and when
   the camera stops, the last frame it delivered is not lost: the detection
   ends up with exactly that frame, and keeps it.                          *)
LastFrameDelivered ==
  /\ Register!Fairness
  /\ <>[](pending = {} /\ frame # 0) => <>[](got = frame)
=============================================================================
