-------------------------- MODULE RingBuffer_proofs --------------------------
(***************************************************************************)
(* Proofs about the frame buffer, for every number of slots, every number  *)
(* of frames and every bound on the overlap of a read with the writes.     *)
(***************************************************************************)
EXTENDS RingBuffer, TLAPS

(* The slot behind i, as the code computes it and without the remainder.   *)
Succ(i) == IF i = SIZE - 1 THEN 0 ELSE i + 1

(* StoreWriteIndex stays inside the buffer: the remainder is Succ.         *)
LEMMA RemainderIsSucc ==
  ASSUME NEW i \in Slot
  PROVE  (i + 1) % SIZE = Succ(i) /\ Succ(i) \in Slot
  BY SizeAssumption DEF Succ, Slot

-----------------------------------------------------------------------------
(* The indices never leave the buffer and no other variable its range,
   whatever the two threads do and in whichever order stores are seen.     *)

LEMMA TypeOKInit == Init => TypeOK
<1> SUFFICES ASSUME Init PROVE TypeOK
  OBVIOUS
<1>1. 0 \in Slot /\ NoFrame \in Content /\ 0 \in 0 .. LapBound
  BY SizeAssumption, BoundsAssumption DEF Slot, Content
<1>2. slots \in [Slot -> Content]
  BY <1>1 DEF Init
<1>3. latest \in 0 .. MaxFrames /\ floor \in 0 .. MaxFrames
  BY BoundsAssumption DEF Init
<1>4. pending \subseteq {"slot", "read", "write"} /\ contended \in BOOLEAN
  BY Zenon DEF Init
<1> QED
  BY <1>1, <1>2, <1>3, <1>4 DEF Init, TypeOK, NoFrame

LEMMA TypeOKStep == TypeOK /\ [Next]_vars => TypeOK'
<1> SUFFICES ASSUME TypeOK, [Next]_vars PROVE TypeOK'
  OBVIOUS
<1> USE SizeAssumption, BoundsAssumption DEF TypeOK, Content, Frame, NoFrame
<1>1. CASE WriteBegin
  <2>1. laps' \in 0 .. LapBound
    BY <1>1 DEF WriteBegin
  <2>2. slots' \in [Slot -> Content] /\ target' \in Slot /\ copy' \in Content
    BY <1>1 DEF WriteBegin
  <2>3. frame' \in Frame \cup {NoFrame}
    BY <1>1 DEF WriteBegin
  <2> QED
    BY <1>1, <2>1, <2>2, <2>3 DEF WriteBegin, historyVars
<1>2. CASE StoreSlot
  BY <1>2 DEF StoreSlot, readerVars, historyVars
<1>3. CASE StoreReadIndex
  BY <1>3 DEF StoreReadIndex, PointReaderAt, readerVars, reading
<1>4. CASE StoreWriteIndex
  <2>1. (target + 1) % SIZE \in Slot
    BY RemainderIsSucc
  <2> QED
    BY <1>4, <2>1 DEF StoreWriteIndex, AdvanceWriterTo, readerVars, historyVars
<1>5. CASE ReadBegin
  BY <1>5 DEF ReadBegin, writerVars, updating
<1>6. CASE LoadReadIndex
  BY <1>6 DEF LoadReadIndex, writerVars, historyVars
<1>7. CASE LoadWriteIndex
  BY <1>7 DEF LoadWriteIndex, writerVars, historyVars
<1>8. CASE ReadEmpty
  BY <1>8 DEF ReadEmpty, ReadReturn, writerVars, historyVars
<1>9. CASE CopyBegin
  <2>1. source' \in Slot
    BY <1>9 DEF CopyBegin, CopyFrom, bothLoaded
  <2>2. copy' \in Content
    BY <1>9, <2>1 DEF CopyBegin, CopyFrom
  <2> QED
    BY <1>9, <2>1, <2>2 DEF CopyBegin, CopyFrom, writerVars, historyVars
<1>10. CASE CopyEnd
  BY <1>10 DEF CopyEnd, ReadReturn, writerVars, historyVars
<1>11. CASE UNCHANGED vars
  BY <1>11 DEF vars, writerVars, readerVars, historyVars
<1> QED
  BY <1>1, <1>2, <1>3, <1>4, <1>5, <1>6, <1>7, <1>8, <1>9, <1>10, <1>11
  DEF Next, WriterStep, WriterStore, ReaderStep

(* The indices never leave the buffer, in whatever order the stores of a
   write are seen.                                                         *)
THEOREM TypeCorrect == Spec => []TypeOK
  BY TypeOKInit, TypeOKStep, PTL DEF Spec

-----------------------------------------------------------------------------
(***************************************************************************)
(* No torn frame is ever handed out, if the stores are seen in order and   *)
(* at least two slots are more than the writes that fit into one read.     *)
(*                                                                         *)
(* NoTornRead is not inductive.  Its strengthening says where the writer   *)
(* and the reader are relative to each other: the two indices are adjacent *)
(* or, between their stores, equal; and the slot that the reader copies,   *)
(* or is going to copy, is at least as many slots ahead of the one written *)
(* next as there are writes that may still start during this read.         *)
(***************************************************************************)

(* The slot that the next writeData will write.                            *)
NextTarget == IF pending = {} THEN writeIndex ELSE Succ(target)

(* How many slots the writer goes on from a until it reaches b.            *)
Dist(a, b) == IF a <= b THEN b - a ELSE b - a + SIZE

Safe(i) ==
  /\ LapBound - laps <= Dist(NextTarget, i)
  /\ ~("slot" \in pending /\ target = i)

StoresOrdered ==
  /\ pending \in {{}, {"write"}, {"read", "write"}, {"slot", "read", "write"}}
  /\ pending # {} => target = writeIndex /\ frame > 0

TornOnlyWhenWritten ==
  \A i \in Slot : slots[i] = Torn => "slot" \in pending /\ target = i

NothingPublished ==
  latest = 0 =>
    /\ readIndex = 0 /\ writeIndex = 0
    /\ pending # {"write"}
    /\ loadedR \in {0, Unread} /\ loadedW \in {0, Unread}

IndicesAdjacent ==
  latest # 0 =>
    IF pending = {"write"} THEN readIndex = writeIndex
                           ELSE writeIndex = Succ(readIndex)

ReaderSafe ==
  /\ rpc = "idle" => loadedR = Unread
  /\ latest # 0 /\ loadedR # Unread => Safe(loadedR)
  /\ rpc = "copy" => latest # 0 /\ source # Unread /\ Safe(source)

NothingTorn == copy # Torn /\ got # Torn

IInv ==
  /\ TypeOK
  /\ StoresOrdered /\ TornOnlyWhenWritten
  /\ NothingPublished /\ IndicesAdjacent
  /\ ReaderSafe /\ NothingTorn

(* The program has 30 slots, a second of frames, and a read copies one.    *)
RoomToRead == StoresInOrder = TRUE /\ LapBound + 2 <= SIZE

LEMMA DistSucc ==
  ASSUME NEW i \in Slot, NEW j \in Slot, i # j
  PROVE  Dist(i, j) >= 1 /\ Dist(Succ(i), j) = Dist(i, j) - 1
  BY SizeAssumption DEF Dist, Succ, Slot

LEMMA DistBehind ==
  ASSUME NEW i \in Slot, SIZE >= 2
  PROVE  /\ Succ(i) # i
         /\ Dist(Succ(i), i) = SIZE - 1
         /\ Dist(Succ(Succ(i)), i) = SIZE - 2
  BY SizeAssumption DEF Dist, Succ, Slot

LEMMA IInvInit == Init => IInv
<1> SUFFICES ASSUME Init PROVE IInv
  OBVIOUS
<1>1. TypeOK
  BY TypeOKInit
<1>2. StoresOrdered /\ TornOnlyWhenWritten
  BY DEF Init, StoresOrdered, TornOnlyWhenWritten, NoFrame, Torn
<1>3. NothingPublished /\ IndicesAdjacent /\ ReaderSafe /\ NothingTorn
  BY DEF Init, NothingPublished, IndicesAdjacent, ReaderSafe, NothingTorn,
         NoFrame, Torn, Unread
<1> QED
  BY <1>1, <1>2, <1>3 DEF IInv

(* What the reader may copy when it loads the index now.                   *)
LEMMA ReadIndexSafe ==
  ASSUME RoomToRead, TypeOK, StoresOrdered, NothingPublished, IndicesAdjacent,
         latest # 0
  PROVE  Safe(readIndex)
<1> USE SizeAssumption, BoundsAssumption DEF TypeOK, RoomToRead
<1>1. SIZE >= 2 /\ readIndex \in Slot /\ writeIndex \in Slot
  OBVIOUS
<1>2. LapBound - laps <= SIZE - 2
  OBVIOUS
<1>3. CASE pending = {}
  <2>1. NextTarget = Succ(readIndex)
    BY <1>3 DEF NextTarget, IndicesAdjacent
  <2> QED
    BY <1>1, <1>2, <1>3, <2>1, DistBehind DEF Safe
<1>4. CASE pending = {"write"}
  <2>1. NextTarget = Succ(readIndex)
    BY <1>4 DEF NextTarget, IndicesAdjacent, StoresOrdered
  <2> QED
    BY <1>1, <1>2, <1>4, <2>1, DistBehind DEF Safe
<1>5. CASE pending # {} /\ pending # {"write"}
  <2>1. NextTarget = Succ(Succ(readIndex)) /\ target = Succ(readIndex)
    BY <1>5 DEF NextTarget, IndicesAdjacent, StoresOrdered
  <2> QED
    BY <1>1, <1>2, <2>1, DistBehind DEF Safe
<1> QED
  BY <1>3, <1>4, <1>5

(* Steps that leave the stores and the lap counter alone keep a slot safe. *)
LEMMA SafeUnchanged ==
  ASSUME NEW i, Safe(i), UNCHANGED <<writeIndex, pending, target, laps>>
  PROVE  Safe(i)'
  BY DEF Safe, NextTarget, Dist

(* A write that starts is one lap less to come, and one slot less to go.   *)
LEMMA SafeWriteBegin ==
  ASSUME NEW i \in Slot, TypeOK, StoresOrdered, WriteBegin, reading, Safe(i)
  PROVE  Safe(i)' /\ i # writeIndex
<1> USE SizeAssumption, BoundsAssumption DEF TypeOK
<1>1. /\ pending = {} /\ laps < LapBound /\ laps' = laps + 1
      /\ target' = writeIndex /\ pending' # {}
  BY DEF WriteBegin
<1>2. NextTarget = writeIndex /\ NextTarget' = Succ(writeIndex)
  BY <1>1 DEF NextTarget, Succ
<1>3. Dist(writeIndex, i) >= 1
  BY <1>1, <1>2 DEF Safe, Dist, Slot
<1>4. i # writeIndex
  BY <1>3 DEF Dist, Slot
<1>5. Dist(Succ(writeIndex), i) = Dist(writeIndex, i) - 1
  BY <1>4, DistSucc
<1>6. Dist(writeIndex, i) \in Int
  BY DEF Dist, Slot
<1>7. LapBound - laps' <= Dist(NextTarget, i)'
  BY <1>1, <1>2, <1>5, <1>6 DEF Safe, Dist
<1> QED
  BY <1>1, <1>4, <1>7 DEF Safe

(* Storing an index or the slot moves no write target.                     *)
LEMMA SafeStore ==
  ASSUME NEW i, TypeOK, StoresOrdered, RoomToRead, WriterStore, Safe(i)
  PROVE  Safe(i)'
<1> USE DEF RoomToRead, TypeOK
<1>1. NextTarget' = NextTarget
  <2>1. CASE StoreSlot
    BY <2>1 DEF StoreSlot, NextTarget, Succ, StoresOrdered
  <2>2. CASE StoreReadIndex
    BY <2>2 DEF StoreReadIndex, PointReaderAt, NextTarget, Succ, StoresOrdered
  <2>3. CASE StoreWriteIndex
    BY <2>3, RemainderIsSucc
    DEF StoreWriteIndex, AdvanceWriterTo, NextTarget, Succ, StoresOrdered
  <2> QED
    BY <2>1, <2>2, <2>3 DEF WriterStore
<1>2. laps' = laps /\ target' = target /\ ("slot" \in pending' => "slot" \in pending)
  BY DEF WriterStore, StoreSlot, StoreReadIndex, PointReaderAt,
         StoreWriteIndex, AdvanceWriterTo
<1> QED
  BY <1>1, <1>2 DEF Safe, Dist

LEMMA IInvWriteBegin ==
  ASSUME RoomToRead, IInv, WriteBegin
  PROVE  IInv'
<1> USE DEF IInv, TypeOK, NoFrame
<1>1. TypeOK'
  BY TypeOKStep DEF Next, WriterStep
<1>2. StoresOrdered'
  BY DEF WriteBegin, StoresOrdered, Frame
<1>3. TornOnlyWhenWritten'
  BY DEF WriteBegin, TornOnlyWhenWritten
<1>4. NothingPublished' /\ IndicesAdjacent'
  <2>1. "write" \notin pending /\ "read" \in pending'
    BY DEF WriteBegin
  <2>2. pending # {"write"} /\ pending' # {"write"}
    BY <2>1
  <2> QED
    BY <2>2 DEF WriteBegin, NothingPublished, IndicesAdjacent, historyVars, Succ
<1>5. /\ latest # 0 /\ loadedR # Unread => Safe(loadedR)'
      /\ rpc = "copy" => Safe(source)' /\ source # writeIndex
  <2>1. ASSUME latest # 0, loadedR # Unread PROVE Safe(loadedR)'
    <3>1. loadedR \in Slot /\ Safe(loadedR) /\ reading /\ loadedR' = loadedR
      BY <2>1 DEF ReaderSafe, reading, WriteBegin
    <3>2. \A i \in Slot : Safe(i) => Safe(i)'
      BY <3>1, SafeWriteBegin
    <3> QED
      BY <3>1, <3>2 DEF Safe
  <2>2. ASSUME rpc = "copy" PROVE Safe(source)' /\ source # writeIndex
    <3>1. source \in Slot /\ Safe(source) /\ reading /\ source' = source
      BY <2>2 DEF ReaderSafe, reading, WriteBegin
    <3>2. \A i \in Slot : Safe(i) => Safe(i)' /\ i # writeIndex
      BY <3>1, SafeWriteBegin
    <3> QED
      BY <3>1, <3>2 DEF Safe
  <2> QED
    BY <2>1, <2>2
<1>6. ReaderSafe'
  BY <1>5 DEF WriteBegin, ReaderSafe, historyVars
<1>7. NothingTorn'
  BY <1>5 DEF WriteBegin, NothingTorn
<1> QED
  BY <1>1, <1>2, <1>3, <1>4, <1>6, <1>7

LEMMA IInvStore ==
  ASSUME RoomToRead, IInv, WriterStore
  PROVE  IInv'
<1> USE DEF IInv, TypeOK, RoomToRead
<1>1. TypeOK'
  BY TypeOKStep DEF Next, WriterStep
<1>2. StoresOrdered'
  BY DEF WriterStore, StoreSlot, StoreReadIndex, PointReaderAt,
         StoreWriteIndex, AdvanceWriterTo, StoresOrdered
<1>3. TornOnlyWhenWritten'
  BY DEF WriterStore, StoreSlot, StoreReadIndex, PointReaderAt, StoreWriteIndex,
         AdvanceWriterTo, StoresOrdered, TornOnlyWhenWritten, Frame, Torn, NoFrame
<1>4. NothingPublished'
  BY DEF WriterStore, StoreSlot, StoreReadIndex, PointReaderAt, StoreWriteIndex,
         AdvanceWriterTo, StoresOrdered, NothingPublished, readerVars, historyVars
<1>5. IndicesAdjacent'
  <2>1. CASE StoreSlot
    <3>1. pending # {"write"} /\ pending' # {"write"}
      BY <2>1 DEF StoreSlot, StoresOrdered
    <3> QED
      BY <2>1, <3>1 DEF StoreSlot, IndicesAdjacent, Succ, historyVars
  <2>2. CASE StoreReadIndex
    <3>1. pending' = {"write"} /\ readIndex' = writeIndex'
      BY <2>2 DEF StoreReadIndex, PointReaderAt, StoresOrdered
    <3> QED
      BY <3>1 DEF IndicesAdjacent
  <2>3. CASE StoreWriteIndex
    <3>1. pending = {"write"} /\ pending' # {"write"}
      BY <2>3 DEF StoreWriteIndex, AdvanceWriterTo
    <3>2. UNCHANGED <<latest, readIndex>> /\ writeIndex' = Succ(writeIndex)
      BY <2>3, <3>1, RemainderIsSucc
      DEF StoreWriteIndex, AdvanceWriterTo, StoresOrdered, historyVars
    <3> QED
      BY <3>1, <3>2 DEF IndicesAdjacent, Succ
  <2> QED
    BY <2>1, <2>2, <2>3 DEF WriterStore
<1>6. ReaderSafe'
  <2>1. UNCHANGED readerVars
    BY DEF WriterStore, StoreSlot, StoreReadIndex, PointReaderAt,
           StoreWriteIndex, AdvanceWriterTo
  <2>2. latest # 0 => ReaderSafe'
    BY <2>1, SafeStore
    DEF ReaderSafe, readerVars, WriterStore, StoreSlot, StoreReadIndex,
        PointReaderAt, StoreWriteIndex, AdvanceWriterTo, historyVars, StoresOrdered
  <2>3. latest = 0 => ReaderSafe'
    <3> SUFFICES ASSUME latest = 0 PROVE ReaderSafe'
      OBVIOUS
    <3>1. rpc # "copy" /\ loadedR \in {0, Unread} /\ readIndex' = 0
      BY DEF ReaderSafe, NothingPublished, WriterStore, StoreSlot, StoreReadIndex,
             PointReaderAt, StoreWriteIndex, AdvanceWriterTo, StoresOrdered
    <3>2. ASSUME latest' # 0 PROVE Safe(readIndex)'
      <4>1. StoreReadIndex
        BY <3>2 DEF WriterStore, StoreSlot, StoreWriteIndex, AdvanceWriterTo,
                    historyVars
      <4>2. /\ pending' = {"write"} /\ laps' = laps
            /\ target' = 0 /\ readIndex' = 0 /\ 0 \in Slot
        BY <4>1 DEF StoreReadIndex, PointReaderAt, StoresOrdered, NothingPublished
      <4>3. NextTarget' = Succ(0)
        BY <4>2 DEF NextTarget, Succ
      <4>4. Dist(NextTarget, readIndex)' = SIZE - 1
        BY <4>2, <4>3, SizeAssumption, BoundsAssumption, DistBehind DEF Dist
      <4> QED
        BY <4>2, <4>4, SizeAssumption, BoundsAssumption DEF Safe
    <3> QED
      BY <2>1, <3>1, <3>2 DEF ReaderSafe, readerVars
  <2> QED
    BY <2>2, <2>3
<1>7. NothingTorn'
  BY DEF WriterStore, StoreSlot, StoreReadIndex, PointReaderAt, StoreWriteIndex,
         AdvanceWriterTo, NothingTorn, readerVars
<1> QED
  BY <1>1, <1>2, <1>3, <1>4, <1>5, <1>6, <1>7

LEMMA IInvRead ==
  ASSUME RoomToRead, IInv, ReaderStep
  PROVE  IInv'
<1> USE DEF IInv, TypeOK, RoomToRead
<1>1. TypeOK'
  BY TypeOKStep DEF Next
<1>2. UNCHANGED writerVars /\ latest' = latest
  BY DEF ReaderStep, ReadBegin, LoadReadIndex, LoadWriteIndex, ReadEmpty,
         ReadReturn, CopyBegin, CopyFrom, CopyEnd, historyVars
<1>3. StoresOrdered' /\ TornOnlyWhenWritten' /\ IndicesAdjacent'
  BY <1>2 DEF StoresOrdered, TornOnlyWhenWritten, IndicesAdjacent, writerVars, Succ
<1>4. CASE ReadBegin
  <2>1. loadedR = Unread /\ rpc' = "load"
    BY <1>4 DEF ReadBegin, ReaderSafe
  <2> QED
    BY <1>1, <1>2, <1>3, <1>4, <2>1
    DEF ReadBegin, NothingPublished, ReaderSafe, NothingTorn, writerVars
<1>5. CASE LoadReadIndex
  <2>1. NothingPublished' /\ NothingTorn'
    BY <1>2, <1>5 DEF LoadReadIndex, NothingPublished, NothingTorn, writerVars
  <2>2. latest # 0 => Safe(readIndex)'
    BY <1>2, <1>5, ReadIndexSafe DEF LoadReadIndex, writerVars, Safe, NextTarget, Dist, Succ
  <2>3. ReaderSafe'
    BY <1>2, <1>5, <2>2 DEF LoadReadIndex, ReaderSafe, writerVars
  <2> QED
    BY <1>1, <1>3, <2>1, <2>3
<1>6. CASE LoadWriteIndex
  <2>1. NothingPublished' /\ NothingTorn'
    BY <1>2, <1>6 DEF LoadWriteIndex, NothingPublished, NothingTorn, writerVars
  <2>2. ReaderSafe'
    BY <1>2, <1>6
    DEF LoadWriteIndex, ReaderSafe, writerVars, Safe, NextTarget, Dist, Succ
  <2> QED
    BY <1>1, <1>3, <2>1, <2>2
<1>7. CASE ReadEmpty \/ CopyEnd
  <2>1. /\ rpc' = "idle" /\ loadedR' = Unread /\ loadedW' = Unread
        /\ copy' = NoFrame /\ got' \in {got, copy}
    BY <1>7 DEF ReadEmpty, CopyEnd, ReadReturn
  <2> QED
    BY <1>1, <1>2, <1>3, <2>1
    DEF NothingPublished, ReaderSafe, NothingTorn, NoFrame, Torn, writerVars
<1>8. CASE CopyBegin
  <2>1. loadedR # loadedW /\ loadedR # Unread /\ loadedW # Unread
    BY <1>8 DEF CopyBegin, CopyFrom, bothLoaded
  <2>2. latest # 0
    BY <2>1 DEF NothingPublished
  <2>3. source' \in Slot /\ Safe(source')
    BY <1>8, <2>1, <2>2, ReadIndexSafe DEF CopyBegin, CopyFrom, ReaderSafe
  <2>4. copy' = slots[source'] /\ slots[source'] # Torn
    BY <1>8, <2>3 DEF CopyBegin, CopyFrom, TornOnlyWhenWritten, Safe
  <2>5. ReaderSafe'
    BY <1>2, <1>8, <2>2, <2>3
    DEF CopyBegin, CopyFrom, ReaderSafe, Safe, NextTarget, Dist, Succ,
        writerVars, Slot, Unread
  <2> QED
    BY <1>1, <1>2, <1>3, <1>8, <2>4, <2>5
    DEF CopyBegin, CopyFrom, NothingPublished, NothingTorn, writerVars
<1> QED
  BY <1>4, <1>5, <1>6, <1>7, <1>8 DEF ReaderStep

LEMMA IInvStep == RoomToRead /\ IInv /\ [Next]_vars => IInv'
<1> SUFFICES ASSUME RoomToRead, IInv, [Next]_vars PROVE IInv'
  OBVIOUS
<1>1. CASE UNCHANGED vars
  BY <1>1, TypeOKStep
  DEF vars, writerVars, readerVars, historyVars, IInv, StoresOrdered,
      TornOnlyWhenWritten, NothingPublished, IndicesAdjacent, ReaderSafe,
      NothingTorn, Safe, NextTarget, Dist, Succ
<1> QED
  BY <1>1, IInvWriteBegin, IInvStore, IInvRead DEF Next, WriterStep

(* With room to read, readData never hands the detection a frame that the
   camera thread was writing while it was copied.                          *)
THEOREM NeverTorn ==
  ASSUME RoomToRead
  PROVE  Spec => []NoTornRead
<1>1. IInv => NoTornRead
  BY DEF IInv, NothingTorn, NoTornRead
<1> QED
  BY <1>1, IInvInit, IInvStep, RoomToRead, PTL DEF Spec

-----------------------------------------------------------------------------
(***************************************************************************)
(* Under the same conditions the ring buffer implements the register of    *)
(* the newest frame.  What IInv says about the places of the reader and    *)
(* the writer is completed by what is in the slots, and by what the reader *)
(* may conclude from the indices it loaded.                                *)
(***************************************************************************)

(* The newest frame is the last one, until the read index points to it.    *)
Numbered == latest = IF "read" \in pending THEN frame - 1 ELSE frame

Stored ==
  /\ pending = {"read", "write"} => slots[target] = frame
  /\ latest # 0 => slots[readIndex] = latest

(* Whatever the reader copies is as new as the newest frame was when it
   was called.                                                             *)
NewEnough(content) == content # Torn /\ content > 0 /\ floor <= content /\ content <= latest

ReadNewEnough ==
  /\ got <= latest /\ got >= 0
  /\ reading => got <= floor /\ floor <= latest
  /\ latest # 0 /\ loadedR # Unread => NewEnough(slots[loadedR])
  /\ rpc = "copy" => NewEnough(copy)

(* As long as no publication overlapped its call, the reader has loaded the
   indices that are still there.                                           *)
Uncontended ==
  /\ rpc = "idle" => loadedW = Unread
  /\ reading /\ floor > 0 /\ ~contended =>
       /\ ~updating
       /\ loadedR \in {Unread, readIndex} /\ loadedW \in {Unread, writeIndex}

RInv == Numbered /\ Stored /\ ReadNewEnough /\ Uncontended

LEMMA RInvInit == Init => RInv
  BY BoundsAssumption
  DEF Init, RInv, Numbered, Stored, ReadNewEnough, Uncontended, reading, NoFrame, Unread

(* WriteBegin, StoreSlot: the slot that is written is not the one of the
   newest frame, nor the one that the reader has in view.                  *)
LEMMA OtherSlots ==
  ASSUME RoomToRead, IInv
  PROVE  /\ latest # 0 /\ pending # {"write"} => readIndex # writeIndex
         /\ "slot" \in pending /\ latest # 0 /\ loadedR # Unread => loadedR # target
<1> USE SizeAssumption, BoundsAssumption DEF IInv, TypeOK, RoomToRead
<1>1. SIZE >= 2
  OBVIOUS
<1>2. latest # 0 /\ pending # {"write"} => readIndex # writeIndex
  BY <1>1, DistBehind DEF IndicesAdjacent
<1>3. "slot" \in pending /\ latest # 0 /\ loadedR # Unread => loadedR # target
  BY DEF ReaderSafe, Safe
<1> QED
  BY <1>2, <1>3

LEMMA RInvWriteBegin ==
  ASSUME RoomToRead, IInv, RInv, WriteBegin
  PROVE  RInv' /\ updating' = updating
<1> USE SizeAssumption, BoundsAssumption DEF IInv, TypeOK, Content, Frame, NoFrame, Torn
<1>1. /\ pending = {} /\ pending' = {"slot", "read", "write"} /\ frame' = frame + 1
      /\ UNCHANGED <<readIndex, writeIndex, rpc, loadedR, loadedW, source, got, rc, historyVars>>
      /\ slots' = [slots EXCEPT ![writeIndex] = Torn]
  BY DEF WriteBegin
<1>2. Numbered' /\ ~updating /\ ~updating'
  BY <1>1 DEF RInv, Numbered, historyVars, updating
<1>3. Stored'
  <2>1. pending' # {"read", "write"}
    BY <1>1
  <2>2. latest # 0 => readIndex # writeIndex
    BY <1>1, OtherSlots
  <2> QED
    BY <1>1, <2>1, <2>2 DEF RInv, Stored, historyVars
<1>4. ReadNewEnough'
  <2>1. latest # 0 /\ loadedR # Unread => loadedR # writeIndex
    <3> SUFFICES ASSUME latest # 0, loadedR # Unread PROVE loadedR # writeIndex
      OBVIOUS
    <3>1. loadedR \in Slot /\ Safe(loadedR) /\ reading
      BY DEF ReaderSafe, reading
    <3> QED
      BY <3>1, SafeWriteBegin
  <2>2. rpc = "copy" => copy' = copy
    <3> SUFFICES ASSUME rpc = "copy" PROVE copy' = copy
      OBVIOUS
    <3>1. source \in Slot /\ Safe(source) /\ reading
      BY DEF ReaderSafe, reading
    <3>2. source # writeIndex
      BY <3>1, SafeWriteBegin
    <3> QED
      BY <3>2 DEF WriteBegin
  <2> QED
    BY <1>1, <2>1, <2>2 DEF RInv, ReadNewEnough, NewEnough, reading, historyVars
<1>5. Uncontended'
  BY <1>1, <1>2 DEF RInv, Uncontended, reading, historyVars
<1> QED
  BY <1>1, <1>2, <1>3, <1>4, <1>5 DEF RInv, updating

LEMMA RInvStoreSlot ==
  ASSUME RoomToRead, IInv, RInv, StoreSlot
  PROVE  RInv' /\ updating' = updating
<1> USE SizeAssumption, BoundsAssumption DEF IInv, TypeOK, Content, Frame, NoFrame, Torn
<1>1. /\ pending = {"slot", "read", "write"} /\ pending' = {"read", "write"}
      /\ target = writeIndex
      /\ UNCHANGED <<readIndex, writeIndex, target, frame, readerVars, historyVars>>
      /\ slots' = [slots EXCEPT ![target] = frame]
  BY DEF StoreSlot, StoresOrdered
<1>2. Numbered' /\ ~updating /\ ~updating'
  BY <1>1 DEF RInv, Numbered, historyVars, updating
<1>3. Stored'
  <2>1. latest # 0 => readIndex # target
    BY <1>1, OtherSlots
  <2> QED
    BY <1>1, <2>1 DEF RInv, Stored, historyVars
<1>4. ReadNewEnough'
  <2>1. latest # 0 /\ loadedR # Unread => loadedR # target
    BY <1>1, OtherSlots
  <2> QED
    BY <1>1, <2>1 DEF RInv, ReadNewEnough, NewEnough, reading, readerVars, historyVars
<1>5. Uncontended'
  BY <1>1, <1>2 DEF RInv, Uncontended, reading, readerVars, historyVars
<1> QED
  BY <1>1, <1>2, <1>3, <1>4, <1>5 DEF RInv, updating

(* The moment of the publication.                                          *)
LEMMA RInvStoreReadIndex ==
  ASSUME RoomToRead, IInv, RInv, StoreReadIndex
  PROVE  RInv' /\ ~updating /\ updating' /\ latest' = latest + 1
<1> USE SizeAssumption, BoundsAssumption DEF IInv, TypeOK, Content, Frame, NoFrame, Torn
<1>1. /\ pending = {"read", "write"} /\ pending' = {"write"}
      /\ target = writeIndex /\ readIndex' = target /\ latest' = frame /\ frame > 0
      /\ contended' = (contended \/ reading)
      /\ UNCHANGED <<slots, writeIndex, target, frame, floor, readerVars>>
  BY DEF StoreReadIndex, PointReaderAt, StoresOrdered, RoomToRead
<1>2. Numbered' /\ ~updating /\ updating' /\ latest' = latest + 1
  <2>1. Numbered' /\ latest' = latest + 1
    BY <1>1 DEF RInv, Numbered
  <2>2. ~updating /\ updating'
    BY <1>1 DEF updating
  <2> QED
    BY <2>1, <2>2
<1>3. Stored'
  BY <1>1 DEF RInv, Stored
<1>4. ReadNewEnough'
  <2>1. CASE latest # 0
    BY <1>1, <1>2, <2>1 DEF RInv, ReadNewEnough, NewEnough, reading, readerVars
  <2>2. CASE latest = 0
    <3>1. loadedR \in {0, Unread} /\ writeIndex = 0 /\ rpc # "copy"
      BY <2>2 DEF NothingPublished, ReaderSafe
    <3>2. slots[0] = latest'
      BY <1>1, <3>1 DEF RInv, Stored
    <3>3. loadedR # Unread => reading
      BY DEF ReaderSafe, reading
    <3>4. reading => floor = 0
      BY <2>2 DEF RInv, ReadNewEnough
    <3> QED
      BY <1>1, <1>2, <2>2, <3>1, <3>2, <3>3, <3>4
      DEF RInv, ReadNewEnough, NewEnough, reading, readerVars, Torn
  <2> QED
    BY <2>1, <2>2
<1>5. Uncontended'
  BY <1>1 DEF RInv, Uncontended, reading, readerVars
<1> QED
  BY <1>2, <1>3, <1>4, <1>5 DEF RInv

LEMMA RInvStoreWriteIndex ==
  ASSUME RoomToRead, IInv, RInv, StoreWriteIndex
  PROVE  RInv' /\ updating /\ ~updating'
<1> USE SizeAssumption, BoundsAssumption DEF IInv, TypeOK, Content, Frame, NoFrame, Torn
<1>1. /\ pending = {"write"} /\ pending' = {}
      /\ UNCHANGED <<slots, readIndex, target, frame, readerVars, historyVars>>
  BY DEF StoreWriteIndex, AdvanceWriterTo, RoomToRead
<1>2. Numbered' /\ updating /\ ~updating'
  BY <1>1 DEF RInv, Numbered, updating, historyVars
<1>3. Stored' /\ ReadNewEnough'
  BY <1>1 DEF RInv, Stored, ReadNewEnough, NewEnough, reading, readerVars, historyVars
<1>4. Uncontended'
  BY <1>1, <1>2 DEF RInv, Uncontended, reading, readerVars, historyVars
<1> QED
  BY <1>2, <1>3, <1>4 DEF RInv

LEMMA RInvRead ==
  ASSUME RoomToRead, IInv, RInv, ReaderStep
  PROVE  RInv' /\ updating' = updating
<1> USE SizeAssumption, BoundsAssumption DEF IInv, TypeOK, Content, Frame, NoFrame, Torn
<1>1. UNCHANGED writerVars /\ latest' = latest
  BY DEF ReaderStep, ReadBegin, LoadReadIndex, LoadWriteIndex, ReadEmpty,
         ReadReturn, CopyBegin, CopyFrom, CopyEnd, historyVars
<1>2. Numbered' /\ Stored' /\ updating' = updating
  BY <1>1 DEF RInv, Numbered, Stored, updating, writerVars
<1>3. CASE ReadBegin
  <2>1. loadedR = Unread /\ rpc' = "load" /\ UNCHANGED <<loadedR, loadedW, got>>
        /\ floor' = latest /\ contended' = updating
    BY <1>3 DEF ReadBegin, ReaderSafe
  <2>2. ReadNewEnough'
    BY <1>1, <2>1 DEF RInv, ReadNewEnough
  <2>3. Uncontended'
    <3>1. contended' <=> updating'
      BY <1>2, <2>1, Zenon
    <3> QED
      BY <2>1, <1>3, <3>1 DEF RInv, Uncontended, ReadBegin
  <2> QED
    BY <1>2, <2>2, <2>3 DEF RInv
<1>4. CASE LoadReadIndex
  <2>1. /\ loadedR' = readIndex /\ rpc = "load"
        /\ UNCHANGED <<rpc, loadedW, copy, got, historyVars>>
    BY <1>4 DEF LoadReadIndex
  <2>2. ReadNewEnough'
    BY <1>1, <2>1 DEF RInv, ReadNewEnough, NewEnough, Stored, reading, writerVars, historyVars, Torn
  <2>3. Uncontended'
    BY <1>1, <1>2, <2>1 DEF RInv, Uncontended, reading, writerVars, historyVars
  <2> QED
    BY <1>2, <2>2, <2>3 DEF RInv
<1>5. CASE LoadWriteIndex
  <2>1. /\ loadedW' = writeIndex /\ rpc = "load"
        /\ UNCHANGED <<rpc, loadedR, copy, got, historyVars>>
    BY <1>5 DEF LoadWriteIndex
  <2>2. ReadNewEnough'
    BY <1>1, <2>1 DEF RInv, ReadNewEnough, NewEnough, reading, writerVars, historyVars
  <2>3. Uncontended'
    BY <1>1, <1>2, <2>1 DEF RInv, Uncontended, reading, writerVars, historyVars
  <2> QED
    BY <1>2, <2>2, <2>3 DEF RInv
<1>6. CASE ReadEmpty \/ CopyEnd
  <2>1. /\ rpc' = "idle" /\ loadedR' = Unread /\ UNCHANGED historyVars
        /\ got' = got \/ (rpc = "copy" /\ got' = copy)
    BY <1>6 DEF ReadEmpty, CopyEnd, ReadReturn
  <2>2. ReadNewEnough'
    BY <1>1, <2>1 DEF RInv, ReadNewEnough, NewEnough, reading, historyVars
  <2>3. Uncontended'
    BY <1>6, <2>1 DEF ReadEmpty, CopyEnd, ReadReturn, Uncontended, reading
  <2> QED
    BY <1>2, <2>2, <2>3 DEF RInv
<1>7. CASE CopyBegin
  <2>1. /\ rpc = "load" /\ rpc' = "copy" /\ copy' = slots[source'] /\ source' \in {loadedR, readIndex}
        /\ loadedR # Unread /\ loadedR # loadedW /\ loadedW # Unread
        /\ UNCHANGED <<loadedR, loadedW, got, historyVars>>
    BY <1>7 DEF CopyBegin, CopyFrom, bothLoaded
  <2>2. latest # 0
    BY <2>1 DEF NothingPublished
  <2>3. NewEnough(slots[loadedR]) /\ NewEnough(slots[readIndex])
    BY <2>1, <2>2 DEF RInv, ReadNewEnough, Stored, NewEnough, reading, Torn
  <2>4. ReadNewEnough' /\ Uncontended'
    BY <1>1, <1>2, <2>1, <2>3
    DEF RInv, ReadNewEnough, NewEnough, Uncontended, reading, writerVars, historyVars
  <2> QED
    BY <1>2, <2>4 DEF RInv
<1> QED
  BY <1>2, <1>3, <1>4, <1>5, <1>6, <1>7 DEF ReaderStep

LEMMA RInvStep == RoomToRead /\ IInv /\ RInv /\ [Next]_vars => RInv'
<1> SUFFICES ASSUME RoomToRead, IInv, RInv, [Next]_vars PROVE RInv'
  OBVIOUS
<1>1. CASE UNCHANGED vars
  BY <1>1
  DEF vars, writerVars, readerVars, historyVars, RInv, Numbered, Stored, ReadNewEnough,
      NewEnough, Uncontended, reading, updating
<1> QED
  BY <1>1, RInvWriteBegin, RInvStoreSlot, RInvStoreReadIndex, RInvStoreWriteIndex, RInvRead
  DEF Next, WriterStep, WriterStore

(* Each step is one of the register, or does not show.                     *)
LEMMA RegisterStep == RoomToRead /\ IInv /\ RInv /\ [Next]_vars => [Register!Next]_(Register!vars)
<1> SUFFICES ASSUME RoomToRead, IInv, RInv, [Next]_vars
             PROVE  Register!Next \/ UNCHANGED Register!vars
  OBVIOUS
<1> USE SizeAssumption, BoundsAssumption
<1>1. CASE UNCHANGED vars
  BY <1>1 DEF vars, writerVars, readerVars, historyVars, Register!vars, reading, updating
<1>2. CASE WriteBegin \/ StoreSlot
  <2>1. updating' = updating
    BY <1>2, RInvWriteBegin, RInvStoreSlot
  <2>2. UNCHANGED <<rpc, got, rc, historyVars>>
    BY <1>2 DEF WriteBegin, StoreSlot, readerVars
  <2> QED
    BY <2>1, <2>2 DEF Register!vars, reading, historyVars
<1>3. CASE StoreReadIndex
  <2>1. ~updating /\ updating' /\ latest' = latest + 1
    BY <1>3, RInvStoreReadIndex
  <2>2. contended' = (contended \/ reading) /\ UNCHANGED <<rpc, got, rc, floor>>
    BY <1>3 DEF StoreReadIndex, PointReaderAt, readerVars
  <2>3. updating' = TRUE /\ reading' = reading
    BY <2>1, <2>2 DEF updating, reading
  <2>4. Register!PublishBegin
    BY <2>1, <2>2, <2>3, Zenon DEF Register!PublishBegin
  <2> QED
    BY <2>4 DEF Register!Next
<1>4. CASE StoreWriteIndex
  <2>1. updating /\ ~updating'
    BY <1>4, RInvStoreWriteIndex
  <2>2. UNCHANGED <<rpc, got, rc, historyVars>>
    BY <1>4 DEF StoreWriteIndex, AdvanceWriterTo, readerVars
  <2>3. updating' = FALSE /\ reading' = reading
    BY <2>1, <2>2 DEF updating, reading
  <2>4. Register!PublishEnd
    BY <2>1, <2>2, <2>3 DEF Register!PublishEnd, historyVars
  <2> QED
    BY <2>4 DEF Register!Next
<1>5. CASE ReadBegin
  <2>1. updating' = updating
    BY <1>5, RInvRead DEF ReaderStep
  <2>2. ~reading /\ reading' = TRUE /\ floor' = latest /\ contended' = updating
        /\ UNCHANGED <<latest, got, rc>>
    BY <1>5 DEF ReadBegin, reading
  <2>3. Register!Call
    BY <2>1, <2>2, Zenon DEF Register!Call
  <2> QED
    BY <2>3 DEF Register!Next
<1>6. CASE LoadReadIndex \/ LoadWriteIndex \/ CopyBegin
  <2>1. updating' = updating
    BY <1>6, RInvRead DEF ReaderStep
  <2>2. UNCHANGED <<got, rc, historyVars>> /\ rpc = "load" /\ rpc' \in {"load", "copy"}
    BY <1>6 DEF LoadReadIndex, LoadWriteIndex, CopyBegin, CopyFrom, bothLoaded
  <2>3. reading' = reading
    BY <2>2 DEF reading
  <2> QED
    BY <2>1, <2>2, <2>3 DEF Register!vars, historyVars
<1>7. CASE ReadEmpty
  <2>1. updating' = updating
    BY <1>7, RInvRead DEF ReaderStep
  <2>2. /\ reading /\ reading' = FALSE /\ rc' = "RC_ERROR_BUFFER_EMTPY"
        /\ UNCHANGED <<got, historyVars>>
        /\ loadedR = loadedW /\ loadedR # Unread
    BY <1>7 DEF ReadEmpty, ReadReturn, bothLoaded, reading
  (* Otherwise the indices were adjacent, and the reader saw them so.      *)
  <2>3. floor = 0 \/ contended
    <3> SUFFICES ASSUME floor > 0, ~contended PROVE FALSE
      BY DEF IInv, TypeOK
    <3>1. ~updating /\ loadedR = readIndex /\ loadedW = writeIndex
      BY <2>2 DEF RInv, Uncontended
    <3>2. latest # 0
      BY <2>2 DEF RInv, ReadNewEnough, IInv, TypeOK
    <3>3. pending # {"write"}
      BY <3>1 DEF updating
    <3>4. writeIndex = Succ(readIndex)
      BY <3>2, <3>3 DEF IInv, IndicesAdjacent
    <3>5. Succ(readIndex) # readIndex
      BY DistBehind DEF IInv, TypeOK, RoomToRead
    <3> QED
      BY <2>2, <3>1, <3>4, <3>5
  <2>4. Register!ReturnEmpty
    BY <2>1, <2>2, <2>3 DEF Register!ReturnEmpty, historyVars
  <2> QED
    BY <2>4 DEF Register!Next, Register!Return
<1>8. CASE CopyEnd
  <2>1. updating' = updating
    BY <1>8, RInvRead DEF ReaderStep
  <2>2. /\ reading /\ reading' = FALSE /\ rc' = "RC_SUCCESS" /\ got' = copy
        /\ UNCHANGED historyVars /\ rpc = "copy"
    BY <1>8 DEF CopyEnd, ReadReturn, reading
  <2>3. NewEnough(copy) /\ got <= floor /\ floor <= latest
    BY <2>2 DEF RInv, ReadNewEnough
  <2>4. copy \in Int /\ got \in Int /\ floor \in Int /\ latest \in Int
    BY DEF IInv, TypeOK, Content, Frame, NoFrame, Torn
  <2>5. got' \in floor .. latest /\ got' >= got /\ got' > 0
    BY <2>2, <2>3, <2>4 DEF NewEnough
  <2>6. Register!ReturnFrame
    BY <2>1, <2>2, <2>5 DEF Register!ReturnFrame, historyVars
  <2> QED
    BY <2>6 DEF Register!Next, Register!Return
<1> QED
  BY <1>1, <1>2, <1>3, <1>4, <1>5, <1>6, <1>7, <1>8 DEF Next, WriterStep, WriterStore, ReaderStep

(* A read returns a frame that was the newest one at some moment of the
   call, never an older one than the read before; and it fails only if there
   was none, or a publication overlapped it.                               *)
THEOREM RingImplementsRegister ==
  ASSUME RoomToRead
  PROVE  Spec => ImplementsRegister
<1>1. Init => Register!Init
  BY DEF Init, Register!Init, reading, updating, NoFrame
<1> QED
  BY <1>1, IInvInit, IInvStep, RInvInit, RInvStep, RegisterStep, RoomToRead, PTL
  DEF Spec, ImplementsRegister
=============================================================================
