-------------------------- MODULE Pipeline_proofs ---------------------------
(***************************************************************************)
(* Proofs about the running application, for every set of addresses, every *)
(* capacity of the mailbox and every number of frames: who owns a result   *)
(* object, how many there are, and the order in which they reach the UART. *)
(***************************************************************************)
EXTENDS Pipeline, SequenceTheorems, FiniteSetTheorems, TLAPS

(* The address that the detection, and the transmission, has in its hands. *)
Made     == IF result # NoAddr THEN result ELSE out["detection"]
Received == IF recvRc["com_tx"] = "calling" \/ tpc # "receive"
            THEN in["com_tx"] ELSE NoAddr

Queued(a) == \E i \in 1 .. Len(queue) : queue[i] = a

-----------------------------------------------------------------------------
(* The inductive invariant.  Three of its parts are about the control of
   the two threads, the others about the way of the objects.               *)

Code == {"none", "calling", "RC_SUCCESS", "RC_ERROR_INVALID_STATE"}

CodesOK ==
  /\ sendRc \in [{"detection"} -> Code]
  /\ recvRc \in [{"com_tx"} -> Code]

(* The detection is inside readData or inside send only where it calls it,
   and gives its address to send.                                          *)
DetectionPhase ==
  /\ calling => dpc = "read"
  /\ dpc # "send" => result = NoAddr /\ sendRc["detection"] # "calling"
  /\ dpc = "detect" => got > 0
  /\ IF sendRc["detection"] = "calling" THEN result = NoAddr
                                        ELSE out["detection"] = NoAddr

(* The transmission works on a message only after it received one.         *)
TxPhase ==
  /\ tpc # "receive" => recvRc["com_tx"] # "calling" /\ in["com_tx"] # NoAddr
  /\ ~ready => queue = <<>> /\ in["com_tx"] = NoAddr

(* No address is in two places, and there is an object behind each.        *)
OneOwner ==
  /\ \A i, j \in 1 .. Len(queue) : queue[i] = queue[j] => i = j
  /\ \A i \in 1 .. Len(queue) :
        Live(queue[i]) /\ queue[i] # Made /\ queue[i] # Received
  /\ Made # NoAddr => Live(Made) /\ Made # Received
  /\ Received # NoAddr => Live(Received)

NothingLost ==
  ready => \A a \in Addr : Live(a) => a = Made \/ a = Received \/ Queued(a)

(* From the UART back to the frame that is being worked on, the results on
   the way are ever newer.                                                 *)
Ordered ==
  /\ wire <= got
  /\ \A i, j \in 1 .. Len(queue) : i <= j => heap[queue[i]] <= heap[queue[j]]
  /\ \A i \in 1 .. Len(queue) :
        /\ wire <= heap[queue[i]] /\ heap[queue[i]] <= got
        /\ Received # NoAddr => heap[Received] <= heap[queue[i]]
        /\ Made # NoAddr => heap[queue[i]] <= heap[Made]
  /\ Received # NoAddr => wire <= heap[Received] /\ heap[Received] <= got
  /\ Made # NoAddr => wire <= heap[Made] /\ heap[Made] <= got
  /\ Received # NoAddr /\ Made # NoAddr => heap[Received] <= heap[Made]

Way  == OneOwner /\ NothingLost /\ Ordered

IInv == TypeOK /\ CodesOK /\ DetectionPhase /\ TxPhase /\ Way

-----------------------------------------------------------------------------
(* Every variable stays in its range, and the control parts hold.          *)

Control == TypeOK /\ CodesOK /\ DetectionPhase /\ TxPhase

LEMMA ControlInit == Init => Control /\ Way
<1> SUFFICES ASSUME Init PROVE Control /\ Way
  OBVIOUS
<1> USE PipelineAssumption DEF Init, Ring!Init, Mail!Init
<1>1. TypeOK
  <2>1. ready \in BOOLEAN /\ publishing \in BOOLEAN /\ calling \in BOOLEAN /\ contended \in BOOLEAN
    BY Zenon
  <2>2. queue \in Seq(Addr) /\ Len(queue) <= Capacity
    OBVIOUS
  <2> QED
    BY <2>1, <2>2 DEF TypeOK, Free
<1>2. CodesOK /\ DetectionPhase /\ TxPhase
  BY DEF CodesOK, Code, DetectionPhase, TxPhase
<1>3. Made = NoAddr /\ Received = NoAddr /\ Len(queue) = 0
  BY DEF Made, Received
<1>4. Way
  BY <1>3 DEF Way, OneOwner, NothingLost, Ordered, Live, Free
<1> QED
  BY <1>1, <1>2, <1>4 DEF Control

(* The steps of start-up touch neither the frames nor the messages.        *)
LEMMA StartUpStep ==
  ASSUME Control,
         \/ \E d \in Device : Open(d) \/ Configure(d)
         \/ \E t \in Thread : CreateThread(t)
         \/ UNCHANGED vars
  PROVE  Control' /\ UNCHANGED <<heap, dpc, result, tpc, wire, ringVars, mailVars>>
<1>1. UNCHANGED <<heap, dpc, result, tpc, wire, ringVars, mailVars>>
  BY DEF Open, Configure, BecomeOneOf, CreateThread, vars, detVars, txVars
<1>2. /\ thread' \in [Thread -> {"new", "running", "failed"}]
      /\ status' \in [Device -> {"service_UNDEFINED", "opened", "service_READY", "service_UNAVAILABLE"}]
  BY DEF Open, Configure, BecomeOneOf, CreateThread, vars, Control, TypeOK
<1> QED
  BY <1>1, <1>2 DEF Control, TypeOK, CodesOK, DetectionPhase, TxPhase, ringVars, mailVars

LEMMA CameraStepControl ==
  ASSUME Control, CameraStep
  PROVE  Control' /\ UNCHANGED <<heap, dpc, result, tpc, wire, mailVars, got>>
<1> USE PipelineAssumption
<1>1. /\ UNCHANGED <<thread, status, heap, dpc, result, tpc, wire, mailVars, got>>
      /\ UNCHANGED <<calling, floor>>
  BY DEF CameraStep, Capture, CaptureDone, Ring!PublishBegin, Ring!PublishEnd, detVars, txVars
<1>2. latest' \in 0 .. MaxFrames
  BY DEF CameraStep, Capture, CaptureDone, Ring!PublishBegin, Ring!PublishEnd, Control, TypeOK
<1>3. publishing' \in BOOLEAN /\ contended' \in BOOLEAN
  BY Zenon DEF CameraStep, Capture, CaptureDone, Ring!PublishBegin, Ring!PublishEnd, Control, TypeOK
<1> QED
  BY <1>1, <1>2, <1>3 DEF Control, TypeOK, CodesOK, DetectionPhase, TxPhase, mailVars

-----------------------------------------------------------------------------
(* What a step can do to the objects and their addresses.                  *)

Elsewhere == UNCHANGED <<heap, queue, Made, Received, wire, ready>> /\ got' >= got

Creates ==
  /\ Made = NoAddr /\ Made' \in Addr /\ heap[Made'] = Free
  /\ got > 0 /\ heap' = [heap EXCEPT ![Made'] = got]
  /\ UNCHANGED <<queue, Received, wire, ready, got>>

HandsOver ==
  /\ ready /\ Made # NoAddr
  /\ queue' = Append(queue, Made) /\ Made' = NoAddr
  /\ UNCHANGED <<heap, Received, wire, ready, got>>

(* send failed: the mailbox could not be created.                          *)
GivesUp ==
  /\ ~ready /\ Made' = NoAddr
  /\ UNCHANGED <<heap, queue, Received, wire, ready, got>>

TakesOver ==
  /\ Received = NoAddr /\ queue # <<>>
  /\ Received' = Head(queue) /\ queue' = Tail(queue)
  /\ UNCHANGED <<heap, Made, wire, ready, got>>

Writes ==
  /\ Received # NoAddr /\ wire' \in {wire, heap[Received]}
  /\ UNCHANGED <<heap, queue, Made, Received, ready, got>>

Releases ==
  /\ Received # NoAddr /\ Received' = NoAddr
  /\ heap' = [heap EXCEPT ![Received] = Free]
  /\ UNCHANGED <<queue, Made, wire, ready, got>>

Effect == Elsewhere \/ Creates \/ HandsOver \/ GivesUp \/ TakesOver \/ Writes \/ Releases

LEMMA DetectionStepControl ==
  ASSUME Control, DetectionStep
  PROVE  Control' /\ Effect
<1> USE PipelineAssumption DEF Control, TypeOK, CodesOK, Code, DetectionPhase
<1>1. CASE ReadFrame
  <2>1. /\ UNCHANGED <<thread, status, heap, dpc, result, tpc, wire, mailVars, latest, publishing, got>>
        /\ dpc = "read" /\ floor' = latest /\ contended' = publishing
    BY <1>1 DEF ReadFrame, Ring!Call, detVars, txVars
  <2>2. calling' \in BOOLEAN
    BY <1>1, Zenon DEF ReadFrame, Ring!Call
  <2> QED
    BY <2>1, <2>2 DEF TxPhase, mailVars, Effect, Elsewhere, Made, Received
<1>2. CASE NoFrameYet \/ FrameRead
  <2>1. /\ UNCHANGED <<thread, status, heap, result, tpc, wire, mailVars, latest, publishing, floor, contended>>
        /\ calling /\ ~calling'
    BY <1>2 DEF NoFrameYet, FrameRead, Ring!ReturnFrame, Ring!ReturnEmpty, detVars, txVars
  <2>2. /\ got' \in 0 .. MaxFrames /\ got' >= got
        /\ dpc' = dpc \/ (dpc' = "detect" /\ got' > 0)
    <3>1. CASE NoFrameYet
      BY <3>1 DEF NoFrameYet, Ring!ReturnEmpty, detVars
    <3>2. CASE FrameRead
      BY <3>2 DEF FrameRead, Ring!ReturnFrame
    <3> QED
      BY <1>2, <3>1, <3>2
  <2>3. calling' \in BOOLEAN
    BY <1>2, Zenon DEF NoFrameYet, FrameRead, Ring!ReturnFrame, Ring!ReturnEmpty
  <2> QED
    BY <2>1, <2>2, <2>3 DEF TxPhase, mailVars, Effect, Elsewhere, Made, Received
<1>3. CASE Detect
  <2>1. /\ UNCHANGED <<thread, status, tpc, wire, mailVars, ringVars>>
        /\ dpc = "detect" /\ dpc' = "send"
    BY <1>3 DEF Detect, NewResult, detVars, txVars
  <2>2. PICK a \in Addr : heap[a] = Free /\ heap' = [heap EXCEPT ![a] = got] /\ result' = a
    BY <1>3 DEF Detect, NewResult
  <2>3. Creates
    BY <2>1, <2>2 DEF Creates, Made, Received, mailVars, ringVars
  <2>4. heap' \in [Addr -> Result \cup {Free}]
    BY <2>1, <2>2 DEF Result
  <2> QED
    BY <2>1, <2>2, <2>3, <2>4 DEF TxPhase, mailVars, ringVars, Effect
<1>4. CASE SendResult
  BY <1>4 DEF SendResult, Mail!Send, Mail!recvVars, TxPhase, txVars, ringVars, Effect, Elsewhere,
              Made, Received
<1>5. CASE PutResult
  <2>1. /\ UNCHANGED <<thread, status, heap, dpc, result, tpc, wire, ringVars, ready, sendRc, in, recvRc>>
        /\ ready /\ out["detection"] # NoAddr /\ Len(queue) < Capacity
        /\ queue' = Append(queue, out["detection"])
        /\ out' = [out EXCEPT !["detection"] = NoAddr]
    BY <1>5 DEF PutResult, Mail!Put, Mail!recvVars, detVars, txVars
  <2>2. HandsOver
    BY <2>1 DEF HandsOver, Made, Received, ringVars
  <2>3. queue' \in Seq(Addr) /\ Len(queue') <= Capacity
    BY <2>1
  <2> QED
    BY <2>1, <2>2, <2>3 DEF TxPhase, ringVars, Effect
<1>6. CASE SendDone
  <2>1. /\ UNCHANGED <<thread, status, heap, result, tpc, wire, ringVars, ready, queue, in, recvRc>>
        /\ dpc' = "read"
        /\ sendRc["detection"] = "calling" /\ sendRc' \in [{"detection"} -> Code \ {"calling"}]
        /\ out' = [out EXCEPT !["detection"] = NoAddr]
        /\ ready => out["detection"] = NoAddr
    BY <1>6 DEF SendDone, FinishSend, Mail!SendReturn, Mail!recvVars, txVars
  <2>2. Elsewhere \/ GivesUp
    BY <2>1 DEF Elsewhere, GivesUp, Made, Received, ringVars
  <2> QED
    BY <2>1, <2>2 DEF TxPhase, ringVars, Effect
<1> QED
  BY <1>1, <1>2, <1>3, <1>4, <1>5, <1>6 DEF DetectionStep

LEMMA TxStepControl ==
  ASSUME Control, TxStep
  PROVE  Control' /\ Effect
<1> USE PipelineAssumption DEF Control, TypeOK, CodesOK, Code, TxPhase
<1>1. CASE TxReceive
  BY <1>1 DEF TxReceive, Mail!Receive, Mail!sendVars, DetectionPhase, detVars, txVars, ringVars,
              Effect, Elsewhere, Made, Received
<1>2. CASE TxGet
  <2>1. /\ UNCHANGED <<thread, status, heap, dpc, result, tpc, wire, ringVars, ready, sendRc, out, recvRc>>
        /\ recvRc["com_tx"] = "calling" /\ in["com_tx"] = NoAddr /\ queue # <<>>
        /\ in' = [in EXCEPT !["com_tx"] = Head(queue)] /\ queue' = Tail(queue)
    BY <1>2 DEF TxGet, Mail!Get, Mail!sendVars, detVars, txVars
  <2>2. TakesOver
    BY <2>1 DEF TakesOver, Made, Received, ringVars
  <2>3. queue' \in Seq(Addr) /\ Len(queue') <= Capacity /\ Head(queue) \in Addr
    BY <2>1
  <2> QED
    BY <2>1, <2>2, <2>3 DEF DetectionPhase, ringVars, Effect
<1>3. CASE TxReceived
  <2>1. /\ UNCHANGED <<thread, status, heap, dpc, result, wire, ringVars, ready, queue, in, sendRc, out>>
        /\ recvRc["com_tx"] = "calling" /\ tpc = "receive"
        /\ ready => in["com_tx"] # NoAddr
        /\ recvRc' = [recvRc EXCEPT !["com_tx"] = IF ready THEN "RC_SUCCESS" ELSE "RC_ERROR_INVALID_STATE"]
        /\ tpc' = IF ready THEN "transmit" ELSE "receive"
    BY <1>3 DEF TxReceived, EvaluateReceive, Mail!ReceiveReturn, Mail!sendVars, detVars
  <2>2. Elsewhere
    BY <2>1 DEF Elsewhere, Made, Received, ringVars
  <2> QED
    BY <2>1, <2>2 DEF DetectionPhase, ringVars, Effect
<1>4. CASE Transmit
  <2>1. /\ UNCHANGED <<thread, status, heap, dpc, result, ringVars, mailVars>>
        /\ tpc = "transmit" /\ tpc' = "delete"
        /\ wire' \in {wire, heap[in["com_tx"]]}
    BY <1>4 DEF Transmit, WriteToUart, detVars
  <2>2. Writes
    BY <2>1 DEF Writes, Made, Received, ringVars, mailVars
  <2>3. wire' \in Result \cup {Free}
    BY <2>1
  <2> QED
    BY <2>1, <2>2, <2>3 DEF DetectionPhase, ringVars, mailVars, Effect
<1>5. CASE Delete
  <2>1. /\ UNCHANGED <<thread, status, dpc, result, wire, ringVars, mailVars>>
        /\ tpc = "delete" /\ tpc' = "receive"
        /\ heap' = [heap EXCEPT ![in["com_tx"]] = Free]
    BY <1>5 DEF Delete, ReleaseReceived, detVars
  <2>2. Releases
    BY <2>1 DEF Releases, Made, Received, ringVars, mailVars
  <2> QED
    BY <2>1, <2>2 DEF DetectionPhase, ringVars, mailVars, Effect
<1> QED
  BY <1>1, <1>2, <1>3, <1>4, <1>5 DEF TxStep

LEMMA ControlStep == Control /\ [Next]_vars => Control' /\ Effect
<1> SUFFICES ASSUME Control, [Next]_vars PROVE Control' /\ Effect
  OBVIOUS
<1>1. ASSUME UNCHANGED <<heap, result, tpc, wire, mailVars, got>>
      PROVE  Effect
  BY <1>1 DEF Effect, Elsewhere, Made, Received, mailVars, Control, TypeOK
<1> QED
  BY <1>1, StartUpStep, CameraStepControl, DetectionStepControl, TxStepControl DEF Next, ringVars

-----------------------------------------------------------------------------
(* Each effect keeps the objects owned, none of them lost, and in order.   *)

LEMMA Numbers ==
  ASSUME TypeOK
  PROVE  /\ wire \in Nat /\ got \in Nat /\ \A a \in Addr : heap[a] \in Nat
         /\ Len(queue) \in Nat /\ \A i \in 1 .. Len(queue) : queue[i] \in Addr
         /\ Made \in Addr \cup {NoAddr} /\ Received \in Addr \cup {NoAddr}
  BY PipelineAssumption DEF TypeOK, Result, Free, Made, Received

LEMMA ElsewhereWay ==
  ASSUME TypeOK, TypeOK', Way, Elsewhere
  PROVE  Way'
<1>1. OneOwner' /\ NothingLost'
  BY DEF Elsewhere, Way, OneOwner, NothingLost, Live, Queued
<1>2. got' \in Nat
  BY PipelineAssumption DEF TypeOK
<1>3. Ordered'
  BY <1>2, Numbers DEF Elsewhere, Way, Ordered
<1> QED
  BY <1>1, <1>3 DEF Way

LEMMA CreatesWay ==
  ASSUME TypeOK, Way, Creates
  PROVE  Way'
<1> USE PipelineAssumption, Numbers DEF Creates
(* The new address was free: it is none of those in the other places.      *)
<1>1. /\ \A i \in 1 .. Len(queue) : queue[i] # Made'
      /\ Received # Made' /\ Made' # NoAddr
  BY DEF Way, OneOwner, Live
<1>2. /\ heap'[Made'] = got
      /\ \A a \in Addr : a # Made' => heap'[a] = heap[a]
  BY DEF TypeOK
<1>3. OneOwner'
  BY <1>1, <1>2 DEF Way, OneOwner, Live, Free
<1>4. NothingLost'
  BY <1>1, <1>2 DEF Way, NothingLost, Live, Free, Queued
<1>5. Ordered'
  BY <1>1, <1>2 DEF Way, Ordered
<1> QED
  BY <1>3, <1>4, <1>5 DEF Way

LEMMA HandsOverWay ==
  ASSUME TypeOK, Way, HandsOver
  PROVE  Way'
<1> USE PipelineAssumption, Numbers DEF HandsOver
<1>1. /\ Len(queue') = Len(queue) + 1 /\ queue'[Len(queue) + 1] = Made
      /\ \A i \in 1 .. Len(queue) : queue'[i] = queue[i]
  BY DEF TypeOK
<1>2. \A i \in 1 .. Len(queue') : i \in 1 .. Len(queue) \/ i = Len(queue) + 1
  BY <1>1
<1>3. OneOwner'
  BY <1>1, <1>2 DEF Way, OneOwner, Live
<1>4. NothingLost'
  <2>1. \A a : Queued(a) \/ a = Made => Queued(a)'
    BY <1>1 DEF Queued
  <2> QED
    BY <2>1 DEF Way, NothingLost, Live
<1>5. Ordered'
  BY <1>1, <1>2 DEF Way, Ordered
<1> QED
  BY <1>3, <1>4, <1>5 DEF Way

LEMMA GivesUpWay ==
  ASSUME TypeOK, Way, GivesUp
  PROVE  Way'
<1>1. OneOwner'
  BY PipelineAssumption, Numbers DEF GivesUp, Way, OneOwner, Live
<1>2. NothingLost'
  BY Zenon DEF GivesUp, NothingLost
<1>3. Ordered'
  BY DEF GivesUp, Way, Ordered
<1> QED
  BY <1>1, <1>2, <1>3 DEF Way

LEMMA TakesOverWay ==
  ASSUME TypeOK, Way, TakesOver
  PROVE  Way'
<1> USE PipelineAssumption, Numbers DEF TakesOver
<1>1. /\ Len(queue) >= 1 /\ Received' = queue[1]
      /\ Len(queue') = Len(queue) - 1
      /\ \A i \in 1 .. Len(queue') : queue'[i] = queue[i + 1] /\ i + 1 \in 1 .. Len(queue)
  BY DEF TypeOK
<1>2. OneOwner'
  BY <1>1 DEF Way, OneOwner, Live
<1>3. NothingLost'
  <2>1. ASSUME NEW a, Queued(a) PROVE a = Received' \/ Queued(a)'
    <3>1. PICK i \in 1 .. Len(queue) : queue[i] = a
      BY <2>1 DEF Queued
    <3>2. i = 1 \/ (i - 1 \in 1 .. Len(queue') /\ queue'[i - 1] = a)
      BY <1>1, <3>1
    <3> QED
      BY <1>1, <3>1, <3>2 DEF Queued
  <2> QED
    BY <2>1 DEF Way, NothingLost, Live
<1>4. Ordered'
  BY <1>1 DEF Way, Ordered
<1> QED
  BY <1>2, <1>3, <1>4 DEF Way

LEMMA WritesWay ==
  ASSUME TypeOK, Way, Writes
  PROVE  Way' /\ wire' >= wire
<1>1. OneOwner' /\ NothingLost'
  BY DEF Writes, Way, OneOwner, NothingLost, Live, Queued
<1>2. Ordered' /\ wire' >= wire
  BY Numbers DEF Writes, Way, Ordered
<1> QED
  BY <1>1, <1>2 DEF Way

LEMMA ReleasesWay ==
  ASSUME TypeOK, Way, Releases
  PROVE  Way'
<1> USE PipelineAssumption, Numbers DEF Releases
<1>1. /\ \A i \in 1 .. Len(queue) : queue[i] # Received
      /\ Made # Received \/ Made = NoAddr
  BY DEF Way, OneOwner
<1>2. heap'[Received] = Free /\ \A a \in Addr : a # Received => heap'[a] = heap[a]
  BY DEF TypeOK
<1>3. OneOwner'
  BY <1>1, <1>2 DEF Way, OneOwner, Live
<1>4. NothingLost'
  BY <1>1, <1>2 DEF Way, NothingLost, Live, Queued
<1>5. Ordered'
  BY <1>1, <1>2 DEF Way, Ordered
<1> QED
  BY <1>3, <1>4, <1>5 DEF Way

LEMMA IInvStep == IInv /\ [Next]_vars => IInv' /\ [wire' >= wire]_vars
<1> SUFFICES ASSUME IInv, [Next]_vars PROVE IInv' /\ wire' >= wire
  OBVIOUS
<1>1. Control /\ Control' /\ Effect
  BY ControlStep DEF IInv, Control
<1>2. TypeOK /\ TypeOK' /\ Way
  BY <1>1 DEF Control, IInv
<1>3. Way'
  BY <1>1, <1>2, ElsewhereWay, CreatesWay, HandsOverWay, GivesUpWay, TakesOverWay, WritesWay, ReleasesWay
  DEF Effect
<1>4. wire' >= wire
  <2>1. CASE Writes
    BY <1>2, <2>1, WritesWay
  <2>2. CASE ~Writes
    BY <1>1, <1>2, <2>2, Numbers DEF Effect, Elsewhere, Creates, HandsOver, GivesUp, TakesOver, Releases
  <2> QED
    BY <2>1, <2>2
<1> QED
  BY <1>1, <1>3, <1>4 DEF IInv, Control

LEMMA Invariance == Spec => []IInv
<1>1. Init => IInv
  BY ControlInit DEF IInv, Control
<1> QED
  BY <1>1, IInvStep, PTL DEF Spec

-----------------------------------------------------------------------------
(* Results appear on the UART in the order of their frames, whatever the
   threads do and however many messages the mailbox holds.                 *)
THEOREM WireAlwaysInOrder == Spec => WireInOrder
  BY Invariance, IInvStep, PTL DEF Spec, WireInOrder

(* A result object has one owner: the parts of the inductive invariant,
   counted.                                                                *)
LEMMA OwnersCounted == IInv => ResultsOwned
<1> SUFFICES ASSUME IInv PROVE ResultsOwned
  OBVIOUS
<1> USE PipelineAssumption, Numbers DEF IInv, Way
<1>1. ASSUME NEW a \in Addr
      PROVE  /\ Queued(a) => Cardinality(HeldByMailbox(a)) = 1 /\ Live(a) /\ a # Made /\ a # Received
             /\ ~Queued(a) => Cardinality(HeldByMailbox(a)) = 0
  <2>1. CASE Queued(a)
    <3>1. PICK i \in 1 .. Len(queue) : queue[i] = a
      BY <2>1 DEF Queued
    <3>2. HeldByMailbox(a) = {i}
      BY <3>1 DEF HeldByMailbox, OneOwner
    <3> QED
      BY <2>1, <3>1, <3>2, FS_Singleton DEF OneOwner
  <2>2. CASE ~Queued(a)
    <3>1. HeldByMailbox(a) = {}
      BY <2>2 DEF HeldByMailbox, Queued
    <3> QED
      BY <2>2, <3>1, FS_EmptySet
  <2> QED
    BY <2>1, <2>2
<1>2. \A a \in Addr : HeldByDetection(a) <=> a = Made
  BY DEF HeldByDetection, Made, DetectionPhase
<1>3. \A a \in Addr : HeldByTx(a) <=> a = Received
  BY DEF HeldByTx, Received
<1>4. \A a \in Addr : a = Made \/ a = Received => Live(a) /\ ~(a = Made /\ a = Received)
  BY DEF OneOwner
<1>5. NoDanglingResult
  BY <1>1, <1>2, <1>3, <1>4 DEF NoDanglingResult, Holders
<1>6. NoLostResult
  BY <1>1, <1>2, <1>3, <1>4 DEF NoLostResult, NothingLost, Holders
<1> QED
  BY <1>5, <1>6 DEF ResultsOwned

(* No result object is used after it was released, released twice or, with
   a working mailbox, lost.                                                *)
THEOREM ResultsAlwaysOwned == Spec => []ResultsOwned
  BY Invariance, OwnersCounted, PTL

(* The mailbox bounds the number of objects: those in it, the one that the
   detection made and the one that the transmission received.              *)
LEMMA ObjectsCounted == IInv => BacklogBounded
<1> SUFFICES ASSUME IInv, ready
             PROVE  Cardinality({a \in Addr : Live(a)}) <= Capacity + 2
  BY DEF BacklogBounded
<1> DEFINE Messages == {queue[i] : i \in 1 .. Len(queue)}
           Alive    == {a \in Addr : Live(a)}
           Held     == (Messages \cup {Made}) \cup {Received}
<1>1. Len(queue) \in Nat /\ Len(queue) <= Capacity /\ Capacity \in Nat
  BY Numbers, PipelineAssumption DEF IInv, TypeOK
<1>2. IsFiniteSet(Messages) /\ Cardinality(Messages) <= Len(queue) /\ Cardinality(Messages) \in Nat
  <2>1. IsFiniteSet(1 .. Len(queue)) /\ Cardinality(1 .. Len(queue)) = Len(queue)
    <3>a. 1 \in Int /\ Len(queue) \in Int
      BY <1>1
    <3>1. IsFiniteSet(1 .. Len(queue)) /\ Cardinality(1 .. Len(queue)) = IF 1 > Len(queue) THEN 0 ELSE Len(queue) - 1 + 1
      BY <3>a, FS_Interval, Zenon
    <3> QED
      BY <1>1, <3>1
  <2>2. [i \in 1 .. Len(queue) |-> queue[i]] \in Surjection(1 .. Len(queue), Messages)
    BY DEF Surjection
  <2> HIDE DEF Messages
  <2> QED
    BY <2>1, <2>2, FS_Surjection, FS_CardinalityType
<1> HIDE DEF Messages
<1>3. IsFiniteSet(Held) /\ Cardinality(Held) \in Nat /\ Cardinality(Held) <= Cardinality(Messages) + 2
  <2>1. ASSUME NEW S, NEW x, IsFiniteSet(S)
        PROVE  /\ IsFiniteSet(S \cup {x}) /\ Cardinality(S \cup {x}) \in Nat
               /\ Cardinality(S \cup {x}) <= Cardinality(S) + 1
    <3>1. IsFiniteSet(S \cup {x}) /\ Cardinality(S) \in Nat
      BY <2>1, FS_AddElement, FS_CardinalityType
    <3>2. Cardinality(S \cup {x}) \in {Cardinality(S), Cardinality(S) + 1}
      BY <2>1, FS_AddElement
    <3> QED
      BY <3>1, <3>2
  <2>2. IsFiniteSet(Messages \cup {Made}) /\ Cardinality(Messages \cup {Made}) \in Nat
        /\ Cardinality(Messages \cup {Made}) <= Cardinality(Messages) + 1
    BY <1>2, <2>1
  <2>3. IsFiniteSet(Held) /\ Cardinality(Held) \in Nat
        /\ Cardinality(Held) <= Cardinality(Messages \cup {Made}) + 1
    BY <2>1, <2>2
  <2> HIDE DEF Held
  <2> QED
    BY <1>2, <2>2, <2>3
<1>4. Alive \subseteq Held
  BY DEF IInv, Way, NothingLost, Queued, Messages
<1> HIDE DEF Held, Alive
<1>5. Cardinality(Alive) <= Cardinality(Held) /\ Cardinality(Alive) \in Nat
  BY <1>3, <1>4, FS_Subset, FS_CardinalityType
<1>6. Cardinality(Alive) <= Capacity + 2
  BY <1>1, <1>2, <1>3, <1>5
<1> QED
  BY <1>6 DEF Alive

(* With a working mailbox there are never more objects than it has room
   for, and one for each of the two threads.                               *)
THEOREM BacklogAlwaysBounded == Spec => []BacklogBounded
  BY Invariance, ObjectsCounted, PTL
=============================================================================
