------------------------------ MODULE Pipeline ------------------------------
(***************************************************************************)
(* The running application: CApplication::run starts four threads; the     *)
(* camera thread publishes frames, the detection thread turns the newest   *)
(* frame into a result object on the heap and sends its address through    *)
(* the mailbox of the transmission thread, which writes the result to the  *)
(* UART and deletes the object.                                            *)
(*                                                                         *)
(* The frame buffer and the mailbox are used through their abstract        *)
(* specifications, LatestFrame (implemented by RingBuffer) and Channel     *)
(* (implemented by MailBox).  A result is abstracted to the frame it was   *)
(* computed from (Detection.tla has the computation).                      *)
(***************************************************************************)
EXTENDS Naturals, Sequences, FiniteSets

CONSTANTS
  Addr,       (* Bound: the addresses that new can return.                 *)
  NoAddr,     (* The null pointer.                                         *)
  Capacity,   (* Messages that fit into the mailbox.                       *)
  MaxFrames   (* Bound: frames the camera delivers.                        *)

ASSUME PipelineAssumption ==
  /\ NoAddr \notin Addr
  /\ Capacity \in Nat \ {0}
  /\ MaxFrames \in Nat

(* THREAD_COM_TX_SERVICE ... THREAD_DETECTION_SERVICE, in creation order.  *)
StartOrder == <<"com_tx", "com_rx", "camera", "detection">>
Thread     == {StartOrder[i] : i \in 1 .. Len(StartOrder)}
Device     == {"uart", "camera"}
Free       == 0                 (* The content of an address not in use.   *)
Result     == 1 .. MaxFrames    (* The number of the frame it is about.    *)

VARIABLES
  thread,     (* State of each thread: "new", "running" or "failed".       *)
  status,     (* Of each device: service_UNDEFINED before it is opened,
                 "opened" until it is configured, then service_READY, or
                 service_UNAVAILABLE if one of the two failed.             *)
  heap,       (* The result objects: what each address holds, or Free.     *)
  dpc,        (* Detection: "read", "detect" or "send".                    *)
  result,     (* p_resultCollection, NoAddr when its value is not used.    *)
  tpc,        (* Transmission: "receive", "transmit" or "delete".          *)
  wire,       (* The last result written to the UART.                      *)
  \* the frame buffer
  latest, publishing, calling, floor, contended, got, rc,
  \* the mailbox of the transmission thread
  ready, queue, out, in, sendRc, recvRc

ringVars == <<latest, publishing, calling, floor, contended, got, rc>>
mailVars == <<ready, queue, out, in, sendRc, recvRc>>
detVars  == <<dpc, result>>
txVars   == <<tpc, wire>>
vars     == <<thread, status, heap, detVars, txVars, ringVars, mailVars>>

Ring == INSTANCE LatestFrame
Mail == INSTANCE Channel WITH Senders <- {"detection"}, Receivers <- {"com_tx"},
                              Message <- Addr, NoMessage <- NoAddr

Init ==
  /\ thread = [t \in Thread |-> "new"]
  /\ status = [d \in Device |-> "service_UNDEFINED"]
  /\ heap = [a \in Addr |-> Free]
  /\ dpc = "read" /\ result = NoAddr
  /\ tpc = "receive" /\ wire = Free
  /\ Ring!Init
  /\ Mail!Init

Running(t) == thread[t] = "running"

Ready(d) == status[d] = "service_READY"

Constructed(d) == status[d] \in {"service_READY", "service_UNAVAILABLE"}

-----------------------------------------------------------------------------
(* The constructor of CApplication constructs the UART, then the camera:
   CResource opens the device, CUart and CCamera configure it.  Nothing is
   tried again later.                                                      *)

BecomeOneOf(d, outcomes) ==
  /\ \E s \in outcomes : status' = [status EXCEPT ![d] = s]
  /\ UNCHANGED <<thread, heap, detVars, txVars, ringVars, mailVars>>

Open(d) ==
  /\ status[d] = "service_UNDEFINED"
  /\ d = "camera" => Constructed("uart")
  /\ BecomeOneOf(d, {"opened", "service_UNAVAILABLE"})

Configure(d) ==
  /\ status[d] = "opened"
  /\ BecomeOneOf(d, {"service_READY", "service_UNAVAILABLE"})

(* CApplication::run: the threads are created in order; a failure is only
   logged.                                                                 *)
CreateThread(t) ==
  /\ thread[t] = "new"
  /\ \A d \in Device : Constructed(d)
  /\ \E i \in 1 .. Len(StartOrder) :
        /\ StartOrder[i] = t
        /\ \A j \in 1 .. i - 1 : thread[StartOrder[j]] # "new"
  /\ \E s \in {"running", "failed"} : thread' = [thread EXCEPT ![t] = s]
  /\ UNCHANGED <<status, heap, detVars, txVars, ringVars, mailVars>>

-----------------------------------------------------------------------------
(* CCameraService::run.  A capture that fails changes nothing.             *)

Capture ==
  /\ Running("camera") /\ Ready("camera")
  /\ latest < MaxFrames
  /\ Ring!PublishBegin
  /\ UNCHANGED <<thread, status, heap, detVars, txVars, mailVars>>

CaptureDone ==
  /\ Ring!PublishEnd
  /\ UNCHANGED <<thread, status, heap, detVars, txVars, mailVars>>

-----------------------------------------------------------------------------
(* CDetection::run                                                         *)

ReadFrame ==
  /\ Running("detection") /\ dpc = "read"
  /\ Ring!Call
  /\ UNCHANGED <<thread, status, heap, detVars, txVars, mailVars>>

NoFrameYet ==
  /\ Ring!ReturnEmpty
  /\ UNCHANGED <<thread, status, heap, detVars, txVars, mailVars>>

FrameRead ==
  /\ Ring!ReturnFrame
  /\ dpc' = "detect"
  /\ UNCHANGED <<thread, status, heap, result, txVars, mailVars>>

NewResult(value) ==
  /\ dpc = "detect"
  /\ \E a \in {b \in Addr : heap[b] = Free} :
        /\ heap' = [heap EXCEPT ![a] = value]
        /\ result' = a
  /\ dpc' = "send"
  /\ UNCHANGED <<thread, status, txVars, ringVars, mailVars>>

(* Mutant: the result is numbered by the frame that is awaited.            *)
DetectNextFrame == NewResult(got + 1)

(* Run the algorithm and put what it found into a new object.              *)
Detect == NewResult(got)

SendResult ==
  /\ dpc = "send" /\ result # NoAddr
  /\ Mail!Send("detection", result)
  /\ result' = NoAddr
  /\ UNCHANGED <<thread, status, heap, dpc, txVars, ringVars>>

PutResult ==
  /\ Mail!Put("detection")
  /\ UNCHANGED <<thread, status, heap, detVars, txVars, ringVars>>

FinishSend(next) ==
  /\ Mail!SendReturn("detection")
  /\ dpc' = next
  /\ UNCHANGED <<thread, status, heap, result, txVars, ringVars>>

(* Mutant: the loop works on the frame it has instead of reading a new one. *)
SendDoneSameFrame == FinishSend("detect")

(* A failure is logged; the loop goes on with the next frame.              *)
SendDone == FinishSend("read")

-----------------------------------------------------------------------------
(* CComTxService::run                                                      *)

TxReceive ==
  /\ Running("com_tx") /\ tpc = "receive"
  /\ Mail!Receive("com_tx")
  /\ UNCHANGED <<thread, status, heap, detVars, txVars, ringVars>>

TxGet ==
  /\ Mail!Get("com_tx")
  /\ UNCHANGED <<thread, status, heap, detVars, txVars, ringVars>>

ReleaseReceived == heap' = [heap EXCEPT ![in["com_tx"]] = Free]

EvaluateReceive ==
  /\ Mail!ReceiveReturn("com_tx")
  /\ tpc' = IF recvRc'["com_tx"] = "RC_SUCCESS" THEN "transmit" ELSE "receive"
  /\ UNCHANGED <<thread, status, detVars, wire, ringVars>>

(* Mutant: the object is released as soon as its address was received.     *)
TxReceivedReleases ==
  EvaluateReceive /\ IF ready THEN ReleaseReceived ELSE UNCHANGED heap

TxReceived == EvaluateReceive /\ UNCHANGED heap

WriteToUart ==
  /\ tpc = "transmit"
  /\ wire' = IF Ready("uart") THEN heap[in["com_tx"]] ELSE wire
  /\ tpc' = "delete"
  /\ UNCHANGED <<thread, status, detVars, ringVars, mailVars>>

(* Mutant: processDataForTx releases what processRecvdMsg releases again.  *)
TransmitReleases == WriteToUart /\ ReleaseReceived

(* Mutant: the loop ends when the UART cannot be written.                  *)
TransmitOrStop ==
  /\ tpc = "transmit" /\ Ready("uart")
  /\ wire' = heap[in["com_tx"]]
  /\ tpc' = "delete"
  /\ UNCHANGED <<thread, status, detVars, ringVars, mailVars, heap>>

(* processDataForTx; the return code of the UART is not looked at.         *)
Transmit == WriteToUart /\ UNCHANGED heap

(* Mutant: the object is not released.                                     *)
DeleteForgotten ==
  /\ tpc = "delete"
  /\ tpc' = "receive"
  /\ UNCHANGED <<thread, status, heap, detVars, wire, ringVars, mailVars>>

(* The rest of processRecvdMsg.                                            *)
Delete ==
  /\ tpc = "delete"
  /\ ReleaseReceived
  /\ tpc' = "receive"
  /\ UNCHANGED <<thread, status, detVars, wire, ringVars, mailVars>>

-----------------------------------------------------------------------------
CameraStep    == Capture \/ CaptureDone
DetectionStep == \/ ReadFrame \/ NoFrameYet \/ FrameRead \/ Detect
                 \/ SendResult \/ PutResult \/ SendDone
TxStep        == TxReceive \/ TxGet \/ TxReceived \/ Transmit \/ Delete

Next == \/ \E d \in Device : Open(d) \/ Configure(d)
        \/ \E t \in Thread : CreateThread(t)
        \/ CameraStep \/ DetectionStep \/ TxStep

(* Every thread is scheduled; the camera may stop delivering at any time.
   A readData fails after the first frame only if its loads fall between
   two adjacent stores of the camera thread; the detection retries at once
   and does not hit that window every time: hence SF for FrameRead.        *)
Fairness ==
  /\ \A d \in Device : WF_vars(Open(d) \/ Configure(d))
  /\ \A t \in Thread : WF_vars(CreateThread(t))
  /\ WF_vars(CaptureDone)
  /\ WF_vars(DetectionStep) /\ SF_vars(FrameRead)
  /\ WF_vars(TxStep)

Spec     == Init /\ [][Next]_vars
FairSpec == Spec /\ Fairness

-----------------------------------------------------------------------------
(* Every variable stays in its range.                                      *)
TypeOK ==
  /\ thread \in [Thread -> {"new", "running", "failed"}]
  /\ status \in [Device -> {"service_UNDEFINED", "opened", "service_READY", "service_UNAVAILABLE"}]
  /\ heap \in [Addr -> Result \cup {Free}]
  /\ dpc \in {"read", "detect", "send"} /\ result \in Addr \cup {NoAddr}
  /\ tpc \in {"receive", "transmit", "delete"} /\ wire \in Result \cup {Free}
  /\ latest \in 0 .. MaxFrames /\ floor \in 0 .. MaxFrames
  /\ got \in 0 .. MaxFrames
  /\ publishing \in BOOLEAN /\ calling \in BOOLEAN /\ contended \in BOOLEAN
  /\ ready \in BOOLEAN
  /\ queue \in Seq(Addr) /\ Len(queue) <= Capacity
  /\ out \in [{"detection"} -> Addr \cup {NoAddr}]
  /\ in \in [{"com_tx"} -> Addr \cup {NoAddr}]

(* Who holds the address of a result object: the detection until the
   address is in the mailbox, the mailbox, the transmission until it has
   released the object.                                                    *)
HeldByDetection(a) == a \in {result, out["detection"]}
HeldByMailbox(a)   == {i \in 1 .. Len(queue) : queue[i] = a}
HeldByTx(a)        == /\ in["com_tx"] = a
                      /\ recvRc["com_tx"] = "calling" \/ tpc # "receive"

Holders(a) == Cardinality(HeldByMailbox(a))
                + (IF HeldByDetection(a) THEN 1 ELSE 0)
                + (IF HeldByTx(a) THEN 1 ELSE 0)

Live(a) == heap[a] # Free

(* No thread holds the address of an object that was released, and no two
   places hold the same one: nothing is used after or released twice.      *)
NoDanglingResult == \A a \in Addr : Holders(a) <= IF Live(a) THEN 1 ELSE 0

(* With a working mailbox no object is lost: it is always somewhere on its
   way to the thread that releases it.                                     *)
NoLostResult == ready => \A a \in Addr : Live(a) => Holders(a) = 1

(* The backlog is bounded by the mailbox: one object at each end of it.    *)
BacklogBounded == ready => Cardinality({a \in Addr : Live(a)}) <= Capacity + 2

(* Results appear on the UART in the order of their frames.                *)
WireInOrder == [][wire' >= wire]_vars

(* With a working mailbox and receiver every result object is released.    *)
ResultsReleased ==
  \A a \in Addr : ready /\ Running("com_tx") /\ Live(a) ~> ~Live(a)

AllUp == ready /\ Ready("uart") /\ \A t \in Thread : Running(t)

(* When everything works, a published frame, or a later one, is reported.  *)
NewestFrameReported ==
  \A f \in 1 .. MaxFrames : AllUp /\ latest = f ~> wire >= f

(* Each result object has one owner at a time, from new to delete.       *)
ResultsOwned == TypeOK /\ NoDanglingResult /\ NoLostResult
=============================================================================
