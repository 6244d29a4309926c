------------------------------ MODULE MailBox -------------------------------
(***************************************************************************)
(* CMailBox (OS/src/CMailBox.cpp): a message queue made of a pipe and of   *)
(* the read and write operations of CResource (OS/src/CResource.cpp).      *)
(*                                                                         *)
(* A message (24 bytes) is shorter than PIPE_BUF, so the kernel writes and *)
(* reads whole messages; write blocks while the pipe is full, read while   *)
(* it is empty.  CResource::write keeps m_mutex_w for the whole call,      *)
(* CResource::read keeps m_mutex_r, also while they are blocked.           *)
(* No code closes a mailbox while the threads run, so m_status does not    *)
(* change after the constructor and its two checks (in the mailbox and in  *)
(* the resource) are one step.                                             *)
(***************************************************************************)
EXTENDS Naturals, Sequences

CONSTANTS
  Senders,    (* Threads that call send.                                   *)
  Receivers,  (* Threads that call receive.                                *)
  Message,    (* Abstract MailBoxData values.                              *)
  NoMessage,  (* msg = {0}.                                                *)
  Unlocked,   (* The owner of a mutex that nobody holds.                   *)
  Capacity    (* Messages that fit into the pipe (64 KiB in the program).  *)

ASSUME MailBoxAssumption ==
  /\ NoMessage \notin Message
  /\ Unlocked \notin Senders \cup Receivers
  /\ Capacity \in Nat \ {0}

VARIABLES
  status,   (* m_status                                                    *)
  pipe,     (* The messages between m_fd_w and m_fd_r.                     *)
  mutexW,   (* The thread that holds m_mutex_w, or Unlocked.               *)
  mutexR,   (* The thread that holds m_mutex_r, or Unlocked.               *)
  spc,      (* A sender: "idle", "check", "lock", "write" or "unlock".     *)
  rpc,      (* A receiver: "idle", "check", "lock", "read" or "unlock".    *)
  msgOut,   (* The local msg of send, until it is in the pipe.             *)
  msgIn,    (* The local msg of receive.                                   *)
  sendRc,   (* Return code of a sender's last call.                        *)
  recvRc    (* Return code of a receiver's last call.                      *)

sendVars == <<spc, msgOut, sendRc>>
recvVars == <<rpc, msgIn, recvRc>>
mutexes  == <<mutexW, mutexR>>
mailBoxVars == <<status, pipe, mutexes, sendVars, recvVars>>

(* The constructor: UNAVAILABLE, and READY once configure() has the pipe.  *)
MailBoxInit ==
  /\ status \in {"service_UNAVAILABLE", "service_READY"}
  /\ pipe = <<>>
  /\ mutexW = Unlocked /\ mutexR = Unlocked
  /\ spc = [s \in Senders |-> "idle"]
  /\ rpc = [r \in Receivers |-> "idle"]
  /\ msgOut = [s \in Senders |-> NoMessage]
  /\ msgIn = [r \in Receivers |-> NoMessage]
  /\ sendRc = [s \in Senders |-> "none"]
  /\ recvRc = [r \in Receivers |-> "none"]

SenderMoves(s, from, to)   == spc[s] = from /\ spc' = [spc EXCEPT ![s] = to]
ReceiverMoves(r, from, to) == rpc[r] = from /\ rpc' = [rpc EXCEPT ![r] = to]

-----------------------------------------------------------------------------
(* send, and the CResource::write it calls                                 *)

SendBegin(s, m) ==
  /\ SenderMoves(s, "idle", "check")
  /\ msgOut' = [msgOut EXCEPT ![s] = m]
  /\ UNCHANGED <<status, pipe, mutexes, sendRc, recvVars>>

SendRefused(s) ==
  /\ status # "service_READY"
  /\ SenderMoves(s, "check", "idle")
  /\ msgOut' = [msgOut EXCEPT ![s] = NoMessage]
  /\ sendRc' = [sendRc EXCEPT ![s] = "RC_ERROR_INVALID_STATE"]
  /\ UNCHANGED <<status, pipe, mutexes, recvVars>>

(* Mutant: the status is not checked.                                      *)
SendUnchecked(s) ==
  /\ SenderMoves(s, "check", "lock")
  /\ UNCHANGED <<status, pipe, mutexes, msgOut, sendRc, recvVars>>

SendChecked(s) ==
  /\ status = "service_READY"
  /\ SenderMoves(s, "check", "lock")
  /\ UNCHANGED <<status, pipe, mutexes, msgOut, sendRc, recvVars>>

WriteLock(s) ==
  /\ mutexW = Unlocked
  /\ mutexW' = s
  /\ SenderMoves(s, "lock", "write")
  /\ UNCHANGED <<status, pipe, mutexR, msgOut, sendRc, recvVars>>

PipeWrite(s) ==
  /\ Len(pipe) < Capacity
  /\ pipe' = Append(pipe, msgOut[s])
  /\ msgOut' = [msgOut EXCEPT ![s] = NoMessage]
  /\ SenderMoves(s, "write", "unlock")
  /\ UNCHANGED <<status, mutexes, sendRc, recvVars>>

WriteUnlock(s) ==
  /\ SenderMoves(s, "unlock", "idle")
  /\ mutexW' = Unlocked
  /\ sendRc' = [sendRc EXCEPT ![s] = "RC_SUCCESS"]
  /\ UNCHANGED <<status, pipe, mutexR, msgOut, recvVars>>

-----------------------------------------------------------------------------
(* receive, and the CResource::read it calls                               *)

ReceiveBegin(r) ==
  /\ ReceiverMoves(r, "idle", "check")
  /\ msgIn' = [msgIn EXCEPT ![r] = NoMessage]
  /\ UNCHANGED <<status, pipe, mutexes, recvRc, sendVars>>

ReceiveRefused(r) ==
  /\ status # "service_READY"
  /\ ReceiverMoves(r, "check", "idle")
  /\ recvRc' = [recvRc EXCEPT ![r] = "RC_ERROR_INVALID_STATE"]
  /\ UNCHANGED <<status, pipe, mutexes, msgIn, sendVars>>

ReceiveChecked(r) ==
  /\ status = "service_READY"
  /\ ReceiverMoves(r, "check", "lock")
  /\ UNCHANGED <<status, pipe, mutexes, msgIn, recvRc, sendVars>>

LockForReading(r) ==
  /\ mutexR = Unlocked
  /\ mutexR' = r
  /\ ReceiverMoves(r, "lock", "read")
  /\ UNCHANGED <<status, pipe, mutexW, msgIn, recvRc, sendVars>>

(* Mutant: a resource with one mutex for both directions.                  *)
ReadLockShared(r) == mutexW = Unlocked /\ LockForReading(r)

(* Mutant: read takes the mutex of write.                                  *)
ReadLockWriter(r) ==
  /\ mutexW = Unlocked
  /\ mutexW' = r
  /\ ReceiverMoves(r, "lock", "read")
  /\ UNCHANGED <<status, pipe, mutexR, msgIn, recvRc, sendVars>>

ReadLock(r) == LockForReading(r)

PipeRead(r) ==
  /\ pipe # <<>>
  /\ msgIn' = [msgIn EXCEPT ![r] = Head(pipe)]
  /\ pipe' = Tail(pipe)
  /\ ReceiverMoves(r, "read", "unlock")
  /\ UNCHANGED <<status, mutexes, recvRc, sendVars>>

ReadUnlock(r) ==
  /\ ReceiverMoves(r, "unlock", "idle")
  /\ mutexR' = Unlocked
  /\ recvRc' = [recvRc EXCEPT ![r] = "RC_SUCCESS"]
  /\ UNCHANGED <<status, pipe, mutexW, msgIn, sendVars>>

-----------------------------------------------------------------------------
SenderGoesOn(s) ==
  \/ SendRefused(s) \/ SendChecked(s) \/ WriteLock(s)
  \/ PipeWrite(s) \/ WriteUnlock(s)

ReceiverGoesOn(r) ==
  \/ ReceiveRefused(r) \/ ReceiveChecked(r) \/ ReadLock(r)
  \/ PipeRead(r) \/ ReadUnlock(r)

MailBoxNext ==
  \/ \E s \in Senders : SenderGoesOn(s) \/ \E m \in Message : SendBegin(s, m)
  \/ \E r \in Receivers : ReceiverGoesOn(r) \/ ReceiveBegin(r)

(* A thread inside a call is scheduled whenever it can go on.  The services
   that receive do nothing else (CComTxService::run), so they call again;
   nothing obliges a sender to send.  A pthread mutex is not fair: a thread
   that waits for one may be overtaken for ever.                           *)
Fairness ==
  /\ \A s \in Senders : WF_mailBoxVars(SenderGoesOn(s))
  /\ \A r \in Receivers :
       WF_mailBoxVars(ReceiverGoesOn(r)) /\ WF_mailBoxVars(ReceiveBegin(r))

MailBoxSpec     == MailBoxInit /\ [][MailBoxNext]_mailBoxVars
MailBoxFairSpec == MailBoxSpec /\ Fairness

-----------------------------------------------------------------------------
(* Every variable stays in its range; a mutex is held by the thread that is
   between its lock and its unlock, of which there is one at most.         *)
MailBoxTypeOK ==
  /\ status \in {"service_UNAVAILABLE", "service_READY"}
  /\ pipe \in Seq(Message) /\ Len(pipe) <= Capacity
  /\ mutexW \in Senders \cup {Unlocked} /\ mutexR \in Receivers \cup {Unlocked}
  /\ \A s \in Senders : mutexW = s <=> spc[s] \in {"write", "unlock"}
  /\ \A r \in Receivers : mutexR = r <=> rpc[r] \in {"read", "unlock"}
  /\ spc \in [Senders -> {"idle", "check", "lock", "write", "unlock"}]
  /\ rpc \in [Receivers -> {"idle", "check", "lock", "read", "unlock"}]
  /\ msgOut \in [Senders -> Message \cup {NoMessage}]
  /\ msgIn \in [Receivers -> Message \cup {NoMessage}]
  /\ sendRc \in [Senders -> {"none", "RC_SUCCESS", "RC_ERROR_INVALID_STATE"}]
  /\ recvRc \in [Receivers -> {"none", "RC_SUCCESS", "RC_ERROR_INVALID_STATE"}]

(* The mailbox implements a bounded FIFO channel: no message is lost, made
   up, duplicated or overtaken, and a failed call has had no effect.       *)
Pipe == INSTANCE Channel WITH
  ready  <- status = "service_READY",
  queue  <- pipe,
  out    <- msgOut,
  in     <- msgIn,
  sendRc <- [s \in Senders |-> IF spc[s] = "idle" THEN sendRc[s] ELSE "calling"],
  recvRc <- [r \in Receivers |-> IF rpc[r] = "idle" THEN recvRc[r] ELSE "calling"]

ImplementsChannel == Pipe!Init /\ [][Pipe!Next]_(Pipe!vars)

(* It also serves its callers as the channel does: while there is room a
   blocked send goes on, while there is a message a blocked receive does,
   and both return.  In particular a sender that is blocked on a full pipe,
   with m_mutex_w in its hand, gets out of the write again: it never locks
   out the receiver.                                                       *)
CallersServed ==
  /\ Pipe!Fairness
  /\ \A s \in Senders : spc[s] = "write" ~> spc[s] = "idle"
=============================================================================
