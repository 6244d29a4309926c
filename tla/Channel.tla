------------------------------ MODULE Channel -------------------------------
(***************************************************************************)
(* What a CMailBox promises to the threads that use it: a bounded FIFO     *)
(* channel.  A send that succeeds has put its message at the end of the    *)
(* queue exactly once, at one moment of the call; a send that fails has    *)
(* put nothing.  A receive that succeeds has taken the oldest message.     *)
(* Nothing is promised about the order in which waiting threads are served. *)
(***************************************************************************)
EXTENDS Naturals, Sequences

CONSTANTS
  Senders,    (* Threads that call send.                                   *)
  Receivers,  (* Threads that call receive.                                *)
  Message,    (* The messages, NoMessage is none of them.                  *)
  NoMessage,
  Capacity    (* Messages that fit into the queue.                         *)

VARIABLES
  ready,   (* The channel could be created.                                *)
  queue,   (* Messages that were sent and not received yet.                *)
  out,     (* The message a sender has not put into the queue yet.         *)
  in,      (* The message a receiver has taken.                            *)
  sendRc,  (* Return code of a sender's last call, "calling" during one.   *)
  recvRc   (* The same for the receivers.                                  *)

sendVars == <<out, sendRc>>
recvVars == <<in, recvRc>>
vars == <<ready, queue, sendVars, recvVars>>

Init ==
  /\ ready \in BOOLEAN
  /\ queue = <<>>
  /\ out = [s \in Senders |-> NoMessage]
  /\ in = [r \in Receivers |-> NoMessage]
  /\ sendRc = [s \in Senders |-> "none"]
  /\ recvRc = [r \in Receivers |-> "none"]

-----------------------------------------------------------------------------
Send(s, m) ==
  /\ sendRc[s] # "calling"
  /\ sendRc' = [sendRc EXCEPT ![s] = "calling"]
  /\ out' = [out EXCEPT ![s] = m]
  /\ UNCHANGED <<ready, queue, recvVars>>

Put(s) ==
  /\ ready
  /\ out[s] # NoMessage
  /\ Len(queue) < Capacity
  /\ queue' = Append(queue, out[s])
  /\ out' = [out EXCEPT ![s] = NoMessage]
  /\ UNCHANGED <<ready, sendRc, recvVars>>

SendReturn(s) ==
  /\ sendRc[s] = "calling"
  /\ IF ready THEN out[s] = NoMessage ELSE TRUE
  /\ sendRc' = [sendRc EXCEPT ![s] =
                  IF ready THEN "RC_SUCCESS" ELSE "RC_ERROR_INVALID_STATE"]
  /\ out' = [out EXCEPT ![s] = NoMessage]
  /\ UNCHANGED <<ready, queue, recvVars>>

-----------------------------------------------------------------------------
Receive(r) ==
  /\ recvRc[r] # "calling"
  /\ recvRc' = [recvRc EXCEPT ![r] = "calling"]
  /\ in' = [in EXCEPT ![r] = NoMessage]
  /\ UNCHANGED <<ready, queue, sendVars>>

Get(r) ==
  /\ recvRc[r] = "calling" /\ in[r] = NoMessage
  /\ queue # <<>>
  /\ in' = [in EXCEPT ![r] = Head(queue)]
  /\ queue' = Tail(queue)
  /\ UNCHANGED <<ready, recvRc, sendVars>>

ReceiveReturn(r) ==
  /\ recvRc[r] = "calling"
  /\ ready => in[r] # NoMessage
  /\ recvRc' = [recvRc EXCEPT ![r] =
                  IF ready THEN "RC_SUCCESS" ELSE "RC_ERROR_INVALID_STATE"]
  /\ UNCHANGED <<ready, queue, in, sendVars>>

-----------------------------------------------------------------------------
SenderStep(s)   == Put(s) \/ SendReturn(s) \/ \E m \in Message : Send(s, m)
ReceiverStep(r) == Get(r) \/ ReceiveReturn(r) \/ Receive(r)

Next == \/ \E s \in Senders : SenderStep(s)
        \/ \E r \in Receivers : ReceiverStep(r)

(* Waiting threads are served, but no particular one of them.              *)
Fairness ==
  /\ WF_vars(\E s \in Senders : Put(s))
  /\ WF_vars(\E r \in Receivers : Get(r))
  /\ \A s \in Senders : WF_vars(SendReturn(s))
  /\ \A r \in Receivers : WF_vars(ReceiveReturn(r))

Spec == Init /\ [][Next]_vars /\ Fairness
=============================================================================
