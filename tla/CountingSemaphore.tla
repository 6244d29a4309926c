------------------------- MODULE CountingSemaphore -------------------------
(***************************************************************************)
(* What a CSemaphore promises to its users: a number of permits.  Each     *)
(* call takes effect at one moment between its beginning and its return:   *)
(* post adds a permit; a wait that succeeds takes one; trywait fails, and  *)
(* timedwait times out, only at a moment at which there is none.           *)
(***************************************************************************)
EXTENDS Naturals

CONSTANTS
  Thread,      (* The threads that use the semaphore.                      *)
  MaxInitial   (* Bound: the permits it is constructed with.               *)

VARIABLES
  permits,  (* The permits that can be taken.                              *)
  call,     (* The call a thread is in, until it takes effect; or "none".  *)
  rc        (* The return code of a thread's last call.                    *)

vars == <<permits, call, rc>>

Init ==
  /\ permits \in 0 .. MaxInitial
  /\ call = [t \in Thread |-> "none"]
  /\ rc = [t \in Thread |-> "none"]

Begin(t, op) ==
  /\ call[t] = "none"
  /\ call' = [call EXCEPT ![t] = op]
  /\ UNCHANGED <<permits, rc>>

Effect(t, code) ==
  /\ call' = [call EXCEPT ![t] = "none"]
  /\ rc' = [rc EXCEPT ![t] = code]

Post(t) ==
  /\ call[t] = "post"
  /\ permits' = permits + 1
  /\ Effect(t, "RC_SUCCESS")

Take(t) ==
  /\ call[t] \in {"wait", "trywait", "timedwait"}
  /\ permits > 0
  /\ permits' = permits - 1
  /\ Effect(t, "RC_SUCCESS")

Refuse(t) ==
  /\ permits = 0
  /\ \/ call[t] = "trywait" /\ Effect(t, "RC_ERROR")
     \/ call[t] = "timedwait" /\ Effect(t, "RC_ERROR_TIME_OUT")
  /\ UNCHANGED permits

Next == \E t \in Thread :
          \/ \E op \in {"wait", "trywait", "timedwait", "post"} : Begin(t, op)
          \/ Post(t) \/ Take(t) \/ Refuse(t)

Spec == Init /\ [][Next]_vars
=============================================================================
