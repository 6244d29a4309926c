----------------------------- MODULE OS_proofs ------------------------------
(***************************************************************************)
(* Proofs about the two services of OS/ that threads share: CSemaphore,    *)
(* for every finite set of threads, every initial number of permits, and   *)
(* any number of calls and spurious wake-ups; and CMailBox, for any sets   *)
(* of senders, receivers and messages and every size of the pipe.          *)
(***************************************************************************)
EXTENDS Semaphore, MailBox, FiniteSetTheorems, SequenceTheorems, TLAPS


-----------------------------------------------------------------------------
(* Every variable stays in its range, and the mutex is held by exactly the
   thread that is between its lock and its release.                        *)

LEMMA TypeOKInit == Init => TypeOK
  BY SemaphoreAssumption DEF Init, TypeOK, Location, HoldsMutex, Operation

LEMMA TypeOKStep == TypeOK /\ [Next]_vars => TypeOK'
<1> SUFFICES ASSUME TypeOK, [Next]_vars PROVE TypeOK'
  OBVIOUS
<1> USE SemaphoreAssumption DEF TypeOK, Location, HoldsMutex
<1>1. CASE UNCHANGED vars
  BY <1>1 DEF vars
<1>2. ASSUME NEW t \in Thread, NEW o \in Operation, Call(t, o) PROVE TypeOK'
  BY <1>2 DEF Call, Moves
<1>3. ASSUME NEW t \in Thread, Acquire(t) PROVE TypeOK'
  BY <1>3 DEF Acquire, Moves
<1>4. ASSUME NEW t \in Thread, Release(t) PROVE TypeOK'
  BY <1>4 DEF Release, Moves
<1>5. ASSUME NEW t \in Thread, Take(t) PROVE TypeOK'
  BY <1>5 DEF Take, Decide, Moves
<1>6. ASSUME NEW t \in Thread, FallAsleep(t) PROVE TypeOK'
  BY <1>6 DEF FallAsleep, Moves
<1>7. ASSUME NEW t \in Thread, Refuse(t) PROVE TypeOK'
  BY <1>7 DEF Refuse, Decide, Moves
<1>8. ASSUME NEW t \in Thread, TimeOut(t) PROVE TypeOK'
  BY <1>8 DEF TimeOut, Decide, Moves
<1>9. ASSUME NEW t \in Thread, Increment(t) PROVE TypeOK'
  BY <1>9 DEF Increment, Moves
<1>10. ASSUME NEW t \in Thread, NotifyOne(t) PROVE TypeOK'
  BY <1>10 DEF NotifyOne, Asleep
<1>11. ASSUME NEW t \in Thread, SpuriousWakeUp(t) PROVE TypeOK'
  BY <1>11 DEF SpuriousWakeUp, WakesUp, Moves
<1>12. ASSUME NEW t \in Thread, TimeOver(t) PROVE TypeOK'
  BY <1>12 DEF TimeOver, WakesUp, Moves
<1> QED
  BY <1>1, <1>2, <1>3, <1>4, <1>5, <1>6, <1>7, <1>8, <1>9, <1>10, <1>11, <1>12 DEF Next, GoesOn

(* The mutex is held by exactly the thread between its lock and its
   release, and every variable stays in its range.                         *)
THEOREM TypeCorrect == Spec => []TypeOK
  BY TypeOKInit, TypeOKStep, PTL DEF Spec

-----------------------------------------------------------------------------
(* The threads on their way to a permit are finitely many.                 *)
LEMMA OnTheWayFinite == IsFiniteSet(OnTheWay) /\ Cardinality(OnTheWay) \in Nat
  BY SemaphoreAssumption, FS_Subset, FS_CardinalityType DEF OnTheWay

(* A thread that joins those that are on their way makes them one more.    *)
LEMMA OneJoins ==
  ASSUME NEW t, t \notin OnTheWay, OnTheWay' = OnTheWay \cup {t}
  PROVE  Cardinality(OnTheWay') = Cardinality(OnTheWay) + 1
  BY OnTheWayFinite, FS_AddElement

LEMMA OneLeaves ==
  ASSUME NEW t, t \in OnTheWay, OnTheWay' = OnTheWay \ {t}
  PROVE  Cardinality(OnTheWay') = Cardinality(OnTheWay) - 1
  BY OnTheWayFinite, FS_RemoveElement

(* No wake-up gets lost: the step of each action.  A permit is added by a
   post that is on its way from then on; whoever leaves the way either takes
   a permit with it, saw that there is none, or woke up another thread; and
   a thread falls asleep only beside no permit at all.                     *)
LEMMA NoLostWakeUpStep == TypeOK /\ TypeOK' /\ NoLostWakeUp /\ [Next]_vars => NoLostWakeUp'
<1> SUFFICES ASSUME TypeOK, TypeOK', NoLostWakeUp, [Next]_vars, Asleep' # {}
             PROVE  count' <= Cardinality(OnTheWay')
  BY DEF NoLostWakeUp
<1> USE DEF TypeOK
<1>a. count \in Nat /\ count' \in Nat
  OBVIOUS
<1>b. Cardinality(OnTheWay) \in Nat /\ IsFiniteSet(OnTheWay)
  BY OnTheWayFinite
<1>c. Cardinality(OnTheWay') \in Nat
  BY SemaphoreAssumption, FS_Subset, FS_CardinalityType DEF OnTheWay
(* Nothing of it changes, or more threads are asleep than before.          *)
<1>d. ASSUME count' = count, OnTheWay' = OnTheWay, Asleep' = Asleep
      PROVE  count' <= Cardinality(OnTheWay')
  BY <1>d DEF NoLostWakeUp
<1>1. CASE UNCHANGED vars
  BY <1>1, <1>d DEF vars, OnTheWay, Asleep
<1>2. ASSUME NEW t \in Thread, NEW o \in Operation, Call(t, o) PROVE count' <= Cardinality(OnTheWay')
  <2>1. count' = count /\ OnTheWay' = OnTheWay /\ Asleep' = Asleep
    BY <1>2 DEF Call, Moves, OnTheWay, Asleep
  <2> QED
    BY <1>d, <2>1
<1>3. ASSUME NEW t \in Thread, Acquire(t) PROVE count' <= Cardinality(OnTheWay')
  <2>1. count' = count /\ OnTheWay' = OnTheWay /\ Asleep' = Asleep
    BY <1>3 DEF Acquire, Moves, OnTheWay, Asleep
  <2> QED
    BY <1>d, <2>1
<1>4. ASSUME NEW t \in Thread, Release(t) PROVE count' <= Cardinality(OnTheWay')
  <2>1. count' = count /\ OnTheWay' = OnTheWay /\ Asleep' = Asleep
    BY <1>4 DEF Release, Moves, OnTheWay, Asleep
  <2> QED
    BY <1>d, <2>1
<1>5. ASSUME NEW t \in Thread, Take(t) PROVE count' <= Cardinality(OnTheWay')
  <2>1. count' = count - 1 /\ Asleep' = Asleep /\ pc' = [pc EXCEPT ![t] = "leave"]
    BY <1>5 DEF Take, Decide, Moves, Asleep
  <2>2. count <= Cardinality(OnTheWay)
    BY <2>1 DEF NoLostWakeUp
  <2>3. CASE t \in OnTheWay
    <3>1. OnTheWay' = OnTheWay \ {t}
      BY <2>1 DEF OnTheWay
    <3>2. Cardinality(OnTheWay') = Cardinality(OnTheWay) - 1
      BY <2>3, <3>1, OneLeaves
    <3> QED
      BY <1>a, <1>b, <2>1, <2>2, <3>2
  <2>4. CASE t \notin OnTheWay
    <3>1. OnTheWay' = OnTheWay
      BY <2>1, <2>4 DEF OnTheWay
    <3> QED
      BY <1>a, <1>b, <2>1, <2>2, <3>1
  <2> QED
    BY <2>3, <2>4
<1>6. ASSUME NEW t \in Thread, FallAsleep(t) PROVE count' <= Cardinality(OnTheWay')
  BY <1>6, <1>c DEF FallAsleep
<1>7. ASSUME NEW t \in Thread, Refuse(t) PROVE count' <= Cardinality(OnTheWay')
  BY <1>7, <1>c DEF Refuse
<1>8. ASSUME NEW t \in Thread, TimeOut(t) PROVE count' <= Cardinality(OnTheWay')
  BY <1>8, <1>c DEF TimeOut
<1>9. ASSUME NEW t \in Thread, Increment(t) PROVE count' <= Cardinality(OnTheWay')
  <2>1. count' = count + 1 /\ Asleep' = Asleep
    BY <1>9 DEF Increment, Moves, Asleep
  <2>2. t \notin OnTheWay /\ OnTheWay' = OnTheWay \cup {t}
    BY <1>9 DEF Increment, Moves, OnTheWay
  <2>3. Cardinality(OnTheWay') = Cardinality(OnTheWay) + 1
    BY <2>2, OneJoins
  <2>4. count <= Cardinality(OnTheWay)
    BY <2>1 DEF NoLostWakeUp
  <2> QED
    BY <1>a, <1>b, <2>1, <2>3, <2>4
<1>10. ASSUME NEW t \in Thread, NotifyOne(t) PROVE count' <= Cardinality(OnTheWay')
  <2>1. PICK s \in Asleep : pc' = [pc EXCEPT ![t] = "leave", ![s] = "relock"]
    BY <1>10 DEF NotifyOne, Asleep
  <2>2. s \in Thread /\ pc[s] = "asleep" /\ pc[t] = "notify" /\ s # t /\ count' = count
    BY <1>10, <2>1 DEF NotifyOne, Asleep
  <2>3. t \in OnTheWay /\ s \notin OnTheWay /\ OnTheWay' = (OnTheWay \ {t}) \cup {s}
    BY <2>1, <2>2 DEF OnTheWay
  <2>4. IsFiniteSet(OnTheWay \ {t}) /\ Cardinality(OnTheWay \ {t}) = Cardinality(OnTheWay) - 1
    BY <1>b, <2>3, FS_RemoveElement
  <2>5. Cardinality(OnTheWay') = Cardinality(OnTheWay \ {t}) + 1
    BY <2>3, <2>4, FS_AddElement
  <2>6. count <= Cardinality(OnTheWay)
    BY DEF NoLostWakeUp
  <2> QED
    BY <1>a, <1>b, <2>2, <2>4, <2>5, <2>6
<1>11. ASSUME NEW t \in Thread, NEW to \in {"relock", "late"}, WakesUp(t, to)
       PROVE  count' <= Cardinality(OnTheWay')
  <2>1. count' = count /\ t \in Asleep
    BY <1>11 DEF WakesUp, Moves, Asleep
  <2>2. t \notin OnTheWay /\ OnTheWay' = OnTheWay \cup {t}
    BY <1>11 DEF WakesUp, Moves, OnTheWay
  <2>3. Cardinality(OnTheWay') = Cardinality(OnTheWay) + 1
    BY <2>2, OneJoins
  <2>4. count <= Cardinality(OnTheWay)
    BY <2>1 DEF NoLostWakeUp
  <2> QED
    BY <1>a, <1>b, <2>1, <2>3, <2>4
<1>12. ASSUME NEW t \in Thread, SpuriousWakeUp(t) \/ TimeOver(t) PROVE count' <= Cardinality(OnTheWay')
  BY <1>11, <1>12 DEF SpuriousWakeUp, TimeOver
<1> QED
  BY <1>1, <1>2, <1>3, <1>4, <1>5, <1>6, <1>7, <1>8, <1>9, <1>10, <1>12 DEF Next, GoesOn

(* While a thread sleeps, every permit has a thread of its own on the way to
   it: no wake-up of a post is lost.                                       *)
THEOREM WakeUpsAreNotLost == Spec => []NoLostWakeUp
<1>1. Init => NoLostWakeUp
  <2>1. Init => Asleep = {}
    BY DEF Init, Asleep
  <2> QED
    BY <2>1 DEF NoLostWakeUp
<1> QED
  BY <1>1, TypeCorrect, NoLostWakeUpStep, PTL DEF Spec

-----------------------------------------------------------------------------
(* CSemaphore implements the counting semaphore: each step is one of it, or
   changes nothing that it shows.                                          *)

(* The call that a thread is in, as the counting semaphore sees it.        *)
CallOf == [t \in Thread |-> IF pc[t] \in {"idle", "notify", "leave"} THEN "none" ELSE op[t]]

LEMMA CountingStep == TypeOK /\ [Next]_vars => [Permits!Next]_(Permits!vars)
<1> SUFFICES ASSUME TypeOK, [Next]_vars
             PROVE  Permits!Next \/ (count' = count /\ CallOf' = CallOf /\ rc' = rc)
  BY DEF Permits!vars, CallOf
<1> USE DEF TypeOK
<1>1. CASE UNCHANGED vars
  BY <1>1 DEF vars, CallOf
<1>2. ASSUME NEW t \in Thread, NEW o \in Operation, Call(t, o) PROVE Permits!Next
  <2>1. CallOf[t] = "none" /\ CallOf' = [CallOf EXCEPT ![t] = o] /\ count' = count /\ rc' = rc
    BY <1>2 DEF Call, Moves, CallOf
  <2>2. Permits!Begin(t, o)
    BY <2>1 DEF Permits!Begin, CallOf
  <2> QED
    BY <1>2, <2>2 DEF Permits!Next, Operation
<1>3. ASSUME NEW t \in Thread, Acquire(t) \/ Release(t) \/ FallAsleep(t) \/ NotifyOne(t)
                               \/ SpuriousWakeUp(t) \/ TimeOver(t)
      PROVE  count' = count /\ CallOf' = CallOf /\ rc' = rc
  <2>1. CASE Acquire(t)
    BY <2>1 DEF Acquire, Moves, CallOf
  <2>2. CASE Release(t)
    BY <2>2 DEF Release, Moves, CallOf
  <2>3. CASE FallAsleep(t)
    BY <2>3 DEF FallAsleep, Moves, CallOf
  <2>4. CASE NotifyOne(t)
    BY <2>4 DEF NotifyOne, Asleep, CallOf
  <2>5. CASE SpuriousWakeUp(t)
    BY <2>5 DEF SpuriousWakeUp, WakesUp, Moves, CallOf
  <2>6. CASE TimeOver(t)
    BY <2>6 DEF TimeOver, WakesUp, Moves, CallOf
  <2> QED
    BY <1>3, <2>1, <2>2, <2>3, <2>4, <2>5, <2>6
<1>4. ASSUME NEW t \in Thread, NEW code, Decide(t, {"test", "retest", "last"}, code)
      PROVE  CallOf[t] = op[t] /\ CallOf' = [CallOf EXCEPT ![t] = "none"] /\ rc' = [rc EXCEPT ![t] = code]
  BY <1>4 DEF Decide, Moves, CallOf
<1>5. ASSUME NEW t \in Thread, Take(t) PROVE Permits!Next
  <2>1. CallOf[t] = op[t] /\ CallOf' = [CallOf EXCEPT ![t] = "none"] /\ rc' = [rc EXCEPT ![t] = "RC_SUCCESS"]
    BY <1>4, <1>5 DEF Take
  <2>2. op[t] \in {"wait", "trywait", "timedwait"} /\ count > 0 /\ count' = count - 1
    BY <1>5 DEF Take, Operation
  <2>3. Permits!Take(t)
    BY <2>1, <2>2 DEF Permits!Take, Permits!Effect, CallOf
  <2> QED
    BY <2>3 DEF Permits!Next
<1>6. ASSUME NEW t \in Thread, Refuse(t) \/ TimeOut(t) PROVE Permits!Next
  <2>1. PICK code : /\ Decide(t, {"test", "retest", "last"}, code)
                    /\ \/ op[t] = "trywait" /\ code = "RC_ERROR"
                       \/ op[t] = "timedwait" /\ code = "RC_ERROR_TIME_OUT"
                    /\ count = 0 /\ count' = count
    BY <1>6 DEF Refuse, TimeOut, Decide, Moves
  <2>2. CallOf[t] = op[t] /\ CallOf' = [CallOf EXCEPT ![t] = "none"] /\ rc' = [rc EXCEPT ![t] = code]
    BY <1>4, <2>1
  <2>3. Permits!Refuse(t)
    BY <2>1, <2>2 DEF Permits!Refuse, Permits!Effect, CallOf
  <2> QED
    BY <2>3 DEF Permits!Next
<1>7. ASSUME NEW t \in Thread, Increment(t) PROVE Permits!Next
  <2>1. /\ CallOf[t] = "post" /\ CallOf' = [CallOf EXCEPT ![t] = "none"]
        /\ count' = count + 1 /\ rc' = [rc EXCEPT ![t] = "RC_SUCCESS"]
    BY <1>7 DEF Increment, Moves, CallOf
  <2>2. Permits!Post(t)
    BY <2>1 DEF Permits!Post, Permits!Effect, CallOf
  <2> QED
    BY <2>2 DEF Permits!Next
<1> QED
  BY <1>1, <1>2, <1>3, <1>5, <1>6, <1>7 DEF Next, GoesOn

(* To its callers the semaphore is the counter of permits.                *)
THEOREM SemaphoreImplementsCounting == Spec => ImplementsCounting
<1>1. Init => Permits!Init
  BY DEF Init, Permits!Init
<1> QED
  BY <1>1, CountingStep, TypeCorrect, PTL DEF Spec, ImplementsCounting, Permits!Spec

-----------------------------------------------------------------------------
(* The mailbox.                                                            *)

(* What a thread inside a call knows, by its place in the code: the mailbox
   is ready behind the check of its status, and the message is still with
   the sender, or already with the receiver.                               *)
SenderKnows ==
  \A s \in Senders :
     /\ spc[s] \in {"lock", "write", "unlock"} => status = "service_READY"
     /\ msgOut[s] # NoMessage <=> spc[s] \in {"check", "lock", "write"}

ReceiverKnows ==
  \A r \in Receivers :
     /\ rpc[r] \in {"lock", "read", "unlock"} => status = "service_READY"
     /\ rpc[r] \in {"check", "lock", "read"} => msgIn[r] = NoMessage
     /\ rpc[r] = "unlock" => msgIn[r] # NoMessage

MailBoxInv == MailBoxTypeOK /\ SenderKnows /\ ReceiverKnows

LEMMA MailBoxInvInit == MailBoxInit => MailBoxInv
<1> SUFFICES ASSUME MailBoxInit PROVE MailBoxInv
  OBVIOUS
<1> USE MailBoxAssumption DEF MailBoxInit
<1>1. MailBoxTypeOK
  BY DEF MailBoxTypeOK
<1>2. SenderKnows /\ ReceiverKnows
  BY DEF SenderKnows, ReceiverKnows
<1> QED
  BY <1>1, <1>2 DEF MailBoxInv

LEMMA SenderInv ==
  ASSUME MailBoxInv, NEW s \in Senders, SenderGoesOn(s) \/ \E m \in Message : SendBegin(s, m)
  PROVE  MailBoxInv'
<1> USE MailBoxAssumption DEF MailBoxInv, MailBoxTypeOK, SenderMoves
<1>1. UNCHANGED <<status, mutexR, recvVars>>
  BY DEF SenderGoesOn, SendBegin, SendRefused, SendChecked, WriteLock, PipeWrite, WriteUnlock, mutexes
<1>2. ReceiverKnows'
  BY <1>1 DEF ReceiverKnows, recvVars
<1>3. pipe' \in Seq(Message) /\ Len(pipe') <= Capacity
  <2>1. CASE PipeWrite(s)
    <3>1. msgOut[s] \in Message
      BY <2>1 DEF PipeWrite, SenderKnows
    <3> QED
      BY <2>1, <3>1 DEF PipeWrite
  <2>2. CASE ~PipeWrite(s)
    BY <2>2 DEF SenderGoesOn, SendBegin, SendRefused, SendChecked, WriteLock, WriteUnlock
  <2> QED
    BY <2>1, <2>2
<1>4. CASE \E m \in Message : SendBegin(s, m)
  BY <1>1, <1>2, <1>3, <1>4 DEF SendBegin, SenderKnows, mutexes, recvVars
<1>5. CASE SendRefused(s)
  BY <1>1, <1>2, <1>3, <1>5 DEF SendRefused, SenderKnows, mutexes, recvVars
<1>6. CASE SendChecked(s)
  BY <1>1, <1>2, <1>3, <1>6 DEF SendChecked, SenderKnows, mutexes, recvVars
<1>7. CASE WriteLock(s)
  BY <1>1, <1>2, <1>3, <1>7 DEF WriteLock, SenderKnows, mutexes, recvVars
<1>8. CASE PipeWrite(s)
  BY <1>1, <1>2, <1>3, <1>8 DEF PipeWrite, SenderKnows, mutexes, recvVars
<1>9. CASE WriteUnlock(s)
  BY <1>1, <1>2, <1>3, <1>9 DEF WriteUnlock, SenderKnows, mutexes, recvVars
<1> QED
  BY <1>4, <1>5, <1>6, <1>7, <1>8, <1>9 DEF SenderGoesOn

LEMMA ReceiverInv ==
  ASSUME MailBoxInv, NEW r \in Receivers, ReceiverGoesOn(r) \/ ReceiveBegin(r)
  PROVE  MailBoxInv'
<1> USE MailBoxAssumption DEF MailBoxInv, MailBoxTypeOK, ReceiverMoves
<1>1. UNCHANGED <<status, mutexW, sendVars>>
  BY DEF ReceiverGoesOn, ReceiveBegin, ReceiveRefused, ReceiveChecked, ReadLock, LockForReading,
         PipeRead, ReadUnlock, mutexes
<1>2. SenderKnows'
  BY <1>1 DEF SenderKnows, sendVars
<1>3. pipe' \in Seq(Message) /\ Len(pipe') <= Capacity
  <2>1. CASE PipeRead(r)
    BY <2>1 DEF PipeRead
  <2>2. CASE ~PipeRead(r)
    BY <2>2 DEF ReceiverGoesOn, ReceiveBegin, ReceiveRefused, ReceiveChecked, ReadLock, LockForReading,
                ReadUnlock
  <2> QED
    BY <2>1, <2>2
<1>4. CASE ReceiveBegin(r)
  BY <1>1, <1>2, <1>3, <1>4 DEF ReceiveBegin, ReceiverKnows, mutexes, sendVars
<1>5. CASE ReceiveRefused(r)
  BY <1>1, <1>2, <1>3, <1>5 DEF ReceiveRefused, ReceiverKnows, mutexes, sendVars
<1>6. CASE ReceiveChecked(r)
  BY <1>1, <1>2, <1>3, <1>6 DEF ReceiveChecked, ReceiverKnows, mutexes, sendVars
<1>7. CASE ReadLock(r)
  BY <1>1, <1>2, <1>3, <1>7 DEF ReadLock, LockForReading, ReceiverKnows, mutexes, sendVars
<1>8. CASE PipeRead(r)
  <2>1. Head(pipe) \in Message
    BY <1>8 DEF PipeRead
  <2> QED
    BY <1>1, <1>2, <1>3, <1>8, <2>1 DEF PipeRead, ReceiverKnows, mutexes, sendVars
<1>9. CASE ReadUnlock(r)
  BY <1>1, <1>2, <1>3, <1>9 DEF ReadUnlock, ReceiverKnows, mutexes, sendVars
<1> QED
  BY <1>4, <1>5, <1>6, <1>7, <1>8, <1>9 DEF ReceiverGoesOn

LEMMA MailBoxInvStep == MailBoxInv /\ [MailBoxNext]_mailBoxVars => MailBoxInv'
<1> SUFFICES ASSUME MailBoxInv, [MailBoxNext]_mailBoxVars PROVE MailBoxInv'
  OBVIOUS
<1>1. CASE UNCHANGED mailBoxVars
  BY <1>1 DEF mailBoxVars, mutexes, sendVars, recvVars, MailBoxInv, MailBoxTypeOK, SenderKnows, ReceiverKnows
<1> QED
  BY <1>1, SenderInv, ReceiverInv DEF MailBoxNext

LEMMA MailBoxInvariance == MailBoxSpec => []MailBoxInv
  BY MailBoxInvInit, MailBoxInvStep, PTL DEF MailBoxSpec

(* Every variable stays in its range, and one thread at a time is inside
   each of write and read.                                                 *)
THEOREM MailBoxTypeCorrect == MailBoxSpec => []MailBoxTypeOK
<1>1. MailBoxInv => MailBoxTypeOK
  BY DEF MailBoxInv
<1> QED
  BY <1>1, MailBoxInvariance, PTL

-----------------------------------------------------------------------------
(* CMailBox implements the channel: the write of the pipe is the moment at
   which a message is put, the read the one at which it is taken; the locks
   do not show.                                                            *)

(* The return codes as the channel sees them.                              *)
SendCode == [s \in Senders |-> IF spc[s] = "idle" THEN sendRc[s] ELSE "calling"]
RecvCode == [r \in Receivers |-> IF rpc[r] = "idle" THEN recvRc[r] ELSE "calling"]
IsReady  == status = "service_READY"

LEMMA SenderShows ==
  ASSUME MailBoxInv, NEW s \in Senders, SenderGoesOn(s) \/ \E m \in Message : SendBegin(s, m)
  PROVE  Pipe!SenderStep(s) \/ UNCHANGED Pipe!vars
<1> USE MailBoxAssumption DEF MailBoxInv, MailBoxTypeOK, SenderMoves
<1>0. /\ UNCHANGED <<status, rpc, msgIn, recvRc>>
      /\ IsReady' = IsReady /\ RecvCode' = RecvCode
  BY DEF SenderGoesOn, SendBegin, SendRefused, SendChecked, WriteLock, PipeWrite, WriteUnlock,
         mutexes, recvVars, IsReady, RecvCode
<1>1. ASSUME NEW m \in Message, SendBegin(s, m) PROVE Pipe!Send(s, m)
  <2>1. SendCode[s] # "calling" /\ SendCode' = [SendCode EXCEPT ![s] = "calling"]
    BY <1>1 DEF SendBegin, SendCode
  <2> QED
    BY <1>0, <1>1, <2>1 DEF SendBegin, Pipe!Send, Pipe!recvVars, SendCode, RecvCode, IsReady
<1>2. CASE SendRefused(s)
  <2>1. SendCode[s] = "calling" /\ SendCode' = [SendCode EXCEPT ![s] = "RC_ERROR_INVALID_STATE"]
    BY <1>2 DEF SendRefused, SendCode
  <2>2. Pipe!SendReturn(s)
    BY <1>0, <1>2, <2>1 DEF SendRefused, Pipe!SendReturn, Pipe!recvVars, SendCode, RecvCode, IsReady
  <2> QED
    BY <2>2 DEF Pipe!SenderStep
<1>3. CASE SendChecked(s) \/ WriteLock(s)
  <2>1. SendCode' = SendCode /\ UNCHANGED <<pipe, msgOut>>
    BY <1>3 DEF SendChecked, WriteLock, SendCode
  <2> QED
    BY <1>0, <2>1 DEF Pipe!vars, Pipe!sendVars, Pipe!recvVars, SendCode, RecvCode, IsReady
<1>4. CASE PipeWrite(s)
  <2>1. SendCode' = SendCode
    BY <1>4 DEF PipeWrite, SendCode
  <2>2. IsReady /\ msgOut[s] # NoMessage
    BY <1>4 DEF PipeWrite, SenderKnows, IsReady
  <2>3. Pipe!Put(s)
    BY <1>0, <1>4, <2>1, <2>2 DEF PipeWrite, Pipe!Put, Pipe!recvVars, SendCode, RecvCode, IsReady
  <2> QED
    BY <2>3 DEF Pipe!SenderStep
<1>5. CASE WriteUnlock(s)
  <2>1. SendCode[s] = "calling" /\ SendCode' = [SendCode EXCEPT ![s] = "RC_SUCCESS"]
    BY <1>5 DEF WriteUnlock, SendCode
  <2>2. IsReady /\ msgOut[s] = NoMessage /\ msgOut' = [msgOut EXCEPT ![s] = NoMessage]
    BY <1>5 DEF WriteUnlock, SenderKnows, IsReady
  <2>3. Pipe!SendReturn(s)
    BY <1>0, <1>5, <2>1, <2>2 DEF WriteUnlock, Pipe!SendReturn, Pipe!recvVars, SendCode, RecvCode, IsReady
  <2> QED
    BY <2>3 DEF Pipe!SenderStep
<1> QED
  BY <1>1, <1>2, <1>3, <1>4, <1>5 DEF SenderGoesOn, Pipe!SenderStep

LEMMA ReceiverShows ==
  ASSUME MailBoxInv, NEW r \in Receivers, ReceiverGoesOn(r) \/ ReceiveBegin(r)
  PROVE  Pipe!ReceiverStep(r) \/ UNCHANGED Pipe!vars
<1> USE MailBoxAssumption DEF MailBoxInv, MailBoxTypeOK, ReceiverMoves
<1>0. /\ UNCHANGED <<status, spc, msgOut, sendRc>>
      /\ IsReady' = IsReady /\ SendCode' = SendCode
  BY DEF ReceiverGoesOn, ReceiveBegin, ReceiveRefused, ReceiveChecked, ReadLock, LockForReading,
         PipeRead, ReadUnlock, mutexes, sendVars, IsReady, SendCode
<1>1. CASE ReceiveBegin(r)
  <2>1. RecvCode[r] # "calling" /\ RecvCode' = [RecvCode EXCEPT ![r] = "calling"]
    BY <1>1 DEF ReceiveBegin, RecvCode
  <2>2. Pipe!Receive(r)
    BY <1>0, <1>1, <2>1 DEF ReceiveBegin, Pipe!Receive, Pipe!sendVars, SendCode, RecvCode, IsReady
  <2> QED
    BY <2>2 DEF Pipe!ReceiverStep
<1>2. CASE ReceiveRefused(r)
  <2>1. RecvCode[r] = "calling" /\ RecvCode' = [RecvCode EXCEPT ![r] = "RC_ERROR_INVALID_STATE"]
    BY <1>2 DEF ReceiveRefused, RecvCode
  <2>2. Pipe!ReceiveReturn(r)
    BY <1>0, <1>2, <2>1 DEF ReceiveRefused, Pipe!ReceiveReturn, Pipe!sendVars, SendCode, RecvCode, IsReady
  <2> QED
    BY <2>2 DEF Pipe!ReceiverStep
<1>3. CASE ReceiveChecked(r) \/ ReadLock(r)
  <2>1. RecvCode' = RecvCode /\ UNCHANGED <<pipe, msgIn>>
    BY <1>3 DEF ReceiveChecked, ReadLock, LockForReading, RecvCode
  <2> QED
    BY <1>0, <2>1 DEF Pipe!vars, Pipe!sendVars, Pipe!recvVars, SendCode, RecvCode, IsReady
<1>4. CASE PipeRead(r)
  <2>1. RecvCode' = RecvCode /\ RecvCode[r] = "calling" /\ msgIn[r] = NoMessage
    BY <1>4 DEF PipeRead, RecvCode, ReceiverKnows
  <2>2. Pipe!Get(r)
    BY <1>0, <1>4, <2>1 DEF PipeRead, Pipe!Get, Pipe!sendVars, SendCode, RecvCode, IsReady
  <2> QED
    BY <2>2 DEF Pipe!ReceiverStep
<1>5. CASE ReadUnlock(r)
  <2>1. RecvCode[r] = "calling" /\ RecvCode' = [RecvCode EXCEPT ![r] = "RC_SUCCESS"]
    BY <1>5 DEF ReadUnlock, RecvCode
  <2>2. IsReady /\ msgIn[r] # NoMessage
    BY <1>5 DEF ReadUnlock, ReceiverKnows, IsReady
  <2>3. Pipe!ReceiveReturn(r)
    BY <1>0, <1>5, <2>1, <2>2 DEF ReadUnlock, Pipe!ReceiveReturn, Pipe!sendVars, SendCode, RecvCode, IsReady
  <2> QED
    BY <2>3 DEF Pipe!ReceiverStep
<1> QED
  BY <1>1, <1>2, <1>3, <1>4, <1>5 DEF ReceiverGoesOn

LEMMA ChannelStep == MailBoxInv /\ [MailBoxNext]_mailBoxVars => [Pipe!Next]_(Pipe!vars)
<1> SUFFICES ASSUME MailBoxInv, [MailBoxNext]_mailBoxVars PROVE Pipe!Next \/ UNCHANGED Pipe!vars
  OBVIOUS
<1>1. CASE UNCHANGED mailBoxVars
  BY <1>1 DEF mailBoxVars, sendVars, recvVars, Pipe!vars, Pipe!sendVars, Pipe!recvVars
<1> QED
  BY <1>1, SenderShows, ReceiverShows DEF MailBoxNext, Pipe!Next

(* No message is lost, made up, duplicated or overtaken, and a failed call
   has had no effect.                                                      *)
THEOREM MailBoxImplementsChannel == MailBoxSpec => ImplementsChannel
<1>1. MailBoxInit => Pipe!Init
  BY DEF MailBoxInit, Pipe!Init
<1> QED
  BY <1>1, ChannelStep, MailBoxInvariance, PTL DEF MailBoxSpec, ImplementsChannel
=============================================================================
