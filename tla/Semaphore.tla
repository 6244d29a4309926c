----------------------------- MODULE Semaphore -----------------------------
(***************************************************************************)
(* CSemaphore (OS/src/CSemaphore.cpp): a counter, a std::mutex and a       *)
(* std::condition_variable.  A thread in wait or timedwait that finds no   *)
(* permit gives up the mutex and falls asleep in one step; it wakes up     *)
(* when it is notified, when its time is over, or for no reason, and then  *)
(* has to get the mutex again, which others may have before it.            *)
(*                                                                         *)
(* The lock of a std::mutex does not fail here (the catch blocks).         *)
(***************************************************************************)
EXTENDS Naturals, FiniteSets

CONSTANTS
  Thread,      (* The threads that use the semaphore.                      *)
  Free,        (* The owner of m_mutex when nobody holds it.               *)
  MaxInitial,  (* Bound: m_value, the permits at the beginning.            *)
  MaxCalls,    (* Bound: calls of the four operations.                     *)
  MaxSpurious  (* Bound: wake-ups without a reason.                        *)

ASSUME SemaphoreAssumption ==
  /\ Free \notin Thread
  /\ IsFiniteSet(Thread)
  /\ MaxInitial \in Nat /\ MaxCalls \in Nat /\ MaxSpurious \in Nat

VARIABLES
  count,   (* m_count                                                      *)
  mutex,   (* The thread that holds m_mutex, or Free.                      *)
  pc,      (* Where a thread is, see Location.                             *)
  op,      (* The operation it is in, or was in last.                      *)
  rc,      (* The return code of its last call.                            *)
  calls,   (* The calls so far.                                            *)
  spurious (* The wake-ups without a reason so far.                        *)

vars == <<count, mutex, pc, op, rc, calls, spurious>>

Operation == {"wait", "trywait", "timedwait", "post"}

(* "lock" and "test" are the first look at m_count, "relock" and "retest"
   the ones after a wake-up, "late" and "last" the one after the time is
   over; post goes through "notify".                                       *)
HoldsMutex == {"test", "retest", "last", "notify", "leave"}
Location   == HoldsMutex \cup {"idle", "lock", "asleep", "relock", "late"}

Asleep == {t \in Thread : pc[t] = "asleep"}

Moves(t, from, to) == pc[t] \in from /\ pc' = [pc EXCEPT ![t] = to]

-----------------------------------------------------------------------------
Call(t, o) ==
  /\ calls < MaxCalls
  /\ Moves(t, {"idle"}, "lock")
  /\ op' = [op EXCEPT ![t] = o]
  /\ calls' = calls + 1
  /\ UNCHANGED <<count, mutex, rc, spurious>>

Acquire(t) ==
  /\ mutex = Free
  /\ mutex' = t
  /\ \/ Moves(t, {"lock"}, "test")
     \/ Moves(t, {"relock"}, "retest")
     \/ Moves(t, {"late"}, "last")
  /\ UNCHANGED <<count, op, rc, calls, spurious>>

(* The end of the scope of the lock.                                       *)
Release(t) ==
  /\ Moves(t, {"leave"}, "idle")
  /\ mutex' = Free
  /\ UNCHANGED <<count, op, rc, calls, spurious>>

Decide(t, from, code) ==
  /\ Moves(t, from, "leave")
  /\ rc' = [rc EXCEPT ![t] = code]
  /\ UNCHANGED <<mutex, op, calls, spurious>>

-----------------------------------------------------------------------------
(* wait, trywait and timedwait.                                            *)

Take(t) ==
  /\ op[t] # "post" /\ count > 0
  /\ count' = count - 1
  /\ Decide(t, {"test", "retest", "last"}, "RC_SUCCESS")

(* Mutant: the thread keeps the mutex while it sleeps.                     *)
FallAsleepLocked(t) ==
  /\ op[t] \in {"wait", "timedwait"} /\ count = 0
  /\ Moves(t, {"test", "retest"}, "asleep")
  /\ UNCHANGED <<count, mutex, op, rc, calls, spurious>>

FallAsleep(t) ==
  /\ op[t] \in {"wait", "timedwait"} /\ count = 0
  /\ Moves(t, {"test", "retest"}, "asleep")
  /\ mutex' = Free
  /\ UNCHANGED <<count, op, rc, calls, spurious>>

(* trywait.                                                                *)
Refuse(t) ==
  /\ op[t] = "trywait" /\ count = 0
  /\ Decide(t, {"test"}, "RC_ERROR")
  /\ UNCHANGED count

WakesUp(t, to) ==
  /\ Moves(t, {"asleep"}, to)
  /\ UNCHANGED <<count, mutex, op, rc, calls>>

(* A condition variable may wake up a thread without a notification.       *)
SpuriousWakeUp(t) ==
  /\ spurious < MaxSpurious
  /\ spurious' = spurious + 1
  /\ WakesUp(t, "relock")

(* Mutant: the loop goes on when the time is over.                         *)
TimeOverIgnored(t) == op[t] = "timedwait" /\ WakesUp(t, "relock") /\ UNCHANGED spurious

TimeOver(t) == op[t] = "timedwait" /\ WakesUp(t, "late") /\ UNCHANGED spurious

(* Mutant: the count is not looked at again when the time is over.         *)
TimeOutAtOnce(t) ==
  /\ op[t] = "timedwait"
  /\ Decide(t, {"last"}, "RC_ERROR_TIME_OUT")
  /\ UNCHANGED count

(* wait_for returns the predicate, which is evaluated once more.           *)
TimeOut(t) ==
  /\ op[t] = "timedwait" /\ count = 0
  /\ Decide(t, {"last"}, "RC_ERROR_TIME_OUT")
  /\ UNCHANGED count

-----------------------------------------------------------------------------
(* post.                                                                   *)

(* Mutant: only the post that finds no permit notifies.                    *)
IncrementNotifyFirst(t) ==
  /\ op[t] = "post"
  /\ count' = count + 1
  /\ rc' = [rc EXCEPT ![t] = "RC_SUCCESS"]
  /\ Moves(t, {"test"}, IF count = 0 THEN "notify" ELSE "leave")
  /\ UNCHANGED <<mutex, op, calls, spurious>>

Increment(t) ==
  /\ op[t] = "post"
  /\ count' = count + 1
  /\ rc' = [rc EXCEPT ![t] = "RC_SUCCESS"]
  /\ Moves(t, {"test"}, "notify")
  /\ UNCHANGED <<mutex, op, calls, spurious>>

(* notify_one wakes up any one of the sleepers, if there is one.           *)
NotifyOne(t) ==
  /\ pc[t] = "notify"
  /\ \/ Asleep = {} /\ pc' = [pc EXCEPT ![t] = "leave"]
     \/ \E s \in Asleep : pc' = [pc EXCEPT ![t] = "leave", ![s] = "relock"]
  /\ UNCHANGED <<count, mutex, op, rc, calls, spurious>>

-----------------------------------------------------------------------------
(* The constructor.                                                        *)
Init ==
  /\ count \in 0 .. MaxInitial
  /\ mutex = Free
  /\ pc = [t \in Thread |-> "idle"]
  /\ op = [t \in Thread |-> "wait"]
  /\ rc = [t \in Thread |-> "none"]
  /\ calls = 0 /\ spurious = 0

GoesOn(t) == \/ Acquire(t) \/ Release(t)
             \/ Take(t) \/ FallAsleep(t) \/ Refuse(t) \/ TimeOut(t)
             \/ Increment(t) \/ NotifyOne(t)

Next == \E t \in Thread : \/ \E o \in Operation : Call(t, o)
                          \/ GoesOn(t) \/ SpuriousWakeUp(t) \/ TimeOver(t)

Spec == Init /\ [][Next]_vars

(* A thread that can go on is scheduled, and the time of a timedwait
   passes.  No thread has to call, or to wake up for no reason.            *)
FairSpec == Spec /\ \A t \in Thread : WF_vars(GoesOn(t)) /\ WF_vars(TimeOver(t))

-----------------------------------------------------------------------------
(* Every variable stays in its range, and the mutex is held by the one
   thread that is between its lock and its release.                        *)
TypeOK ==
  /\ count \in Nat /\ calls \in 0 .. MaxCalls /\ spurious \in 0 .. MaxSpurious
  /\ mutex \in Thread \cup {Free}
  /\ pc \in [Thread -> Location]
  /\ op \in [Thread -> Operation]
  /\ rc \in [Thread -> {"none", "RC_SUCCESS", "RC_ERROR", "RC_ERROR_TIME_OUT"}]
  /\ \A t \in Thread : pc[t] \in HoldsMutex <=> mutex = t

(* No wake-up gets lost: while anyone sleeps, each permit has a thread on
   its way to it that was woken up, or a post that will wake up one; also
   when the woken threads are overtaken, or run out of time as they are
   notified.                                                               *)
OnTheWay == {t \in Thread : pc[t] \in {"relock", "retest", "late", "last", "notify"}}

NoLostWakeUp == Asleep # {} => count <= Cardinality(OnTheWay)

(* The semaphore hands out each permit once, refuses and times out only
   when there is none, and post never fails.                               *)
Permits == INSTANCE CountingSemaphore WITH
  permits <- count,
  call    <- [t \in Thread |-> IF pc[t] \in {"idle", "notify", "leave"} THEN "none" ELSE op[t]]

ImplementsCounting == Permits!Spec

(* When the threads stop calling, nobody is left asleep beside a permit.   *)
SleepersServed == <>[](Asleep # {} => count = 0)

(* A wait with a time limit returns, whatever happens to the permits.      *)
TimedWaitReturns ==
  \A t \in Thread : (pc[t] # "idle" /\ op[t] = "timedwait") ~> pc[t] = "idle"

(* Nobody waits for a permit that is there, nor beyond the time.         *)
WaitsEnd == SleepersServed /\ TimedWaitReturns
=============================================================================
