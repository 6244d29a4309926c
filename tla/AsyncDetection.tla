--------------------------- MODULE AsyncDetection ---------------------------
(***************************************************************************)
(* Coroutines that detect in the background (Common/inc/AsyncDetection.h). *)
(* A Task starts at once and frees its frame when it ends; a Generator is  *)
(* resumed by its consumer.  Whoever awaits a frame or a timer starts a    *)
(* detached thread that has the handle of the coroutine and resumes it:    *)
(* from then on the body runs on that thread.  Nothing in a Task or a      *)
(* Generator tells its client where the coroutine is, so that a client may *)
(* call at any time.  Whatever touches a frame or an object that is gone,  *)
(* asks a coroutine that may be running whether it is done, or resumes one *)
(* that another thread resumes or that has ended, is undefined behaviour,  *)
(* and the model ends there.                                               *)
(*                                                                         *)
(* Frames are numbers, the results of a detection are the number of their  *)
(* frame, and Empty stands for the empty vector.                           *)
(***************************************************************************)
EXTENDS Naturals, FiniteSets, Sequences, SequencesExt, Functions

CONSTANTS
  Coroutine,   (* The coroutines that clients may create.                  *)
  MaxSize,     (* Bound: frames of a batch, and frames a source delivers.  *)
  MaxCalls     (* Bound: calls of the clients.                             *)

ASSUME AsyncAssumption ==
  IsFiniteSet(Coroutine) /\ MaxSize \in Nat \ {0} /\ MaxCalls \in Nat

VARIABLES
  kind,        (* The function that created the coroutine, or "none".      *)
  at,          (* Its last suspension point, or how it ended.              *)
  by,          (* Who runs its body now: "nobody", "client" or "thread".   *)
  thread,      (* The detached thread that has its handle: what it does.   *)
  slot,        (* FrameAwaitable::results                                  *)
  size,        (* The number of frames it was called with.                 *)
  count,       (* The number of frames it has awaited.                     *)
  got,         (* Task: the results so far.  Generator: what it yielded.   *)
  paced,       (* interval > 0                                             *)
  iterating,   (* begin or ++ is still to ask done(): "no", "checks", or   *)
               (* "races" once a thread has resumed the coroutine before.  *)
  object,      (* The owner of the service: "alive", "ending" or "gone".   *)
  running,     (* m_running                                                *)
  fault,       (* "none", "undefined" or "terminated"                      *)
  meddled,     (* History: a client used a frame it should not have.       *)
  calls        (* The calls so far.                                        *)

coroutineVars == <<kind, at, by, thread, slot, size, count, got, paced, iterating>>
asyncVars == <<coroutineVars, object, running, fault, meddled, calls>>

Empty == 0

TaskKinds == {"frame", "batch", "timed"}
IsTask(c) == kind[c] \in TaskKinds

Awaitables == {"awaiting", "timer"}

(* The frame of the coroutine has been destroyed.                          *)
Freed(c) == at[c] \in {"returned", "timedOut", "threw", "destroyed"}

(* It has been called and has not come to its end.                         *)
Unfinished(c) == at[c] \in {"initial", "awaiting", "yielded", "timer"}

(* What follows has no meaning any more.                                   *)
Undefined ==
  /\ fault' = "undefined"
  /\ UNCHANGED <<coroutineVars, running>>

(* A call of a client, which may be one too many.                          *)
Call(meddles) ==
  /\ fault = "none" /\ calls < MaxCalls
  /\ calls' = calls + 1
  /\ meddled' = (meddled \/ meddles)

(* A call of a Task or a Generator, and one of the service or its owner.   *)
ClientCall(meddles) == Call(meddles) /\ UNCHANGED object
ObjectCall(meddles) == object = "alive" /\ ClientCall(meddles)

NoCall == fault = "none" /\ UNCHANGED <<calls, meddled, object>>

(* From here the body goes on to a member of the object.                   *)
UsesObject(c) ==
  \/ kind[c] = "stream" /\ at[c] \in {"initial", "timer"}
  \/ kind[c] = "batch" /\ count[c] < size[c]
  \/ kind[c] = "range"

BodyRuns(c) == NoCall /\ by[c] # "nobody" /\ (object = "gone" => ~UsesObject(c))

(* The owner does not wait for the detached threads.                       *)
UseAfterEnd(c) ==
  /\ NoCall
  /\ by[c] # "nobody" /\ object = "gone" /\ UsesObject(c)
  /\ Undefined

-----------------------------------------------------------------------------
(* The two awaitables.                                                     *)

(* Mutant: the results of the last frame stay in the awaitable.            *)
AwaitKeepingResults(c) ==
  /\ at' = [at EXCEPT ![c] = "awaiting"] /\ by' = [by EXCEPT ![c] = "nobody"]
  /\ thread' = [thread EXCEPT ![c] = "detecting"]
  /\ count' = [count EXCEPT ![c] = @ + 1]
  /\ UNCHANGED slot

(* FrameAwaitable{frame}: a new thread detects in the next frame.          *)
AwaitFrame(c) ==
  /\ at' = [at EXCEPT ![c] = "awaiting"] /\ by' = [by EXCEPT ![c] = "nobody"]
  /\ thread' = [thread EXCEPT ![c] = "detecting"]
  /\ count' = [count EXCEPT ![c] = @ + 1]
  /\ slot' = [slot EXCEPT ![c] = Empty]

(* Mutant: the catch clause does not resume the coroutine.                 *)
DetectOrGiveUp(c) ==
  /\ NoCall
  /\ thread[c] = "detecting"
  /\ IF at[c] = "awaiting"
     THEN /\ \/ /\ thread' = [thread EXCEPT ![c] = "resuming"]
                /\ slot' = [slot EXCEPT ![c] = count[c]]
             \/ thread' = [thread EXCEPT ![c] = "none"] /\ UNCHANGED slot
          /\ UNCHANGED <<kind, at, by, size, count, got, paced, iterating, running, fault>>
     ELSE Undefined

(* The thread reads and writes the awaitable, which is in the frame of the
   coroutine; if detectRange threw the results stay as they were, and the
   thread resumes all the same.                                            *)
Detect(c) ==
  /\ NoCall
  /\ thread[c] = "detecting"
  /\ IF at[c] = "awaiting"
     THEN /\ thread' = [thread EXCEPT ![c] = "resuming"]
          /\ \E results \in {count[c], slot[c]} : slot' = [slot EXCEPT ![c] = results]
          /\ UNCHANGED <<kind, at, by, size, count, got, paced, iterating, running, fault>>
     ELSE Undefined

(* TimerAwaitable: a new thread sleeps; an interval of 0 is ready, and the
   body goes on.                                                           *)
AwaitTimer(c) ==
  /\ at' = [at EXCEPT ![c] = "timer"]
  /\ IF paced[c] THEN /\ by' = [by EXCEPT ![c] = "nobody"]
                      /\ thread' = [thread EXCEPT ![c] = "sleeping"]
                 ELSE UNCHANGED <<by, thread>>
  /\ UNCHANGED <<count, slot>>

(* handle.resume() in the detached thread of an awaitable.  The consumer may
   not yet have asked done().                                              *)
ThreadResumes(c) ==
  /\ NoCall
  /\ thread[c] \in {"resuming", "sleeping"}
  /\ IF at[c] \in Awaitables /\ by[c] = "nobody"
     THEN /\ by' = [by EXCEPT ![c] = "thread"]
          /\ thread' = [thread EXCEPT ![c] = "none"]
          /\ iterating' = [iterating EXCEPT ![c] = IF @ = "checks" THEN "races" ELSE @]
          /\ UNCHANGED <<kind, at, slot, size, count, got, paced, running, fault>>
     ELSE Undefined

-----------------------------------------------------------------------------
(* Tasks.                                                                  *)

(* final_suspend does not suspend: the frame goes with the last step, and
   with it the value or the exception that the promise keeps.              *)
TaskEnds(c, how) ==
  /\ at' = [at EXCEPT ![c] = how] /\ by' = [by EXCEPT ![c] = "nobody"]
  /\ thread' = [thread EXCEPT ![c] = "none"]
  /\ UNCHANGED <<slot, count>>

(* Mutant: the promise lets the exception out of handle.resume(), and the
   thread that catches it resumes the coroutine once more.                 *)
TaskRethrows(c) ==
  /\ at' = [at EXCEPT ![c] = "threw"] /\ by' = [by EXCEPT ![c] = "nobody"]
  /\ thread' = [thread EXCEPT ![c] = IF by[c] = "thread" THEN "resuming" ELSE "none"]
  /\ UNCHANGED <<slot, count>>

UnhandledException(c) == TaskEnds(c, "threw")

(* The task awaits its next frame; std::thread may fail, and throws.       *)
TaskAwaits(c) == AwaitFrame(c) \/ UnhandledException(c)

(* The call runs the body up to the first await.                           *)
CallTask(c, k, n) ==
  /\ at[c] = "none"
  /\ ObjectCall(FALSE)
  /\ kind' = [kind EXCEPT ![c] = k] /\ size' = [size EXCEPT ![c] = n]
  /\ IF n = 0 THEN TaskEnds(c, "returned") ELSE TaskAwaits(c)
  /\ UNCHANGED <<got, paced, iterating, running, fault>>

ProcessFrameAsync(c) == CallTask(c, "frame", 1)
ProcessBatchAsync(c) == \E n \in 0 .. MaxSize : CallTask(c, "batch", n)
ProcessFrameWithTimeout(c) == CallTask(c, "timed", 1)

(* Mutant: the loop awaits one frame more than there are.                  *)
TaskGoesOnPastEnd(c) ==
  /\ BodyRuns(c) /\ IsTask(c)
  /\ got' = [got EXCEPT ![c] = Append(@, slot[c])]
  /\ IF count[c] <= size[c] THEN TaskAwaits(c) ELSE TaskEnds(c, "returned")
  /\ UNCHANGED <<kind, size, paced, iterating, running, fault>>

(* The body goes on with the results of the awaited frame.                 *)
TaskGoesOn(c) ==
  /\ BodyRuns(c) /\ IsTask(c)
  /\ got' = [got EXCEPT ![c] = Append(@, slot[c])]
  /\ \/ count[c] < size[c] /\ TaskAwaits(c)
     \/ count[c] = size[c] /\ TaskEnds(c, "returned")
     \/ kind[c] = "timed" /\ TaskEnds(c, "timedOut")
  /\ UNCHANGED <<kind, size, paced, iterating, running, fault>>

(* get and is_ready read the promise: before the task ends there is nothing
   in it, and afterwards there is no promise.                              *)
Get(c) ==
  /\ IsTask(c) /\ at[c] # "destroyed"
  /\ LET meddles == Freed(c) \/ by[c] # "nobody" IN
       /\ ClientCall(meddles)
       /\ IF meddles THEN Undefined ELSE UNCHANGED <<coroutineVars, running, fault>>

(* ~Task and ~Generator destroy the frame, also one that is gone already,
   that runs, whose handle a thread still has, or that is iterated.        *)
Destroy(c) ==
  /\ kind[c] # "none" /\ at[c] # "destroyed"
  /\ ClientCall(Freed(c) \/ by[c] # "nobody" \/ thread[c] # "none" \/ iterating[c] # "no")
  /\ IF Freed(c) \/ by[c] # "nobody" THEN Undefined
     ELSE /\ at' = [at EXCEPT ![c] = "destroyed"]
          /\ UNCHANGED <<kind, by, thread, slot, size, count, got, paced, iterating, running, fault>>

-----------------------------------------------------------------------------
(* Generators.                                                             *)

(* initial_suspend suspends: the call runs nothing of the body.            *)
CallGenerator(c, k, n, waits) ==
  /\ at[c] = "none"
  /\ kind' = [kind EXCEPT ![c] = k] /\ size' = [size EXCEPT ![c] = n]
  /\ at' = [at EXCEPT ![c] = "initial"] /\ paced' = [paced EXCEPT ![c] = waits]
  /\ UNCHANGED <<by, thread, slot, count, got, iterating>>

ProcessFrameStream(c) ==
  /\ ObjectCall(FALSE)
  /\ \E waits \in BOOLEAN : CallGenerator(c, "stream", MaxSize, waits)
  /\ UNCHANGED <<running, fault>>

(* begin and ++ resume the coroutine wherever it is.  Only where the
   generator waits for its consumer nobody else resumes it.                *)
ConsumerResumes(c) ==
  /\ kind[c] \in {"stream", "range"} /\ at[c] # "destroyed"
  /\ LET meddles == \/ by[c] # "nobody" \/ iterating[c] # "no"
                    \/ at[c] \notin {"initial", "yielded"} IN
       /\ ClientCall(meddles)
       /\ IF meddles THEN Undefined
          ELSE /\ by' = [by EXCEPT ![c] = "client"]
               /\ iterating' = [iterating EXCEPT ![c] = "checks"]
               /\ UNCHANGED <<kind, at, thread, slot, size, count, got, paced, running, fault>>

(* Back from resume(), begin and ++ ask done() of the coroutine, which may
   have been suspended in an awaitable and be running on its thread.       *)
IteratorChecks(c) ==
  /\ NoCall
  /\ iterating[c] # "no" /\ by[c] # "client"
  /\ IF iterating[c] = "races" \/ at[c] = "destroyed" THEN Undefined
     ELSE /\ iterating' = [iterating EXCEPT ![c] = "no"]
          /\ UNCHANGED <<kind, at, by, thread, slot, size, count, got, paced, running, fault>>

(* *it copies the value of the promise: that of the last yield, also if the
   generator is suspended in an awaitable.  At the end there is no promise. *)
Dereference(c) ==
  /\ kind[c] \in {"stream", "range"} /\ at[c] \notin {"initial", "destroyed"}
  /\ LET meddles == by[c] # "nobody" \/ iterating[c] # "no" \/ at[c] = "final" IN
       /\ ClientCall(meddles)
       /\ IF meddles THEN Undefined ELSE UNCHANGED <<coroutineVars, running, fault>>

(* co_yield of the results, and the end of the body.                       *)
Yield(c, results) ==
  /\ got' = [got EXCEPT ![c] = Append(@, results)]
  /\ at' = [at EXCEPT ![c] = "yielded"] /\ by' = [by EXCEPT ![c] = "nobody"]
  /\ UNCHANGED <<kind, thread, slot, size, count, paced, iterating>>

AtFinalSuspend(c) ==
  /\ at' = [at EXCEPT ![c] = "final"] /\ by' = [by EXCEPT ![c] = "nobody"]
  /\ UNCHANGED <<kind, slot, size, count, got, paced>>

GeneratorEnds(c) == AtFinalSuspend(c) /\ UNCHANGED <<thread, iterating, fault>>

(* An exception leaves resume(): the consumer gets it, before done(), but on
   the thread of a timer nobody does, and the program ends.                *)
GeneratorThrows(c) ==
  /\ AtFinalSuspend(c)
  /\ fault' = IF by[c] = "thread" THEN "terminated" ELSE fault
  /\ iterating' = [iterating EXCEPT ![c] = "no"]
  /\ UNCHANGED thread

(* The results of a frame are copied, which may throw if there are any.  The
   thread of the frame is then still inside its try block: it catches what
   leaves resume(), and resumes the coroutine at its end once more.        *)
GeneratorRethrows(c) ==
  /\ slot[c] # Empty
  /\ AtFinalSuspend(c)
  /\ thread' = [thread EXCEPT ![c] = "resuming"]
  /\ UNCHANGED <<iterating, fault>>

Await(c) == AwaitTimer(c) /\ UNCHANGED <<kind, size, got, paced, iterating, fault>>

(* One turn of the loop of processFrameStream: the source has a frame, has
   none, or throws, as the start of a thread may.                          *)
Turn(c) ==
  \/ /\ count[c] < size[c] /\ AwaitFrame(c)
     /\ UNCHANGED <<kind, size, got, paced, iterating, fault>>
  \/ Await(c)
  \/ GeneratorThrows(c)

(* Mutant: the loop never looks at m_running.                              *)
TurnForEver(c) == Turn(c) /\ UNCHANGED running

WhileRunning(c) ==
  /\ UNCHANGED running
  /\ IF running THEN Turn(c) ELSE GeneratorEnds(c)

(* The body goes on from where it was suspended: it yields the results of the
   frame, waits for the interval, and takes the next turn.                 *)
StreamGoesOn(c) ==
  /\ BodyRuns(c) /\ kind[c] = "stream"
  /\ \/ at[c] = "initial" /\ running' = TRUE /\ Turn(c)
     \/ at[c] = "awaiting" /\ Yield(c, slot[c]) /\ UNCHANGED <<running, fault>>
     \/ at[c] = "awaiting" /\ GeneratorRethrows(c) /\ UNCHANGED running
     \/ at[c] = "yielded" /\ Await(c) /\ UNCHANGED running
     \/ at[c] = "yielded" /\ paced[c] /\ GeneratorThrows(c) /\ UNCHANGED running
     \/ at[c] = "timer" /\ WhileRunning(c)

StopService ==
  /\ ObjectCall(FALSE)
  /\ running' = FALSE
  /\ UNCHANGED <<coroutineVars, fault>>

-----------------------------------------------------------------------------
AsyncInit ==
  /\ kind = [c \in Coroutine |-> "none"] /\ at = [c \in Coroutine |-> "none"]
  /\ by = [c \in Coroutine |-> "nobody"] /\ thread = [c \in Coroutine |-> "none"]
  /\ slot = [c \in Coroutine |-> Empty]
  /\ size = [c \in Coroutine |-> 0] /\ count = [c \in Coroutine |-> 0]
  /\ got = [c \in Coroutine |-> <<>>] /\ paced = [c \in Coroutine |-> FALSE]
  /\ iterating = [c \in Coroutine |-> "no"] /\ object = "alive"
  /\ running = FALSE /\ fault = "none" /\ meddled = FALSE /\ calls = 0

ClientStep(c) ==
  \/ ProcessFrameAsync(c) \/ ProcessBatchAsync(c) \/ ProcessFrameWithTimeout(c)
  \/ Get(c) \/ Destroy(c)
  \/ ProcessFrameStream(c) \/ ConsumerResumes(c) \/ Dereference(c)

(* What the system does without a call.                                    *)
CoroutineStep(c) ==
  \/ Detect(c) \/ ThreadResumes(c) \/ IteratorChecks(c)
  \/ TaskGoesOn(c) \/ StreamGoesOn(c) \/ UseAfterEnd(c)

AsyncNext == StopService \/ \E c \in Coroutine : ClientStep(c) \/ CoroutineStep(c)

-----------------------------------------------------------------------------
(* Every variable stays in its range.                                      *)
AsyncTypeOK ==
  /\ kind \in [Coroutine -> TaskKinds \cup {"none", "stream", "range"}]
  /\ at \in [Coroutine -> Awaitables \cup {"none", "initial", "yielded", "final",
                                           "returned", "timedOut", "threw", "destroyed"}]
  /\ by \in [Coroutine -> {"nobody", "client", "thread"}]
  /\ thread \in [Coroutine -> {"none", "detecting", "resuming", "sleeping"}]
  /\ slot \in [Coroutine -> 0 .. MaxSize] /\ size \in [Coroutine -> 0 .. MaxSize]
  /\ count \in [Coroutine -> 0 .. MaxSize] /\ got \in [Coroutine -> Seq(0 .. MaxSize)]
  /\ \A c \in Coroutine : count[c] <= size[c] /\ Len(got[c]) <= count[c]
  /\ paced \in [Coroutine -> BOOLEAN] /\ iterating \in [Coroutine -> {"no", "checks", "races"}]
  /\ object \in {"alive", "ending", "gone"} /\ running \in BOOLEAN
  /\ fault \in {"none", "undefined", "terminated"}
  /\ meddled \in BOOLEAN /\ calls \in 0 .. MaxCalls

(* The code itself goes astray in two ways: a thread has resumed the coroutine
   before the consumer asked done(), or has caught the exception of a
   generator that it is going to resume at its end.                        *)
Astray(c) == iterating[c] = "races" \/ (at[c] = "final" /\ thread[c] = "resuming")

(* Apart from these two, the coroutines and their threads never touch a frame
   or an object that is gone nor resume a coroutine twice, whatever throws:
   it takes a client that calls, or lets the object go, at the wrong moment. *)
NothingElseUndefined ==
  fault = "undefined" => meddled \/ \E c \in Coroutine : Astray(c)

(* The i-th results that a task collects or a generator yields are those of
   the i-th frame, or empty if the detection in it threw: never those of
   another frame.                                                          *)
ResultsInOrder ==
  \A c \in Coroutine : \A i \in DOMAIN got[c] : got[c][i] \in {i, Empty}

(* A task that the clients leave alone ends, also when a detection throws or
   a thread cannot be started, unless the program ends before.             *)
TaskCompletes ==
  \A c \in Coroutine : (IsTask(c) /\ at[c] = "awaiting") ~> (Freed(c) \/ fault # "none")

(* Once stop has the last word on m_running, no thread goes on driving a
   stream: it has ended, or waits for its consumer.                        *)
StopEndsStreams ==
  <>[](~running /\ fault = "none")
    => <>[](\A c \in Coroutine : kind[c] = "stream" =>
              at[c] \notin Awaitables /\ by[c] = "nobody")
=============================================================================
