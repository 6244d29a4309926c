----------------------- MODULE ModernCpp20Application -----------------------
(***************************************************************************)
(* The alternative application (App/inc/ModernCpp20Application.h) on top   *)
(* of the asynchronous detection.  It starts and stops a stream of the     *)
(* service, offers a generator of its own over a range of frames, and      *)
(* counts frames and errors.  The counters are one atomic structure, which *)
(* is loaded, changed and stored: an update is two steps, of the thread of *)
(* an awaitable or of a thread that notifies the application.  It stops in *)
(* three steps, and its destructor stops it, but waits for no coroutine.   *)
(*                                                                         *)
(* The counters of detections and commands, their format, the log message  *)
(* of handleDetectionEvent and the camera are left out; startAsync is a    *)
(* coroutine too, of which only its calls of the stream matter here.       *)
(***************************************************************************)
EXTENDS AsyncDetection

Utilities == INSTANCE RangesUtilities

CONSTANTS
  Notifier,    (* The threads that notify the application.                 *)
  NoUpdate     (* A thread that is not inside an update of the statistics. *)

ASSUME NotifierAssumption ==
  IsFiniteSet(Notifier) /\ NoUpdate \notin [{"frames", "errors"} -> Nat]

VARIABLES
  isRunning,           (* m_isRunning                                      *)
  shutdownRequested,   (* m_shutdownRequested                              *)
  stopping,            (* How far stop has come: "no", "exchanged" or      *)
                       (* "requested"; bound: one call of it at a time.    *)
  statistics,          (* m_statistics: frames processed, errors handled.  *)
  update,              (* The copy each thread loaded, or NoUpdate.        *)
  handled,             (* History: the frames and errors there were.       *)
  overlaps,            (* History: loads inside an update of another one.  *)
  late                 (* History: results a range yields after a request. *)

lifeVars == <<isRunning, shutdownRequested, stopping>>
countVars == <<statistics, update, handled, overlaps>>
appVars == <<lifeVars, countVars, late>>
vars == <<asyncVars, appVars>>

Updater == Notifier \cup Coroutine

-----------------------------------------------------------------------------
(* Life cycle.                                                             *)

(* ModernConfiguration::isValid, of which the interval and the limit are
   taken; the service gets what was configured.                            *)
ConfigurationIsValid(interval, maxResults) == interval > 0 /\ maxResults > 0

(* initialize: the coroutine initializeAsync has no await and has ended, its
   frame is gone, when get reads the result.                               *)
Initialize ==
  \E interval \in {0, 33}, maxResults \in {0, MaxSize} :
    LET valid == ConfigurationIsValid(interval, maxResults) IN
      /\ ObjectCall(valid)
      /\ IF valid THEN Undefined ELSE UNCHANGED <<coroutineVars, running, fault>>
      /\ UNCHANGED appVars

(* startAsync: the first one creates the stream; its range-for then resumes
   the stream wherever it is (ConsumerResumes) and copies its value.       *)
StartAsync(c) ==
  /\ ObjectCall(FALSE)
  /\ IF isRunning THEN UNCHANGED coroutineVars
     ELSE \E waits \in BOOLEAN : CallGenerator(c, "stream", MaxSize, waits)
  /\ isRunning' = TRUE
  /\ UNCHANGED <<running, fault, shutdownRequested, stopping, countVars, late>>

(* The first step of stop: only the call that finds the application running
   does the other two.                                                     *)
Exchange ==
  /\ stopping = "no"
  /\ isRunning' = FALSE
  /\ stopping' = IF isRunning THEN "exchanged" ELSE "no"
  /\ UNCHANGED <<coroutineVars, running, fault, shutdownRequested, countVars, late>>

Stop == ObjectCall(FALSE) /\ Exchange

StopRequestsShutdown ==
  /\ NoCall
  /\ stopping = "exchanged" /\ stopping' = "requested"
  /\ shutdownRequested' = TRUE
  /\ UNCHANGED <<coroutineVars, running, fault, isRunning, countVars, late>>

StopStopsService ==
  /\ NoCall
  /\ stopping = "requested" /\ stopping' = "no"
  /\ running' = FALSE
  /\ UNCHANGED <<coroutineVars, fault, isRunning, shutdownRequested, countVars, late>>

(* The last owner lets the application go; a thread that notifies it is one
   as long as it does.  The destructor stops an application that runs, and
   no more: a coroutine that has not ended will find its members gone.     *)
DestroyApplication ==
  /\ object = "alive" /\ object' = "ending"
  /\ \A n \in Notifier : update[n] = NoUpdate
  /\ Call(\E c \in Coroutine : Unfinished(c))
  /\ Exchange

MembersDestroyed ==
  /\ fault = "none"
  /\ object = "ending" /\ stopping = "no" /\ object' = "gone"
  /\ UNCHANGED <<coroutineVars, running, fault, meddled, calls, appVars>>

RequestShutdown ==
  /\ ObjectCall(FALSE)
  /\ shutdownRequested' = TRUE
  /\ UNCHANGED <<coroutineVars, running, fault, isRunning, stopping, countVars, late>>

-----------------------------------------------------------------------------
(* The statistics.                                                         *)

Loads(u) ==
  /\ update[u] = NoUpdate
  /\ update' = [update EXCEPT ![u] = statistics]
  /\ overlaps' = overlaps + IF \E v \in Updater : update[v] # NoUpdate THEN 1 ELSE 0
  /\ UNCHANGED <<statistics, handled>>

(* Mutant: the structure that is stored has this one counter only. *)
StoresFresh(u, field) ==
  /\ update[u] # NoUpdate
  /\ statistics' = [f \in DOMAIN statistics |-> IF f = field THEN update[u][f] + 1 ELSE 0]
  /\ handled' = [handled EXCEPT ![field] = @ + 1]
  /\ update' = [update EXCEPT ![u] = NoUpdate]
  /\ UNCHANGED overlaps

Stores(u, field) ==
  /\ update[u] # NoUpdate
  /\ statistics' = [update[u] EXCEPT ![field] = @ + 1]
  /\ handled' = [handled EXCEPT ![field] = @ + 1]
  /\ update' = [update EXCEPT ![u] = NoUpdate]
  /\ UNCHANGED overlaps

(* onNotify with an error event: handleErrorEvent.                         *)
ErrorLoads(n) ==
  /\ ObjectCall(FALSE)
  /\ Loads(n)
  /\ UNCHANGED <<coroutineVars, running, fault, lifeVars, late>>

(* A critical error requests the shutdown right after the store; that of one
   which is delayed looks like an error that is not and a RequestShutdown. *)
ErrorStores(n) ==
  /\ NoCall
  /\ Stores(n, "errors")
  /\ \E critical \in BOOLEAN : shutdownRequested' = (shutdownRequested \/ critical)
  /\ UNCHANGED <<coroutineVars, running, fault, isRunning, stopping, late>>

-----------------------------------------------------------------------------
(* processFramesRange.  A limit of detections also limits the frames.      *)

ProcessFramesRange(c) ==
  /\ ObjectCall(FALSE)
  /\ \E frames \in 0 .. MaxSize, maxResults \in 1 .. MaxSize :
       CallGenerator(c, "range", IF frames < maxResults THEN frames ELSE maxResults, FALSE)
  /\ UNCHANGED <<running, fault, appVars>>

RangeRuns(c, point) == BodyRuns(c) /\ kind[c] = "range" /\ at[c] = point

(* The results of the frame are there and filtered, which may throw:
   updateStatistics loads ...                                              *)
RangeLoads(c) ==
  /\ RangeRuns(c, "awaiting")
  /\ \/ Loads(c) /\ UNCHANGED <<coroutineVars, fault>>
     \/ update[c] = NoUpdate /\ GeneratorRethrows(c) /\ UNCHANGED countVars
  /\ UNCHANGED <<running, lifeVars, late>>

(* ... and stores, and the results are copied and yielded.                 *)
RangeStores(c) ==
  /\ RangeRuns(c, "awaiting")
  /\ Stores(c, "frames")
  /\ \/ /\ Yield(c, slot[c]) /\ UNCHANGED fault
        /\ late' = [late EXCEPT ![c] = @ + IF shutdownRequested THEN 1 ELSE 0]
     \/ GeneratorRethrows(c) /\ UNCHANGED late
  /\ UNCHANGED <<running, lifeVars>>

RangeTurn(c, stops) ==
  /\ \E point \in {"initial", "yielded"} : RangeRuns(c, point)
  /\ IF count[c] = size[c] \/ stops
     THEN GeneratorEnds(c)
     ELSE \/ AwaitFrame(c) /\ UNCHANGED <<kind, size, got, paced, iterating, fault>>
          \/ GeneratorThrows(c)
  /\ UNCHANGED <<running, appVars>>

(* Mutant: a range that has begun does not look at the flag again.         *)
RangeGoesOnUnasked(c) == RangeTurn(c, at[c] = "initial" /\ shutdownRequested)

RangeGoesOn(c) == RangeTurn(c, shutdownRequested)

-----------------------------------------------------------------------------
Init ==
  /\ AsyncInit
  /\ isRunning = FALSE /\ shutdownRequested = FALSE /\ stopping = "no"
  /\ statistics = [frames |-> 0, errors |-> 0]
  /\ update = [u \in Updater |-> NoUpdate]
  /\ handled = [frames |-> 0, errors |-> 0] /\ overlaps = 0
  /\ late = [c \in Coroutine |-> 0]

RangeStep(c) == RangeLoads(c) \/ RangeStores(c) \/ RangeGoesOn(c)

Next ==
  \/ AsyncNext /\ UNCHANGED appVars
  \/ Initialize \/ Stop \/ StopRequestsShutdown \/ StopStopsService \/ RequestShutdown
  \/ DestroyApplication \/ MembersDestroyed
  \/ \E c \in Coroutine : StartAsync(c) \/ ProcessFramesRange(c) \/ RangeStep(c)
  \/ \E n \in Notifier : ErrorLoads(n) \/ ErrorStores(n)

Spec == Init /\ [][Next]_vars

(* A thread that has something to do runs; clients need not call.          *)
FairSpec ==
  /\ Spec
  /\ \A c \in Coroutine : WF_vars((CoroutineStep(c) /\ UNCHANGED appVars) \/ RangeStep(c))

-----------------------------------------------------------------------------
(* Every variable stays in its range.                                      *)
TypeOK ==
  /\ AsyncTypeOK
  /\ isRunning \in BOOLEAN /\ shutdownRequested \in BOOLEAN
  /\ stopping \in {"no", "exchanged", "requested"}
  /\ statistics \in [{"frames", "errors"} -> Nat]
  /\ update \in [Updater -> [{"frames", "errors"} -> Nat] \cup {NoUpdate}]
  /\ handled \in [{"frames", "errors"} -> Nat] /\ overlaps \in Nat
  /\ late \in [Coroutine -> Nat]

FramesYielded ==
  FoldFunction(+, 0, [c \in Coroutine |-> IF kind[c] = "range" THEN Len(got[c]) ELSE 0])

(* Every frame that was yielded has been counted.  The counters never run
   ahead of what happened, and what they lose is bounded: at most one count
   for every load that fell between the load and the store of another
   update, so that they are exact as long as no two updates overlapped.    *)
StatisticsCount ==
  /\ FramesYielded <= handled.frames
  /\ \A f \in {"frames", "errors"} : statistics[f] <= handled[f]
  /\ handled.frames + handled.errors <= statistics.frames + statistics.errors + overlaps

(* Once a shutdown was requested, by stop, a client or a critical error, a
   range yields at most the frame that was in the detection at that time.  *)
ShutdownStopsRanges == \A c \in Coroutine : late[c] <= 1

(* Every window over the results of a task combines the frames from its
   first to its last one, however many of them had no results, and none is
   left out at either end.                                                 *)
WindowsCoverHistory ==
  \A c \in Coroutine :
    IsTask(c) =>
      LET history == [i \in DOMAIN got[c] |-> IF got[c][i] = Empty THEN <<>> ELSE <<got[c][i]>>]
      IN  \A width \in 1 .. Len(history) :
            LET windows == Utilities!SlidingWindow(history, width) IN
              /\ Len(windows) = Len(history) - width + 1
              /\ \A i \in DOMAIN windows :
                   ToSet(windows[i]) = Range(SubSeq(got[c], i, i + width - 1)) \ {Empty}

(* The coroutines and their threads stay within the rules that they and
   their clients have to keep.                                             *)
RulesKept == TypeOK /\ NothingElseUndefined

(* The results of the frames are in their order, also in every window.   *)
HistoryInOrder == ResultsInOrder /\ WindowsCoverHistory

(* Nothing runs on for ever: neither a task nor a stopped stream.        *)
CoroutinesEnd == TaskCompletes /\ StopEndsStreams
=============================================================================
