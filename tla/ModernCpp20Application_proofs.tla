-------------------- MODULE ModernCpp20Application_proofs --------------------
(***************************************************************************)
(* Proofs about the alternative application and its coroutines, for any    *)
(* finite set of coroutines and any bounds.                                *)
(***************************************************************************)
EXTENDS ModernCpp20Application, SequenceTheorems, FiniteSetTheorems,
        WellFoundedInduction, TLAPS

TaskPoints      == {"awaiting", "returned", "timedOut", "threw", "destroyed"}
GeneratorPoints == {"initial", "awaiting", "timer", "yielded", "final", "destroyed"}

-----------------------------------------------------------------------------
(* The inductive invariant, for one coroutine after the other.             *)

(* Where a coroutine can be suspended follows from what created it, and only
   a coroutine that is suspended before its end is ever resumed.           *)
Placed(c) ==
  /\ kind[c] = "none" => /\ at[c] = "none" /\ by[c] = "nobody" /\ thread[c] = "none"
                         /\ count[c] = 0 /\ got[c] = <<>>
  /\ IsTask(c) => at[c] \in TaskPoints
  /\ kind[c] \in {"stream", "range"} => at[c] \in GeneratorPoints
  /\ by[c] # "nobody" => at[c] \in {"initial", "awaiting", "timer", "yielded"}

(* While a frame is awaited one result is missing, and otherwise none; the
   awaitable has the results of the last frame, or none.                   *)
Counted(c) ==
  /\ slot[c] \in {count[c], Empty}
  /\ count[c] <= size[c] /\ Len(got[c]) <= count[c]
  /\ at[c] = "awaiting" => Len(got[c]) + 1 = count[c]
  /\ at[c] \in {"none", "initial", "timer", "yielded"} => Len(got[c]) = count[c]
  /\ \A i \in DOMAIN got[c] : got[c][i] \in {i, Empty}

(* Unless a client interfered, a detached thread that has the handle of a
   coroutine is the only one that is going to resume it, or it has caught
   the exception with which that ended; nobody iterates a frame that is
   gone, and all have ended before the object goes.                        *)
Handled(c) ==
  ~meddled =>
    /\ thread[c] = "detecting" => at[c] = "awaiting"
    /\ thread[c] # "none" => \/ at[c] \in Awaitables /\ by[c] = "nobody"
                             \/ at[c] = "final" /\ thread[c] = "resuming"
    /\ iterating[c] # "no" => at[c] # "destroyed"
    /\ object # "alive" => ~Unfinished(c)

(* A range that yielded after the request does not await another frame.    *)
Halted(c) ==
  late[c] # 0 => shutdownRequested /\ late[c] = 1 /\ kind[c] = "range" /\ at[c] # "awaiting"

Good(c) == Placed(c) /\ Counted(c) /\ Handled(c) /\ Halted(c)

(* The ranges of TypeOK, without what Counted says.                        *)
Ranges ==
  /\ kind \in [Coroutine -> TaskKinds \cup {"none", "stream", "range"}]
  /\ at \in [Coroutine -> TaskPoints \cup GeneratorPoints \cup {"none"}]
  /\ by \in [Coroutine -> {"nobody", "client", "thread"}]
  /\ thread \in [Coroutine -> {"none", "detecting", "resuming", "sleeping"}]
  /\ slot \in [Coroutine -> 0 .. MaxSize] /\ size \in [Coroutine -> 0 .. MaxSize]
  /\ count \in [Coroutine -> 0 .. MaxSize] /\ got \in [Coroutine -> Seq(0 .. MaxSize)]
  /\ paced \in [Coroutine -> BOOLEAN] /\ iterating \in [Coroutine -> {"no", "checks", "races"}]
  /\ object \in {"alive", "ending", "gone"} /\ running \in BOOLEAN
  /\ fault \in {"none", "undefined", "terminated"}
  /\ meddled \in BOOLEAN /\ calls \in 0 .. MaxCalls

AppRanges ==
  /\ isRunning \in BOOLEAN /\ shutdownRequested \in BOOLEAN
  /\ stopping \in {"no", "exchanged", "requested"}
  /\ statistics \in [{"frames", "errors"} -> Nat]
  /\ update \in [Updater -> [{"frames", "errors"} -> Nat] \cup {NoUpdate}]
  /\ handled \in [{"frames", "errors"} -> Nat] /\ overlaps \in Nat
  /\ late \in [Coroutine -> Nat]

IInv == Ranges /\ AppRanges /\ NothingElseUndefined /\ \A c \in Coroutine : Good(c)

(* The frames that one range has yielded; only RangeStores adds one.       *)
Yielded(c) == IF kind[c] = "range" THEN Len(got[c]) ELSE 0

NoneYields == \A c \in Coroutine : Yielded(c)' = Yielded(c)

LEMMA InvImplies == IInv => TypeOK /\ NothingElseUndefined /\ ResultsInOrder /\ ShutdownStopsRanges
<1> SUFFICES ASSUME IInv PROVE TypeOK /\ NothingElseUndefined /\ ResultsInOrder /\ ShutdownStopsRanges
  OBVIOUS
<1>1. \A c \in Coroutine : /\ count[c] <= size[c] /\ Len(got[c]) <= count[c]
                           /\ \A i \in DOMAIN got[c] : got[c][i] \in {i, Empty}
  BY DEF IInv, Good, Counted
<1>2. ASSUME NEW c \in Coroutine PROVE late[c] <= 1
  BY DEF IInv, AppRanges, Good, Halted
<1>3. TaskPoints \cup GeneratorPoints \cup {"none"}
        = Awaitables \cup {"none", "initial", "yielded", "final",
                           "returned", "timedOut", "threw", "destroyed"}
  BY DEF TaskPoints, GeneratorPoints, Awaitables
<1>4. AsyncTypeOK
  BY <1>1, <1>3 DEF IInv, Ranges, AsyncTypeOK
<1> QED
  BY <1>1, <1>2, <1>4 DEF IInv, AppRanges, TypeOK, ResultsInOrder, ShutdownStopsRanges

LEMMA InvInit == Init => IInv
<1> SUFFICES ASSUME Init PROVE IInv
  OBVIOUS
<1>1. Ranges /\ AppRanges /\ NothingElseUndefined
  <2>1. /\ kind \in [Coroutine -> TaskKinds \cup {"none", "stream", "range"}]
        /\ at \in [Coroutine -> TaskPoints \cup GeneratorPoints \cup {"none"}]
        /\ by \in [Coroutine -> {"nobody", "client", "thread"}]
        /\ thread \in [Coroutine -> {"none", "detecting", "resuming", "sleeping"}]
    BY DEF Init, AsyncInit
  <2>2. 0 \in 0 .. MaxSize /\ 0 \in 0 .. MaxCalls /\ <<>> \in Seq(0 .. MaxSize)
    BY AsyncAssumption
  <2>3. /\ slot \in [Coroutine -> 0 .. MaxSize] /\ size \in [Coroutine -> 0 .. MaxSize]
        /\ count \in [Coroutine -> 0 .. MaxSize] /\ got \in [Coroutine -> Seq(0 .. MaxSize)]
        /\ calls \in 0 .. MaxCalls
    BY <2>2 DEF Init, AsyncInit, Empty
  <2>4. /\ paced \in [Coroutine -> BOOLEAN] /\ running \in BOOLEAN /\ meddled \in BOOLEAN
        /\ isRunning \in BOOLEAN /\ shutdownRequested \in BOOLEAN
        /\ iterating \in [Coroutine -> {"no", "checks", "races"}]
        /\ object \in {"alive", "ending", "gone"} /\ stopping \in {"no", "exchanged", "requested"}
    BY DEF Init, AsyncInit
  <2>5. /\ statistics \in [{"frames", "errors"} -> Nat]
        /\ handled \in [{"frames", "errors"} -> Nat] /\ overlaps \in Nat
        /\ late \in [Coroutine -> Nat]
    BY DEF Init
  <2>6. update \in [Updater -> [{"frames", "errors"} -> Nat] \cup {NoUpdate}]
    BY Zenon DEF Init
  <2>7. fault = "none"
    BY DEF Init, AsyncInit
  <2> QED
    BY <2>1, <2>3, <2>4, <2>5, <2>6, <2>7 DEF Ranges, AppRanges, NothingElseUndefined
<1>2. ASSUME NEW c \in Coroutine PROVE Good(c)
  BY DEF Init, AsyncInit, Good, Placed, Counted, Handled, Halted, IsTask, TaskKinds, Awaitables, Unfinished, Empty
<1> QED
  BY <1>1, <1>2 DEF IInv

-----------------------------------------------------------------------------
(* A step of one coroutine leaves the others alone.                        *)
Same(d) ==
  /\ kind'[d] = kind[d] /\ at'[d] = at[d] /\ by'[d] = by[d] /\ thread'[d] = thread[d]
  /\ slot'[d] = slot[d] /\ size'[d] = size[d] /\ count'[d] = count[d] /\ got'[d] = got[d]
  /\ late'[d] = late[d] /\ iterating'[d] = iterating[d]

(* The object goes only when all coroutines have ended, or a client is to
   blame.                                                                  *)
Forward ==
  /\ meddled => meddled'
  /\ shutdownRequested => shutdownRequested'
  /\ ~meddled' => object' = object \/ \A d \in Coroutine : ~Unfinished(d)

LEMMA GoodKept ==
  ASSUME NEW d \in Coroutine, Good(d), Same(d), Forward
  PROVE  Good(d)' /\ Yielded(d)' = Yielded(d)
<1>1. Placed(d)'
  BY DEF Good, Same, Placed, IsTask
<1>2. Counted(d)'
  BY DEF Good, Same, Counted
<1>3. Handled(d)'
  BY DEF Good, Same, Handled, Forward, Unfinished
<1>4. Halted(d)'
  BY DEF Good, Same, Halted, Forward
<1> QED
  BY <1>1, <1>2, <1>3, <1>4 DEF Good, Same, Yielded

(* The coroutine that moves, and the range of each of its values.          *)
Only(c) ==
  /\ kind' = [kind EXCEPT ![c] = kind'[c]] /\ at' = [at EXCEPT ![c] = at'[c]]
  /\ by' = [by EXCEPT ![c] = by'[c]] /\ thread' = [thread EXCEPT ![c] = thread'[c]]
  /\ slot' = [slot EXCEPT ![c] = slot'[c]] /\ size' = [size EXCEPT ![c] = size'[c]]
  /\ count' = [count EXCEPT ![c] = count'[c]] /\ got' = [got EXCEPT ![c] = got'[c]]
  /\ paced' = [paced EXCEPT ![c] = paced'[c]] /\ late' = [late EXCEPT ![c] = late'[c]]
  /\ iterating' = [iterating EXCEPT ![c] = iterating'[c]]

Typed(c) ==
  /\ kind[c] \in TaskKinds \cup {"none", "stream", "range"}
  /\ at[c] \in TaskPoints \cup GeneratorPoints \cup {"none"}
  /\ by[c] \in {"nobody", "client", "thread"}
  /\ thread[c] \in {"none", "detecting", "resuming", "sleeping"}
  /\ slot[c] \in 0 .. MaxSize /\ size[c] \in 0 .. MaxSize /\ count[c] \in 0 .. MaxSize
  /\ got[c] \in Seq(0 .. MaxSize) /\ paced[c] \in BOOLEAN /\ late[c] \in Nat
  /\ iterating[c] \in {"no", "checks", "races"}

Scalars ==
  /\ running \in BOOLEAN /\ fault \in {"none", "undefined", "terminated"}
  /\ meddled \in BOOLEAN /\ calls \in 0 .. MaxCalls
  /\ object \in {"alive", "ending", "gone"} /\ stopping \in {"no", "exchanged", "requested"}
  /\ isRunning \in BOOLEAN /\ shutdownRequested \in BOOLEAN
  /\ statistics \in [{"frames", "errors"} -> Nat]
  /\ update \in [Updater -> [{"frames", "errors"} -> Nat] \cup {NoUpdate}]
  /\ handled \in [{"frames", "errors"} -> Nat] /\ overlaps \in Nat

LEMMA AllTyped ==
  ASSUME IInv
  PROVE  Scalars /\ \A c \in Coroutine : Typed(c) /\ Good(c)
<1>1. Scalars
  BY DEF IInv, Ranges, AppRanges, Scalars
<1>2. ASSUME NEW c \in Coroutine PROVE Typed(c)
  <2>1. Ranges /\ late \in [Coroutine -> Nat]
    BY DEF IInv, AppRanges
  <2> QED
    BY <2>1 DEF Ranges, Typed
<1> QED
  BY <1>1, <1>2 DEF IInv

LEMMA OneMoves ==
  ASSUME IInv, NEW c \in Coroutine, Only(c), Forward,
         Typed(c)', Good(c)', Scalars', NothingElseUndefined'
  PROVE  /\ IInv' /\ \A d \in Coroutine \ {c} : Yielded(d)' = Yielded(d)
         /\ Yielded(c)' = Yielded(c) => NoneYields
<1>1. ASSUME NEW d \in Coroutine \ {c} PROVE Good(d)' /\ Yielded(d)' = Yielded(d)
  <2>1. Same(d)
    BY DEF Only, Same, IInv, Ranges, AppRanges
  <2>2. d \in Coroutine /\ Good(d)
    BY DEF IInv
  <2> QED
    BY <2>1, <2>2, GoodKept
<1>2. Ranges' /\ AppRanges'
  <2>1. Ranges /\ late \in [Coroutine -> Nat]
    BY DEF IInv, AppRanges
  <2>2. late' \in [Coroutine -> Nat]
    BY <2>1 DEF Only, Typed
  <2>3. Ranges'
    <3>1. /\ kind' \in [Coroutine -> TaskKinds \cup {"none", "stream", "range"}]
          /\ at' \in [Coroutine -> TaskPoints \cup GeneratorPoints \cup {"none"}]
          /\ by' \in [Coroutine -> {"nobody", "client", "thread"}]
          /\ thread' \in [Coroutine -> {"none", "detecting", "resuming", "sleeping"}]
      BY <2>1 DEF Only, Typed, Ranges
    <3>2. /\ slot' \in [Coroutine -> 0 .. MaxSize] /\ size' \in [Coroutine -> 0 .. MaxSize]
          /\ count' \in [Coroutine -> 0 .. MaxSize] /\ got' \in [Coroutine -> Seq(0 .. MaxSize)]
          /\ paced' \in [Coroutine -> BOOLEAN]
          /\ iterating' \in [Coroutine -> {"no", "checks", "races"}]
      BY <2>1 DEF Only, Typed, Ranges
    <3> QED
      BY <3>1, <3>2 DEF Scalars, Ranges
  <2> QED
    BY <2>2, <2>3 DEF Scalars, AppRanges
<1> QED
  BY <1>1, <1>2 DEF IInv, NoneYields

LEMMA NoneMoves ==
  ASSUME IInv, UNCHANGED <<coroutineVars, late>>, Forward, Scalars', NothingElseUndefined'
  PROVE  IInv' /\ NoneYields
<1>1. ASSUME NEW d \in Coroutine PROVE Same(d)
  BY DEF Same, coroutineVars
<1>2. Ranges' /\ AppRanges'
  BY DEF IInv, Ranges, AppRanges, Scalars, coroutineVars
<1> QED
  BY <1>1, <1>2, GoodKept DEF IInv, NoneYields

(* One more result, in its place.                                          *)
LEMMA OneMore ==
  ASSUME NEW S, NEW s \in Seq(S), NEW e \in S, \A i \in DOMAIN s : s[i] \in {i, Empty},
         e \in {Len(s) + 1, Empty}
  PROVE  /\ Append(s, e) \in Seq(S) /\ Len(s) \in Nat /\ Len(Append(s, e)) = Len(s) + 1
         /\ \A i \in DOMAIN Append(s, e) : Append(s, e)[i] \in {i, Empty}
<1>1. /\ Append(s, e) \in Seq(S) /\ Len(Append(s, e)) = Len(s) + 1 /\ Len(s) \in Nat
      /\ \A i \in 1 .. Len(s) : Append(s, e)[i] = s[i]
      /\ Append(s, e)[Len(s) + 1] = e
      /\ DOMAIN s = 1 .. Len(s) /\ DOMAIN Append(s, e) = 1 .. Len(s) + 1
  BY AppendProperties, LenProperties
<1> DEFINE t == Append(s, e)
<1> HIDE DEF t
<1>2. \A i \in 1 .. Len(s) + 1 : i \in 1 .. Len(s) \/ i = Len(s) + 1
  BY <1>1
<1>3. \A i \in DOMAIN t : t[i] \in {i, Empty}
  BY <1>1, <1>2 DEF t
<1> QED
  BY <1>1, <1>3 DEF t

-----------------------------------------------------------------------------
(* Calls and what is undefined.                                            *)

LEMMA Called ==
  ASSUME IInv, NEW m \in BOOLEAN, ClientCall(m) \/ ObjectCall(m)
  PROVE  /\ calls' \in 0 .. MaxCalls /\ meddled' \in BOOLEAN /\ (meddled => meddled')
         /\ m => meddled'
         /\ fault = "none" /\ object' = object
         /\ ObjectCall(m) => object = "alive"
<1>1. calls \in 0 .. MaxCalls /\ meddled \in BOOLEAN
  BY AllTyped DEF Scalars
<1>2. calls' \in 0 .. MaxCalls
  BY <1>1, AsyncAssumption DEF ClientCall, ObjectCall, Call
<1>3. meddled' = (meddled \/ m) /\ fault = "none" /\ object' = object
      /\ (ObjectCall(m) => object = "alive")
  BY DEF ClientCall, ObjectCall, Call
<1> QED
  BY <1>1, <1>2, <1>3, Zenon

-----------------------------------------------------------------------------
(* The awaitables.                                                         *)
LEMMA DetectKeeps ==
  ASSUME IInv, NEW c \in Coroutine, Detect(c), UNCHANGED appVars
  PROVE  IInv' /\ NoneYields
<1>1. Scalars /\ Typed(c) /\ Good(c)
  BY AllTyped
<1>2. CASE at[c] = "awaiting"
  <2>1. /\ slot' = [slot EXCEPT ![c] = slot'[c]] /\ slot'[c] \in {count[c], slot[c]}
        /\ thread' = [thread EXCEPT ![c] = "resuming"] /\ thread[c] = "detecting"
        /\ UNCHANGED <<kind, at, by, size, count, got, paced, iterating, running, fault, calls, meddled, object, appVars>>
        /\ fault = "none"
    BY <1>2 DEF Detect, NoCall, IInv, Ranges
  <2>2. Only(c) /\ thread'[c] = "resuming"
    BY <2>1 DEF Only, IInv, Ranges, AppRanges, appVars, lifeVars, countVars
  <2>3. Scalars' /\ Forward /\ NothingElseUndefined'
    BY <1>1, <2>1 DEF Scalars, Forward, IInv, NothingElseUndefined, appVars, lifeVars, countVars
  <2>4. Typed(c)'
    BY <1>1, <2>1, <2>2 DEF Typed, appVars, lifeVars, countVars
  <2>5. Placed(c)' /\ Halted(c)' /\ Handled(c)'
    BY <1>1, <1>2, <2>1, <2>2 DEF Good, Placed, Halted, Handled, Unfinished, IsTask, Awaitables, appVars, lifeVars, countVars
  <2>6. Counted(c)'
    BY <1>1, <2>1 DEF Good, Counted
  <2>7. Yielded(c)' = Yielded(c)
    BY <2>1 DEF Yielded
  <2> QED
    BY <2>2, <2>3, <2>4, <2>5, <2>6, <2>7, OneMoves DEF Good
<1>3. CASE at[c] # "awaiting"
  <2>1. meddled /\ UNCHANGED <<meddled, object>> /\ Undefined
    BY <1>1, <1>3 DEF Detect, NoCall, Good, Handled
  <2>2. Scalars' /\ Forward /\ NothingElseUndefined' /\ UNCHANGED <<coroutineVars, late>>
    BY <1>1, <2>1 DEF Scalars, Forward, Undefined, NothingElseUndefined, Detect, NoCall, appVars, lifeVars, countVars
  <2> QED
    BY <2>2, NoneMoves
<1> QED
  BY <1>2, <1>3

(* handle.resume() in a detached thread.                                   *)
LEMMA ThreadResumesKeeps ==
  ASSUME IInv, NEW c \in Coroutine, ThreadResumes(c), UNCHANGED appVars
  PROVE  IInv' /\ NoneYields
<1>1. Scalars /\ Typed(c) /\ Good(c)
  BY AllTyped
<1>2. CASE at[c] \in Awaitables /\ by[c] = "nobody"
  <2>1. /\ by' = [by EXCEPT ![c] = "thread"] /\ thread' = [thread EXCEPT ![c] = "none"]
        /\ iterating' = [iterating EXCEPT ![c] = IF iterating[c] = "checks" THEN "races" ELSE iterating[c]]
        /\ UNCHANGED <<kind, at, slot, size, count, got, paced, running, fault, calls, meddled, object, appVars>>
        /\ fault = "none"
    BY <1>2 DEF ThreadResumes, NoCall
  <2>2. Only(c) /\ by'[c] = "thread" /\ thread'[c] = "none"
        /\ iterating'[c] \in {iterating[c], "races"}
    BY <2>1 DEF Only, IInv, Ranges, AppRanges, appVars, lifeVars, countVars
  <2>3. Scalars' /\ Forward /\ NothingElseUndefined'
    BY <1>1, <2>1 DEF Scalars, Forward, IInv, NothingElseUndefined, appVars, lifeVars, countVars
  <2>4. Typed(c)'
    BY <1>1, <2>1, <2>2 DEF Typed, appVars, lifeVars, countVars
  <2>5. Placed(c)' /\ Halted(c)' /\ Handled(c)'
    BY <1>1, <1>2, <2>1, <2>2
    DEF Good, Placed, Halted, Handled, Unfinished, IsTask, Awaitables, TaskKinds, appVars, lifeVars, countVars
  <2>6. Counted(c)'
    BY <1>1, <2>1 DEF Good, Counted
  <2>7. Yielded(c)' = Yielded(c)
    BY <2>1 DEF Yielded
  <2> QED
    BY <2>2, <2>3, <2>4, <2>5, <2>6, <2>7, OneMoves DEF Good
<1>3. CASE ~(at[c] \in Awaitables /\ by[c] = "nobody")
  <2>1. (meddled \/ Astray(c)) /\ UNCHANGED <<meddled, object>> /\ Undefined
    BY <1>1, <1>3 DEF ThreadResumes, NoCall, Good, Handled, Astray
  <2>2. meddled' \/ Astray(c)'
    BY <2>1 DEF Astray, Undefined, coroutineVars
  <2>3. NothingElseUndefined'
    BY <2>2 DEF NothingElseUndefined
  <2>4. Scalars' /\ Forward /\ UNCHANGED <<coroutineVars, late>>
    BY <1>1, <2>1 DEF Scalars, Forward, Undefined, ThreadResumes, NoCall, appVars, lifeVars, countVars
  <2> QED
    BY <2>3, <2>4, NoneMoves
<1> QED
  BY <1>2, <1>3

(* The consumer is back from resume(): only done() may be asked too late.  *)
LEMMA IteratorChecksKeeps ==
  ASSUME IInv, NEW c \in Coroutine, IteratorChecks(c), UNCHANGED appVars
  PROVE  IInv' /\ NoneYields
<1>1. Scalars /\ Typed(c) /\ Good(c)
  BY AllTyped
<1>2. iterating[c] # "no" /\ UNCHANGED <<meddled, object, calls, appVars>> /\ fault = "none"
  BY DEF IteratorChecks, NoCall
<1>3. CASE Undefined
  <2>1. meddled \/ Astray(c)
    BY <1>1, <1>2, <1>3 DEF IteratorChecks, Undefined, Good, Handled, Astray
  <2>2. meddled' \/ Astray(c)'
    BY <1>2, <1>3, <2>1 DEF Astray, Undefined, coroutineVars
  <2>3. NothingElseUndefined'
    BY <2>2 DEF NothingElseUndefined
  <2>4. Scalars' /\ Forward /\ UNCHANGED <<coroutineVars, late>>
    BY <1>1, <1>2, <1>3 DEF Scalars, Forward, Undefined, appVars, lifeVars, countVars
  <2> QED
    BY <2>3, <2>4, NoneMoves
<1>4. CASE ~Undefined
  <2>1. /\ iterating' = [iterating EXCEPT ![c] = "no"]
        /\ UNCHANGED <<kind, at, by, thread, slot, size, count, got, paced, running, fault>>
    BY <1>4 DEF IteratorChecks
  <2>2. Only(c) /\ iterating'[c] = "no"
    BY <1>2, <2>1 DEF Only, IInv, Ranges, AppRanges, appVars, lifeVars, countVars
  <2>3. Scalars' /\ Forward /\ NothingElseUndefined'
    BY <1>1, <1>2, <2>1 DEF Scalars, Forward, NothingElseUndefined, appVars, lifeVars, countVars
  <2>4. Typed(c)'
    BY <1>1, <1>2, <2>1, <2>2 DEF Typed, appVars, lifeVars, countVars
  <2>5. Good(c)'
    BY <1>1, <1>2, <2>1, <2>2
    DEF Good, Placed, Counted, Handled, Halted, Unfinished, IsTask, appVars, lifeVars, countVars
  <2>6. Yielded(c)' = Yielded(c)
    BY <2>1 DEF Yielded
  <2> QED
    BY <2>2, <2>3, <2>4, <2>5, <2>6, OneMoves
<1> QED
  BY <1>3, <1>4

(* A coroutine that runs has not ended, so the object is there unless a
   client let it go.                                                       *)
Owned == ~meddled => object = "alive"

LEMMA OwnedWhileUnfinished ==
  ASSUME IInv, NEW c \in Coroutine, by[c] # "nobody" \/ Unfinished(c)
  PROVE  Owned
<1>1. Unfinished(c)
  BY DEF IInv, Good, Placed, Unfinished
<1> QED
  BY <1>1 DEF IInv, Good, Handled, Owned

LEMMA UseAfterEndKeeps ==
  ASSUME IInv, NEW c \in Coroutine, UseAfterEnd(c), UNCHANGED appVars
  PROVE  IInv' /\ NoneYields
<1>1. Scalars /\ Owned
  BY AllTyped, OwnedWhileUnfinished DEF UseAfterEnd
<1>2. meddled /\ UNCHANGED <<meddled, object, calls>> /\ Undefined
  BY <1>1 DEF UseAfterEnd, NoCall, Owned
<1>3. Scalars' /\ Forward /\ NothingElseUndefined' /\ UNCHANGED <<coroutineVars, late>>
  BY <1>1, <1>2 DEF Scalars, Forward, Undefined, NothingElseUndefined, appVars, lifeVars, countVars
<1> QED
  BY <1>3, NoneMoves

-----------------------------------------------------------------------------
(* The states in which a step of a body may leave its coroutine.           *)
InPlace(c) == \A i \in DOMAIN got[c] : got[c][i] \in {i, Empty}

Awaiting(c) ==
  /\ kind[c] # "none" /\ at[c] = "awaiting" /\ by[c] = "nobody" /\ thread[c] = "detecting"
  /\ slot[c] = Empty /\ Len(got[c]) + 1 = count[c] /\ count[c] <= size[c]
  /\ InPlace(c) /\ late[c] = 0 /\ Owned

Ended(c) ==
  /\ IsTask(c) => at[c] \in {"returned", "timedOut", "threw", "destroyed"}
  /\ kind[c] \in {"stream", "range"} => at[c] \in {"final", "destroyed"}
  /\ kind[c] # "none" /\ by[c] = "nobody"
  /\ ~meddled => /\ thread[c] = "none" \/ (at[c] = "final" /\ thread[c] = "resuming")
                 /\ iterating[c] # "no" => at[c] # "destroyed"
  /\ slot[c] \in {count[c], Empty} /\ Len(got[c]) <= count[c] /\ count[c] <= size[c]
  /\ InPlace(c) /\ Halted(c)

Suspended(c) ==
  /\ kind[c] \in {"stream", "range"} /\ at[c] \in {"initial", "timer", "yielded"}
  /\ ~meddled => \/ thread[c] = "none"
                 \/ thread[c] = "sleeping" /\ at[c] = "timer" /\ by[c] = "nobody"
  /\ slot[c] \in {count[c], Empty} /\ Len(got[c]) = count[c] /\ count[c] <= size[c]
  /\ InPlace(c) /\ Halted(c) /\ Owned

LEMMA WellLeft ==
  ASSUME NEW c \in Coroutine, Typed(c), Awaiting(c) \/ Ended(c) \/ Suspended(c)
  PROVE  Good(c)
<1>1. CASE Awaiting(c)
  <2>1. Placed(c) /\ Handled(c) /\ Halted(c)
    BY <1>1 DEF Awaiting, Typed, Placed, Handled, Halted, IsTask, TaskKinds, Awaitables,
                TaskPoints, GeneratorPoints, Owned
  <2>2. Counted(c)
    BY <1>1 DEF Awaiting, Typed, InPlace, Counted
  <2> QED
    BY <2>1, <2>2 DEF Good
<1>2. CASE Ended(c)
  <2>1. Placed(c) /\ Handled(c) /\ Halted(c)
    BY <1>2 DEF Ended, Typed, Placed, Handled, IsTask, TaskKinds, Awaitables,
                TaskPoints, GeneratorPoints, Unfinished
  <2>2. at[c] \notin {"awaiting", "none", "initial", "timer", "yielded"}
    BY <1>2 DEF Ended, Typed, IsTask
  <2>3. Counted(c)
    BY <1>2, <2>2 DEF Ended, InPlace, Counted
  <2> QED
    BY <2>1, <2>3 DEF Good
<1>3. CASE Suspended(c)
  <2>1. Placed(c) /\ Handled(c) /\ Halted(c)
    BY <1>3 DEF Suspended, Typed, Placed, Handled, IsTask, TaskKinds, Awaitables,
                TaskPoints, GeneratorPoints, Owned
  <2>2. Counted(c)
    BY <1>3 DEF Suspended, Typed, InPlace, Counted
  <2> QED
    BY <2>1, <2>2 DEF Good
<1> QED
  BY <1>1, <1>2, <1>3

-----------------------------------------------------------------------------
(* Tasks.                                                                  *)
LEMMA TaskGoesOnKeeps ==
  ASSUME IInv, NEW c \in Coroutine, TaskGoesOn(c), UNCHANGED appVars
  PROVE  IInv' /\ NoneYields
<1>1. Scalars /\ Typed(c) /\ Good(c)
  BY AllTyped
<1>2. /\ at[c] = "awaiting" /\ kind[c] \in TaskKinds /\ late[c] = 0
      /\ Len(got[c]) + 1 = count[c] /\ slot[c] \in {count[c], Empty} /\ count[c] <= size[c]
      /\ InPlace(c)
  BY <1>1 DEF TaskGoesOn, BodyRuns, Typed, Good, Placed, Counted, Halted, IsTask, TaskKinds, TaskPoints, InPlace
<1>3. /\ got' = [got EXCEPT ![c] = Append(got[c], slot[c])]
      /\ UNCHANGED <<kind, size, paced, iterating, running, fault, calls, meddled, object, appVars>>
      /\ fault = "none" /\ by[c] # "nobody"
  BY DEF TaskGoesOn, BodyRuns, NoCall
<1>o. Owned'
  BY <1>3, OwnedWhileUnfinished DEF Owned
<1>4. /\ got'[c] \in Seq(0 .. MaxSize) /\ Len(got'[c]) = count[c] /\ InPlace(c)'
      /\ count[c] \in Nat
  <2>1. got'[c] = Append(got[c], slot[c])
    BY <1>3 DEF IInv, Ranges
  <2>2. /\ got[c] \in Seq(0 .. MaxSize) /\ slot[c] \in 0 .. MaxSize
        /\ slot[c] \in {Len(got[c]) + 1, Empty} /\ count[c] \in Nat
    BY <1>1, <1>2 DEF Typed
  <2> QED
    BY <1>2, <2>1, <2>2, OneMore DEF InPlace
<1>5. Scalars' /\ Forward /\ NothingElseUndefined'
  BY <1>1, <1>3 DEF Scalars, Forward, IInv, NothingElseUndefined, appVars, lifeVars, countVars
<1>6. Yielded(c)' = Yielded(c)
  BY <1>2, <1>3 DEF Yielded, TaskKinds
<1>7. CASE count[c] < size[c] /\ AwaitFrame(c)
  <2>1. Only(c) /\ at'[c] = "awaiting" /\ by'[c] = "nobody" /\ thread'[c] = "detecting"
        /\ count'[c] = count[c] + 1 /\ slot'[c] = Empty
    BY <1>3, <1>7 DEF AwaitFrame, Only, IInv, Ranges, AppRanges, appVars, lifeVars, countVars
  <2>2. Typed(c)'
    <3>1. size[c] \in 0 .. MaxSize /\ MaxSize \in Nat
      BY <1>1, AsyncAssumption DEF Typed
    <3>2. 0 \in 0 .. MaxSize /\ count[c] + 1 \in 0 .. MaxSize
      BY <3>1, <1>4, <1>7
    <3> QED
      BY <1>1, <1>3, <1>4, <2>1, <3>2 DEF Typed, appVars, Empty, TaskPoints
  <2>3. Awaiting(c)'
    BY <1>1, <1>2, <1>3, <1>4, <1>7, <1>o, <2>1 DEF Awaiting, Typed, TaskKinds, appVars, lifeVars, countVars
  <2>4. Good(c)'
    BY <2>2, <2>3, WellLeft, PTL
  <2> QED
    BY <1>5, <1>6, <2>1, <2>2, <2>4, OneMoves
<1>8. CASE \E how \in {"returned", "timedOut", "threw"} : TaskEnds(c, how)
  <2>1. /\ Only(c) /\ at'[c] \in {"returned", "timedOut", "threw"} /\ by'[c] = "nobody"
        /\ thread'[c] = "none" /\ count'[c] = count[c] /\ slot'[c] = slot[c]
    BY <1>3, <1>8 DEF TaskEnds, Only, IInv, Ranges, AppRanges, appVars, lifeVars, countVars
  <2>2. Typed(c)'
    BY <1>1, <1>2, <1>3, <1>4, <2>1 DEF Typed, appVars, TaskPoints
  <2>3. Ended(c)'
    BY <1>1, <1>2, <1>3, <1>4, <2>1 DEF Ended, Typed, TaskKinds, IsTask, Halted, appVars, lifeVars, countVars
  <2>4. Good(c)'
    BY <2>2, <2>3, WellLeft, PTL
  <2> QED
    BY <1>5, <1>6, <2>1, <2>2, <2>4, OneMoves
<1> QED
  BY <1>7, <1>8 DEF TaskGoesOn, TaskAwaits, UnhandledException

(* The first part of a task, up to its first await.                        *)
LEMMA CallTaskKeeps ==
  ASSUME IInv, NEW c \in Coroutine, NEW k \in TaskKinds, NEW n \in 0 .. MaxSize,
         CallTask(c, k, n), UNCHANGED appVars
  PROVE  IInv' /\ NoneYields
<1>1. Scalars /\ Typed(c) /\ Good(c)
  BY AllTyped
<1>2. /\ at[c] = "none" /\ kind[c] = "none" /\ by[c] = "nobody" /\ thread[c] = "none"
      /\ count[c] = 0 /\ slot[c] = Empty /\ got[c] = <<>> /\ late[c] = 0 /\ InPlace(c)
  <2>1. at[c] = "none"
    BY DEF CallTask
  <2>2. kind[c] = "none"
    BY <1>1, <2>1 DEF Typed, Good, Placed, IsTask, TaskPoints, GeneratorPoints
  <2> QED
    BY <1>1, <2>1, <2>2 DEF Good, Placed, Counted, Halted, Empty, InPlace
<1>3. /\ kind' = [kind EXCEPT ![c] = k] /\ size' = [size EXCEPT ![c] = n]
      /\ UNCHANGED <<got, paced, iterating, running, fault, appVars>>
  BY DEF CallTask
<1>4. Scalars' /\ Forward /\ NothingElseUndefined' /\ Owned'
  <2>1. ObjectCall(FALSE)
    BY DEF CallTask
  <2>2. /\ calls' \in 0 .. MaxCalls /\ meddled' \in BOOLEAN /\ (meddled => meddled') /\ fault = "none"
        /\ object' = object /\ object = "alive"
    BY <2>1, Called
  <2>3. Owned'
    BY <2>2 DEF Owned
  <2> QED
    BY <1>1, <1>3, <2>2, <2>3 DEF Scalars, Forward, NothingElseUndefined, appVars, lifeVars, countVars
<1>5. k # "range" /\ k # "none" /\ n \in Nat /\ n <= MaxSize /\ MaxSize \in Nat
  BY AsyncAssumption DEF TaskKinds
<1>6. kind'[c] = k /\ size'[c] = n /\ got'[c] = <<>> /\ late'[c] = 0 /\ InPlace(c)'
  BY <1>2, <1>3 DEF IInv, Ranges, InPlace, appVars, lifeVars, countVars
<1>7. Yielded(c)' = Yielded(c)
  BY <1>2, <1>5, <1>6 DEF Yielded
<1>8. CASE n # 0 /\ AwaitFrame(c)
  <2>1. Only(c) /\ at'[c] = "awaiting" /\ by'[c] = "nobody" /\ thread'[c] = "detecting"
        /\ count'[c] = 1 /\ slot'[c] = Empty
    BY <1>2, <1>3, <1>8 DEF AwaitFrame, Only, IInv, Ranges, AppRanges, appVars, lifeVars, countVars
  <2>2. Typed(c)'
    BY <1>1, <1>3, <1>5, <1>6, <1>8, <2>1 DEF Typed, appVars, Empty, TaskPoints
  <2>3. Awaiting(c)'
    BY <1>4, <1>5, <1>6, <1>8, <2>1 DEF Awaiting
  <2>4. Good(c)'
    BY <2>2, <2>3, WellLeft, PTL
  <2> QED
    BY <1>4, <1>7, <2>1, <2>2, <2>4, OneMoves
<1>9. CASE \E how \in {"returned", "threw"} : TaskEnds(c, how)
  <2>1. /\ Only(c) /\ at'[c] \in {"returned", "threw"} /\ by'[c] = "nobody"
        /\ thread'[c] = "none" /\ count'[c] = 0 /\ slot'[c] = Empty
    BY <1>2, <1>3, <1>9 DEF TaskEnds, Only, IInv, Ranges, AppRanges, appVars, lifeVars, countVars
  <2>2. Typed(c)'
    BY <1>1, <1>3, <1>5, <1>6, <2>1 DEF Typed, appVars, TaskPoints, Empty
  <2>3. Ended(c)'
    BY <1>5, <1>6, <2>1 DEF Ended, TaskKinds, IsTask, Halted
  <2>4. Good(c)'
    BY <2>2, <2>3, WellLeft, PTL
  <2> QED
    BY <1>4, <1>7, <2>1, <2>2, <2>4, OneMoves
<1> QED
  BY <1>8, <1>9 DEF CallTask, TaskAwaits, UnhandledException

(* get, is_ready and the destructors.                                      *)
LEMMA GetKeeps ==
  ASSUME IInv, NEW c \in Coroutine, Get(c), UNCHANGED appVars
  PROVE  IInv' /\ NoneYields
<1> DEFINE m == Freed(c) \/ by[c] # "nobody"
<1>1. Scalars
  BY AllTyped
<1>2. m \in BOOLEAN /\ ClientCall(m) /\ UNCHANGED <<coroutineVars, running>>
      /\ IF m THEN Undefined ELSE UNCHANGED fault
  BY DEF Get, Undefined, Freed
<1> HIDE DEF m
<1>3. /\ calls' \in 0 .. MaxCalls /\ meddled' \in BOOLEAN /\ (meddled => meddled')
      /\ (m => meddled') /\ fault = "none" /\ object' = object
  BY <1>2, Called
<1>4. Scalars' /\ Forward /\ NothingElseUndefined' /\ UNCHANGED <<coroutineVars, late>>
  BY <1>1, <1>2, <1>3 DEF Scalars, Forward, Undefined, NothingElseUndefined, appVars, lifeVars, countVars
<1> QED
  BY <1>4, NoneMoves

LEMMA DereferenceKeeps ==
  ASSUME IInv, NEW c \in Coroutine, Dereference(c), UNCHANGED appVars
  PROVE  IInv' /\ NoneYields
<1> DEFINE m == by[c] # "nobody" \/ iterating[c] # "no" \/ at[c] = "final"
<1>1. Scalars
  BY AllTyped
<1>2. m \in BOOLEAN /\ ClientCall(m) /\ UNCHANGED <<coroutineVars, running>>
      /\ IF m THEN Undefined ELSE UNCHANGED fault
  BY DEF Dereference, Undefined
<1> HIDE DEF m
<1>3. /\ calls' \in 0 .. MaxCalls /\ meddled' \in BOOLEAN /\ (meddled => meddled')
      /\ (m => meddled') /\ fault = "none" /\ object' = object
  BY <1>2, Called
<1>4. Scalars' /\ Forward /\ NothingElseUndefined' /\ UNCHANGED <<coroutineVars, late>>
  BY <1>1, <1>2, <1>3 DEF Scalars, Forward, Undefined, NothingElseUndefined, appVars, lifeVars, countVars
<1> QED
  BY <1>4, NoneMoves

LEMMA DestroyKeeps ==
  ASSUME IInv, NEW c \in Coroutine, Destroy(c), UNCHANGED appVars
  PROVE  IInv' /\ NoneYields
<1> DEFINE m == Freed(c) \/ by[c] # "nobody" \/ thread[c] # "none" \/ iterating[c] # "no"
<1>1. Scalars /\ Typed(c) /\ Good(c)
  BY AllTyped
<1>2. m \in BOOLEAN /\ ClientCall(m)
  BY DEF Destroy, Freed
<1> HIDE DEF m
<1>3. /\ calls' \in 0 .. MaxCalls /\ meddled' \in BOOLEAN /\ (meddled => meddled')
      /\ (m => meddled') /\ fault = "none" /\ object' = object
  BY <1>2, Called
<1>4. CASE Undefined
  <2>1. Freed(c) \/ by[c] # "nobody"
    BY <1>3, <1>4 DEF Destroy, Undefined
  <2>2. meddled'
    BY <1>3, <2>1 DEF m
  <2>3. Scalars' /\ Forward /\ NothingElseUndefined' /\ UNCHANGED <<coroutineVars, late>>
    BY <1>1, <1>3, <1>4, <2>2 DEF Scalars, Forward, Undefined, NothingElseUndefined, appVars, lifeVars, countVars
  <2> QED
    BY <2>3, NoneMoves
<1>5. CASE ~Undefined
  <2>1. /\ by[c] = "nobody" /\ kind[c] # "none" /\ ~Freed(c)
        /\ at' = [at EXCEPT ![c] = "destroyed"]
        /\ UNCHANGED <<kind, by, thread, slot, size, count, got, paced, iterating, running, fault, appVars>>
    BY <1>5 DEF Destroy
  <2>2. Only(c) /\ at'[c] = "destroyed"
    BY <2>1 DEF Only, IInv, Ranges, AppRanges, appVars, lifeVars, countVars
  <2>3. Scalars' /\ Forward /\ NothingElseUndefined'
    BY <1>1, <1>3, <2>1 DEF Scalars, Forward, NothingElseUndefined, appVars, lifeVars, countVars
  <2>4. Typed(c)'
    BY <1>1, <2>1, <2>2 DEF Typed, appVars, TaskPoints
  <2>5. Ended(c)'
    BY <1>1, <1>3, <2>1, <2>2
    DEF m, Ended, Good, Counted, Halted, InPlace, IsTask, appVars, lifeVars, countVars
  <2>6. Good(c)'
    BY <2>4, <2>5, WellLeft, PTL
  <2>7. Yielded(c)' = Yielded(c)
    BY <2>1 DEF Yielded
  <2> QED
    BY <2>2, <2>3, <2>4, <2>6, <2>7, OneMoves
<1> QED
  BY <1>4, <1>5

-----------------------------------------------------------------------------
(* Generators.                                                             *)
LEMMA CallGeneratorKeeps ==
  ASSUME IInv, NEW c \in Coroutine, NEW k \in {"stream", "range"}, NEW n \in 0 .. MaxSize,
         NEW waits \in BOOLEAN, CallGenerator(c, k, n, waits), UNCHANGED late,
         Scalars', Forward, NothingElseUndefined', Owned'
  PROVE  IInv' /\ NoneYields
<1>1. Scalars /\ Typed(c) /\ Good(c)
  BY AllTyped
<1>2. /\ at[c] = "none" /\ kind[c] = "none" /\ by[c] = "nobody" /\ thread[c] = "none"
      /\ count[c] = 0 /\ slot[c] = Empty /\ got[c] = <<>> /\ late[c] = 0 /\ InPlace(c)
  <2>1. at[c] = "none"
    BY DEF CallGenerator
  <2>2. kind[c] = "none"
    BY <1>1, <2>1 DEF Typed, Good, Placed, IsTask, TaskPoints, GeneratorPoints
  <2> QED
    BY <1>1, <2>1, <2>2 DEF Good, Placed, Counted, Halted, Empty, InPlace
<1>3. /\ Only(c) /\ kind'[c] = k /\ size'[c] = n /\ at'[c] = "initial" /\ by'[c] = "nobody"
      /\ thread'[c] = "none" /\ count'[c] = 0 /\ slot'[c] = Empty /\ got'[c] = <<>>
      /\ late'[c] = 0 /\ paced'[c] = waits /\ iterating'[c] = iterating[c]
  BY <1>2 DEF CallGenerator, Only, IInv, Ranges, AppRanges
<1>4. n \in Nat /\ n <= MaxSize /\ MaxSize \in Nat
  BY AsyncAssumption
<1>5. Typed(c)'
  BY <1>1, <1>3, <1>4 DEF Typed, GeneratorPoints, Empty
<1>6. Suspended(c)'
  BY <1>3, <1>4 DEF Suspended, InPlace, Halted
<1>7. Good(c)'
  BY <1>5, <1>6, WellLeft, PTL
<1>8. Yielded(c)' = Yielded(c)
  BY <1>2, <1>3 DEF Yielded
<1> QED
  BY <1>3, <1>5, <1>7, <1>8, OneMoves

LEMMA ConsumerResumesKeeps ==
  ASSUME IInv, NEW c \in Coroutine, ConsumerResumes(c), UNCHANGED appVars
  PROVE  IInv' /\ NoneYields
<1> DEFINE m == by[c] # "nobody" \/ iterating[c] # "no" \/ at[c] \notin {"initial", "yielded"}
<1>1. Scalars /\ Typed(c) /\ Good(c)
  BY AllTyped
<1>2. m \in BOOLEAN /\ ClientCall(m)
  BY DEF ConsumerResumes
<1>3. /\ m => Undefined
      /\ ~m => /\ by' = [by EXCEPT ![c] = "client"]
               /\ iterating' = [iterating EXCEPT ![c] = "checks"]
               /\ UNCHANGED <<kind, at, thread, slot, size, count, got, paced, running, fault>>
  BY DEF ConsumerResumes
<1>4. ~m => at[c] \in {"initial", "yielded"}
  OBVIOUS
<1> HIDE DEF m
<1>5. /\ calls' \in 0 .. MaxCalls /\ meddled' \in BOOLEAN /\ (meddled => meddled')
      /\ (m => meddled') /\ fault = "none" /\ object' = object
  BY <1>2, Called
<1>6. CASE m
  <2>1. Scalars' /\ Forward /\ NothingElseUndefined' /\ UNCHANGED <<coroutineVars, late>>
    BY <1>1, <1>3, <1>5, <1>6 DEF Scalars, Forward, Undefined, NothingElseUndefined, appVars, lifeVars, countVars
  <2> QED
    BY <2>1, NoneMoves
<1>7. CASE ~m
  <2>u. UNCHANGED <<kind, at, thread, slot, size, count, got, paced, running, fault, appVars>>
    BY <1>3, <1>7
  <2>e. /\ by' = [by EXCEPT ![c] = "client"] /\ by \in [Coroutine -> {"nobody", "client", "thread"}]
        /\ iterating' = [iterating EXCEPT ![c] = "checks"]
        /\ iterating \in [Coroutine -> {"no", "checks", "races"}]
    BY <1>3, <1>7 DEF IInv, Ranges
  <2>1. /\ Only(c) /\ by'[c] = "client" /\ iterating'[c] = "checks"
        /\ UNCHANGED <<kind, at, thread, slot, size, count, got, paced, running, fault, appVars>>
    BY <2>u, <2>e DEF Only, IInv, Ranges, AppRanges, appVars
  <2>2. Scalars' /\ Forward /\ NothingElseUndefined'
    BY <1>1, <1>5, <2>1 DEF Scalars, Forward, NothingElseUndefined, appVars, lifeVars, countVars
  <2>3. Typed(c)'
    BY <1>1, <2>1 DEF Typed, appVars, lifeVars, countVars
  <2>4. kind[c] \in {"stream", "range"}
    BY DEF ConsumerResumes
  <2>o. Owned'
    BY <1>4, <1>5, <1>7, OwnedWhileUnfinished DEF Owned, Unfinished
  <2>5. Suspended(c)'
    BY <1>1, <1>4, <1>5, <1>7, <2>1, <2>4, <2>o
    DEF Suspended, Good, Counted, Handled, Halted, InPlace, Awaitables, appVars, lifeVars, countVars
  <2>6. Good(c)'
    BY <2>3, <2>5, WellLeft, PTL
  <2>7. Yielded(c)' = Yielded(c)
    BY <2>1 DEF Yielded
  <2> QED
    BY <2>1, <2>2, <2>3, <2>6, <2>7, OneMoves
<1> QED
  BY <1>6, <1>7

(* What the body of a generator does between two suspensions.              *)
Turning(c) ==
  /\ kind[c] \in {"stream", "range"} /\ by[c] # "nobody"
  /\ at[c] \in {"initial", "timer", "yielded"}

Moved(c) == Only(c) /\ Typed(c)' /\ Good(c)' /\ Yielded(c)' = Yielded(c)

LEMMA BodyAwaitsFrame ==
  ASSUME IInv, NEW c \in Coroutine, Turning(c), count[c] < size[c], late[c] = 0, Owned',
         AwaitFrame(c), UNCHANGED <<kind, size, got, paced, iterating, late>>
  PROVE  Moved(c)
<1>1. Typed(c) /\ Good(c) /\ MaxSize \in Nat
  BY AllTyped, AsyncAssumption
<1>2. Len(got[c]) = count[c] /\ InPlace(c) /\ count[c] + 1 \in 0 .. MaxSize /\ count[c] + 1 <= size[c]
  BY <1>1 DEF Turning, Good, Counted, InPlace, Typed
<1>3. Only(c) /\ at'[c] = "awaiting" /\ by'[c] = "nobody" /\ thread'[c] = "detecting"
      /\ count'[c] = count[c] + 1 /\ slot'[c] = Empty
  BY DEF AwaitFrame, Only, IInv, Ranges, AppRanges
<1>4. Typed(c)'
  BY <1>1, <1>2, <1>3 DEF Typed, TaskPoints, Empty
<1>5. Awaiting(c)'
  BY <1>2, <1>3 DEF Turning, Awaiting, InPlace
<1>6. Good(c)'
  BY <1>4, <1>5, WellLeft, PTL
<1> QED
  BY <1>3, <1>4, <1>6 DEF Moved, Yielded

LEMMA BodyAwaitsTimer ==
  ASSUME IInv, NEW c \in Coroutine, Turning(c), Forward, Owned',
         AwaitTimer(c), UNCHANGED <<kind, size, got, paced, iterating, late>>
  PROVE  Moved(c)
<1>1. Typed(c) /\ Good(c)
  BY AllTyped
<1>2. Only(c) /\ at'[c] = "timer" /\ UNCHANGED <<slot, count>>
      /\ \/ by'[c] = "nobody" /\ thread'[c] = "sleeping"
         \/ by'[c] = by[c] /\ thread'[c] = thread[c]
  BY DEF AwaitTimer, Only, IInv, Ranges, AppRanges
<1>3. Typed(c)'
  BY <1>1, <1>2 DEF Typed, GeneratorPoints
<1>4. Suspended(c)'
  BY <1>1, <1>2 DEF Turning, Suspended, Good, Counted, Handled, Halted, InPlace, Forward
<1>5. Good(c)'
  BY <1>3, <1>4, WellLeft, PTL
<1> QED
  BY <1>2, <1>3, <1>5 DEF Moved, Yielded

LEMMA BodyEnds ==
  ASSUME IInv, NEW c \in Coroutine, Turning(c), Forward, UNCHANGED late,
         GeneratorEnds(c) \/ GeneratorThrows(c)
  PROVE  Moved(c) /\ fault' \in {fault, "terminated"}
<1>1. Typed(c) /\ Good(c)
  BY AllTyped
<1>2. Only(c) /\ at'[c] = "final" /\ by'[c] = "nobody" /\ iterating'[c] \in {iterating[c], "no"}
      /\ UNCHANGED <<kind, thread, slot, size, count, got, paced>>
  BY DEF GeneratorEnds, GeneratorThrows, AtFinalSuspend, Only, IInv, Ranges, AppRanges
<1>3. Typed(c)'
  BY <1>1, <1>2 DEF Typed, GeneratorPoints
<1>4. Ended(c)'
  BY <1>1, <1>2 DEF Turning, Ended, IsTask, TaskKinds, Good, Counted, Handled, Halted, InPlace, Forward
<1>5. Good(c)'
  BY <1>3, <1>4, WellLeft, PTL
<1>6. fault' \in {fault, "terminated"}
  BY DEF GeneratorEnds, GeneratorThrows
<1> QED
  BY <1>2, <1>3, <1>5, <1>6 DEF Moved, Yielded

(* The exception on the thread of a frame, which will resume at the end.   *)
LEMMA BodyRethrows ==
  ASSUME IInv, NEW c \in Coroutine, kind[c] \in {"stream", "range"}, by[c] # "nobody",
         at[c] = "awaiting", GeneratorRethrows(c), Forward, UNCHANGED late
  PROVE  Moved(c)
<1>1. Typed(c) /\ Good(c)
  BY AllTyped
<1>2. Only(c) /\ at'[c] = "final" /\ by'[c] = "nobody" /\ thread'[c] = "resuming"
      /\ UNCHANGED <<kind, slot, size, count, got, paced, iterating>>
  BY DEF GeneratorRethrows, AtFinalSuspend, Only, IInv, Ranges, AppRanges
<1>3. Typed(c)'
  BY <1>1, <1>2 DEF Typed, GeneratorPoints
<1>4. Ended(c)'
  BY <1>1, <1>2 DEF Ended, IsTask, TaskKinds, Good, Counted, Handled, Halted, InPlace, Forward
<1>5. Good(c)'
  BY <1>3, <1>4, WellLeft, PTL
<1> QED
  BY <1>2, <1>3, <1>5 DEF Moved, Yielded

LEMMA BodyYields ==
  ASSUME IInv, NEW c \in Coroutine, kind[c] \in {"stream", "range"}, by[c] # "nobody",
         at[c] = "awaiting", Yield(c, slot[c]), Forward, Owned',
         late' = [late EXCEPT ![c] = late'[c]], late'[c] \in Nat,
         late'[c] # 0 => shutdownRequested' /\ late'[c] = 1 /\ kind[c] = "range"
  PROVE  /\ Only(c) /\ Typed(c)' /\ Good(c)'
         /\ kind[c] = "range" => Yielded(c)' = Yielded(c) + 1
         /\ kind[c] = "stream" => Yielded(c)' = Yielded(c)
<1>1. Typed(c) /\ Good(c)
  BY AllTyped
<1>2. /\ Only(c) /\ at'[c] = "yielded" /\ by'[c] = "nobody" /\ got'[c] = Append(got[c], slot[c])
      /\ UNCHANGED <<kind, thread, slot, size, count, paced, iterating>>
  BY DEF Yield, Only, IInv, Ranges, AppRanges
<1>3. /\ got'[c] \in Seq(0 .. MaxSize) /\ Len(got'[c]) = count[c] /\ InPlace(c)'
      /\ Len(got[c]) + 1 = count[c] /\ count[c] \in Nat /\ Len(got[c]) \in Nat
  <2>1. /\ got[c] \in Seq(0 .. MaxSize) /\ slot[c] \in 0 .. MaxSize
        /\ slot[c] \in {Len(got[c]) + 1, Empty} /\ count[c] \in Nat /\ InPlace(c)
        /\ Len(got[c]) + 1 = count[c]
    BY <1>1 DEF Typed, Good, Counted, InPlace
  <2> QED
    BY <1>2, <2>1, OneMore DEF InPlace
<1>4. Typed(c)'
  BY <1>1, <1>2, <1>3 DEF Typed, GeneratorPoints
<1>5. Suspended(c)'
  BY <1>1, <1>2, <1>3 DEF Suspended, Good, Counted, Handled, Halted, Forward
<1>6. Good(c)'
  BY <1>4, <1>5, WellLeft, PTL
<1>7. /\ kind[c] = "range" => Yielded(c)' = Yielded(c) + 1
      /\ kind[c] = "stream" => Yielded(c)' = Yielded(c)
  BY <1>2, <1>3 DEF Yielded
<1> QED
  BY <1>2, <1>4, <1>6, <1>7

LEMMA StreamGoesOnKeeps ==
  ASSUME IInv, NEW c \in Coroutine, StreamGoesOn(c), UNCHANGED appVars
  PROVE  IInv' /\ NoneYields
<1>1. Scalars /\ Typed(c) /\ Good(c)
  BY AllTyped
<1>2. /\ kind[c] = "stream" /\ by[c] # "nobody" /\ UNCHANGED <<calls, meddled, object, appVars>>
      /\ fault = "none" /\ late[c] = 0 /\ late' = late
  BY <1>1 DEF StreamGoesOn, BodyRuns, NoCall, Good, Halted, appVars, lifeVars, countVars
<1>3. Forward /\ Owned'
  <2>1. Owned
    BY <1>2, OwnedWhileUnfinished
  <2> QED
    BY <1>2, <2>1 DEF Forward, Owned, appVars, lifeVars
<1>4. ASSUME running' \in BOOLEAN, fault' \in {fault, "terminated"}
      PROVE  Scalars' /\ NothingElseUndefined'
  BY <1>1, <1>2, <1>4 DEF Scalars, NothingElseUndefined, appVars, lifeVars, countVars
<1>5. ASSUME Turning(c), Turn(c)
      PROVE  Moved(c) /\ fault' \in {fault, "terminated"}
  <2>1. CASE count[c] < size[c] /\ AwaitFrame(c) /\ UNCHANGED <<kind, size, got, paced, iterating, fault>>
    BY <1>2, <1>3, <1>5, <2>1, BodyAwaitsFrame
  <2>2. CASE Await(c)
    BY <1>2, <1>3, <1>5, <2>2, BodyAwaitsTimer DEF Await
  <2>3. CASE GeneratorThrows(c)
    BY <1>2, <1>3, <1>5, <2>3, BodyEnds
  <2> QED
    BY <1>5, <2>1, <2>2, <2>3 DEF Turn
<1>6. CASE at[c] = "awaiting" /\ Yield(c, slot[c]) /\ UNCHANGED <<running, fault>>
  <2>1. /\ Only(c) /\ Typed(c)' /\ Good(c)' /\ Yielded(c)' = Yielded(c)
    <3>1. late' = [late EXCEPT ![c] = late'[c]] /\ late'[c] = 0
      BY <1>2 DEF IInv, AppRanges
    <3> QED
      BY <1>2, <1>3, <1>6, <3>1, BodyYields
  <2>2. running' \in BOOLEAN
    BY <1>1, <1>6 DEF Scalars
  <2> QED
    BY <1>3, <1>4, <1>6, <2>1, <2>2, OneMoves
<1>8. CASE at[c] = "awaiting" /\ GeneratorRethrows(c) /\ UNCHANGED running
  <2>1. Moved(c)
    BY <1>2, <1>3, <1>8, BodyRethrows
  <2>2. running' \in BOOLEAN /\ fault' = fault
    BY <1>1, <1>8 DEF Scalars, GeneratorRethrows
  <2> QED
    BY <1>3, <1>4, <2>1, <2>2, OneMoves DEF Moved
<1>7. CASE at[c] # "awaiting"
  <2>1. running' \in BOOLEAN
    BY <1>1, <1>7 DEF StreamGoesOn, WhileRunning, Scalars
  <2>2. Turning(c)
    BY <1>2, <1>7 DEF StreamGoesOn, Turning
  <2>3. Moved(c) /\ fault' \in {fault, "terminated"}
    <3>1. CASE Turn(c)
      BY <1>5, <2>2, <3>1
    <3>2. CASE Await(c)
      BY <1>2, <1>3, <2>2, <3>2, BodyAwaitsTimer DEF Await
    <3>3. CASE GeneratorThrows(c) \/ GeneratorEnds(c)
      BY <1>2, <1>3, <2>2, <3>3, BodyEnds
    <3> QED
      BY <1>7, <3>1, <3>2, <3>3 DEF StreamGoesOn, WhileRunning
  <2> QED
    BY <1>3, <1>4, <2>1, <2>3, OneMoves DEF Moved
<1> QED
  BY <1>6, <1>7, <1>8 DEF StreamGoesOn

-----------------------------------------------------------------------------
(* The service and its clients together.                                   *)
LEMMA AsyncKeeps ==
  ASSUME IInv, AsyncNext, UNCHANGED appVars
  PROVE  IInv' /\ NoneYields
<1>1. Scalars
  BY AllTyped
<1>2. CASE StopService
  <2>1. /\ calls' \in 0 .. MaxCalls /\ meddled' \in BOOLEAN /\ (meddled => meddled') /\ fault = "none"
        /\ object' = object
    BY <1>2, Called DEF StopService
  <2>2. /\ Scalars' /\ Forward /\ NothingElseUndefined' /\ UNCHANGED <<coroutineVars, late>>
    BY <1>1, <1>2, <2>1 DEF StopService, Scalars, Forward, NothingElseUndefined, appVars, lifeVars, countVars
  <2> QED
    BY <2>2, NoneMoves
<1>3. ASSUME NEW c \in Coroutine, ClientStep(c) PROVE IInv' /\ NoneYields
  <2>1. MaxSize \in Nat \ {0}
    BY AsyncAssumption
  <2>2. CASE ProcessFrameAsync(c)
    BY <2>1, <2>2, CallTaskKeeps DEF ProcessFrameAsync, TaskKinds
  <2>3. CASE ProcessBatchAsync(c)
    BY <2>3, CallTaskKeeps DEF ProcessBatchAsync, TaskKinds
  <2>4. CASE ProcessFrameWithTimeout(c)
    BY <2>1, <2>4, CallTaskKeeps DEF ProcessFrameWithTimeout, TaskKinds
  <2>5. CASE ProcessFrameStream(c)
    <3>1. PICK waits \in BOOLEAN : CallGenerator(c, "stream", MaxSize, waits)
      BY <2>5 DEF ProcessFrameStream
    <3>2. /\ calls' \in 0 .. MaxCalls /\ meddled' \in BOOLEAN /\ (meddled => meddled') /\ fault = "none"
          /\ object' = object /\ object = "alive"
      BY <2>5, Called DEF ProcessFrameStream
    <3>3. Scalars' /\ Forward /\ NothingElseUndefined' /\ UNCHANGED late /\ Owned'
      BY <1>1, <2>5, <3>2 DEF ProcessFrameStream, Scalars, Forward, Owned, NothingElseUndefined, appVars, lifeVars, countVars
    <3>4. MaxSize \in 0 .. MaxSize
      BY <2>1
    <3> QED
      BY <3>1, <3>3, <3>4, CallGeneratorKeeps
  <2> QED
    BY <1>3, <2>2, <2>3, <2>4, <2>5, GetKeeps, DestroyKeeps, ConsumerResumesKeeps,
       DereferenceKeeps DEF ClientStep
<1>4. ASSUME NEW c \in Coroutine, CoroutineStep(c) PROVE IInv' /\ NoneYields
  BY <1>4, DetectKeeps, ThreadResumesKeeps, IteratorChecksKeeps, TaskGoesOnKeeps, StreamGoesOnKeeps,
     UseAfterEndKeeps DEF CoroutineStep
<1> QED
  BY <1>2, <1>3, <1>4 DEF AsyncNext

(* The life cycle.                                                         *)
LifeCycleStep ==
  \/ Initialize \/ Stop \/ StopRequestsShutdown \/ StopStopsService \/ RequestShutdown
  \/ DestroyApplication \/ MembersDestroyed

(* The steps that move no coroutine, and let the object go only if all have
   ended or a client is to blame.                                          *)
LEMMA LifeStepKeeps ==
  ASSUME IInv, UNCHANGED <<coroutineVars, countVars, late>>, fault = "none",
         fault' \in {"none", "undefined"}, fault' = "undefined" => meddled',
         calls' \in 0 .. MaxCalls, meddled' \in BOOLEAN, meddled => meddled',
         object' \in {"alive", "ending", "gone"}, running' \in BOOLEAN, isRunning' \in BOOLEAN,
         shutdownRequested' \in BOOLEAN, shutdownRequested => shutdownRequested',
         stopping' \in {"no", "exchanged", "requested"},
         ~meddled' => object' = object \/ \A d \in Coroutine : ~Unfinished(d)
  PROVE  IInv' /\ NoneYields
<1>1. Scalars
  BY AllTyped
<1>2. Scalars'
  BY <1>1 DEF Scalars, countVars
<1>3. Forward
  BY DEF Forward
<1>4. NothingElseUndefined'
  BY DEF NothingElseUndefined
<1> QED
  BY <1>2, <1>3, <1>4, NoneMoves

LEMMA LifeCycleKeeps ==
  ASSUME IInv, LifeCycleStep
  PROVE  /\ IInv' /\ NoneYields /\ UNCHANGED countVars
<1>1. Scalars
  BY AllTyped
<1>t. /\ calls \in 0 .. MaxCalls /\ meddled \in BOOLEAN /\ object \in {"alive", "ending", "gone"}
      /\ running \in BOOLEAN /\ isRunning \in BOOLEAN /\ shutdownRequested \in BOOLEAN
      /\ stopping \in {"no", "exchanged", "requested"}
  BY <1>1 DEF Scalars
<1>2. CASE Initialize
  <2>1. PICK valid \in BOOLEAN :
          /\ ObjectCall(valid)
          /\ IF valid THEN Undefined ELSE UNCHANGED <<coroutineVars, running, fault>>
          /\ UNCHANGED appVars
    BY <1>2 DEF Initialize, ConfigurationIsValid
  <2>2. /\ calls' \in 0 .. MaxCalls /\ meddled' \in BOOLEAN /\ (meddled => meddled')
        /\ (valid => meddled') /\ fault = "none" /\ object' = object
    BY <2>1, Called
  <2>3. /\ UNCHANGED <<coroutineVars, running, isRunning, shutdownRequested, stopping, countVars, late>>
        /\ fault' \in {"none", "undefined"} /\ (fault' = "undefined" => meddled')
    BY <2>1, <2>2 DEF Undefined, appVars, lifeVars
  <2> QED
    BY <1>t, <2>2, <2>3, LifeStepKeeps
<1>3. CASE Stop \/ RequestShutdown
  <2>1. /\ calls' \in 0 .. MaxCalls /\ meddled' \in BOOLEAN /\ (meddled => meddled') /\ fault = "none"
        /\ object' = object
    BY <1>3, Called DEF Stop, RequestShutdown
  <2>2. /\ isRunning' \in BOOLEAN /\ shutdownRequested' \in BOOLEAN
        /\ (shutdownRequested => shutdownRequested') /\ stopping' \in {"no", "exchanged", "requested"}
        /\ UNCHANGED <<coroutineVars, running, fault, countVars, late>>
    BY <1>t, <1>3 DEF Stop, Exchange, RequestShutdown
  <2> QED
    BY <1>t, <2>1, <2>2, LifeStepKeeps
<1>4. CASE StopRequestsShutdown \/ StopStopsService
  <2>1. /\ fault = "none" /\ UNCHANGED <<calls, meddled, object>>
        /\ running' \in BOOLEAN /\ isRunning' \in BOOLEAN /\ shutdownRequested' \in BOOLEAN
        /\ (shutdownRequested => shutdownRequested') /\ stopping' \in {"no", "exchanged", "requested"}
        /\ UNCHANGED <<coroutineVars, fault, countVars, late>>
    BY <1>t, <1>4 DEF StopRequestsShutdown, StopStopsService, NoCall
  <2> QED
    BY <1>t, <2>1, LifeStepKeeps
<1>5. CASE DestroyApplication
  <2> DEFINE m == \E c \in Coroutine : Unfinished(c)
  <2>1. /\ fault = "none" /\ calls < MaxCalls /\ calls' = calls + 1 /\ meddled' = (meddled \/ m)
        /\ object' = "ending" /\ isRunning' = FALSE /\ stopping' \in {"no", "exchanged"}
        /\ UNCHANGED <<coroutineVars, running, fault, shutdownRequested, countVars, late>>
    BY <1>5 DEF DestroyApplication, Call, Exchange
  <2>2. ~m => \A d \in Coroutine : ~Unfinished(d)
    OBVIOUS
  <2>3. m \in BOOLEAN
    OBVIOUS
  <2> HIDE DEF m
  <2>4. calls' \in 0 .. MaxCalls
    BY <1>t, <2>1, AsyncAssumption
  <2>5. meddled' \in BOOLEAN /\ (meddled => meddled') /\ (m => meddled')
    BY <1>t, <2>1, <2>3, Zenon
  <2> QED
    BY <1>t, <2>1, <2>2, <2>4, <2>5, LifeStepKeeps
<1>6. CASE MembersDestroyed
  <2>1. /\ fault = "none" /\ object = "ending" /\ object' = "gone"
        /\ UNCHANGED <<coroutineVars, running, fault, meddled, calls, isRunning, shutdownRequested,
                       stopping, countVars, late>>
    BY <1>6 DEF MembersDestroyed, appVars, lifeVars
  <2>2. ~meddled' => \A d \in Coroutine : ~Unfinished(d)
    BY <2>1 DEF IInv, Good, Handled
  <2> QED
    BY <1>t, <2>1, <2>2, LifeStepKeeps
<1> QED
  BY <1>2, <1>3, <1>4, <1>5, <1>6 DEF LifeCycleStep

LEMMA StartAsyncKeeps ==
  ASSUME IInv, NEW c \in Coroutine, StartAsync(c)
  PROVE  /\ IInv' /\ NoneYields /\ UNCHANGED countVars
<1>1. Scalars /\ MaxSize \in 0 .. MaxSize
  BY AllTyped, AsyncAssumption
<1>2. /\ calls' \in 0 .. MaxCalls /\ meddled' \in BOOLEAN /\ (meddled => meddled') /\ fault = "none"
      /\ object' = object /\ object = "alive"
  BY Called DEF StartAsync
<1>3. isRunning' = TRUE /\ UNCHANGED <<running, fault, shutdownRequested, stopping, countVars, late>>
  BY DEF StartAsync
<1>4. Scalars' /\ Forward /\ NothingElseUndefined' /\ Owned'
  BY <1>1, <1>2, <1>3 DEF Scalars, Forward, Owned, NothingElseUndefined, countVars
<1>5. CASE UNCHANGED coroutineVars
  BY <1>3, <1>4, <1>5, NoneMoves
<1>6. CASE \E waits \in BOOLEAN : CallGenerator(c, "stream", MaxSize, waits)
  BY <1>1, <1>3, <1>4, <1>6, CallGeneratorKeeps
<1> QED
  BY <1>3, <1>5, <1>6 DEF StartAsync

-----------------------------------------------------------------------------
(* The statistics.                                                         *)
LEMMA UpdateTyped ==
  ASSUME IInv, NEW u \in Updater, Loads(u) \/ \E f \in {"frames", "errors"} : Stores(u, f)
  PROVE  /\ statistics' \in [{"frames", "errors"} -> Nat]
         /\ update' \in [Updater -> [{"frames", "errors"} -> Nat] \cup {NoUpdate}]
         /\ handled' \in [{"frames", "errors"} -> Nat] /\ overlaps' \in Nat
<1> DEFINE R == [{"frames", "errors"} -> Nat]
<1>1. /\ statistics \in R /\ update \in [Updater -> R \cup {NoUpdate}]
      /\ handled \in R /\ overlaps \in Nat
  BY AllTyped DEF Scalars
<1>2. CASE Loads(u)
  <2> HIDE DEF R
  <2>1. statistics' \in R /\ update' \in [Updater -> R \cup {NoUpdate}] /\ handled' \in R
    BY <1>1, <1>2 DEF Loads
  <2>2. overlaps' \in Nat
    BY <1>1, <1>2 DEF Loads
  <2> QED
    BY <2>1, <2>2 DEF R
<1>3. ASSUME NEW f \in {"frames", "errors"}, Stores(u, f)
      PROVE  /\ statistics' \in R /\ update' \in [Updater -> R \cup {NoUpdate}]
             /\ handled' \in R /\ overlaps' \in Nat
  <2>1. update[u] \in R
    BY <1>1, <1>3 DEF Stores
  <2>2. statistics' \in R /\ handled' \in R /\ overlaps' \in Nat
    BY <1>1, <1>3, <2>1 DEF Stores
  <2> HIDE DEF R
  <2>3. update' \in [Updater -> R \cup {NoUpdate}]
    BY <1>1, <1>3 DEF Stores
  <2> QED
    BY <2>2, <2>3
<1> QED
  BY <1>2, <1>3

LEMMA ErrorKeeps ==
  ASSUME IInv, NEW n \in Notifier, ErrorLoads(n) \/ ErrorStores(n)
  PROVE  IInv' /\ NoneYields
<1>1. Scalars
  BY AllTyped
<1>2. /\ statistics' \in [{"frames", "errors"} -> Nat]
      /\ update' \in [Updater -> [{"frames", "errors"} -> Nat] \cup {NoUpdate}]
      /\ handled' \in [{"frames", "errors"} -> Nat] /\ overlaps' \in Nat
  <2>1. n \in Updater
    BY DEF Updater
  <2> QED
    BY <2>1, UpdateTyped DEF ErrorLoads, ErrorStores
<1>3. /\ calls' \in 0 .. MaxCalls /\ meddled' \in BOOLEAN /\ (meddled => meddled') /\ fault = "none"
      /\ object' = object
  <2>1. CASE ErrorLoads(n)
    BY <2>1, Called DEF ErrorLoads
  <2>2. CASE ErrorStores(n)
    BY <1>1, <2>2 DEF ErrorStores, NoCall, Scalars
  <2> QED
    BY <2>1, <2>2
<1>4. UNCHANGED <<coroutineVars, running, fault, isRunning, stopping, late>>
  BY DEF ErrorLoads, ErrorStores, lifeVars
<1>5. shutdownRequested' \in BOOLEAN /\ (shutdownRequested => shutdownRequested')
  BY <1>1 DEF ErrorLoads, ErrorStores, Scalars, lifeVars
<1>6. Scalars' /\ Forward /\ NothingElseUndefined'
  BY <1>1, <1>2, <1>3, <1>4, <1>5 DEF Scalars, Forward, NothingElseUndefined
<1> QED
  BY <1>4, <1>6, NoneMoves

-----------------------------------------------------------------------------
(* The range of frames.                                                    *)
LEMMA ProcessFramesRangeKeeps ==
  ASSUME IInv, NEW c \in Coroutine, ProcessFramesRange(c)
  PROVE  IInv' /\ NoneYields
<1>1. Scalars
  BY AllTyped
<1>2. /\ calls' \in 0 .. MaxCalls /\ meddled' \in BOOLEAN /\ (meddled => meddled') /\ fault = "none"
      /\ object' = object /\ object = "alive"
  BY Called DEF ProcessFramesRange
<1>3. Scalars' /\ Forward /\ NothingElseUndefined' /\ Owned' /\ UNCHANGED late
  BY <1>1, <1>2 DEF ProcessFramesRange, Scalars, Forward, Owned, NothingElseUndefined,
                    appVars, lifeVars, countVars
<1>4. PICK n \in 0 .. MaxSize : CallGenerator(c, "range", n, FALSE)
  <2>1. PICK frames \in 0 .. MaxSize, maxResults \in 1 .. MaxSize :
          CallGenerator(c, "range", IF frames < maxResults THEN frames ELSE maxResults, FALSE)
    BY DEF ProcessFramesRange
  <2> DEFINE n == IF frames < maxResults THEN frames ELSE maxResults
  <2>2. n \in 0 .. MaxSize
    BY AsyncAssumption
  <2> HIDE DEF n
  <2>3. CallGenerator(c, "range", n, FALSE)
    BY <2>1 DEF n
  <2> QED
    BY <2>2, <2>3
<1> QED
  BY <1>3, <1>4, CallGeneratorKeeps

(* What the steps of a range have in common.                               *)
LEMMA RangeStepOwned ==
  ASSUME IInv, NEW c \in Coroutine, BodyRuns(c), UNCHANGED lifeVars
  PROVE  /\ fault = "none" /\ by[c] # "nobody" /\ UNCHANGED <<calls, meddled, object>>
         /\ Forward /\ Owned'
<1>1. fault = "none" /\ by[c] # "nobody" /\ UNCHANGED <<calls, meddled, object>>
  BY DEF BodyRuns, NoCall
<1>2. Owned
  BY <1>1, OwnedWhileUnfinished
<1> QED
  BY <1>1, <1>2 DEF Forward, Owned, lifeVars

LEMMA RangeLoadsKeeps ==
  ASSUME IInv, NEW c \in Coroutine, RangeLoads(c)
  PROVE  IInv' /\ NoneYields /\ (Loads(c) \/ UNCHANGED countVars)
<1>1. Scalars
  BY AllTyped
<1>2. /\ fault = "none" /\ by[c] # "nobody" /\ UNCHANGED <<calls, meddled, object>> /\ Forward
  BY RangeStepOwned DEF RangeLoads, RangeRuns
<1>3. /\ kind[c] = "range" /\ at[c] = "awaiting"
      /\ UNCHANGED <<running, isRunning, shutdownRequested, stopping, late>>
  BY DEF RangeLoads, RangeRuns, lifeVars
<1>4. CASE Loads(c) /\ UNCHANGED <<coroutineVars, fault>>
  <2>1. c \in Updater
    BY DEF Updater
  <2>2. /\ statistics' \in [{"frames", "errors"} -> Nat]
        /\ update' \in [Updater -> [{"frames", "errors"} -> Nat] \cup {NoUpdate}]
        /\ handled' \in [{"frames", "errors"} -> Nat] /\ overlaps' \in Nat
    BY <1>4, <2>1, UpdateTyped
  <2>3. Scalars' /\ NothingElseUndefined'
    BY <1>1, <1>2, <1>3, <1>4, <2>2 DEF Scalars, NothingElseUndefined
  <2> QED
    BY <1>2, <1>3, <1>4, <2>3, NoneMoves
<1>5. CASE GeneratorRethrows(c) /\ UNCHANGED countVars
  <2>1. Moved(c)
    BY <1>2, <1>3, <1>5, BodyRethrows
  <2>2. Scalars' /\ NothingElseUndefined'
    BY <1>1, <1>2, <1>3, <1>5 DEF Scalars, NothingElseUndefined, GeneratorRethrows, countVars
  <2> QED
    BY <1>2, <1>5, <2>1, <2>2, OneMoves DEF Moved
<1> QED
  BY <1>4, <1>5 DEF RangeLoads

LEMMA RangeStoresKeeps ==
  ASSUME IInv, NEW c \in Coroutine, RangeStores(c)
  PROVE  /\ IInv'
         /\ \/ Yielded(c)' = Yielded(c) + 1 /\ \A d \in Coroutine \ {c} : Yielded(d)' = Yielded(d)
            \/ NoneYields
<1>1. Scalars /\ Typed(c) /\ Good(c)
  BY AllTyped
<1>2. /\ statistics' \in [{"frames", "errors"} -> Nat]
      /\ update' \in [Updater -> [{"frames", "errors"} -> Nat] \cup {NoUpdate}]
      /\ handled' \in [{"frames", "errors"} -> Nat] /\ overlaps' \in Nat
  <2>1. c \in Updater
    BY DEF Updater
  <2> QED
    BY <2>1, UpdateTyped DEF RangeStores
<1>3. /\ fault = "none" /\ by[c] # "nobody" /\ UNCHANGED <<calls, meddled, object>>
      /\ Forward /\ Owned'
  BY RangeStepOwned DEF RangeStores, RangeRuns
<1>4. /\ kind[c] = "range" /\ at[c] = "awaiting"
      /\ UNCHANGED <<running, fault, isRunning, shutdownRequested, stopping>>
  BY DEF RangeStores, RangeRuns, GeneratorRethrows, lifeVars
<1>5. Scalars' /\ NothingElseUndefined'
  BY <1>1, <1>2, <1>3, <1>4 DEF Scalars, NothingElseUndefined
<1>6. CASE Yield(c, slot[c]) /\ late' = [late EXCEPT ![c] = @ + IF shutdownRequested THEN 1 ELSE 0]
  <2>1. late[c] = 0
    BY <1>1, <1>4 DEF Good, Halted
  <2>2. late'[c] = (IF shutdownRequested THEN 1 ELSE 0)
    BY <1>6, <2>1 DEF IInv, AppRanges
  <2>3. late' = [late EXCEPT ![c] = late'[c]]
    BY <1>6 DEF IInv, AppRanges
  <2>4. /\ late'[c] \in Nat
        /\ late'[c] # 0 => shutdownRequested' /\ late'[c] = 1 /\ kind[c] = "range"
    BY <1>4, <2>2
  <2>5. Only(c) /\ Typed(c)' /\ Good(c)' /\ Yielded(c)' = Yielded(c) + 1
    BY <1>3, <1>4, <1>6, <2>3, <2>4, BodyYields
  <2> QED
    BY <1>3, <1>5, <2>5, OneMoves
<1>7. CASE GeneratorRethrows(c) /\ UNCHANGED late
  <2>1. Moved(c)
    BY <1>3, <1>4, <1>7, BodyRethrows
  <2> QED
    BY <1>3, <1>5, <2>1, OneMoves DEF Moved
<1> QED
  BY <1>6, <1>7 DEF RangeStores

LEMMA RangeGoesOnKeeps ==
  ASSUME IInv, NEW c \in Coroutine, RangeGoesOn(c)
  PROVE  IInv' /\ NoneYields
<1>1. Scalars /\ Typed(c) /\ Good(c)
  BY AllTyped
<1>2. /\ BodyRuns(c) /\ kind[c] = "range" /\ at[c] \in {"initial", "yielded"}
      /\ UNCHANGED <<running, appVars>>
  BY DEF RangeGoesOn, RangeTurn, RangeRuns
<1>3. /\ fault = "none" /\ by[c] # "nobody" /\ UNCHANGED <<calls, meddled, object, late>>
      /\ Forward /\ Owned' /\ Turning(c)
  BY <1>2, RangeStepOwned DEF appVars, Turning
<1>4. ASSUME fault' \in {fault, "terminated"} PROVE Scalars' /\ NothingElseUndefined'
  BY <1>1, <1>2, <1>3, <1>4 DEF Scalars, NothingElseUndefined, appVars, lifeVars, countVars
<1>5. Moved(c) /\ fault' \in {fault, "terminated"}
  <2>1. CASE GeneratorEnds(c) \/ GeneratorThrows(c)
    BY <1>3, <2>1, BodyEnds
  <2>2. CASE count[c] # size[c] /\ ~shutdownRequested /\ AwaitFrame(c) /\ UNCHANGED <<kind, size, got, paced, iterating, fault>>
    <3>1. count[c] < size[c] /\ late[c] = 0
      BY <1>1, <2>2 DEF Good, Counted, Halted, Typed
    <3> QED
      BY <1>3, <2>2, <3>1, BodyAwaitsFrame
  <2> QED
    BY <2>1, <2>2 DEF RangeGoesOn, RangeTurn
<1> QED
  BY <1>3, <1>4, <1>5, OneMoves DEF Moved

LEMMA InvStep == IInv /\ [Next]_vars => IInv'
<1> SUFFICES ASSUME IInv, [Next]_vars PROVE IInv'
  OBVIOUS
<1>1. CASE UNCHANGED vars
  <2>1. Scalars' /\ Forward /\ NothingElseUndefined' /\ UNCHANGED <<coroutineVars, late>>
    BY <1>1, AllTyped DEF vars, asyncVars, coroutineVars, appVars, lifeVars, countVars, Scalars, Forward,
                          IInv, NothingElseUndefined, Astray
  <2> QED
    BY <2>1, NoneMoves
<1>2. ASSUME NEW c \in Coroutine, StartAsync(c) \/ ProcessFramesRange(c) \/ RangeStep(c) PROVE IInv'
  BY <1>2, StartAsyncKeeps, ProcessFramesRangeKeeps, RangeLoadsKeeps, RangeStoresKeeps, RangeGoesOnKeeps
  DEF RangeStep
<1> QED
  BY <1>1, <1>2, AsyncKeeps, LifeCycleKeeps, ErrorKeeps DEF Next, LifeCycleStep

LEMMA InvAlways == Spec => []IInv
  BY InvInit, InvStep, PTL DEF Spec

(* Left alone by its clients, a coroutine is never resumed twice, nor it or
   its object touched once they are gone, whatever throws, but for a done()
   asked too late and an exception caught on the thread of a frame; and the
   state stays in range.                                                   *)
THEOREM RulesAlwaysKept == Spec => []RulesKept
<1>1. IInv => RulesKept
  BY InvImplies DEF RulesKept
<1> QED
  BY <1>1, InvAlways, PTL

(* A range yields one frame at most once the shutdown has been requested.  *)
THEOREM ShutdownAlwaysStopsRanges == Spec => []ShutdownStopsRanges
  BY InvAlways, InvImplies, PTL

-----------------------------------------------------------------------------
(* The sum over a function: FoldFunction is defined by recursion over the
   subsets of its domain, which takes away what it chooses.                *)
Chosen(s) == CHOOSE x \in s : TRUE

SumStep(f, sum, s) == IF s = {} THEN 0 ELSE f[Chosen(s)] + sum[s \ {Chosen(s)}]

LEMMA FewerLeft ==
  ASSUME NEW S, IsFiniteSet(S), NEW s \in SUBSET S, s # {}
  PROVE  /\ Chosen(s) \in s /\ s \ {Chosen(s)} \in SUBSET S
         /\ Cardinality(s) \in Nat /\ Cardinality(s \ {Chosen(s)}) \in Nat
         /\ Cardinality(s \ {Chosen(s)}) < Cardinality(s)
<1>1. Chosen(s) \in s
  BY DEF Chosen
<1>2. IsFiniteSet(s)
  BY FS_Subset
<1>3. /\ IsFiniteSet(s \ {Chosen(s)}) /\ Cardinality(s \ {Chosen(s)}) = Cardinality(s) - 1
  BY <1>1, <1>2, FS_RemoveElement
<1>4. Cardinality(s) \in Nat /\ Cardinality(s \ {Chosen(s)}) \in Nat
  BY <1>2, <1>3, FS_CardinalityType
<1> QED
  BY <1>1, <1>3, <1>4

(* A set of natural numbers has a least element.                           *)
LEMMA LeastElement ==
  ASSUME NEW T \in SUBSET Nat, T # {}
  PROVE  \E m \in T : \A k \in T : m <= k
<1> DEFINE R == OpToRel(<, Nat)
<1>1. \E x \in T : \A y \in T : <<y, x>> \notin R
  <2>1. IsWellFoundedOn(R, Nat)
    BY NatLessThanWellFounded
  <2> QED
    BY <2>1, WFMin
<1>2. R = {p \in Nat \X Nat : p[1] < p[2]}
  BY Zenon DEF OpToRel
<1> HIDE DEF R
<1>3. PICK m \in T : \A k \in T : <<k, m>> \notin R
  BY <1>1
<1>4. ASSUME NEW k \in T PROVE m <= k
  <2>1. <<k, m>> \in R <=> k < m
    BY <1>2
  <2> QED
    BY <1>3, <2>1
<1> QED
  BY <1>4

(* What holds of the empty set, and of a set if it holds of what is left of
   it, holds of every subset.                                              *)
LEMMA SubsetInduction ==
  ASSUME NEW S, IsFiniteSet(S), NEW P, {} \in P,
         \A s \in SUBSET S : s # {} /\ s \ {Chosen(s)} \in P => s \in P
  PROVE  SUBSET S \subseteq P
<1> DEFINE T == {k \in Nat : \E s \in SUBSET S : s \notin P /\ Cardinality(s) = k}
<1> SUFFICES ASSUME NEW s \in SUBSET S, s \notin P PROVE FALSE
  OBVIOUS
<1>1. T # {}
  <2>1. Cardinality(s) \in Nat
    BY FewerLeft
  <2> QED
    BY <2>1
<1>2. PICK m \in T : \A k \in T : m <= k
  <2>1. T \in SUBSET Nat
    OBVIOUS
  <2> HIDE DEF T
  <2> QED
    BY <1>1, <2>1, LeastElement
<1>3. PICK t \in SUBSET S : t \notin P /\ Cardinality(t) = m
  OBVIOUS
<1>4. t # {} /\ t \ {Chosen(t)} \notin P
  BY <1>3
<1>5. /\ t \ {Chosen(t)} \in SUBSET S /\ Cardinality(t \ {Chosen(t)}) \in Nat
      /\ Cardinality(t \ {Chosen(t)}) < m /\ m \in Nat
  BY <1>3, <1>4, FewerLeft
<1>6. Cardinality(t \ {Chosen(t)}) \in T
  BY <1>4, <1>5
<1> HIDE DEF T
<1> QED
  BY <1>2, <1>5, <1>6

(* The function that the recursion defines exists: for the sets of no more
   than k elements, for every k.                                           *)
LEMMA SumsExist ==
  ASSUME NEW S, IsFiniteSet(S), NEW f
  PROVE  \E sum : sum = [s \in SUBSET S |-> SumStep(f, sum, s)]
<1> DEFINE Upto(k) == {s \in SUBSET S : Cardinality(s) <= k}
           T == {k \in Nat : ~ \E sum : sum = [s \in Upto(k) |-> SumStep(f, sum, s)]}
<1>1. \A s \in SUBSET S : IsFiniteSet(s) /\ Cardinality(s) \in Nat
  BY FS_Subset, FS_CardinalityType
<1>2. T = {}
  <2> SUFFICES ASSUME T # {} PROVE FALSE
    OBVIOUS
  <2>1. PICK m \in T : \A k \in T : m <= k
    <3>1. T \in SUBSET Nat
      OBVIOUS
    <3> HIDE DEF T
    <3> QED
      BY <3>1, LeastElement
  <2>2. CASE m = 0
    <3> DEFINE sum == [s \in Upto(0) |-> 0]
    <3>1. ASSUME NEW s \in Upto(0) PROVE s = {}
      <4>1. IsFiniteSet(s) /\ Cardinality(s) = 0
        BY <1>1
      <4> QED
        BY <4>1, FS_EmptySet
    <3>2. ASSUME NEW s \in Upto(0) PROVE SumStep(f, sum, s) = 0
      BY <3>1 DEF SumStep
    <3>3. sum = [s \in Upto(0) |-> SumStep(f, sum, s)]
      BY <3>2
    <3> QED
      BY <2>1, <2>2, <3>3
  <2>3. CASE m # 0
    <3>1. m \in Nat /\ m - 1 \in Nat /\ m - 1 \notin T
      <4>1. m \in Nat
        OBVIOUS
      <4> HIDE DEF T
      <4> QED
        BY <2>1, <2>3, <4>1
    <3>2. PICK sum : sum = [s \in Upto(m - 1) |-> SumStep(f, sum, s)]
      BY <3>1
    <3> DEFINE more == [s \in Upto(m) |-> IF s \in Upto(m - 1) THEN sum[s] ELSE SumStep(f, sum, s)]
    <3>3. \A s \in Upto(m) : more[s] = SumStep(f, sum, s)
      BY <3>2
    <3>4. ASSUME NEW s \in Upto(m) PROVE more[s] = SumStep(f, more, s)
      <4> DEFINE r == s \ {Chosen(s)}
      <4>1. CASE s = {}
        BY <3>3, <4>1 DEF SumStep
      <4>2. CASE s # {}
        <5>1. r \in SUBSET S /\ Cardinality(r) < Cardinality(s) /\ Cardinality(r) \in Nat
              /\ Cardinality(s) \in Nat /\ Cardinality(s) <= m
          BY <4>2, FewerLeft
        <5> HIDE DEF r
        <5>2. r \in Upto(m - 1) /\ r \in Upto(m)
          BY <3>1, <5>1
        <5>3. more[r] = sum[r]
          BY <5>2
        <5> HIDE DEF more
        <5> QED
          BY <3>3, <4>2, <5>3 DEF SumStep, r
      <4> QED
        BY <4>1, <4>2
    <3>5. more = [s \in Upto(m) |-> SumStep(f, more, s)]
      <4>1. more = [s \in Upto(m) |-> more[s]]
        OBVIOUS
      <4> HIDE DEF more
      <4> QED
        BY <3>4, <4>1
    <3> QED
      BY <2>1, <3>5
  <2> QED
    BY <2>2, <2>3
<1>3. Cardinality(S) \in Nat /\ Upto(Cardinality(S)) = SUBSET S
  BY <1>1, FS_Subset
<1>4. PICK sum : sum = [s \in Upto(Cardinality(S)) |-> SumStep(f, sum, s)]
  BY <1>2, <1>3
<1> HIDE DEF Upto
<1> QED
  BY <1>3, <1>4

Total(f) == FoldFunction(+, 0, f)

LEMMA SumIsFold ==
  ASSUME NEW S, IsFiniteSet(S), NEW f, DOMAIN f = S
  PROVE  \E sum : /\ sum[{}] = 0
                  /\ \A s \in SUBSET S : s # {} => sum[s] = f[Chosen(s)] + sum[s \ {Chosen(s)}]
                  /\ Total(f) = sum[S]
<1> DEFINE sum == CHOOSE sum : sum = [s \in SUBSET S |-> SumStep(f, sum, s)]
<1>1. sum = [s \in SUBSET S |-> SumStep(f, sum, s)]
  BY SumsExist
<1>2. Total(f) = sum[S]
  BY Zenon DEF Total, FoldFunction, FoldFunctionOnSet, MapThenFoldSet, SumStep, Chosen
<1> HIDE DEF sum
<1>3. \A s \in SUBSET S : sum[s] = SumStep(f, sum, s)
  BY <1>1
<1>4. sum[{}] = 0 /\ \A s \in SUBSET S : s # {} => sum[s] = f[Chosen(s)] + sum[s \ {Chosen(s)}]
  BY <1>3 DEF SumStep
<1> QED
  BY <1>2, <1>4

(* The sum of numbers is a number, it depends on the values only, and it
   grows by one with one of them.                                          *)
LEMMA SumIsNat ==
  ASSUME NEW S, IsFiniteSet(S), NEW f \in [S -> Nat]
  PROVE  Total(f) \in Nat
<1>1. PICK sum : /\ sum[{}] = 0
                 /\ \A s \in SUBSET S : s # {} => sum[s] = f[Chosen(s)] + sum[s \ {Chosen(s)}]
                 /\ Total(f) = sum[S]
  BY SumIsFold
<1> DEFINE P == {s \in SUBSET S : sum[s] \in Nat}
<1>2. {} \in P
  BY <1>1
<1>3. ASSUME NEW s \in SUBSET S, s # {}, s \ {Chosen(s)} \in P PROVE s \in P
  <2>1. Chosen(s) \in S
    BY <1>3, FewerLeft
  <2>2. f[Chosen(s)] \in Nat
    BY <2>1
  <2>3. sum[s \ {Chosen(s)}] \in Nat
    BY <1>3
  <2>4. sum[s] = f[Chosen(s)] + sum[s \ {Chosen(s)}]
    BY <1>1, <1>3
  <2>5. sum[s] \in Nat
    BY <2>2, <2>3, <2>4
  <2> QED
    BY <2>5
<1>4. SUBSET S \subseteq P
  <2> HIDE DEF P
  <2> QED
    BY <1>2, <1>3, SubsetInduction
<1> QED
  BY <1>1, <1>4

LEMMA SumGrows ==
  ASSUME NEW S, IsFiniteSet(S), NEW f \in [S -> Nat], NEW g \in [S -> Nat], NEW c \in S,
         g[c] = f[c] + 1, \A d \in S \ {c} : g[d] = f[d]
  PROVE  Total(g) = Total(f) + 1
<1>1. PICK sum : /\ sum[{}] = 0
                 /\ \A s \in SUBSET S : s # {} => sum[s] = f[Chosen(s)] + sum[s \ {Chosen(s)}]
                 /\ Total(f) = sum[S]
  BY SumIsFold
<1>2. PICK gum : /\ gum[{}] = 0
                 /\ \A s \in SUBSET S : s # {} => gum[s] = g[Chosen(s)] + gum[s \ {Chosen(s)}]
                 /\ Total(g) = gum[S]
  BY SumIsFold
<1> DEFINE P == {s \in SUBSET S : sum[s] \in Nat /\ gum[s] = sum[s] + IF c \in s THEN 1 ELSE 0}
<1>3. {} \in P
  BY <1>1, <1>2
<1>4. ASSUME NEW s \in SUBSET S, s # {}, s \ {Chosen(s)} \in P PROVE s \in P
  <2> DEFINE x == Chosen(s)
             r == s \ {x}
  <2>1. x \in s /\ x \in S /\ f[x] \in Nat /\ g[x] = f[x] + IF x = c THEN 1 ELSE 0
    BY <1>4, FewerLeft
  <2>2. sum[s] = f[x] + sum[r] /\ gum[s] = g[x] + gum[r]
    BY <1>1, <1>2, <1>4
  <2>3. sum[r] \in Nat /\ gum[r] = sum[r] + IF c \in r THEN 1 ELSE 0
    BY <1>4
  <2>4. (c \in s <=> x = c \/ c \in r) /\ ~(x = c /\ c \in r)
    BY <2>1
  <2> HIDE DEF x, r
  <2>5. sum[s] \in Nat /\ gum[s] = sum[s] + IF c \in s THEN 1 ELSE 0
    <3>1. CASE x = c
      BY <2>1, <2>2, <2>3, <2>4, <3>1
    <3>2. CASE c \in r
      BY <2>1, <2>2, <2>3, <2>4, <3>2
    <3>3. CASE x # c /\ c \notin r
      BY <2>1, <2>2, <2>3, <2>4, <3>3
    <3> QED
      BY <3>1, <3>2, <3>3
  <2> QED
    BY <2>5
<1>5. SUBSET S \subseteq P
  <2> HIDE DEF P
  <2> QED
    BY <1>3, <1>4, SubsetInduction
<1> QED
  BY <1>1, <1>2, <1>5

LEMMA SumOfZeros ==
  ASSUME NEW S, IsFiniteSet(S), NEW f \in [S -> {0}]
  PROVE  Total(f) = 0
<1>1. PICK sum : /\ sum[{}] = 0
                 /\ \A s \in SUBSET S : s # {} => sum[s] = f[Chosen(s)] + sum[s \ {Chosen(s)}]
                 /\ Total(f) = sum[S]
  BY SumIsFold
<1> DEFINE P == {s \in SUBSET S : sum[s] = 0}
<1>2. {} \in P
  BY <1>1
<1>3. ASSUME NEW s \in SUBSET S, s # {}, s \ {Chosen(s)} \in P PROVE s \in P
  <2>1. Chosen(s) \in S
    BY <1>3, FewerLeft
  <2>2. f[Chosen(s)] = 0
    BY <2>1
  <2> QED
    BY <1>1, <1>3, <2>2
<1>4. SUBSET S \subseteq P
  <2> HIDE DEF P
  <2> QED
    BY <1>2, <1>3, SubsetInduction
<1> QED
  BY <1>1, <1>4

-----------------------------------------------------------------------------
(* The statistics, and the copies of them that are under way: none is ahead
   of what happened.  Every load inside an update of another thread leaves
   room for one count to be lost: one of those that are stored while the
   copy is under way, or this copy's own.                                  *)
Holds(u) == update[u] # NoUpdate
Pending == {u \in Updater : Holds(u)}
Both(counts) == counts.frames + counts.errors
Behind(counts) == counts.frames <= handled.frames /\ counts.errors <= handled.errors

Counting ==
  /\ FramesYielded <= handled.frames
  /\ Behind(statistics) /\ \A u \in Pending : Behind(update[u])
  /\ Both(handled) <= Both(statistics) + overlaps
  /\ Pending # {} => Both(handled) + Cardinality(Pending) <= Both(statistics) + overlaps + 1
  /\ \A u \in Pending : Both(handled) + Cardinality(Pending) <= Both(update[u]) + overlaps + 1

Frames == [c \in Coroutine |-> Yielded(c)]

LEMMA FramesAreCounted == FramesYielded = Total(Frames)
  BY Zenon DEF FramesYielded, Frames, Yielded, Total

LEMMA FramesAreNat ==
  ASSUME IInv
  PROVE  Frames \in [Coroutine -> Nat] /\ FramesYielded \in Nat
<1>1. \A c \in Coroutine : Yielded(c) \in Nat
  <2>1. \A c \in Coroutine : got[c] \in Seq(0 .. MaxSize)
    BY DEF IInv, Ranges
  <2> QED
    BY <2>1, LenProperties DEF Yielded
<1>2. Frames \in [Coroutine -> Nat]
  BY <1>1 DEF Frames
<1> QED
  BY <1>2, SumIsNat, FramesAreCounted, AsyncAssumption

LEMMA FramesKept ==
  ASSUME NoneYields
  PROVE  FramesYielded' = FramesYielded
<1>1. Frames' = Frames
  BY DEF NoneYields, Frames
<1>2. (FramesYielded = Total(Frames))'
  BY FramesAreCounted, PTL
<1> QED
  BY <1>1, <1>2, FramesAreCounted

LEMMA OneFrameMore ==
  ASSUME IInv, NEW c \in Coroutine, Yielded(c)' = Yielded(c) + 1,
         \A d \in Coroutine \ {c} : Yielded(d)' = Yielded(d)
  PROVE  FramesYielded' = FramesYielded + 1
<1>1. (FramesYielded = Total(Frames))'
  BY FramesAreCounted, PTL
<1>2. Frames \in [Coroutine -> Nat]
  BY FramesAreNat
<1>3. /\ Frames[c] \in Nat /\ Frames'[c] = Frames[c] + 1
      /\ \A d \in Coroutine \ {c} : Frames'[d] = Frames[d]
  BY <1>2 DEF Frames
<1>4. Frames' \in [Coroutine -> Nat]
  <2>1. \A d \in Coroutine : Frames'[d] \in Nat
    BY <1>2, <1>3
  <2>2. Frames' = [d \in Coroutine |-> Frames'[d]]
    BY DEF Frames
  <2> QED
    BY <2>1, <2>2
<1> QED
  BY <1>1, <1>2, <1>3, <1>4, SumGrows, FramesAreCounted, AsyncAssumption

LEMMA CountingInit == Init => Counting
<1> SUFFICES ASSUME Init PROVE Counting
  OBVIOUS
<1>1. FramesYielded = 0
  <2>1. Frames \in [Coroutine -> {0}]
    BY DEF Frames, Yielded, Init, AsyncInit
  <2> QED
    BY <2>1, SumOfZeros, FramesAreCounted, AsyncAssumption
<1>2. Pending = {}
  <2>1. \A u \in Updater : ~Holds(u)
    BY Zenon DEF Init, Holds
  <2> QED
    BY <2>1 DEF Pending
<1>3. /\ statistics.frames = 0 /\ statistics.errors = 0 /\ overlaps = 0
      /\ handled.frames = 0 /\ handled.errors = 0
  BY DEF Init
<1> QED
  BY <1>1, <1>2, <1>3 DEF Counting, Both, Behind

(* What the invariant says of the types of the counters.                   *)
Counts == [{"frames", "errors"} -> Nat]

LEMMA BothIsNat ==
  ASSUME NEW counts \in Counts
  PROVE  counts.frames \in Nat /\ counts.errors \in Nat /\ Both(counts) \in Nat
<1>1. counts.frames \in Nat /\ counts.errors \in Nat
  BY DEF Counts
<1> QED
  BY <1>1 DEF Both

LEMMA CountersTyped ==
  ASSUME IInv
  PROVE  /\ statistics \in Counts /\ handled \in Counts /\ overlaps \in Nat /\ FramesYielded \in Nat
         /\ update \in [Updater -> Counts \cup {NoUpdate}]
         /\ \A u \in Pending : u \in Updater /\ update[u] \in Counts
         /\ IsFiniteSet(Pending) /\ Cardinality(Pending) \in Nat
<1>1. /\ statistics \in Counts /\ handled \in Counts /\ overlaps \in Nat /\ FramesYielded \in Nat
      /\ update \in [Updater -> Counts \cup {NoUpdate}]
  BY FramesAreNat DEF IInv, AppRanges, Counts
<1>2. \A u \in Pending : u \in Updater /\ update[u] \in Counts
  BY <1>1 DEF Pending, Holds
<1>3. IsFiniteSet(Updater)
  BY FS_Union, AsyncAssumption, NotifierAssumption DEF Updater
<1>4. IsFiniteSet(Pending)
  <2>1. Pending \subseteq Updater
    BY DEF Pending
  <2> QED
    BY <1>3, <2>1, FS_Subset
<1> QED
  BY <1>1, <1>2, <1>4, FS_CardinalityType

(* A step that neither yields a frame nor updates.                         *)
LEMMA CountsKept ==
  ASSUME Counting, NoneYields, UNCHANGED countVars
  PROVE  Counting'
<1>1. FramesYielded' = FramesYielded
  BY FramesKept
<1>2. /\ statistics' = statistics /\ update' = update /\ handled' = handled /\ overlaps' = overlaps
  BY DEF countVars
<1>3. Pending' = Pending
  BY <1>2 DEF Pending, Holds
<1> QED
  BY <1>1, <1>2, <1>3 DEF Counting, Behind

(* A copy is made of the statistics as they are.                           *)
LEMMA CountsLoaded ==
  ASSUME IInv, Counting, NEW u \in Updater, Loads(u), NoneYields
  PROVE  Counting'
<1>1. FramesYielded' = FramesYielded /\ statistics' = statistics /\ handled' = handled
  BY FramesKept DEF Loads
<1>2. /\ statistics \in Counts /\ handled \in Counts /\ overlaps \in Nat
      /\ update \in [Updater -> Counts \cup {NoUpdate}]
      /\ IsFiniteSet(Pending) /\ Cardinality(Pending) \in Nat
      /\ \A v \in Pending : v \in Updater /\ update[v] \in Counts
  BY CountersTyped
<1>3. /\ u \notin Pending /\ update'[u] = statistics /\ statistics # NoUpdate
      /\ \A v \in Updater \ {u} : update'[v] = update[v]
  <2>1. update[u] = NoUpdate /\ update' = [update EXCEPT ![u] = statistics]
    BY DEF Loads
  <2>2. statistics # NoUpdate
    BY <1>2, NotifierAssumption DEF Counts
  <2> QED
    BY <1>2, <2>1, <2>2 DEF Pending, Holds
<1>4. Pending' = Pending \cup {u}
  BY <1>3 DEF Pending, Holds
<1>5. Cardinality(Pending') = Cardinality(Pending) + 1
  BY <1>2, <1>3, <1>4, FS_AddElement
<1>6. overlaps' = overlaps + (IF Pending = {} THEN 0 ELSE 1)
  <2>1. (\E v \in Updater : update[v] # NoUpdate) <=> Pending # {}
    BY DEF Pending, Holds
  <2> QED
    BY <2>1 DEF Loads
<1>7. Pending = {} => Cardinality(Pending) = 0
  BY FS_EmptySet
<1> DEFINE n == Cardinality(Pending)
           h == Both(handled)
           s == Both(statistics)
<1>8. h \in Nat /\ s \in Nat /\ n \in Nat /\ overlaps \in Nat
      /\ h <= s + overlaps /\ (Pending # {} => h + n <= s + overlaps + 1)
  BY <1>2, BothIsNat DEF Counting
<1>9. ASSUME NEW v \in Pending
      PROVE  /\ update'[v] = update[v] /\ Behind(update[v])
             /\ Both(update[v]) \in Nat /\ h + n <= Both(update[v]) + overlaps + 1
  BY <1>2, <1>3, BothIsNat DEF Counting
<1>a. Both(handled)' = h /\ Both(statistics)' = s /\ Cardinality(Pending)' = n + 1
      /\ Both(update[u])' = s /\ \A v \in Pending : Both(update[v])' = Both(update[v])
  BY <1>1, <1>3, <1>5, <1>9 DEF Both
<1>b. /\ (FramesYielded <= handled.frames)' /\ Behind(statistics)'
      /\ \A v \in Pending' : Behind(update[v])'
  <2>1. FramesYielded <= handled.frames /\ Behind(statistics)
    BY DEF Counting
  <2> QED
    BY <1>1, <1>3, <1>4, <1>9, <2>1 DEF Behind
<1> HIDE DEF n, h, s
<1>c. h <= s + overlaps' /\ h + (n + 1) <= s + overlaps' + 1
  <2>1. CASE Pending = {}
    BY <1>6, <1>7, <1>8, <2>1 DEF n
  <2>2. CASE Pending # {}
    BY <1>6, <1>8, <2>2
  <2> QED
    BY <2>1, <2>2
<1>d. ASSUME NEW v \in Pending PROVE h + (n + 1) <= Both(update[v]) + overlaps' + 1
  BY <1>6, <1>8, <1>9
<1>e. \A v \in Pending' : (Both(handled) + Cardinality(Pending) <= Both(update[v]) + overlaps + 1)'
  <2> SUFFICES ASSUME NEW v \in Pending'
               PROVE  (Both(handled) + Cardinality(Pending) <= Both(update[v]) + overlaps + 1)'
    OBVIOUS
  <2>1. CASE v = u
    BY <1>a, <1>c, <2>1
  <2>2. CASE v \in Pending
    BY <1>a, <1>d, <2>2
  <2> QED
    BY <1>4, <2>1, <2>2
<1> QED
  BY <1>a, <1>b, <1>c, <1>e DEF Counting

(* What is stored is the copy and what has just happened.                  *)
LEMMA CountsStored ==
  ASSUME IInv, Counting, NEW u \in Updater, NEW f \in {"frames", "errors"}, Stores(u, f),
         FramesYielded' \in {FramesYielded, FramesYielded + (IF f = "frames" THEN 1 ELSE 0)}
  PROVE  Counting'
<1>1. /\ statistics \in Counts /\ handled \in Counts /\ overlaps \in Nat /\ FramesYielded \in Nat
      /\ update \in [Updater -> Counts \cup {NoUpdate}]
      /\ IsFiniteSet(Pending) /\ Cardinality(Pending) \in Nat
      /\ \A v \in Pending : v \in Updater /\ update[v] \in Counts
  BY CountersTyped
<1>2. u \in Pending /\ update[u] \in Counts /\ overlaps' = overlaps
  BY <1>1 DEF Stores, Pending, Holds
<1>3. /\ statistics'.frames = update[u].frames + (IF f = "frames" THEN 1 ELSE 0)
      /\ statistics'.errors = update[u].errors + (IF f = "errors" THEN 1 ELSE 0)
      /\ handled'.frames = handled.frames + (IF f = "frames" THEN 1 ELSE 0)
      /\ handled'.errors = handled.errors + (IF f = "errors" THEN 1 ELSE 0)
  BY <1>1, <1>2 DEF Stores, Counts
<1>4. /\ update'[u] = NoUpdate /\ \A v \in Updater \ {u} : update'[v] = update[v]
  BY <1>1 DEF Stores
<1>5. Pending' = Pending \ {u}
  BY <1>4 DEF Pending, Holds
<1> DEFINE n == Cardinality(Pending)
           h == Both(handled)
<1>6. Cardinality(Pending)' = n - 1 /\ n \in Nat /\ n >= 1
  <2>1. Cardinality(Pending \ {u}) = n - 1
    BY <1>1, <1>2, FS_RemoveElement
  <2>2. Cardinality(Pending \ {u}) \in Nat
    BY <1>1, FS_Subset, FS_CardinalityType
  <2>3. n \in Nat /\ n - 1 \in Nat
    BY <1>1, <2>1, <2>2
  <2>4. n >= 1
    BY <2>3
  <2> QED
    BY <1>5, <2>1, <2>3, <2>4
<1>7. /\ update[u].frames \in Nat /\ update[u].errors \in Nat /\ Both(update[u]) \in Nat
      /\ handled.frames \in Nat /\ handled.errors \in Nat /\ h \in Nat /\ overlaps \in Nat
  BY <1>1, <1>2, BothIsNat
<1>8. Both(handled)' = h + 1 /\ Both(statistics)' = Both(update[u]) + 1
  BY <1>3, <1>7 DEF Both
<1>9. ASSUME NEW v \in Pending
      PROVE  /\ update[v].frames \in Nat /\ update[v].errors \in Nat /\ Both(update[v]) \in Nat
             /\ Behind(update[v]) /\ h + n <= Both(update[v]) + overlaps + 1
  BY <1>1, BothIsNat DEF Counting
<1>a. ASSUME NEW v \in Pending' PROVE v \in Pending /\ update'[v] = update[v]
  BY <1>1, <1>4, <1>5
<1>b. (FramesYielded <= handled.frames)' /\ Behind(statistics)'
  <2>1. FramesYielded <= handled.frames /\ Behind(update[u])
    BY <1>2, <1>9 DEF Counting
  <2>2. (FramesYielded <= handled.frames)'
    BY <1>1, <1>3, <1>7, <2>1
  <2> QED
    BY <1>3, <1>7, <2>1, <2>2 DEF Behind
<1>c. ASSUME NEW v \in Pending' PROVE Behind(update[v])'
  BY <1>3, <1>7, <1>9, <1>a DEF Behind
<1> HIDE DEF n, h
<1>d. h + n <= Both(update[u]) + overlaps + 1
  BY <1>2, <1>9
<1>e. /\ h + 1 <= (Both(update[u]) + 1) + overlaps
      /\ (h + 1) + (n - 1) <= (Both(update[u]) + 1) + overlaps + 1
  BY <1>6, <1>7, <1>d
<1>f. \A v \in Pending' : (Both(handled) + Cardinality(Pending) <= Both(update[v]) + overlaps + 1)'
  <2> SUFFICES ASSUME NEW v \in Pending'
               PROVE  (Both(handled) + Cardinality(Pending) <= Both(update[v]) + overlaps + 1)'
    OBVIOUS
  <2>1. Both(update[v])' = Both(update[v]) /\ v \in Pending
    BY <1>a DEF Both
  <2>2. Both(update[v]) \in Nat /\ h + n <= Both(update[v]) + overlaps + 1
    BY <1>9, <2>1
  <2>3. (h + 1) + (n - 1) <= Both(update[v]) + overlaps + 1
    BY <1>6, <1>7, <2>2
  <2> QED
    BY <1>2, <1>6, <1>8, <2>1, <2>3
<1> QED
  BY <1>2, <1>6, <1>8, <1>b, <1>c, <1>e, <1>f DEF Counting

LEMMA CountingStep == IInv /\ Counting /\ [Next]_vars => Counting'
<1> SUFFICES ASSUME IInv, Counting, [Next]_vars PROVE Counting'
  OBVIOUS
<1>1. CASE UNCHANGED vars
  BY <1>1, CountsKept DEF vars, asyncVars, coroutineVars, appVars, NoneYields, Yielded
<1>2. CASE AsyncNext /\ UNCHANGED appVars
  BY <1>2, AsyncKeeps, CountsKept DEF appVars, lifeVars, countVars
<1>3. CASE LifeCycleStep
  BY <1>3, LifeCycleKeeps, CountsKept
<1>4. ASSUME NEW c \in Coroutine, StartAsync(c) PROVE Counting'
  BY <1>4, StartAsyncKeeps, CountsKept
<1>5. ASSUME NEW c \in Coroutine, ProcessFramesRange(c) \/ RangeGoesOn(c) PROVE Counting'
  <2>1. NoneYields
    BY <1>5, ProcessFramesRangeKeeps, RangeGoesOnKeeps
  <2>2. UNCHANGED appVars
    BY <1>5 DEF ProcessFramesRange, RangeGoesOn, RangeTurn
  <2> QED
    BY <2>1, <2>2, CountsKept DEF appVars, lifeVars, countVars
<1>6. ASSUME NEW c \in Coroutine, RangeLoads(c) PROVE Counting'
  <2>1. NoneYields /\ (Loads(c) \/ UNCHANGED countVars) /\ c \in Updater
    BY <1>6, RangeLoadsKeeps DEF Updater
  <2> QED
    BY <2>1, CountsLoaded, CountsKept
<1>7. ASSUME NEW c \in Coroutine, RangeStores(c) PROVE Counting'
  <2>1. FramesYielded' \in {FramesYielded, FramesYielded + 1}
    BY <1>7, RangeStoresKeeps, OneFrameMore, FramesKept
  <2>2. Stores(c, "frames") /\ c \in Updater
    BY <1>7 DEF RangeStores, Updater
  <2> QED
    BY <2>1, <2>2, CountsStored
<1>8. ASSUME NEW n \in Notifier, ErrorLoads(n) PROVE Counting'
  <2>1. NoneYields /\ Loads(n) /\ n \in Updater
    BY <1>8, ErrorKeeps DEF ErrorLoads, Updater
  <2> QED
    BY <2>1, CountsLoaded
<1>9. ASSUME NEW n \in Notifier, ErrorStores(n) PROVE Counting'
  <2>1. FramesYielded' = FramesYielded
    BY <1>9, ErrorKeeps, FramesKept
  <2>2. Stores(n, "errors") /\ n \in Updater
    BY <1>9 DEF ErrorStores, Updater
  <2> QED
    BY <2>1, <2>2, CountsStored
<1> QED
  BY <1>1, <1>2, <1>3, <1>4, <1>5, <1>6, <1>7, <1>8, <1>9 DEF Next, RangeStep, LifeCycleStep

(* The statistics are never ahead of the frames and the errors, and behind
   by no more than the loads that fell into the update of another thread.  *)
THEOREM StatisticsAlwaysCount == Spec => []StatisticsCount
<1>1. IInv /\ Counting => StatisticsCount
  <2> SUFFICES ASSUME IInv, Counting PROVE StatisticsCount
    OBVIOUS
  <2>1. FramesYielded <= handled.frames /\ Behind(statistics) /\ Both(handled) <= Both(statistics) + overlaps
    BY DEF Counting
  <2>2. \A f \in {"frames", "errors"} : statistics[f] <= handled[f]
    BY <2>1 DEF Behind
  <2>3. statistics \in Counts /\ handled \in Counts /\ overlaps \in Nat
    BY CountersTyped
  <2>4. handled.frames + handled.errors <= statistics.frames + statistics.errors + overlaps
    BY <2>1, <2>3, BothIsNat DEF Both
  <2> QED
    BY <2>1, <2>2, <2>4 DEF StatisticsCount
<1>2. Spec => [](IInv /\ Counting)
  BY InvInit, InvStep, CountingInit, CountingStep, PTL DEF Spec
<1> QED
  BY <1>1, <1>2, PTL

-----------------------------------------------------------------------------
(* The windows: FlattenSeq is defined by recursion over the positions.     *)
FlattenStep(seqs, flat, i) == IF i = 1 THEN seqs[i] ELSE flat[i - 1] \o seqs[i]

(* What holds of 1, and of a position if it holds of the one before it.    *)
LEMMA PositionInduction ==
  ASSUME NEW n \in Nat, NEW P, \A k \in 1 .. n : k = 1 \/ k - 1 \in P => k \in P
  PROVE  1 .. n \subseteq P
<1> DEFINE T == {k \in 1 .. n : k \notin P}
<1> SUFFICES ASSUME T # {} PROVE FALSE
  OBVIOUS
<1>1. PICK m \in T : \A k \in T : m <= k
  <2>1. T \in SUBSET Nat
    OBVIOUS
  <2> HIDE DEF T
  <2> QED
    BY <2>1, LeastElement
<1>2. m \in 1 .. n /\ m # 1 /\ m - 1 \notin P
  OBVIOUS
<1>3. m - 1 \in T /\ m - 1 < m
  BY <1>2
<1> HIDE DEF T
<1> QED
  BY <1>1, <1>2, <1>3

LEMMA FlattenExists ==
  ASSUME NEW T, NEW seqs \in Seq(Seq(T)), Len(seqs) # 0
  PROVE  \E flat : /\ flat = [i \in 1 .. Len(seqs) |-> FlattenStep(seqs, flat, i)]
                   /\ Utilities!FlattenSeq(seqs) = flat[Len(seqs)]
<1>1. Len(seqs) \in Nat
  BY LenProperties
<1> DEFINE n == Len(seqs)
           P == {k \in 1 .. n : \E flat : flat = [i \in 1 .. k |-> FlattenStep(seqs, flat, i)]}
<1>2. ASSUME NEW k \in 1 .. n, k = 1 \/ k - 1 \in P PROVE k \in P
  <2>1. CASE k = 1
    <3> DEFINE flat == [i \in 1 .. 1 |-> seqs[1]]
    <3>1. flat = [i \in 1 .. 1 |-> FlattenStep(seqs, flat, i)]
      BY DEF FlattenStep
    <3> QED
      BY <2>1, <3>1
  <2>2. CASE k # 1
    <3>1. PICK low : low = [i \in 1 .. k - 1 |-> FlattenStep(seqs, low, i)]
      BY <1>2, <2>2
    <3> DEFINE flat == [i \in 1 .. k |-> FlattenStep(seqs, low, i)]
    <3>2. \A i \in 1 .. k - 1 : flat[i] = low[i]
      <4>1. \A i \in 1 .. k - 1 : low[i] = FlattenStep(seqs, low, i)
        BY <3>1
      <4>2. \A i \in 1 .. k - 1 : i \in 1 .. k
        BY <1>1
      <4> QED
        BY <4>1, <4>2
    <3>3. flat = [i \in 1 .. k |-> flat[i]]
      OBVIOUS
    <3>4. \A i \in 1 .. k : flat[i] = FlattenStep(seqs, flat, i)
      <4>1. \A i \in 1 .. k : flat[i] = FlattenStep(seqs, low, i)
        OBVIOUS
      <4>2. \A i \in 1 .. k : i = 1 \/ i - 1 \in 1 .. k - 1
        BY <1>1
      <4> HIDE DEF flat
      <4> QED
        BY <3>2, <4>1, <4>2 DEF FlattenStep
    <3> HIDE DEF flat
    <3>5. flat = [i \in 1 .. k |-> FlattenStep(seqs, flat, i)]
      BY <3>3, <3>4
    <3> QED
      BY <3>5
  <2> QED
    BY <2>1, <2>2
<1>3. \E flat : flat = [i \in 1 .. n |-> FlattenStep(seqs, flat, i)]
  <2>1. 1 .. n \subseteq P
    <3> HIDE DEF P
    <3> QED
      BY <1>1, <1>2, PositionInduction
  <2> QED
    BY <1>1, <2>1
<1> DEFINE flat == CHOOSE flat : flat = [i \in 1 .. Len(seqs) |-> FlattenStep(seqs, flat, i)]
<1>4. flat = [i \in 1 .. Len(seqs) |-> FlattenStep(seqs, flat, i)]
  BY <1>3
<1>5. Utilities!FlattenSeq(seqs) = flat[Len(seqs)]
  BY Zenon DEF Utilities!FlattenSeq, FlattenStep
<1> QED
  BY <1>4, <1>5

(* All of both.                                                            *)
LEMMA ConcatCovers ==
  ASSUME NEW T, NEW s \in Seq(T), NEW t \in Seq(T)
  PROVE  s \o t \in Seq(T) /\ \A x : x \in ToSet(s \o t) <=> x \in ToSet(s) \/ x \in ToSet(t)
<1> DEFINE u == s \o t
<1>1. /\ u \in Seq(T) /\ Len(u) = Len(s) + Len(t) /\ Len(s) \in Nat /\ Len(t) \in Nat
      /\ \A i \in 1 .. Len(s) + Len(t) : u[i] = IF i <= Len(s) THEN s[i] ELSE t[i - Len(s)]
  BY ConcatProperties, LenProperties
<1>2. DOMAIN s = 1 .. Len(s) /\ DOMAIN t = 1 .. Len(t)
  BY LenProperties
<1> HIDE DEF u
<1>3. DOMAIN u = 1 .. Len(s) + Len(t)
  BY <1>1, LenProperties
<1>4. ASSUME NEW i \in DOMAIN u PROVE u[i] \in ToSet(s) \/ u[i] \in ToSet(t)
  <2>1. CASE i <= Len(s)
    <3>1. i \in DOMAIN s /\ u[i] = s[i]
      BY <1>1, <1>2, <1>3, <2>1
    <3> QED
      BY <3>1 DEF ToSet
  <2>2. CASE ~(i <= Len(s))
    <3>1. i - Len(s) \in DOMAIN t /\ u[i] = t[i - Len(s)]
      BY <1>1, <1>2, <1>3, <2>2
    <3> QED
      BY <3>1 DEF ToSet
  <2> QED
    BY <2>1, <2>2
<1>5. ASSUME NEW i \in DOMAIN s PROVE s[i] \in ToSet(u)
  <2>1. i \in DOMAIN u /\ u[i] = s[i]
    BY <1>1, <1>2, <1>3
  <2> QED
    BY <2>1 DEF ToSet
<1>6. ASSUME NEW i \in DOMAIN t PROVE t[i] \in ToSet(u)
  <2>1. i + Len(s) \in DOMAIN u /\ u[i + Len(s)] = t[i]
    BY <1>1, <1>2, <1>3
  <2> QED
    BY <2>1 DEF ToSet
<1>7. \A x : x \in ToSet(u) <=> x \in ToSet(s) \/ x \in ToSet(t)
  BY <1>4, <1>5, <1>6 DEF ToSet
<1> QED
  BY <1>1, <1>7 DEF u

(* All of every sequence, and nothing else.                                *)
LEMMA FlattenCovers ==
  ASSUME NEW T, NEW seqs \in Seq(Seq(T))
  PROVE  \A x : x \in ToSet(Utilities!FlattenSeq(seqs)) <=> \E i \in DOMAIN seqs : x \in ToSet(seqs[i])
<1>1. Len(seqs) \in Nat /\ DOMAIN seqs = 1 .. Len(seqs) /\ \A i \in 1 .. Len(seqs) : seqs[i] \in Seq(T)
  BY LenProperties
<1>2. CASE Len(seqs) = 0
  <2>1. Utilities!FlattenSeq(seqs) = seqs
    BY <1>2 DEF Utilities!FlattenSeq
  <2>2. DOMAIN seqs = {}
    BY <1>1, <1>2
  <2> QED
    BY <2>1, <2>2 DEF ToSet
<1>3. CASE Len(seqs) # 0
  <2>1. PICK flat : /\ flat = [i \in 1 .. Len(seqs) |-> FlattenStep(seqs, flat, i)]
                    /\ Utilities!FlattenSeq(seqs) = flat[Len(seqs)]
    BY <1>3, FlattenExists
  <2>2. \A i \in 1 .. Len(seqs) : flat[i] = FlattenStep(seqs, flat, i)
    BY <2>1
  <2> DEFINE n == Len(seqs)
             P == {k \in 1 .. n : /\ flat[k] \in Seq(T)
                                  /\ \A x : x \in ToSet(flat[k]) <=> \E i \in 1 .. k : x \in ToSet(seqs[i])}
  <2>3. ASSUME NEW k \in 1 .. n, k = 1 \/ k - 1 \in P PROVE k \in P
    <3>1. CASE k = 1
      <4>1. flat[k] = seqs[1] /\ seqs[1] \in Seq(T)
        BY <1>1, <2>2, <3>1 DEF FlattenStep
      <4>2. \A i \in 1 .. k : i = 1
        BY <3>1
      <4> QED
        BY <3>1, <4>1, <4>2
    <3>2. CASE k # 1
      <4>1. k - 1 \in P
        BY <2>3, <3>2
      <4>2. /\ flat[k - 1] \in Seq(T)
            /\ \A x : x \in ToSet(flat[k - 1]) <=> \E i \in 1 .. k - 1 : x \in ToSet(seqs[i])
        BY <4>1
      <4>3. flat[k] = flat[k - 1] \o seqs[k] /\ seqs[k] \in Seq(T)
        BY <1>1, <2>2, <3>2 DEF FlattenStep
      <4>4. /\ flat[k] \in Seq(T)
            /\ \A x : x \in ToSet(flat[k]) <=> x \in ToSet(flat[k - 1]) \/ x \in ToSet(seqs[k])
        BY <4>2, <4>3, ConcatCovers
      <4>5. \A i : i \in 1 .. k <=> i \in 1 .. k - 1 \/ i = k
        BY <1>1
      <4> QED
        BY <4>2, <4>4, <4>5
    <3> QED
      BY <3>1, <3>2
  <2>4. 1 .. n \subseteq P
    <3> HIDE DEF P
    <3> QED
      BY <1>1, <2>3, PositionInduction
  <2>5. n \in P
    <3>1. n \in 1 .. n
      BY <1>1, <1>3
    <3> HIDE DEF n, P
    <3> QED
      BY <2>4, <3>1
  <2> QED
    BY <1>1, <2>1, <2>5
<1> QED
  BY <1>2, <1>3

(* The results of one frame in the history: one or none.                   *)
OneOrNone(e) == IF e = Empty THEN <<>> ELSE <<e>>

LEMMA OneOrNoneIs ==
  ASSUME NEW S, NEW e \in S
  PROVE  /\ OneOrNone(e) \in Seq(S)
         /\ \A x : x \in ToSet(OneOrNone(e)) <=> x = e /\ x # Empty
<1>1. CASE e = Empty
  <2>1. OneOrNone(e) = <<>> /\ DOMAIN <<>> = {}
    BY <1>1 DEF OneOrNone
  <2> QED
    BY <1>1, <2>1 DEF ToSet
<1>2. CASE e # Empty
  <2>1. /\ OneOrNone(e) = <<e>> /\ <<e>> \in Seq(S) /\ <<e>>[1] = e
        /\ \A i : i \in DOMAIN <<e>> <=> i = 1
    BY <1>2 DEF OneOrNone
  <2> DEFINE t == <<e>>
  <2> HIDE DEF t
  <2>2. \A x : x \in ToSet(t) <=> x = e
    BY <2>1 DEF ToSet, t
  <2> QED
    BY <1>2, <2>1, <2>2 DEF t
<1> QED
  BY <1>1, <1>2

(* A window over any history of results, each of them one or none.         *)
LEMMA WindowsCover ==
  ASSUME NEW g \in Seq(0 .. MaxSize),
         NEW history, history = [i \in DOMAIN g |-> OneOrNone(g[i])],
         NEW width \in 1 .. Len(history)
  PROVE  LET windows == Utilities!SlidingWindow(history, width) IN
           /\ Len(windows) = Len(history) - width + 1
           /\ \A i \in DOMAIN windows :
                ToSet(windows[i]) = Range(SubSeq(g, i, i + width - 1)) \ {Empty}
<1> DEFINE windows == Utilities!SlidingWindow(history, width)
           n == Len(g)
<1>1. n \in Nat /\ DOMAIN g = 1 .. n /\ \A i \in 1 .. n : g[i] \in 0 .. MaxSize
  BY LenProperties
<1>2. /\ history \in Seq(Seq(0 .. MaxSize)) /\ Len(history) = n
      /\ \A i \in 1 .. n : history[i] = OneOrNone(g[i])
  <2>1. \A i \in 1 .. n : OneOrNone(g[i]) \in Seq(0 .. MaxSize)
    BY <1>1, OneOrNoneIs
  <2>2. history = [i \in 1 .. n |-> OneOrNone(g[i])]
    BY <1>1
  <2>3. history \in [1 .. n -> Seq(0 .. MaxSize)]
    BY <2>1, <2>2
  <2>4. history \in Seq(Seq(0 .. MaxSize)) /\ Len(history) = n
    BY <1>1, <2>3
  <2> QED
    BY <2>2, <2>4
<1>3. width \in 1 .. n
  BY <1>2
<1> DEFINE m == n - width + 1
<1>4. m \in Nat
  BY <1>1, <1>3
<1>5. windows = [i \in 1 .. m |-> Utilities!WindowFrom(history, i, width)]
  BY <1>1, <1>2, <1>3 DEF Utilities!SlidingWindow
<1> HIDE DEF windows
<1>6. Len(windows) = m /\ DOMAIN windows = 1 .. m
  <2> HIDE DEF m
  <2> QED
    BY <1>4, <1>5
<1>7. ASSUME NEW i \in 1 .. m
      PROVE  ToSet(windows[i]) = Range(SubSeq(g, i, i + width - 1)) \ {Empty}
  <2> DEFINE last == i + width - 1
             part == SubSeq(history, i, last)
             some == SubSeq(g, i, last)
  <2>1. /\ i \in Int /\ last \in Int /\ i <= last /\ last - i + 1 = width
        /\ \A k \in i .. last : k \in 1 .. n
        /\ \A k \in 1 .. width : i + k - 1 \in 1 .. n
    BY <1>1, <1>3
  <2> HIDE DEF last
  <2>2. /\ part \in Seq(Seq(0 .. MaxSize)) /\ Len(part) = width
        /\ \A k \in 1 .. width : part[k] = history[i + k - 1]
    <3> DEFINE R == Seq(0 .. MaxSize)
    <3>1. \A k \in i .. last : history[k] \in R
      BY <1>1, <1>2, <2>1, OneOrNoneIs
    <3> HIDE DEF R
    <3>2. /\ part \in Seq(R) /\ Len(part) = (IF i <= last THEN last - i + 1 ELSE 0)
          /\ \A k \in 1 .. last - i + 1 : part[k] = history[i + k - 1]
      BY <2>1, <3>1, SubSeqProperties
    <3> HIDE DEF part
    <3> QED
      BY <2>1, <3>2 DEF R
  <2>3. /\ some \in Seq(0 .. MaxSize) /\ Len(some) = width
        /\ \A k \in 1 .. width : some[k] = g[i + k - 1]
    <3>1. \A k \in i .. last : g[k] \in 0 .. MaxSize
      BY <1>1, <2>1
    <3> QED
      BY <2>1, <3>1, SubSeqProperties
  <2> HIDE DEF part, some
  <2>4. DOMAIN part = 1 .. width /\ DOMAIN some = 1 .. width
    BY <2>2, <2>3, LenProperties
  <2>5. \A k \in 1 .. width : part[k] = OneOrNone(some[k])
    BY <1>2, <2>1, <2>2, <2>3
  <2>6. \A k \in 1 .. width : some[k] \in 0 .. MaxSize
    BY <2>3, <2>4, ElementOfSeq
  <2>7. \A k \in 1 .. width : \A x : x \in ToSet(part[k]) <=> x = some[k] /\ x # Empty
    BY <2>5, <2>6, OneOrNoneIs
  <2>8. \A x : x \in ToSet(Utilities!FlattenSeq(part)) <=> \E k \in 1 .. width : x \in ToSet(part[k])
    BY <2>2, <2>4, FlattenCovers
  <2>9. windows[i] = Utilities!FlattenSeq(part)
    BY <1>5, <1>7 DEF Utilities!WindowFrom, part, last
  <2>10. \A x : x \in Range(some) <=> \E k \in 1 .. width : x = some[k]
    BY <2>4 DEF Range
  <2>11. ASSUME NEW x PROVE x \in ToSet(windows[i]) <=> x \in Range(some) /\ x # Empty
    <3>1. x \in ToSet(windows[i]) <=> \E k \in 1 .. width : x \in ToSet(part[k])
      BY <2>8, <2>9
    <3>2. (\E k \in 1 .. width : x \in ToSet(part[k])) <=> (\E k \in 1 .. width : x = some[k]) /\ x # Empty
      BY <2>7
    <3> QED
      BY <2>10, <3>1, <3>2
  <2>12. ToSet(windows[i]) = Range(some) \ {Empty}
    BY <2>11
  <2> QED
    BY <2>12 DEF some, last
<1> QED
  BY <1>2, <1>6, <1>7 DEF windows

(* The results of the frames are in their order, and every window over them
   has those of its frames, all of them and no others.                     *)
THEOREM HistoryAlwaysInOrder == Spec => []HistoryInOrder
<1>1. IInv => WindowsCoverHistory
  <2> SUFFICES ASSUME IInv, NEW c \in Coroutine PROVE
        LET history == [i \in DOMAIN got[c] |-> OneOrNone(got[c][i])]
        IN  \A width \in 1 .. Len(history) :
              LET windows == Utilities!SlidingWindow(history, width) IN
                /\ Len(windows) = Len(history) - width + 1
                /\ \A i \in DOMAIN windows :
                     ToSet(windows[i]) = Range(SubSeq(got[c], i, i + width - 1)) \ {Empty}
    BY Zenon DEF WindowsCoverHistory, OneOrNone
  <2>1. got[c] \in Seq(0 .. MaxSize)
    BY DEF IInv, Ranges
  <2> QED
    BY <2>1, WindowsCover
<1>2. IInv => HistoryInOrder
  BY <1>1, InvImplies DEF HistoryInOrder
<1> QED
  BY <1>2, InvAlways, PTL
=============================================================================
