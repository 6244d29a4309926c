------------------------- MODULE ObservableSubject -------------------------
(***************************************************************************)
(* The subject of the observer pattern (Common/src/ObservableSubject.cpp). *)
(* It keeps weak pointers to its observers; a notification takes strong    *)
(* ones under the mutex, one after the other, and calls the observers      *)
(* after it released the mutex, so that an observer may add and remove     *)
(* observers from inside its callback.  Meanwhile the owners of the        *)
(* observers may let go of them at any time.                               *)
(*                                                                         *)
(* addObserver and removeObserver compare the pointers in the list with    *)
(* one that the caller holds: what other threads release meanwhile makes   *)
(* no difference to them, and each is one action.  An observer that        *)
(* notifies from inside its callback is not modelled.                      *)
(***************************************************************************)
EXTENDS Naturals, Sequences, SequencesExt, Functions

CONSTANTS
  Thread,      (* The threads that use the subject.                        *)
  Observer,    (* The observers.                                           *)
  EventType,   (* The types of events.                                     *)
  Free,        (* The owner of m_observerMutex when nobody holds it.       *)
  NoRequest,   (* No call of addObserver or removeObserver is under way.   *)
  MaxCalls     (* Bound: calls of the three operations.                    *)

ASSUME SubjectAssumption ==
  Free \notin Thread /\ MaxCalls \in Nat /\ EventType # {}

VARIABLES
  observers,   (* m_observers: the weak pointers of each event type.       *)
  mutex,       (* The thread that holds m_observerMutex, or Free.          *)
  pc,          (* notifyObservers: "idle", "lock", "collect" or "call".    *)
  request,     (* The add or remove each thread waits for the mutex with.  *)
  event,       (* eventData->type                                          *)
  todo,        (* The weak pointers the notification has yet to look at.   *)
  valid,       (* validObservers: strong pointers.                         *)
  next,        (* The index in validObservers of the next call.            *)
  owned,       (* The observers whose owners still hold on to them.        *)
  destroyed,   (* The observers whose last strong pointer is gone.         *)
  removed,     (* History: whom removeObserver returned for, and no later add. *)
  listed,      (* History: the list when the notification took the mutex.  *)
  called,      (* History: the observers this notification called.         *)
  calls        (* The calls so far.                                        *)

notifyVars == <<pc, event, todo, valid, next, listed, called>>
vars == <<observers, mutex, request, notifyVars, owned, destroyed, removed, calls>>

(* Mutant: the snapshot does not keep the observers alive.                 *)
HeldByOwner(o) == o \in owned \/ \E t \in Thread : request[t] # NoRequest /\ request[t].observer = o

(* Some shared_ptr points to the observer.                                 *)
Held(o) ==
  \/ o \in owned
  \/ \E t \in Thread : \/ o \in Range(valid[t])
                       \/ request[t] # NoRequest /\ request[t].observer = o

(* weak_ptr::lock succeeds.                                                *)
Alive(o) == o \notin destroyed

(* erase and remove_if: the list without those that are not wanted, in its
   order.                                                                  *)
Keep(list, wanted) ==
  LET kept[n \in 0 .. Len(list)] ==
        IF n = 0 THEN <<>>
        ELSE IF list[n] \in wanted THEN Append(kept[n - 1], list[n]) ELSE kept[n - 1]
  IN  kept[Len(list)]

(* The destructor runs when the last shared_ptr is gone.                   *)
DestroyReleased == destroyed' = destroyed \cup {o \in Observer : ~Held(o)'}

-----------------------------------------------------------------------------
(* addObserver and removeObserver, called by a thread that is not inside
   the subject, or by the observer that it notifies: it passes a pointer
   that its caller holds.                                                  *)

Request(t, r) ==
  /\ calls < MaxCalls
  /\ request[t] = NoRequest
  /\ \/ pc[t] = "idle"
     \/ pc[t] = "call" /\ next[t] <= Len(valid[t])
  /\ r.observer \in owned \cup Range(valid[t])
  /\ request' = [request EXCEPT ![t] = r]
  /\ calls' = calls + 1
  /\ UNCHANGED <<observers, mutex, notifyVars, owned, destroyed, removed>>

RequestAdd(t) ==
  \E o \in Observer, e \in EventType : Request(t, [op |-> "add", observer |-> o, type |-> e])

RequestRemove(t) ==
  \E o \in Observer : Request(t, [op |-> "remove", observer |-> o])

Answer(t, list) ==
  /\ observers' = list
  /\ request' = [request EXCEPT ![t] = NoRequest]
  /\ UNCHANGED <<mutex, notifyVars, owned, calls>>
  /\ DestroyReleased

(* Mutant: an observer is added without a look at the list.                *)
AddAlways(t) ==
  /\ mutex = Free
  /\ request[t] # NoRequest /\ request[t].op = "add"
  /\ removed' = removed \ {request[t].observer}
  /\ Answer(t, [observers EXCEPT ![request[t].type] = Append(@, request[t].observer)])

AddObserver(t) ==
  /\ mutex = Free
  /\ request[t] # NoRequest /\ request[t].op = "add"
  /\ removed' = removed \ {request[t].observer}
  /\ LET o == request[t].observer
         e == request[t].type
     IN  Answer(t, IF o \in Range(observers[e]) THEN observers
                   ELSE [observers EXCEPT ![e] = Append(@, o)])

(* Mutant: the observer is removed for the first type that has it only.    *)
RemoveOnce(t) ==
  /\ mutex = Free
  /\ request[t] # NoRequest /\ request[t].op = "remove"
  /\ removed' = removed \cup {request[t].observer}
  /\ LET o  == request[t].observer
         of == {e \in EventType : o \in Range(observers[e])}
     IN  Answer(t, IF of = {} THEN observers
                   ELSE [observers EXCEPT ![CHOOSE e \in of : TRUE] = Keep(@, Observer \ {o})])

RemoveObserver(t) ==
  /\ mutex = Free
  /\ request[t] # NoRequest /\ request[t].op = "remove"
  /\ removed' = removed \cup {request[t].observer}
  /\ Answer(t, [e \in EventType |-> Keep(observers[e], Observer \ {request[t].observer})])

-----------------------------------------------------------------------------
(* notifyObservers.  The timestamp of the event is left out.               *)

NotifyBegin(t) ==
  /\ calls < MaxCalls
  /\ pc[t] = "idle" /\ request[t] = NoRequest
  /\ pc' = [pc EXCEPT ![t] = "lock"]
  /\ calls' = calls + 1
  /\ \E e \in EventType : event' = [event EXCEPT ![t] = e]
  /\ UNCHANGED <<observers, mutex, request, todo, valid, next, owned, destroyed, removed, listed, called>>

NotifyLock(t) ==
  /\ pc[t] = "lock" /\ mutex = Free
  /\ mutex' = t
  /\ pc' = [pc EXCEPT ![t] = "collect"]
  /\ todo' = [todo EXCEPT ![t] = observers[event[t]]]
  /\ listed' = [listed EXCEPT ![t] = Range(observers[event[t]])]
  /\ called' = [called EXCEPT ![t] = <<>>]
  /\ UNCHANGED <<observers, request, event, valid, next, owned, destroyed, removed, calls>>

LockWeak(t) ==
  /\ pc[t] = "collect" /\ todo[t] # <<>>
  /\ valid' = IF Alive(Head(todo[t])) THEN [valid EXCEPT ![t] = Append(@, Head(todo[t]))] ELSE valid
  /\ todo' = [todo EXCEPT ![t] = Tail(@)]
  /\ UNCHANGED <<observers, mutex, request, pc, event, next, owned, destroyed, removed, listed, called, calls>>

CleanUpAndKeep(t, holder) ==
  /\ pc[t] = "collect" /\ todo[t] = <<>>
  /\ observers' = [observers EXCEPT ![event[t]] = Keep(@, {o \in Observer : Alive(o)})]
  /\ mutex' = holder
  /\ pc' = [pc EXCEPT ![t] = "call"]
  /\ next' = [next EXCEPT ![t] = 1]
  /\ UNCHANGED <<request, event, todo, valid, owned, destroyed, removed, listed, called, calls>>

(* Mutant: the mutex is still locked while the observers are called.       *)
CleanUpLocked(t) == CleanUpAndKeep(t, t)

CleanUp(t) == CleanUpAndKeep(t, Free)

Called(t, following) ==
  /\ pc[t] = "call" /\ request[t] = NoRequest
  /\ next[t] <= Len(valid[t])
  /\ called' = [called EXCEPT ![t] = Append(@, valid[t][next[t]])]
  /\ next' = [next EXCEPT ![t] = following]
  /\ UNCHANGED <<observers, mutex, request, pc, event, todo, valid, owned, destroyed, removed, listed, calls>>

(* onNotify returns.                                                       *)
CallbackReturns(t) == Called(t, next[t] + 1)

(* Mutant: the exception ends the loop.                                    *)
CallbackEndsLoop(t) == Called(t, Len(valid[t]) + 1)

(* onNotify throws a std::exception, which is caught inside the loop.  Any
   other would leave notifyObservers: callbacks are taken to throw none.   *)
CallbackThrows(t) == Called(t, next[t] + 1)

(* The end of the function destroys the vector of strong pointers.         *)
NotifyReturn(t) ==
  /\ pc[t] = "call" /\ next[t] > Len(valid[t])
  /\ pc' = [pc EXCEPT ![t] = "idle"]
  /\ valid' = [valid EXCEPT ![t] = <<>>]
  /\ UNCHANGED <<observers, mutex, request, event, todo, next, owned, removed, listed, called, calls>>
  /\ DestroyReleased

-----------------------------------------------------------------------------
(* The owner of an observer lets go of it.                                 *)
OwnerReleases(o) ==
  /\ o \in owned
  /\ owned' = owned \ {o}
  /\ UNCHANGED <<observers, mutex, request, notifyVars, removed, calls>>
  /\ DestroyReleased

Init ==
  /\ observers = [e \in EventType |-> <<>>]
  /\ mutex = Free
  /\ pc = [t \in Thread |-> "idle"]
  /\ request = [t \in Thread |-> NoRequest]
  /\ event = [t \in Thread |-> CHOOSE e \in EventType : TRUE]
  /\ todo = [t \in Thread |-> <<>>] /\ valid = [t \in Thread |-> <<>>]
  /\ next = [t \in Thread |-> 1]
  /\ owned = Observer /\ destroyed = {} /\ removed = {}
  /\ listed = [t \in Thread |-> {}] /\ called = [t \in Thread |-> <<>>]
  /\ calls = 0

(* What a thread does once it called an operation.                         *)
GoesOn(t) ==
  \/ AddObserver(t) \/ RemoveObserver(t)
  \/ NotifyLock(t) \/ LockWeak(t) \/ CleanUp(t)
  \/ CallbackReturns(t) \/ CallbackThrows(t) \/ NotifyReturn(t)

Next ==
  \/ \E t \in Thread : RequestAdd(t) \/ RequestRemove(t) \/ NotifyBegin(t) \/ GoesOn(t)
  \/ \E o \in Observer : OwnerReleases(o)

Spec == Init /\ [][Next]_vars

FairSpec == Spec /\ \A t \in Thread : WF_vars(GoesOn(t))

-----------------------------------------------------------------------------
(* The calls of addObserver and removeObserver.                            *)
Call == [op : {"add"}, observer : Observer, type : EventType]
          \cup [op : {"remove"}, observer : Observer]

(* Every variable stays in its range.                                      *)
TypeOK ==
  /\ observers \in [EventType -> Seq(Observer)]
  /\ mutex \in Thread \cup {Free}
  /\ pc \in [Thread -> {"idle", "lock", "collect", "call"}]
  /\ \A t \in Thread : pc[t] = "collect" <=> mutex = t
  /\ request \in [Thread -> Call \cup {NoRequest}]
  /\ event \in [Thread -> EventType]
  /\ todo \in [Thread -> Seq(Observer)] /\ valid \in [Thread -> Seq(Observer)]
  /\ next \in [Thread -> Nat \ {0}] /\ called \in [Thread -> Seq(Observer)]
  /\ owned \subseteq Observer /\ destroyed \subseteq Observer \ owned /\ removed \subseteq Observer
  /\ listed \in [Thread -> SUBSET Observer] /\ calls \in 0 .. MaxCalls

(* addObserver refuses an observer that is registered already, whoever adds
   it at the same time.                                                    *)
NoDuplicateRegistration == \A e \in EventType : IsInjective(observers[e])

(* The observer that is being called has not been destroyed, even if its
   owner let go of it after the mutex was released.                        *)
ObserverAliveDuringCallback ==
  \A t \in Thread :
     pc[t] = "call" /\ next[t] <= Len(valid[t]) => Alive(valid[t][next[t]])

(* A notification calls every observer that was registered when it took the
   mutex and that its owner still holds, even if another one threw; nobody
   else, and nobody twice.                                                 *)
EveryoneCalledOnce ==
  \A t \in Thread :
     pc[t] = "call" /\ next[t] > Len(valid[t]) =>
        /\ listed[t] \cap owned \subseteq Range(called[t])
        /\ Range(called[t]) \subseteq listed[t]
        /\ IsInjective(called[t])

(* A notification that takes the mutex after removeObserver returned for an
   observer does not call it, whatever its type; one that took its snapshot
   before may still do so.                                                 *)
RemovedStaySilent ==
  \A t \in Thread :
     pc[t] = "collect" => (Range(todo[t]) \cup Range(valid[t])) \cap removed = {}

(* Every call of an operation returns, also one from inside a callback.    *)
CallsReturn ==
  \A t \in Thread :
     /\ (request[t] # NoRequest) ~> (request[t] = NoRequest)
     /\ (pc[t] # "idle") ~> (pc[t] = "idle")

(* Nothing makes the lists invalid.                                      *)
ListsValid == TypeOK /\ NoDuplicateRegistration

(* A notification calls those it should, and no others.                  *)
RightOnesCalled == EveryoneCalledOnce /\ RemovedStaySilent
=============================================================================
