---------------------- MODULE ObservableSubject_proofs ----------------------
(***************************************************************************)
(* Proofs about the subject of the observer pattern, for any number of     *)
(* threads, observers, event types and calls.  The first part proves what  *)
(* erase and remove_if leave of a list: by the least-number principle,     *)
(* that is by a shortest prefix for which it would not be true.            *)
(***************************************************************************)
EXTENDS ObservableSubject, Integers, SequenceTheorems, WellFoundedInduction, TLAPS

(* A set of natural numbers has a least element.                           *)
LEMMA LeastElement ==
  ASSUME NEW T \in SUBSET Nat, T # {}
  PROVE  \E m \in T : \A k \in T : m <= k
<1> DEFINE R == OpToRel(<, Nat)
<1>1. \E x \in T : \A y \in T : <<y, x>> \notin R
  <2>1. IsWellFoundedOn(R, Nat)
    BY NatLessThanWellFounded
  <2> QED
    BY <2>1, WFMin
<1>2. R = {p \in Nat \X Nat : p[1] < p[2]}
  BY Zenon DEF OpToRel
<1> HIDE DEF R
<1>3. PICK m \in T : \A k \in T : <<k, m>> \notin R
  BY <1>1
<1>4. ASSUME NEW k \in T PROVE m <= k
  <2>1. <<k, m>> \in R <=> k < m
    BY <1>2
  <2> QED
    BY <1>3, <2>1
<1> QED
  BY <1>4

(* One step of the definition of Keep, and that the function it defines
   exists: a shortest list without one would be the empty list, or one that
   extends a list with one.                                                *)
Kept(list, wanted, kept, n) ==
  IF n = 0 THEN <<>>
  ELSE IF list[n] \in wanted THEN Append(kept[n - 1], list[n]) ELSE kept[n - 1]

LEMMA KeptExists ==
  ASSUME NEW list, NEW wanted, NEW l \in Nat
  PROVE  \E kept : kept = [n \in 0 .. l |-> Kept(list, wanted, kept, n)]
<1> DEFINE T == {i \in Nat : ~ \E kept : kept = [n \in 0 .. i |-> Kept(list, wanted, kept, n)]}
<1> SUFFICES ASSUME T # {} PROVE FALSE
  OBVIOUS
<1>1. PICK m \in T : \A k \in T : m <= k
  <2> HIDE DEF T
  <2>1. T \in SUBSET Nat
    BY DEF T
  <2> QED
    BY <2>1, LeastElement
<1>2. CASE m = 0
  <2> DEFINE kept == [n \in 0 .. 0 |-> <<>>]
  <2>1. kept = [n \in 0 .. 0 |-> Kept(list, wanted, kept, n)]
    BY DEF Kept
  <2> QED
    BY <1>1, <1>2, <2>1
<1>3. CASE m # 0
  <2>1. m - 1 \in Nat /\ m - 1 \notin T
    BY <1>1, <1>3
  <2>2. PICK kept : kept = [n \in 0 .. m - 1 |-> Kept(list, wanted, kept, n)]
    BY <2>1
  <2> DEFINE longer == [n \in 0 .. m |-> IF n = m THEN Kept(list, wanted, kept, m) ELSE kept[n]]
  <2>3. ASSUME NEW n \in 0 .. m PROVE longer[n] = Kept(list, wanted, longer, n)
    <3>1. CASE n = 0
      BY <3>1, <1>3, <2>2 DEF Kept
    <3>2. CASE n # 0
      <4>1. n - 1 \in 0 .. m /\ n - 1 # m /\ longer[n - 1] = kept[n - 1]
        BY <3>2
      <4>2. Kept(list, wanted, longer, n) = Kept(list, wanted, kept, n)
        BY <4>1, <3>2 DEF Kept
      <4>3. CASE n = m
        BY <4>2, <4>3
      <4>4. CASE n # m
        <5>1. n \in 0 .. m - 1
          BY <4>4
        <5>2. kept[n] = Kept(list, wanted, kept, n)
          BY <5>1, <2>2
        <5> QED
          BY <5>2, <4>2, <4>4
      <4> QED
        BY <4>3, <4>4
    <3> QED
      BY <3>1, <3>2
  <2>4. longer = [n \in 0 .. m |-> Kept(list, wanted, longer, n)]
    <3>1. longer = [n \in 0 .. m |-> longer[n]]
      OBVIOUS
    <3> HIDE DEF longer
    <3> QED
      BY <2>3, <3>1
  <2> QED
    BY <1>1, <2>4
<1> QED
  BY <1>2, <1>3

-----------------------------------------------------------------------------
(* Lists that grow at their end and shrink at their head.                  *)
LEMMA Grown ==
  ASSUME NEW S, NEW s \in Seq(S), NEW e \in S
  PROVE  /\ Append(s, e) \in Seq(S)
         /\ Range(Append(s, e)) = Range(s) \cup {e}
         /\ IsInjective(s) /\ e \notin Range(s) => IsInjective(Append(s, e))
<1>1. /\ Append(s, e) \in Seq(S) /\ Len(Append(s, e)) = Len(s) + 1 /\ Len(s) \in Nat
      /\ \A i \in 1 .. Len(s) : Append(s, e)[i] = s[i]
      /\ Append(s, e)[Len(s) + 1] = e
      /\ DOMAIN s = 1 .. Len(s) /\ DOMAIN Append(s, e) = 1 .. Len(s) + 1
  BY AppendProperties, LenProperties
<1> DEFINE t == Append(s, e)
<1> HIDE DEF t
<1>2. \A i \in 1 .. Len(s) + 1 : i \in 1 .. Len(s) \/ i = Len(s) + 1
  BY <1>1
<1>3. Range(t) = Range(s) \cup {e}
  BY <1>1, <1>2 DEF Range, t
<1>4. IsInjective(s) /\ e \notin Range(s) => IsInjective(t)
  BY <1>1, <1>2 DEF Range, IsInjective, t
<1> QED
  BY <1>1, <1>3, <1>4 DEF t

LEMMA Shrunk ==
  ASSUME NEW S, NEW s \in Seq(S), s # <<>>
  PROVE  /\ Head(s) \in S /\ Tail(s) \in Seq(S)
         /\ Range(s) = Range(Tail(s)) \cup {Head(s)}
         /\ IsInjective(s) => IsInjective(Tail(s)) /\ Head(s) \notin Range(Tail(s))
<1>1. /\ Head(s) \in S /\ Tail(s) \in Seq(S) /\ Len(Tail(s)) = Len(s) - 1
      /\ \A i \in 1 .. Len(Tail(s)) : Tail(s)[i] = s[i + 1]
      /\ Len(s) \in Nat \ {0} /\ Head(s) = s[1]
      /\ DOMAIN s = 1 .. Len(s) /\ DOMAIN Tail(s) = 1 .. Len(s) - 1
  BY HeadTailProperties, LenProperties, EmptySeq
<1> DEFINE t == Tail(s)
           h == Head(s)
<1> HIDE DEF t, h
<1>2. \A i \in 1 .. Len(s) : i = 1 \/ (i - 1 \in 1 .. Len(s) - 1 /\ s[i] = t[i - 1])
  BY <1>1 DEF t
<1>3. \A i \in 1 .. Len(s) - 1 : i + 1 \in 1 .. Len(s) /\ i + 1 # 1 /\ t[i] = s[i + 1]
  BY <1>1 DEF t
<1>4. Range(s) = Range(t) \cup {h}
  <2>1. ASSUME NEW i \in DOMAIN s PROVE s[i] \in Range(t) \cup {h}
    <3>1. CASE i = 1
      BY <1>1, <3>1 DEF h
    <3>2. CASE i # 1
      BY <1>1, <1>2, <3>2 DEF Range, t
    <3> QED
      BY <3>1, <3>2
  <2>2. h \in Range(s)
    BY <1>1 DEF Range, h
  <2>3. Range(t) \subseteq Range(s)
    BY <1>1, <1>3 DEF Range, t
  <2> QED
    BY <2>1, <2>2, <2>3 DEF Range
<1>5. ASSUME IsInjective(s) PROVE IsInjective(t) /\ h \notin Range(t)
  <2>1. IsInjective(t)
    BY <1>1, <1>3, <1>5 DEF IsInjective, t
  <2>2. h \notin Range(t)
    BY <1>1, <1>3, <1>5 DEF IsInjective, Range, t, h
  <2> QED
    BY <2>1, <2>2
<1> QED
  BY <1>1, <1>4, <1>5 DEF t, h

(* erase and remove_if keep those elements that are wanted, in a list that
   still has nobody twice.                                                 *)
LEMMA KeepProperties ==
  ASSUME NEW S, NEW list \in Seq(S), NEW wanted
  PROVE  /\ Keep(list, wanted) \in Seq(S)
         /\ Range(Keep(list, wanted)) = Range(list) \cap wanted
         /\ IsInjective(list) => IsInjective(Keep(list, wanted))
<1>1. Len(list) \in Nat /\ DOMAIN list = 1 .. Len(list) /\ \A i \in 1 .. Len(list) : list[i] \in S
  BY LenProperties, ElementOfSeq
<1> DEFINE l == Len(list)
<1>2. PICK kept : kept = [n \in 0 .. l |-> Kept(list, wanted, kept, n)] /\ Keep(list, wanted) = kept[l]
  <2>1. \E kept : kept = [n \in 0 .. Len(list) |-> Kept(list, wanted, kept, n)]
    BY <1>1, KeptExists
  <2> QED
    BY <2>1 DEF Keep, Kept
<1> DEFINE Prefix(n) == {list[i] : i \in 1 .. n}
           Right(n) == /\ kept[n] \in Seq(S)
                       /\ Range(kept[n]) = Prefix(n) \cap wanted
                       /\ IsInjective(list) => IsInjective(kept[n])
           T == {n \in 0 .. l : ~Right(n)}
<1>3. \A n \in 0 .. l : kept[n] = Kept(list, wanted, kept, n)
  BY <1>2
<1>4. Right(0)
  <2>1. kept[0] = <<>>
    BY <1>1, <1>3 DEF Kept
  <2>2. <<>> \in Seq(S) /\ Range(<<>>) = {} /\ IsInjective(<<>>) /\ Prefix(0) = {}
    BY DEF Range, IsInjective
  <2> QED
    BY <2>1, <2>2
<1>5. ASSUME NEW n \in 1 .. l, Right(n - 1) PROVE Right(n)
  <2> DEFINE s == kept[n - 1]
             e == list[n]
  <2>1. n \in 0 .. l /\ n # 0 /\ e \in S /\ Prefix(n) = Prefix(n - 1) \cup {e}
    <3>1. \A i \in 1 .. n : i \in 1 .. n - 1 \/ i = n
      BY <1>1
    <3> QED
      BY <1>1, <3>1
  <2>2. s \in Seq(S) /\ Range(s) = Prefix(n - 1) \cap wanted /\ (IsInjective(list) => IsInjective(s))
    BY <1>5
  <2>3. IsInjective(list) => e \notin Prefix(n - 1)
    BY <1>1 DEF IsInjective
  <2>4. kept[n] = IF e \in wanted THEN Append(s, e) ELSE s
    BY <1>3, <2>1 DEF Kept
  <2> HIDE DEF s, e, Prefix
  <2>5. CASE e \in wanted
    BY <2>1, <2>2, <2>3, <2>4, <2>5, Grown
  <2>6. CASE e \notin wanted
    BY <2>1, <2>2, <2>4, <2>6
  <2> QED
    BY <2>5, <2>6
<1>6. T = {}
  <2> SUFFICES ASSUME T # {} PROVE FALSE
    OBVIOUS
  <2>1. PICK m \in T : \A k \in T : m <= k
    <3>1. T \in SUBSET Nat
      BY <1>1
    <3> HIDE DEF T
    <3> QED
      BY <3>1, LeastElement
  <2>2. m \in 0 .. l /\ ~Right(m)
    OBVIOUS
  <2> HIDE DEF Right
  <2>3. m \in 1 .. l
    BY <1>1, <1>4, <2>2
  <2>4. m - 1 \in 0 .. l /\ m - 1 \notin T
    BY <1>1, <2>1, <2>3
  <2> QED
    BY <1>5, <2>2, <2>3, <2>4
<1>7. Right(l)
  <2> HIDE DEF Right
  <2> QED
    BY <1>1, <1>6
<1>8. Prefix(l) = Range(list)
  BY <1>1 DEF Range
<1> QED
  BY <1>2, <1>7, <1>8

-----------------------------------------------------------------------------
(* The inductive invariant.  Whoever holds a strong pointer finds a living
   observer; the observers that a notification has collected and those that
   it has yet to look at are, nobody twice, those that were registered and
   that their owners still hold; and a removed observer is in no list.     *)
Living == \A o \in Observer : Held(o) => o \notin destroyed

Silent == \A e \in EventType : Range(observers[e]) \cap removed = {}

Collecting(t) ==
  /\ IsInjective(todo[t]) /\ IsInjective(valid[t]) /\ Range(todo[t]) \cap Range(valid[t]) = {}
  /\ Range(todo[t]) \cup Range(valid[t]) \subseteq listed[t]
  /\ listed[t] \cap owned \subseteq Range(todo[t]) \cup Range(valid[t])
  /\ (Range(todo[t]) \cup Range(valid[t])) \cap removed = {}
  /\ called[t] = <<>>

Calling(t) ==
  /\ IsInjective(valid[t]) /\ Range(valid[t]) \subseteq listed[t]
  /\ listed[t] \cap owned \subseteq Range(valid[t])
  /\ next[t] \in 1 .. Len(valid[t]) + 1 /\ Len(called[t]) = next[t] - 1
  /\ \A i \in 1 .. next[t] - 1 : called[t][i] = valid[t][i]

Notifies(t) ==
  /\ pc[t] \in {"idle", "lock"} => valid[t] = <<>>
  /\ pc[t] = "collect" => Collecting(t)
  /\ pc[t] = "call" => Calling(t)

IInv == TypeOK /\ NoDuplicateRegistration /\ Living /\ Silent /\ \A t \in Thread : Notifies(t)

-----------------------------------------------------------------------------
(* Type correctness.                                                       *)
LEMMA TypeInit == Init => TypeOK
<1> SUFFICES ASSUME Init PROVE TypeOK
  OBVIOUS
<1>1. (CHOOSE e \in EventType : TRUE) \in EventType
  BY SubjectAssumption
<1>2. \A S : <<>> \in Seq(S)
  BY EmptySeq
<1> QED
  BY <1>1, <1>2, SubjectAssumption DEF Init, TypeOK

LEMMA TypeStep == TypeOK /\ [Next]_vars => TypeOK'
<1> SUFFICES ASSUME TypeOK, [Next]_vars PROVE TypeOK'
  OBVIOUS
<1> USE SubjectAssumption DEF TypeOK
<1>1. CASE UNCHANGED vars
  BY <1>1 DEF vars, notifyVars
<1>2. ASSUME NEW t \in Thread, NEW r \in Call, Request(t, r) PROVE TypeOK'
  BY <1>2 DEF Request, notifyVars
<1>3. ASSUME NEW t \in Thread, NotifyBegin(t) PROVE TypeOK'
  BY <1>3 DEF NotifyBegin
<1>4. ASSUME NEW t \in Thread, NEW list \in [EventType -> Seq(Observer)],
             removed' \in SUBSET Observer, Answer(t, list)
      PROVE  TypeOK'
  <2>1. destroyed' \subseteq Observer \ owned'
    BY <1>4 DEF Answer, DestroyReleased, Held
  <2> QED
    BY <1>4, <2>1 DEF Answer, notifyVars
<1>5. ASSUME NEW t \in Thread, AddObserver(t) PROVE TypeOK'
  <2> DEFINE o == request[t].observer
             e == request[t].type
             list == IF o \in Range(observers[e]) THEN observers
                     ELSE [observers EXCEPT ![e] = Append(@, o)]
  <2>1. request[t] \in Call /\ request[t].op = "add"
    BY <1>5 DEF AddObserver
  <2>2. o \in Observer /\ e \in EventType
    BY <2>1 DEF Call
  <2>3. list \in [EventType -> Seq(Observer)]
    BY <2>2, AppendProperties
  <2>4. removed' \in SUBSET Observer /\ Answer(t, list)
    BY <1>5 DEF AddObserver
  <2> QED
    BY <1>4, <2>3, <2>4
<1>6. ASSUME NEW t \in Thread, RemoveObserver(t) PROVE TypeOK'
  <2> DEFINE o == request[t].observer
             list == [e \in EventType |-> Keep(observers[e], Observer \ {o})]
  <2>1. request[t] \in Call
    BY <1>6 DEF RemoveObserver
  <2>2. o \in Observer
    BY <2>1 DEF Call
  <2>3. list \in [EventType -> Seq(Observer)]
    BY KeepProperties
  <2>4. removed' \in SUBSET Observer /\ Answer(t, list)
    BY <1>6, <2>2 DEF RemoveObserver
  <2> QED
    BY <1>4, <2>3, <2>4
<1>7. ASSUME NEW t \in Thread, NotifyLock(t) PROVE TypeOK'
  <2>1. observers[event[t]] \in Seq(Observer) /\ <<>> \in Seq(Observer)
    BY EmptySeq
  <2>2. Range(observers[event[t]]) \in SUBSET Observer
    BY <2>1, ElementOfSeq, LenProperties DEF Range
  <2> QED
    BY <1>7, <2>1, <2>2 DEF NotifyLock
<1>8. ASSUME NEW t \in Thread, LockWeak(t) PROVE TypeOK'
  <2>1. Head(todo[t]) \in Observer /\ Tail(todo[t]) \in Seq(Observer)
    BY <1>8, Shrunk DEF LockWeak
  <2>2. Append(valid[t], Head(todo[t])) \in Seq(Observer)
    BY <2>1, AppendProperties
  <2> QED
    BY <1>8, <2>1, <2>2 DEF LockWeak
<1>9. ASSUME NEW t \in Thread, CleanUp(t) PROVE TypeOK'
  <2>1. Keep(observers[event[t]], {o \in Observer : Alive(o)}) \in Seq(Observer)
    BY KeepProperties
  <2>2. observers' \in [EventType -> Seq(Observer)]
    BY <1>9, <2>1 DEF CleanUp, CleanUpAndKeep
  <2> QED
    BY <1>9, <2>2 DEF CleanUp, CleanUpAndKeep
<1>10. ASSUME NEW t \in Thread, Called(t, next[t] + 1) PROVE TypeOK'
  <2>1. valid[t][next[t]] \in Observer
    BY <1>10, ElementOfSeq DEF Called
  <2>2. Append(called[t], valid[t][next[t]]) \in Seq(Observer)
    BY <2>1, AppendProperties
  <2>3. called' \in [Thread -> Seq(Observer)]
    BY <1>10, <2>2 DEF Called
  <2>4. next' \in [Thread -> Nat \ {0}]
    BY <1>10 DEF Called
  <2> QED
    BY <1>10, <2>3, <2>4 DEF Called
<1>11. ASSUME NEW t \in Thread, NotifyReturn(t) PROVE TypeOK'
  <2>1. destroyed' \subseteq Observer \ owned'
    BY <1>11 DEF NotifyReturn, DestroyReleased, Held
  <2> QED
    BY <1>11, <2>1, EmptySeq DEF NotifyReturn
<1>12. ASSUME NEW o \in Observer, OwnerReleases(o) PROVE TypeOK'
  <2>1. destroyed' \subseteq Observer \ owned'
    BY <1>12 DEF OwnerReleases, DestroyReleased, Held
  <2> QED
    BY <1>12, <2>1 DEF OwnerReleases, notifyVars
<1> QED
  <2>1. ASSUME NEW t \in Thread, RequestAdd(t) \/ RequestRemove(t) PROVE TypeOK'
    BY <1>2, <2>1 DEF RequestAdd, RequestRemove, Call
  <2>2. ASSUME NEW t \in Thread, GoesOn(t) PROVE TypeOK'
    BY <1>5, <1>6, <1>7, <1>8, <1>9, <1>10, <1>11, <2>2 DEF GoesOn, CallbackReturns, CallbackThrows
  <2> QED
    BY <1>1, <1>3, <1>12, <2>1, <2>2 DEF Next

-----------------------------------------------------------------------------
(* What the calls of the three operations do to the lists.                 *)
LEMMA Adds ==
  ASSUME TypeOK, NEW t \in Thread, AddObserver(t)
  PROVE  \E o \in Observer, e \in EventType :
           /\ request[t].observer = o /\ removed' = removed \ {o}
           /\ observers' = IF o \in Range(observers[e]) THEN observers
                           ELSE [observers EXCEPT ![e] = Append(@, o)]
<1>1. request[t] \in Call /\ request[t].op = "add"
  BY DEF AddObserver, TypeOK
<1>2. request[t].observer \in Observer /\ request[t].type \in EventType
  BY <1>1 DEF Call
<1> QED
  BY <1>2 DEF AddObserver, Answer

LEMMA Removes ==
  ASSUME TypeOK, NEW t \in Thread, RemoveObserver(t)
  PROVE  \E o \in Observer :
           /\ request[t].observer = o /\ removed' = removed \cup {o}
           /\ observers' = [e \in EventType |-> Keep(observers[e], Observer \ {o})]
<1>1. request[t].observer \in Observer
  BY DEF RemoveObserver, TypeOK, Call
<1> QED
  BY <1>1 DEF RemoveObserver, Answer

(* The other steps of a thread, and those of an owner, change no list.     *)
LEMMA ListsElsewhere ==
  ASSUME TypeOK, [Next]_vars,
         ~ \E t \in Thread : AddObserver(t) \/ RemoveObserver(t) \/ CleanUp(t)
  PROVE  UNCHANGED <<observers, removed>>
<1>1. CASE \E t \in Thread : RequestAdd(t) \/ RequestRemove(t)
  BY <1>1 DEF RequestAdd, RequestRemove, Request
<1>2. CASE \E t \in Thread : NotifyBegin(t) \/ NotifyLock(t) \/ LockWeak(t)
  BY <1>2 DEF NotifyBegin, NotifyLock, LockWeak
<1>3. CASE \E t \in Thread : CallbackReturns(t) \/ CallbackThrows(t) \/ NotifyReturn(t)
  BY <1>3 DEF CallbackReturns, CallbackThrows, Called, NotifyReturn
<1>4. CASE \E o \in Observer : OwnerReleases(o)
  BY <1>4 DEF OwnerReleases
<1>5. CASE UNCHANGED vars
  BY <1>5 DEF vars
<1> QED
  BY <1>1, <1>2, <1>3, <1>4, <1>5 DEF Next, GoesOn

(* Nobody is registered twice for a type, and no removed observer is in any
   list.                                                                   *)
LEMMA ListsStep ==
  TypeOK /\ NoDuplicateRegistration /\ Silent /\ [Next]_vars
    => NoDuplicateRegistration' /\ Silent'
<1> SUFFICES ASSUME TypeOK, NoDuplicateRegistration, Silent, [Next]_vars
             PROVE  NoDuplicateRegistration' /\ Silent'
  OBVIOUS
<1> USE DEF NoDuplicateRegistration, Silent
<1>0. observers \in [EventType -> Seq(Observer)]
  BY DEF TypeOK
<1>1. ASSUME NEW t \in Thread, AddObserver(t) PROVE NoDuplicateRegistration' /\ Silent'
  <2>1. PICK o \in Observer, e \in EventType :
          /\ removed' = removed \ {o}
          /\ observers' = IF o \in Range(observers[e]) THEN observers
                          ELSE [observers EXCEPT ![e] = Append(@, o)]
    BY <1>1, Adds
  <2>2. CASE o \in Range(observers[e])
    BY <2>1, <2>2
  <2>3. CASE o \notin Range(observers[e])
    <3>1. /\ Range(Append(observers[e], o)) = Range(observers[e]) \cup {o}
          /\ IsInjective(Append(observers[e], o))
      BY <1>0, <2>3, Grown
    <3>2. \A f \in EventType : observers'[f] = IF f = e THEN Append(observers[e], o) ELSE observers[f]
      BY <1>0, <2>1, <2>3
    <3> QED
      BY <2>1, <3>1, <3>2
  <2> QED
    BY <2>2, <2>3
<1>2. ASSUME NEW t \in Thread, RemoveObserver(t) PROVE NoDuplicateRegistration' /\ Silent'
  <2>1. PICK o \in Observer :
          /\ removed' = removed \cup {o}
          /\ observers' = [e \in EventType |-> Keep(observers[e], Observer \ {o})]
    BY <1>2, Removes
  <2>2. \A e \in EventType : /\ Range(observers'[e]) = Range(observers[e]) \cap (Observer \ {o})
                             /\ IsInjective(observers'[e])
    BY <1>0, <2>1, KeepProperties
  <2> QED
    BY <2>1, <2>2
<1>3. ASSUME NEW t \in Thread, CleanUp(t) PROVE NoDuplicateRegistration' /\ Silent'
  <2> DEFINE e == event[t]
             list == Keep(observers[e], {o \in Observer : Alive(o)})
  <2>1. e \in EventType
    BY DEF TypeOK
  <2>2. Range(list) \subseteq Range(observers[e]) /\ IsInjective(list)
    BY <1>0, <2>1, KeepProperties
  <2>3. \A f \in EventType : observers'[f] = IF f = e THEN list ELSE observers[f]
    BY <1>0, <1>3 DEF CleanUp, CleanUpAndKeep
  <2>4. removed' = removed
    BY <1>3 DEF CleanUp, CleanUpAndKeep
  <2> QED
    BY <2>2, <2>3, <2>4
<1> QED
  BY <1>1, <1>2, <1>3, ListsElsewhere

-----------------------------------------------------------------------------
(* An observer to which a strong pointer exists has not been destroyed: a
   new one is made from another, or from a weak pointer under the mutex.   *)
LEMMA LivingStep == TypeOK /\ Living /\ [Next]_vars => Living'
<1> SUFFICES ASSUME TypeOK, Living, [Next]_vars PROVE Living'
  OBVIOUS
<1> DEFINE Same == /\ \A o \in Observer : Held(o)' => Held(o)
                   /\ destroyed' = destroyed
           Less == /\ \A o \in Observer : Held(o)' => Held(o)
                   /\ DestroyReleased
<1>1. Same => Living'
  BY DEF Living
<1>2. Less => Living'
  BY DEF Living, DestroyReleased
<1> HIDE DEF Same, Less
<1>3. ASSUME NEW t \in Thread, NEW r \in Call, Request(t, r) PROVE Same
  BY <1>3 DEF Same, Request, notifyVars, Held, TypeOK
<1>4. ASSUME NEW t \in Thread, AddObserver(t) \/ RemoveObserver(t) PROVE Less
  BY <1>4 DEF Less, AddObserver, RemoveObserver, Answer, notifyVars, Held, TypeOK
<1>5. ASSUME NEW t \in Thread, NotifyBegin(t) \/ NotifyLock(t) \/ CleanUp(t) PROVE Same
  BY <1>5 DEF Same, NotifyBegin, NotifyLock, CleanUp, CleanUpAndKeep, Held
<1>6. ASSUME NEW t \in Thread, CallbackReturns(t) \/ CallbackThrows(t) PROVE Same
  BY <1>6 DEF Same, CallbackReturns, CallbackThrows, Called, Held
<1>7. ASSUME NEW t \in Thread, NotifyReturn(t) PROVE Less
  <2>1. \A u \in Thread : Range(valid'[u]) \subseteq Range(valid[u])
    BY <1>7 DEF NotifyReturn, TypeOK, Range
  <2> QED
    BY <1>7, <2>1 DEF Less, NotifyReturn, Held
<1>8. ASSUME NEW o \in Observer, OwnerReleases(o) PROVE Less
  BY <1>8 DEF Less, OwnerReleases, notifyVars, Held
<1>9. ASSUME NEW t \in Thread, LockWeak(t) PROVE Living'
  <2> DEFINE h == Head(todo[t])
  <2>1. h \in Observer /\ valid \in [Thread -> Seq(Observer)]
    BY <1>9, Shrunk DEF LockWeak, TypeOK
  <2>2. UNCHANGED <<owned, request, destroyed>>
    BY <1>9 DEF LockWeak
  <2>3. CASE ~Alive(h)
    BY <1>9, <2>2, <2>3 DEF LockWeak, Living, Held
  <2>4. CASE Alive(h)
    <3>1. \A u \in Thread : Range(valid'[u]) \subseteq Range(valid[u]) \cup {h}
      BY <1>9, <2>1, <2>4, Grown DEF LockWeak
    <3>2. \A o \in Observer : Held(o)' => Held(o) \/ o = h
      BY <2>2, <3>1 DEF Held
    <3> QED
      BY <2>2, <2>4, <3>2 DEF Living, Alive
  <2> QED
    BY <2>3, <2>4
<1>10. CASE UNCHANGED vars
  BY <1>10 DEF vars, notifyVars, Living, Held
<1> QED
  <2>1. ASSUME NEW t \in Thread, RequestAdd(t) \/ RequestRemove(t) PROVE Same
    BY <1>3, <2>1 DEF RequestAdd, RequestRemove, Call
  <2> QED
    BY <1>1, <1>2, <1>4, <1>5, <1>6, <1>7, <1>8, <1>9, <1>10, <2>1 DEF Next, GoesOn

-----------------------------------------------------------------------------
(* The notification of a thread is not disturbed by what others do, since
   nobody removes an observer while it holds the mutex.                    *)
LEMMA Undisturbed ==
  ASSUME NEW u \in Thread, Notifies(u),
         pc'[u] = pc[u], todo'[u] = todo[u], valid'[u] = valid[u], next'[u] = next[u],
         listed'[u] = listed[u], called'[u] = called[u],
         owned' \subseteq owned, pc[u] = "collect" => removed' = removed
  PROVE  Notifies(u)'
<1>1. ASSUME Collecting(u), removed' = removed PROVE Collecting(u)'
  BY <1>1 DEF Collecting
<1>2. ASSUME Calling(u) PROVE Calling(u)'
  BY <1>2 DEF Calling
<1> QED
  BY <1>1, <1>2 DEF Notifies

(* Nor by the steps of its own thread that are not part of it.             *)
LEMMA NotifyElsewhere ==
  ASSUME TypeOK, [Next]_vars, NEW u \in Thread, Notifies(u),
         ~(NotifyBegin(u) \/ NotifyLock(u) \/ LockWeak(u) \/ CleanUp(u)
             \/ Called(u, next[u] + 1) \/ NotifyReturn(u))
  PROVE  Notifies(u)'
<1> USE DEF TypeOK
<1>1. ASSUME NEW t \in Thread, RequestAdd(t) \/ RequestRemove(t) PROVE Notifies(u)'
  BY <1>1, Undisturbed DEF RequestAdd, RequestRemove, Request, notifyVars
<1>2. ASSUME NEW t \in Thread, AddObserver(t) \/ RemoveObserver(t) PROVE Notifies(u)'
  <2>1. mutex = Free /\ UNCHANGED <<notifyVars, owned>>
    BY <1>2 DEF AddObserver, RemoveObserver, Answer
  <2>2. pc[u] # "collect"
    BY <2>1, SubjectAssumption
  <2> QED
    BY <2>1, <2>2, Undisturbed DEF notifyVars
<1>3. ASSUME NEW t \in Thread, t # u, NotifyBegin(t) \/ NotifyLock(t) PROVE Notifies(u)'
  BY <1>3, Undisturbed DEF NotifyBegin, NotifyLock
<1>4. ASSUME NEW t \in Thread, t # u, LockWeak(t) \/ CleanUp(t) PROVE Notifies(u)'
  BY <1>4, Undisturbed DEF LockWeak, CleanUp, CleanUpAndKeep
<1>5. ASSUME NEW t \in Thread, t # u, Called(t, next[t] + 1) \/ NotifyReturn(t) PROVE Notifies(u)'
  BY <1>5, Undisturbed DEF Called, NotifyReturn
<1>6. ASSUME NEW o \in Observer, OwnerReleases(o) PROVE Notifies(u)'
  BY <1>6, Undisturbed DEF OwnerReleases, notifyVars
<1>7. CASE UNCHANGED vars
  BY <1>7, Undisturbed DEF vars, notifyVars
<1> QED
  BY <1>1, <1>2, <1>3, <1>4, <1>5, <1>6, <1>7 DEF Next, GoesOn, CallbackReturns, CallbackThrows

LEMMA NotifyStep ==
  ASSUME TypeOK, NoDuplicateRegistration, Living, Silent, [Next]_vars,
         NEW t \in Thread, Notifies(t)
  PROVE  Notifies(t)'
<1> USE DEF TypeOK
<1>1. CASE NotifyBegin(t)
  BY <1>1 DEF NotifyBegin, Notifies
<1>2. CASE NotifyLock(t)
  <2> DEFINE list == observers[event[t]]
  <2>1. valid[t] = <<>> /\ Range(<<>>) = {} /\ IsInjective(<<>>)
    BY <1>2 DEF NotifyLock, Notifies, Range, IsInjective
  <2>2. IsInjective(list) /\ Range(list) \cap removed = {}
    BY DEF NoDuplicateRegistration, Silent
  <2>3. /\ pc'[t] = "collect" /\ todo'[t] = list /\ valid'[t] = valid[t] /\ listed'[t] = Range(list)
        /\ called'[t] = <<>> /\ UNCHANGED <<owned, removed>>
    BY <1>2 DEF NotifyLock
  <2>4. Collecting(t)'
    BY <2>1, <2>2, <2>3 DEF Collecting
  <2> QED
    BY <2>3, <2>4 DEF Notifies
<1>3. CASE LockWeak(t)
  <2> DEFINE h == Head(todo[t])
  <2>1. Collecting(t)
    BY <1>3 DEF LockWeak, Notifies
  <2>2. /\ h \in Observer /\ Range(todo[t]) = Range(Tail(todo[t])) \cup {h}
        /\ IsInjective(Tail(todo[t])) /\ h \notin Range(Tail(todo[t]))
    BY <1>3, <2>1, Shrunk DEF LockWeak, Collecting
  <2>3. /\ pc'[t] = "collect" /\ todo'[t] = Tail(todo[t])
        /\ valid'[t] = IF Alive(h) THEN Append(valid[t], h) ELSE valid[t]
        /\ UNCHANGED <<owned, removed, listed, called>>
    BY <1>3 DEF LockWeak
  <2>4. h \in owned => Alive(h)
    BY <2>2 DEF Living, Held, Alive
  <2>5. h \notin Range(valid[t])
    BY <2>1, <2>2 DEF Collecting
  <2>6. /\ Range(valid'[t]) = IF Alive(h) THEN Range(valid[t]) \cup {h} ELSE Range(valid[t])
        /\ IsInjective(valid'[t])
    <3>1. valid[t] \in Seq(Observer) /\ IsInjective(valid[t])
      BY <2>1 DEF Collecting
    <3>2. CASE Alive(h)
      <4>1. valid'[t] = Append(valid[t], h)
        BY <2>3, <3>2
      <4> HIDE DEF TypeOK, h
      <4>2. /\ Range(Append(valid[t], h)) = Range(valid[t]) \cup {h}
            /\ IsInjective(Append(valid[t], h))
        BY <2>2, <2>5, <3>1, Grown
      <4> QED
        BY <3>2, <4>1, <4>2
    <3>3. CASE ~Alive(h)
      BY <2>3, <3>1, <3>3
    <3> QED
      BY <3>2, <3>3
  <2>7. Collecting(t)'
    BY <2>1, <2>2, <2>3, <2>4, <2>5, <2>6 DEF Collecting
  <2> QED
    BY <2>3, <2>7 DEF Notifies
<1>4. CASE CleanUp(t)
  <2>1. Collecting(t) /\ todo[t] = <<>> /\ Range(<<>>) = {}
    BY <1>4 DEF CleanUp, CleanUpAndKeep, Notifies, Range
  <2>2. pc'[t] = "call" /\ next'[t] = 1 /\ UNCHANGED <<valid, owned, listed, called>>
    BY <1>4 DEF CleanUp, CleanUpAndKeep
  <2>3. Calling(t)'
    BY <2>1, <2>2, LenProperties, EmptySeq DEF Collecting, Calling
  <2> QED
    BY <2>2, <2>3 DEF Notifies
<1>5. CASE Called(t, next[t] + 1)
  <2> DEFINE n == next[t]
             o == valid[t][n]
  <2>1. Calling(t) /\ n <= Len(valid[t])
    BY <1>5 DEF Called, Notifies
  <2>2. n \in 1 .. Len(valid[t]) /\ Len(valid[t]) \in Nat /\ o \in Observer
    BY <2>1, ElementOfSeq, LenProperties
  <2>3. /\ pc'[t] = "call" /\ next'[t] = n + 1 /\ called'[t] = Append(called[t], o)
        /\ UNCHANGED <<valid, owned, listed>>
    BY <1>5 DEF Called
  <2>4. Len(called[t]) = n - 1 /\ \A i \in 1 .. n - 1 : called[t][i] = valid[t][i]
    BY <2>1 DEF Calling
  <2>5. /\ Len(Append(called[t], o)) = n
        /\ \A i \in 1 .. n - 1 : Append(called[t], o)[i] = called[t][i]
        /\ Append(called[t], o)[n] = o
    BY <2>2, <2>4, AppendProperties
  <2>6. \A i \in 1 .. n : called'[t][i] = valid[t][i]
    <3>1. \A i \in 1 .. n : i \in 1 .. n - 1 \/ i = n
      BY <2>2
    <3> QED
      BY <2>3, <2>4, <2>5, <3>1
  <2>7. next'[t] \in 1 .. Len(valid'[t]) + 1 /\ Len(called'[t]) = next'[t] - 1 /\ next'[t] - 1 = n
    <3>1. n \in Nat /\ next'[t] = n + 1 /\ valid'[t] = valid[t] /\ Len(called'[t]) = n
      BY <2>2, <2>3, <2>5
    <3> HIDE DEF TypeOK, n, o
    <3> QED
      BY <2>2, <3>1
  <2>8. Calling(t)'
    <3> HIDE DEF TypeOK, n, o
    <3> QED
      BY <2>1, <2>3, <2>6, <2>7 DEF Calling
  <2> QED
    BY <2>3, <2>8 DEF Notifies
<1>6. CASE NotifyReturn(t)
  BY <1>6 DEF NotifyReturn, Notifies
<1> QED
  BY <1>1, <1>2, <1>3, <1>4, <1>5, <1>6, NotifyElsewhere

-----------------------------------------------------------------------------
LEMMA InvInit == Init => IInv
<1> SUFFICES ASSUME Init PROVE IInv
  OBVIOUS
<1>1. TypeOK
  BY TypeInit
<1>2. Range(<<>>) = {} /\ IsInjective(<<>>)
  BY DEF Range, IsInjective
<1>3. NoDuplicateRegistration /\ Silent
  BY <1>2 DEF Init, NoDuplicateRegistration, Silent
<1>4. Living
  BY DEF Init, Living
<1>5. \A t \in Thread : Notifies(t)
  BY DEF Init, Notifies
<1> QED
  BY <1>1, <1>3, <1>4, <1>5 DEF IInv

LEMMA InvStep == IInv /\ [Next]_vars => IInv'
  BY TypeStep, ListsStep, LivingStep, NotifyStep DEF IInv

LEMMA InvAlways == Spec => []IInv
  BY InvInit, InvStep, PTL DEF Spec

(* Whatever the threads and the owners do, no list has an observer twice
   and every variable stays in its range: a notification is collected by
   the one thread that holds the mutex.                                    *)
THEOREM ListsAlwaysValid == Spec => []ListsValid
<1>1. IInv => ListsValid
  BY DEF IInv, ListsValid
<1> QED
  BY <1>1, InvAlways, PTL

(* The observer that is being called is alive, whoever let go of it since
   the mutex was released.                                                 *)
THEOREM CalledObserversLive == Spec => []ObserverAliveDuringCallback
<1>1. ASSUME IInv PROVE ObserverAliveDuringCallback
  <2> SUFFICES ASSUME NEW t \in Thread, next[t] <= Len(valid[t])
               PROVE  Alive(valid[t][next[t]])
    BY DEF ObserverAliveDuringCallback
  <2>1. next[t] \in 1 .. Len(valid[t]) /\ valid[t] \in Seq(Observer)
    BY <1>1, LenProperties DEF IInv, TypeOK
  <2>2. valid[t][next[t]] \in Observer /\ valid[t][next[t]] \in Range(valid[t])
    BY <2>1, ElementOfSeq, LenProperties DEF Range
  <2> QED
    BY <1>1, <2>2 DEF IInv, Living, Held, Alive
<1> QED
  BY <1>1, InvAlways, PTL

(* When a notification ends it has called, nobody twice, only observers that
   were registered when it took the mutex, and among them all whose owners
   still hold them; and none that had been removed before.                 *)
THEOREM RightOnesAlwaysCalled == Spec => []RightOnesCalled
<1>1. ASSUME IInv PROVE EveryoneCalledOnce
  <2> SUFFICES ASSUME NEW t \in Thread, pc[t] = "call", next[t] > Len(valid[t])
               PROVE  /\ listed[t] \cap owned \subseteq Range(called[t])
                      /\ Range(called[t]) \subseteq listed[t]
                      /\ IsInjective(called[t])
    BY DEF EveryoneCalledOnce
  <2>1. Calling(t) /\ called[t] \in Seq(Observer) /\ valid[t] \in Seq(Observer)
    BY <1>1 DEF IInv, Notifies, TypeOK
  <2>2. next[t] - 1 = Len(valid[t]) /\ Len(valid[t]) \in Nat
    BY <2>1, LenProperties DEF Calling
  <2>3. called[t] = valid[t]
    BY <2>1, <2>2, SeqEqual DEF Calling
  <2> QED
    BY <2>1, <2>3 DEF Calling
<1>2. IInv => RemovedStaySilent
  BY DEF IInv, Notifies, Collecting, RemovedStaySilent
<1>3. IInv => RightOnesCalled
  BY <1>1, <1>2 DEF RightOnesCalled
<1> QED
  BY <1>3, InvAlways, PTL
=============================================================================
