CONSTANTS
  Thread = {t1, t2}
  Observer = {o1, o2}
  EventType = {e1, e2}
  Free = Free
  NoRequest = NoRequest
  MaxCalls = 4
SPECIFICATION FairSpec
INVARIANTS ListsValid ObserverAliveDuringCallback RightOnesCalled
PROPERTIES CallsReturn
CHECK_DEADLOCK FALSE
