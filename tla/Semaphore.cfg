CONSTANTS
  Thread = {t1, t2, t3}
  Free = Free
  MaxInitial = 1
  MaxCalls = 4
  MaxSpurious = 1
SPECIFICATION FairSpec
INVARIANTS TypeOK NoLostWakeUp
PROPERTIES ImplementsCounting WaitsEnd
CHECK_DEADLOCK FALSE
