CONSTANTS
  Coroutine = {c1, c2}
  MaxSize = 2
  MaxCalls = 4
  Notifier = {n1}
  NoUpdate = NoUpdate
SPECIFICATION FairSpec
INVARIANTS RulesKept HistoryInOrder StatisticsCount ShutdownStopsRanges
PROPERTIES CoroutinesEnd
CHECK_DEADLOCK FALSE
