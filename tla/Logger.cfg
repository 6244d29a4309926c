CONSTANTS
  Thread = {t1, t2}
  Free = Free
  MaxFileSize = 1
  MaxBackupFiles = 2
  MaxLines = 8
  MaxCrashes = 1
SPECIFICATION Spec
INVARIANTS FilesKept NoGapInLog LinesArriveWhileOpen
PROPERTIES RestartKeepsLog
CHECK_DEADLOCK FALSE
