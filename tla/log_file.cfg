CONSTANTS
  Loggers = {L1, L2}
  Main = M
  MaxLines = 2
CHECK_DEADLOCK FALSE
SPECIFICATION Spec
INVARIANTS TypeOK UnlockedOnce WholeLines
PROPERTIES ImplementsAppendLog MutexIsReleased
