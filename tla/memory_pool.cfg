CONSTANTS
  PoolSize = 3
  Word = 8
CHECK_DEADLOCK FALSE
SPECIFICATION Spec
INVARIANTS TypeOK Counted EachBlockOnce
PROPERTIES ImplementsPool
