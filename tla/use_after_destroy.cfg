CONSTANTS
  Programs = {"Server_Framework"}
  WORKERTHREAD_NUM = 3
  MaxClients = 3
CHECK_DEADLOCK FALSE
SPECIFICATION Spec
INVARIANT UsesLivePool
