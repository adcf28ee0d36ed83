CONSTANTS
  Programs = {"Server_Framework", "Test_Server"}
  WORKERTHREAD_NUM = 3
  MaxClients = 3
CHECK_DEADLOCK FALSE
SPECIFICATION FairSpec
INVARIANTS TypeOK LeavesAfterStop TestServerWaits
PROPERTIES EndsOnQuit
