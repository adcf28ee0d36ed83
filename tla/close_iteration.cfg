CONSTANTS
  Program = "Server_Framework"
  MAX_SESSION = 2
  Keys = {1, 2}
  IdSpace = 4
  Sockets = {k1, k2}
  INVALID_SOCKET = INVALID_SOCKET
  Workers = {w1, w2}
  Contexts = {}
  MaxJoins = 3
  AssocFailures = {"NULL"}
CHECK_DEADLOCK FALSE
SPECIFICATION Spec
SYMMETRY Symmetry
INVARIANT CloseEndsIteration
