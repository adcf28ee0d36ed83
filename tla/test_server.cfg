CONSTANTS
  Program = "Test_Server"
  MAX_SESSION = 2
  Keys = {1, 2}
  IdSpace = 3
  Sockets = {k1, k2}
  INVALID_SOCKET = INVALID_SOCKET
  Workers = {w1, w2}
  Contexts = {c1, c2}
  MaxJoins = 3
  AssocFailures = {"NULL", "INVALID_HANDLE_VALUE"}
CHECK_DEADLOCK FALSE
SPECIFICATION Spec
SYMMETRY Symmetry
INVARIANTS UsingExact HandleOwnership SendContextsExclusive
PROPERTIES ImplementsDirectory
