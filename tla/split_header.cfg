CONSTANTS
  MAX_QUEUE = 17
  MAX_BUFFER = 17
  Word = 68
  Base = 4
  Sizes = {3, 5}
  MaxPackets = 3
  MaxHandled = 4
CHECK_DEADLOCK FALSE
SPECIFICATION Spec
INVARIANT RequiredIsMissing
