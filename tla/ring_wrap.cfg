CONSTANTS
  MAX_QUEUE = 8
  MAX_BUFFER = 8
  Word = 64
  Base = 4
  Sizes = {3, 5}
  MaxPackets = 4
  MaxHandled = 4
CHECK_DEADLOCK FALSE
SPECIFICATION Spec
INVARIANT FrontVacant
