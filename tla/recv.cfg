CONSTANTS
  MAX_QUEUE = 10
  MAX_BUFFER = 10
  Word = 40
  Base = 4
  Sizes = {3, 5}
  MaxPackets = 4
  MaxHandled = 4
CHECK_DEADLOCK FALSE
SPECIFICATION Spec
INVARIANTS TypeOK QueueHoldsRest NothingHeldBack RegularRequiredIsMissing LoopFollowsChunk
PROPERTIES ImplementsStream
