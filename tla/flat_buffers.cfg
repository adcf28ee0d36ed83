CONSTANTS
  Base = 16
  initial_size_ = 8
  buffer_minalign_ = 8
  PacketRoom = 48
  Strings <- MCStrings
  Scripts <- MCScripts
SPECIFICATION Spec
INVARIANTS TypeOK ReadsBack ScratchBelowData FinishedVerifies ScalarsAligned LookupFinds VerifiedIsReadable PacketReadsBack PacketInside
PROPERTY WrittenStays
CHECK_DEADLOCK FALSE
