CONSTANTS
  Addr = {a1, a2, a3, a4}
  NoAddr = NoAddr
  Capacity = 1
  MaxFrames = 2
SPECIFICATION FairSpec
INVARIANTS ResultsOwned BacklogBounded
PROPERTIES WireInOrder ResultsReleased NewestFrameReported
CHECK_DEADLOCK FALSE
