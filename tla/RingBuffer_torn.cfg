CONSTANTS
  SIZE = 3
  StoresInOrder = FALSE
  MaxFrames = 4
  LapBound = 1
SPECIFICATION Spec
INVARIANTS NoTornRead
