CONSTANTS
  SIZE = 3
  StoresInOrder = TRUE
  MaxFrames = 7
  LapBound = 1
SPECIFICATION FairSpec
INVARIANTS TypeOK NoTornRead
PROPERTIES ImplementsRegister LastFrameDelivered
