SPECIFICATION FairSpec
CONSTANTS
  Window = 4
  HfnModulus = 2
  StartCount = 6
  MaxSdus = 4
  MaxEpoch = 1
INVARIANTS
  CountsRight
  ReorderingConsistent
PROPERTIES
  InOrderOnce
  NoneSwallowed
  HeldIsReleased
CHECK_DEADLOCK FALSE
