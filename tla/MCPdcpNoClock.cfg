SPECIFICATION Spec
CONSTANTS
  Window = 4
  HfnModulus = 2
  StartCount = 6
  MaxSdus = 4
  MaxEpoch = 1
INVARIANT GapIsTimed
CHECK_DEADLOCK FALSE
