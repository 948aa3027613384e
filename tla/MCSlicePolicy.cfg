SPECIFICATION Spec
CONSTANTS
  SliceNssai <- MCSliceNssai
  MAX_NUM_SLICE = 8
  Writers = {"reload", "control"}
  PolicyFiles <- Files
  CtrlMsgs <- PercentMsgs
INVARIANTS FileOrdered NotOvercommitted LastEntryWins
PROPERTY CtrlFatalIsJustified
CHECK_DEADLOCK FALSE
