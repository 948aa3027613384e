SPECIFICATION Spec
CONSTANTS
  SliceNssai <- MCSliceNssai
  MAX_NUM_SLICE = 8
  Writers = {"control"}
  PolicyFiles <- NoFiles
  CtrlMsgs <- AnyMsgs
INVARIANT NotOvercommitted
CHECK_DEADLOCK FALSE
