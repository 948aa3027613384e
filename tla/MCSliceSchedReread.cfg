SPECIFICATION Spec
CONSTANTS
  NumUE = 2
  NumSlice = 2
  BW = 8
  MinRbSize = 2
  MaxSchedUes = 2
  MinRatios = {0, 40}
  MaxRatios = {50, 100}
  Garbage <- AnyGarbage
  Masks <- SomeMasks
  Demands = {1, 9}
  RetxSizes = {3}
  RetxTdas = {"same"}
  CommonRanges = {}
INVARIANT PrbViolationNever
CHECK_DEADLOCK FALSE
