SPECIFICATION Spec
CONSTANTS
  NumUE = 2
  NumSlice = 2
  BW = 6
  MinRbSize = 2
  MaxSchedUes = 2
  MinRatios = {0, 40}
  MaxRatios = {100}
  Garbage <- AnyGarbage
  Masks <- WholeMasks
  Demands = {1, 9}
  RetxSizes = {3}
  RetxTdas = {"same"}
  CommonRanges = {}
INVARIANT MinimumHonoured
CHECK_DEADLOCK FALSE
