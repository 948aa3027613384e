SPECIFICATION Spec
CONSTANTS
  NumUE = 2
  NumSlice = 2
  BW = 6
  MinRbSize = 2
  MaxSchedUes = 2
  MinRatios = {0, 40}
  MaxRatios = {50, 100}
  Garbage <- AnyGarbage
  Masks <- SomeMasks
  Demands = {1, 4}
  RetxSizes = {3}
  RetxTdas = {"same", "short", "other"}
  CommonRanges <- Coreset0
INVARIANTS BudgetKept InBand
PROPERTIES SharesKept OnlyFreeRbs
CHECK_DEADLOCK FALSE
