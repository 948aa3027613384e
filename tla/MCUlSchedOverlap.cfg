SPECIFICATION Spec
CONSTANTS
  NumUE = 3
  BW = 8
  MinRb = 2
  MaxSchedUes = 2
  Blocks <- SomeBlocks
  Demands = {1, 3, 9}
  RetxSizes = {1, 4}
  RetxTdas = {"same", "short", "other"}
INVARIANT GrantsNeverOverlap
