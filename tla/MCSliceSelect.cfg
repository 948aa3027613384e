SPECIFICATION FairSpec
CONSTANTS
  NumUE = 2
  Slices = {1, 2}
  Nssais = {"a", "b", "x"}
  SidOf <- MCSidOf
  Drbs = {4, 5}
  Busy = {2}
  DlSlots = {0, 1}
INVARIANTS NeverFatal WorkConserving OwnSliceOnly
PROPERTY NoStarvation
