SPECIFICATION Spec
CONSTANTS
  Rnti = {1, 2}
  NumRa = 2
  Capacities = {2}
  HarqRoundMax = 2
  Window = 1
  CrTimer = 3
  ReleaseTimer = 2
  UlFailTimer = 2
  MaxPreambles = 2
  MaxEvents = 1
INVARIANT F1DataThere
CHECK_DEADLOCK FALSE
