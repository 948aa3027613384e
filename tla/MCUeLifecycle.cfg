SPECIFICATION FairSpec
CONSTANTS
  Rnti = {1, 2}
  NumRa = 2
  Capacities = {1, 2}
  HarqRoundMax = 2
  Window = 1
  CrTimer = 3
  ReleaseTimer = 2
  UlFailTimer = 2
  MaxPreambles = 2
  MaxEvents = 1
INVARIANTS TcRntiFree NoOrphan
PROPERTIES RaEnds ContextSettled
CHECK_DEADLOCK FALSE
