SPECIFICATION FairSpec
CONSTANTS
  NumHarq = 2
  RoundMax = 2
  TbSizes = {2}
  MaxBuf = 3
  DtxThres = 2
  MaxLost = 2
  MaxRa = 1
INVARIANTS ListsAgree BytesAccounted
PROPERTIES WaitingEnds SilenceNoticed
CHECK_DEADLOCK FALSE
