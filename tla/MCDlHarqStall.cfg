SPECIFICATION FairSpec
CONSTANTS
  NumHarq = 2
  InitHarq = 2
  RoundMax = 2
  Frames = 4
  Slots = 1
  K1 = 1
  MaxDai = 2
  MaxLag = 1
  MaxFaults = 1
PROPERTIES NoStall
