SPECIFICATION FairSpec
CONSTANTS
  NumHarq = 2
  InitHarq = 1
  RoundMax = 2
  Frames = 4
  Slots = 2
  K1 = 2
  MaxDai = 2
  MaxLag = 1
  MaxFaults = 1
INVARIANTS ListsAgree NoAssert VerdictMatches
PROPERTIES NdiTells FeedbackHandled
