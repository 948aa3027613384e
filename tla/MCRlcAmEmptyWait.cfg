SPECIFICATION Spec
CONSTANTS
  Sizes <- MCSizes
  SnModulus = 6
  StartSn = 5
  TxMax = 6
  Grants <- MCGrants
  StatusGrants <- MCStatusGrants
  PollPdu <- Infinite
  MaxAir = 2
  MaxReports = 1
  MaxFlight = 2
  MaxLoss = 1
INVARIANT WaitListNotEmpty
CHECK_DEADLOCK FALSE
