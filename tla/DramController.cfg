SPECIFICATION FairSpec
CONSTANTS
  NumChans = 1
  NumRanks = 2
  NumBanks = 2
  NumRows = 2
  NumCols = 1
  OffsetWidth = 0
  Scheme = "Scheme7"
  Addresses = {0, 1, 2, 4}
  CL = 2
  AL = 0
  HalfBL = 1
  tRAS = 3
  tRCD = 2
  tRRD = 1
  tRP = 1
  tRC = 4
  tCCD = 1
  tRTP = 1
  tWTR = 1
  tWR = 1
  tRTRS = 1
  tRFC = 3
  tFAW = 5
  tCKE = 2
  tXP = 2
  tCMD = 1
  CmdQueueDepth = 4
  TotalRowAccesses = 1
  TransQueueDepth = 2
  RefreshPeriod = 28
  UseLowPower = TRUE
  MaxTransactions = 3
  Window = 3
  Policies <- MCPolicies
INVARIANTS RanksAllow OneBurstAtATime ColumnsHaveTheirRow SameAddressInOrder RefreshNotLost
PROPERTY EverythingServed
