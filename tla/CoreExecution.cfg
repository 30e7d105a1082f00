SPECIFICATION FairSpec
CONSTANTS
  MaxContexts = 4
  MaxBlock = 6
  BranchLookahead = 1
  MaxPorts = 2
  BhtSize = 2
  HistoryBits = 2
  Predictors = {"none", "twobit", "gshare"}
  Programs <- MCPrograms
  Configs <- MCConfigs
  Units <- MCUnits
INVARIANTS ParentsFirst NoLostWakeup MemoryOrder LsqSound LimitsHold
PROPERTY EventuallyDone
