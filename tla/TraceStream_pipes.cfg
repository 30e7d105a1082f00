SPECIFICATION FairSpec
CONSTANTS
  MaxThreads = 2
  BufSize = 16
  CallCap = 6
  Runs <- TwoPipes
PROPERTY EventuallySimulated
