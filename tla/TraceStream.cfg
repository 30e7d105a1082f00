SPECIFICATION FairSpec
CONSTANTS
  MaxThreads = 3
  BufSize = 21
  CallCap = 6
  Runs <- MCRuns
INVARIANTS TypeOK ContextsFollowTrace
PROPERTY EventuallySimulated
