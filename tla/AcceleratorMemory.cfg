SPECIFICATION FairSpec
CONSTANTS
  i1 = i1
  i2 = i2
  t1 = t1
  t2 = t2
  None = None
  LineSize = 8
  Addrs <- MCAddrs
  Loads = {t1, t2}
  Invocations = {i1, i2}
  MaxCycles = 2
  addrOf <- MCAddrOf
  blocksOf <- MCBlocksOf
INVARIANTS OneInvocationAtATime ReadsAfterEviction
PROPERTY EventuallyFinished
