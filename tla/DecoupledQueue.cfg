SPECIFICATION FairSpec
CONSTANTS
  a1 = a1
  a2 = a2
  NumProds = 3
  NumStores = 3
  Addrs = {a1, a2}
  Programs <- MixedPrograms
  commQ_size = 2
  term_buffer_size = 1
  SAB_size = 2
  SVB_size = 1
  SupplyWindow = 4
  ComputeWindow = 2
  MemForward = TRUE
INVARIANTS TypeOK CountersExact WritesAtFront StoresInOrder ForwardsConnected
CHECK_DEADLOCK FALSE
PROPERTIES ImplementsChannel EventuallyDone
