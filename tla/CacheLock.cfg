SPECIFICATION FairSpec
CONSTANTS
  A = A
  B = B
  a1 = a1
  a2 = a2
  b1 = b1
  l1 = l1
  None = None
  Cores = {A, B}
  Atomics = {a1, a2, b1}
  Loads = {l1}
  Prefetching = {a1}
  coreOf <- MCCoreOf
INVARIANTS LockSound OwnerAlive
PROPERTY EventuallyDone
