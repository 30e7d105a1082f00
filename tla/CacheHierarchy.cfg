SPECIFICATION FairSpec
CONSTANTS
  Cores = {c1, c2}
  Lines = {1, 3, 4}
  L1Sets = 3
  L2Sets = 1
  LlcSets = 1
  L1Ways = 1
  L2Ways = 2
  LlcWays = 2
  MaxOperations = 3
INVARIANTS SetsSound
PROPERTIES ImplementsLru EventuallyAnswered
