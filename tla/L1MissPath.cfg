SPECIFICATION FairSpec
CONSTANTS
  t1 = t1
  t2 = t2
  p1 = p1
  x = x
  y = y
  Txns = {t1, t2, p1}
  Prefetches = {p1}
  Lines = {x, y}
  Placements <- MCPlacements
  mshr_size = 1
  MaxCopies = 3
INVARIANTS TypeOK OneRequestPerEntry NothingDropped HitsReplaceNoEntry
PROPERTY EventuallyAnswered
