SPECIFICATION FairSpec
CONSTANTS
  A = A
  B = B
  C = C
  Cores = {A, B, C}
  Length = 5
  window_size = 2
  barriers <- MCBarriers
  early <- MCEarly
INVARIANTS TypeOK BarrierSync NoBarrierLost
PROPERTY EventuallyDone
