SPECIFICATION LosslessSpec
CONSTANTS
  Goroutines = {g1, g2}
  Last = 1
  NeedSymbols = 2
  Overhead = 0
  MaxActive = 2
  MaxSeqno = 1
  Burst = 2
  MaxDrops = 1
  Duplicates = TRUE
SYMMETRY GoroutineSymmetry
INVARIANTS CompletedMeansDelivered Accounted
PROPERTY ImplementsDelivery
CHECK_DEADLOCK FALSE
