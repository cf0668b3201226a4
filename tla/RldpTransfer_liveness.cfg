SPECIFICATION LiveSpec
CONSTANTS
  Goroutines = {g1}
  Last = 1
  NeedSymbols = 1
  Overhead = 0
  MaxActive = 2
  MaxSeqno = 0
  Burst = 1
  MaxDrops = 0
  Duplicates = FALSE
PROPERTIES GetsThrough TransferEnds
CHECK_DEADLOCK FALSE
