\* Two goroutines with the parts, and a sweep of streams that are too old.
CONSTANTS
  None = None
  Ticker = Ticker
  Handlers = {h1, h2}
  Ids = {"a"}
  Parts <- MCParts
  Need <- MCNeed
  Budget <- MCNeed
  MaxActiveStreams = 1
  MaxActiveBytes = 2
  MaxParts = 2
  MaxSweeps = 1
SPECIFICATION Spec
INVARIANTS RetryOnlyUncommitted
CHECK_DEADLOCK FALSE
