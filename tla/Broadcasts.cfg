\* Simple broadcasts: three goroutines, one admission at a time, a cache of one.
\* Two-step ones: two goroutines and a sweep, budgets that do not all fit.  The
\* relay: three peers, four slots, two workers.
CONSTANTS
  h1 = h1  h2 = h2  h3 = h3  w1 = w1  w2 = w2
  None = None
  Handlers = {h1, h2, h3}
  Ids = {"a", "b"}
  MaxAdmissions = 1
  SimpleMax = 1
  MaxCopies = 3
  Ticker = Ticker
  Parts <- MCParts
  Need <- MCNeed
  Budget <- MCNeed
  MaxActiveStreams = 2
  MaxStreamBytes = 2
  MaxParts = 3
  MaxSweeps = 1
  Peers = {"p", "q", "r"}
  Workers = {w1, w2}
  Bodies = {"wide", "both", "one", "another", "large"}
  Size <- MCSize
  Targets <- MCTargets
  QueueSize = 4
  MaxRelayBytes = 3
SPECIFICATION BroadcastsSpec
INVARIANTS BudgetExact TwoStepAskedOnce ScheduledOnce RefsExact
PROPERTIES CopiesEnd PartsEnd ImplementsQueues
CHECK_DEADLOCK FALSE
