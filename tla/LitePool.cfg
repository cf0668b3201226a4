SPECIFICATION MCSpec
CONSTANTS
  Servers = {"A", "B"}
  Queries = {"q1", "q2"}
  None = "none"
  Sticky <- StickyOf
  MaxMissed = 2
  Attempts = 2
  MaxFaults = 2
INVARIANTS NoServerLost InflightExact
PROPERTIES ServiceReturns
CHECK_DEADLOCK FALSE
