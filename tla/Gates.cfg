\* The window: two words of three bits.  The bucket: two goroutines, each a
\* sender and a controller; rates of 2 and 3 per second of two ticks, a burst of
\* 2; the product of time and rate always fits.  The limiter: two requests
\* in a window of three ticks.  Simple broadcasts: three goroutines, one
\* admission at a time, a cache of one.  The peers: two epochs of alice, within
\* and across seconds, and three packets.
CONSTANTS
  Size = 6
  Words = 2
  Bits = 3
  Seqnos <- MCSeqnos
  t1 = t1  t2 = t2  t3 = t3
  Goroutines = {t1, t2}
  Rates = {2, 3}
  Capacities = {2}
  Units = {2}
  MaxUnits = 2
  Boosts = {1}
  Second = 2
  CapSlack = 1
  Width = 6
  MaxNow = 2
  MaxBoost = 1
  Callers = {t1, t2, t3}
  max = 2
  span = 3
  MaxStall = 2
  MaxTime = 6
  MaxStarts = 4
  Handlers = {t1, t2, t3}
  Ids = {"a", "b"}
  Nobody = Nobody
  MaxAdmissions = 1
  SimpleMax = 1
  MaxCopies = 3
  alice = alice  bob = bob  t0 = t0
  Peers <- MCPeers
  Threads <- MCThreads
  NoKey = NoKey
  Restless <- MCRestless
  MaxClock = 2
  MaxEpoch = 2
  MaxSeqno <- MCMaxSeqno
SYMMETRY GateSymmetry
SPECIFICATION GatesSpec
INVARIANTS WordsAgree PacingBound RateBound AskedOnce HandledOnce ChannelOfEpoch NoBlackHole
PROPERTIES NoReplay NoFalseReplay
CHECK_DEADLOCK FALSE
