CONSTANTS
  alice = alice
  bob = bob
  t0 = t0
  t1 = t1
  Peers <- MCPeers
  Threads <- OneThread
  NoKey = NoKey
  Restless <- MCRestless
  MaxClock = 1
  MaxEpoch = 1
  MaxSeqno <- Seqnos33
SPECIFICATION Spec
INVARIANTS ConfirmationEnds
CHECK_DEADLOCK FALSE
