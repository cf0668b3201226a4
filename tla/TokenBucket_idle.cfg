\* One sender; the clock runs until the product of time and rate no longer
\* fits the signed word (at 500 MB/s and 64 bits: after 18 seconds).
CONSTANTS
  t1 = t1  t2 = t2
  Threads = {t1}
  Rates = {3}
  Capacities = {}
  Units = {1}
  MaxUnits = 3
  Boosts = {}
  Second = 1
  CapSlack = 64
  Width = 4
  MaxNow = 3
  MaxBoost = 0
SPECIFICATION Spec
INVARIANT IdleRefillsBurst
CHECK_DEADLOCK FALSE
