------------------------------- MODULE Pacing -------------------------------
(* The pacing bucket, under names that leave room for other components.      *)
EXTENDS Integers

CONSTANTS
  Goroutines, Rates, Capacities, Units, MaxUnits, Boosts, Second, CapSlack, Width, MaxNow, MaxBoost

\* Rates are clamped to be positive, and there is a fastest one.
ASSUME BucketAssumption ==
  /\ Rates \subseteq Nat \ {0} /\ \E r \in Rates : \A s \in Rates : s <= r
  /\ Capacities \subseteq Nat /\ Units \subseteq Nat \ {0} /\ Boosts \subseteq Nat
  /\ MaxUnits \in Nat /\ MaxNow \in Nat /\ MaxBoost \in Nat
  /\ Second \in Nat \ {0} /\ 2^Width \in Nat \ {0}

VARIABLES ratePerSec, capacity, tokens, lastRefill, now, pc, loc, spent, boost

Bucket == INSTANCE TokenBucket WITH Threads <- Goroutines

\* TokenBucket: an interval is credited once, whoever refills (consumeUnits).
PacingBound == Bucket!PacingBound
=============================================================================
