---------------------------- MODULE AccountChain ----------------------------
(* What SendWait and TxSubscription say of the account they follow: a chain  *)
(* of transactions that is read in pages.                                    *)
EXTENDS Integers, Sequences

CONSTANTS
  PageSize,     \* transactions asked for at once (5 and 10)
  Histories,    \* SendWait: chains the account may have at first
  MaxLag,       \* bound: transactions the first block seen is behind
  MaxForeign,   \* bound: transactions of others
  MaxLength     \* TxSubscription, bound: transactions of the account

ASSUME WaitAssumption ==
  /\ Histories \subseteq Seq(BOOLEAN) /\ PageSize \in Nat \ {0}
  /\ MaxLag \in Nat /\ MaxForeign \in Nat

ASSUME SubscriptionAssumption == PageSize \in Nat \ {0} /\ MaxLength \in Nat
=============================================================================
