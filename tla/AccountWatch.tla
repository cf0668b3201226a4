---------------------------- MODULE AccountWatch ----------------------------
(* The two readers of an account's chain of transactions: a subscription that *)
(* follows it, and a call that waits for one transaction of it.               *)
EXTENDS TxSubscription

VARIABLES chain, foreign, inFlight, accepted, where, acc, accNew, lastLt, found, since

W == INSTANCE SendWait WITH at <- where

\* SendWait: between scans nothing that has the message was passed over.
NothingPassedOver == W!NothingPassedOver
=============================================================================
