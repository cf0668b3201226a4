----------------------------- MODULE MCSendWait -----------------------------
(* Histories for TLC: an account without transactions.                       *)
EXTENDS SendWait

Fresh == {<<>>}
=============================================================================
