---------------------------- MODULE RldpDelivery ----------------------------
(***************************************************************************)
(* What one RLDP transfer promises, without parts, symbols or a network:   *)
(* its sender ends it once, with one outcome, and reports it completed     *)
(* only if the receiver handed the data over or had given the transfer up; *)
(* the receiver hands an answer over at most once, and a query or message  *)
(* once for each time it remembers the transfer.                           *)
(***************************************************************************)
EXTENDS Naturals

VARIABLES kind, outcome, delivered, gaveUp, fresh

vars == <<kind, outcome, delivered, gaveUp, fresh>>

Outcomes == {"completed", "timedout", "failed", "canceled"}

Init ==
  /\ kind \in {"query", "answer"} /\ outcome = "none" /\ delivered = 0
  /\ gaveUp = FALSE /\ fresh = TRUE

\* The receiver hands the data over and will not do so again.
Deliver ==
  /\ fresh /\ fresh' = FALSE /\ delivered' = delivered + 1
  /\ UNCHANGED <<kind, outcome, gaveUp>>

\* The receiver drops what it has so far, or cannot use the data; it may also
\* stop wanting it.
GiveUp ==
  /\ gaveUp' = TRUE /\ fresh' \in {fresh, FALSE}
  /\ UNCHANGED <<kind, outcome, delivered>>

\* The receiver has forgotten a query it has handled.
Forget ==
  /\ kind = "query" /\ fresh' = TRUE /\ UNCHANGED <<kind, outcome, delivered, gaveUp>>

\* The sender ends the transfer.
End ==
  /\ outcome = "none" /\ outcome' \in Outcomes
  /\ outcome' = "completed" => delivered > 0 \/ gaveUp
  /\ UNCHANGED <<kind, delivered, gaveUp, fresh>>

Next == Deliver \/ GiveUp \/ Forget \/ End
Spec == Init /\ [][Next]_vars
=============================================================================
