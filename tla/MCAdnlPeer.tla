----------------------------- MODULE MCAdnlPeer -----------------------------
(* Model values for TLC: alice and bob, who never start a new epoch.       *)
EXTENDS AdnlPeer, TLC

CONSTANTS alice, bob, t0, t1
MCPeers == {alice, bob}
MCRestless == {alice}
OneThread == alice :> {t0} @@ bob :> {t1}
Seqnos33 == alice :> 3 @@ bob :> 3
=============================================================================
