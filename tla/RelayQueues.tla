---------------------------- MODULE RelayQueues ----------------------------
(***************************************************************************)
(* What the relay of ordinary broadcasts promises each peer                *)
(* (adnl/overlay/broadcast-relay.go): messages wait in the order they were *)
(* accepted, at most one is being sent, and who has messages waiting gets  *)
(* only a share of the room.                                               *)
(***************************************************************************)
EXTENDS Naturals, Sequences, FiniteSetsExt

CONSTANTS Peers, Bodies, Room, Share

VARIABLES
  waiting,   \* messages accepted for a peer
  serving    \* the peer is being sent one

Init == waiting = [p \in Peers |-> <<>>] /\ serving = [p \in Peers |-> FALSE]

Total == MapThenSumSet(LAMBDA p : Len(waiting[p]), Peers)

Accept(p, b) ==
  /\ Total < Room /\ (serving[p] \/ waiting[p] # <<>> => Len(waiting[p]) < Share)
  /\ waiting' = [waiting EXCEPT ![p] = Append(@, b)] /\ UNCHANGED serving

Start(p) ==
  /\ ~serving[p] /\ waiting[p] # <<>>
  /\ waiting' = [waiting EXCEPT ![p] = Tail(@)] /\ serving' = [serving EXCEPT ![p] = TRUE]

Finish(p) == serving[p] /\ serving' = [serving EXCEPT ![p] = FALSE] /\ UNCHANGED waiting

\* Close lets go what is still waiting, when nothing is being sent any more.
Discard ==
  /\ \A p \in Peers : ~serving[p]
  /\ waiting' = [p \in Peers |-> <<>>] /\ UNCHANGED serving

Next == Discard \/ \E p \in Peers : Start(p) \/ Finish(p) \/ \E b \in Bodies : Accept(p, b)
Spec == Init /\ [][Next]_<<waiting, serving>>
=============================================================================
