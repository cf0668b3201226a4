---------------------------- MODULE MCBroadcasts ----------------------------
(* Broadcasts in an overlay: the admission of simple ones, the streams of      *)
(* two-step FEC ones, and the relay of both, one of them in each behaviour.    *)
EXTENDS SimpleAdmission, Sequences

CONSTANTS
  Ticker, Parts, Need, Budget, MaxActiveStreams, MaxStreamBytes, MaxParts, MaxSweeps,
  Peers, Workers, Bodies, Size, Targets, QueueSize, MaxRelayBytes
CONSTANTS h1, h2, h3, w1, w2

VARIABLES
  kind,
  mx, todo, victim, streams, streamBytes, delivered, stream, lock, at, part, ref, checked,
  disposition, parts, sweeps, committed,
  peers, slots, free, queued, ready, relayBytes, refs, pending, where, owns, task, ctx, closed

TwoStep == INSTANCE TwoStepFec WITH
  Handlers <- {h1, h2}, activeBytes <- streamBytes, pc <- at, verdict <- disposition,
  MaxActiveBytes <- MaxStreamBytes
Relays == INSTANCE RelayScheduler WITH
  activeBytes <- relayBytes, at <- where, MaxActiveBytes <- MaxRelayBytes

twoStepVars ==
  <<mx, todo, victim, streams, streamBytes, delivered, stream, lock, at, part, ref, checked,
    disposition, parts, sweeps, committed>>
relayVars ==
  <<peers, slots, free, queued, ready, relayBytes, refs, pending, where, owns, task, ctx, closed>>

\* Broadcast a takes two parts, b one.
MCParts == [id : {"a"}, seqno : {1, 2}] \cup [id : {"b"}, seqno : {1}]
MCNeed == [i \in {"a", "b"} |-> IF i = "a" THEN 2 ELSE 1]

\* Messages to relay: three that exceed the share of a peer; or, with one worker
\* only, two that fill the slots between them, and a large one.
MCTargets ==
  [b \in Bodies |-> CASE b = "wide" -> <<"p", "q", "r">> [] b = "both" -> <<"p", "q">>
                      [] b = "large" -> <<"q">> [] OTHER -> <<"p">>]
MCSize == [b \in Bodies |-> IF b = "large" THEN 3 ELSE 1]

\* Nothing happens before a copy or a part arrives or a message is relayed.
BroadcastsInit ==
  /\ kind \in {"simple", "twostep", "relay", "relay alone"}
  /\ Init /\ TwoStep!Init
  /\ Relays!Empties
  /\ CASE kind = "relay" ->
            /\ where = [w \in Workers |-> "select"]
            /\ pending = [b \in Bodies |-> IF b \in {"both", "one", "another"} THEN None ELSE <<>>]
       [] kind = "relay alone" ->
            /\ where = [w \in Workers |-> IF w = w1 THEN "select" ELSE "exited"]
            /\ pending = [b \in Bodies |-> IF b \in {"wide", "both", "large"} THEN None ELSE <<>>]
       [] OTHER ->
            /\ where = [w \in Workers |-> "select"] /\ pending = [b \in Bodies |-> <<>>]
BroadcastsNext ==
  /\ UNCHANGED kind
  /\ \/ kind = "simple" /\ Next /\ UNCHANGED <<twoStepVars, relayVars>>
     \/ kind = "twostep" /\ TwoStep!Next /\ UNCHANGED <<vars, relayVars>>
     \/ /\ kind \in {"relay", "relay alone"}
        /\ Relays!Next /\ UNCHANGED <<vars, twoStepVars>>
BroadcastsSpec ==
  /\ BroadcastsInit /\ [][BroadcastsNext]_<<kind, vars, twoStepVars, relayVars>>
  /\ Fairness /\ TwoStep!Fairness

\* TwoStepFec: the budget in use is that of the streams (reserveLocked).
BudgetExact == TwoStep!BudgetExact
\* TwoStepFec: the application is asked once at a time, and not after delivery.
TwoStepAskedOnce == TwoStep!AskedOnce
\* TwoStepFec: every part is done with, but for those of an orphan.
PartsEnd == TwoStep!PartsEnd
\* RelayScheduler: a peer is in ready once, or owned by one worker.
ScheduledOnce == Relays!ScheduledOnce
\* RelayScheduler: references and bytes are exact (releasePayload, Close).
RefsExact == Relays!RefsExact
\* RelayScheduler: each peer has a queue of its own, first in, first out.
ImplementsQueues == Relays!ImplementsQueues
=============================================================================
