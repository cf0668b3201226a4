------------------------------ MODULE AdnlPeer ------------------------------
(***************************************************************************)
(* Two ADNL peers (adnl/adnl.go, adnl/channel.go) that talk to each other: *)
(* epochs (reinit dates), seqnos, and the channel they agree on with keys  *)
(* of their own.  Packets are delayed, reordered, lost and duplicated.  A  *)
(* packet is prepared in one critical section of lifecycleMx, and each of  *)
(* its messages is processed in a later one, between which other threads   *)
(* change epoch and channel.                                               *)
(*                                                                         *)
(* lifecycleVersion appears as what it is for: the work on a packet is     *)
(* current until someone else changes epoch or channel.  The replay window *)
(* appears as the set of seqnos that were let through (PacketWindow).      *)
(* Both peers run this code, which never sends a MessageReinit: that case  *)
(* of processLifecycleMessage is left out (a newer epoch is learnt from    *)
(* the dates in packets, through the same applyPeerReinitLocked).          *)
(***************************************************************************)
EXTENDS Integers

CONSTANTS
  Peers,       \* the two sides
  Threads,     \* listen threads of each side's gateway
  NoKey,       \* no key yet
  Restless,    \* bound: peers that start new epochs
  MaxClock,    \* bound: seconds
  MaxEpoch,    \* bound: reinit dates
  MaxSeqno     \* bound: packets of each peer in an epoch

\* The bounds are positive, and no key is the absence of one.
ASSUME PeersAssumption ==
  /\ \E a, b \in Peers : a # b /\ Peers = {a, b}
  /\ MaxClock \in Nat \ {0} /\ MaxEpoch \in Nat \ {0}
  /\ NoKey \notin Peers \X (1..MaxEpoch) \X Nat

VARIABLES
  clock,       \* seconds, the same for both
  reinitTime, dstReinit, seqno,   \* of each ADNL
  window,      \* seqnos let through since the window was cleared
  channel,     \* channelPtr: a set of at most one channel
  heard,       \* lastReceivedPacket is set
  keys,        \* keys generated so far
  job,         \* of each thread: the packet it works on
  net,         \* packets in flight, for ever
  handled,     \* history: packets whose data was handled in this epoch
  replayed,    \* history: one of them was handled again
  confirmed    \* history: the peer's confirmation of this channel has come

conn == <<reinitTime, dstReinit, seqno, window, channel, keys>>
history == <<handled, replayed, confirmed>>
vars == <<clock, conn, heard, job, net, history>>

Other(p) == CHOOSE q \in Peers : q # p
Epochs == 1..MaxEpoch
Dates == 0..MaxClock
Keys == Peers \X Epochs \X Nat
KeyEpoch(k) == k[2]

Channels == [key : Keys, peerKey : Keys \cup {NoKey}, ready : BOOLEAN, wantConfirm : BOOLEAN,
             initDate : Dates, peerDate : Dates]
Pending(key, date) ==
  [key |-> key, peerKey |-> NoKey, ready |-> FALSE, wantConfirm |-> FALSE,
   initDate |-> date, peerDate |-> 0]

Create(k, d) == [type |-> "create", key |-> k, peerKey |-> NoKey, date |-> d]
Confirm(k, pk, d) == [type |-> "confirm", key |-> k, peerKey |-> pk, date |-> d]
None == [type |-> "none", key |-> NoKey, peerKey |-> NoKey, date |-> 0]
Messages == [type : {"create", "confirm", "none"}, key : Keys \cup {NoKey},
             peerKey : Keys \cup {NoKey}, date : Dates]

\* A packet: over a channel it names the two keys, else the two epochs.  life
\* is the lifecycle message that precedes the user's message, data tells
\* whether there is one.
Packets == [src : Peers, over : {<<>>} \cup (Keys \X Keys), seqno : Nat,
            reinit : Epochs, dst : 0..MaxEpoch, life : Messages, data : BOOLEAN]

Jobs == [at : {"respond", "life", "data"}, packet : Packets, current : BOOLEAN]

TypeOK ==
  /\ clock \in 1..MaxClock
  /\ reinitTime \in [Peers -> Epochs] /\ dstReinit \in [Peers -> 0..MaxEpoch]
  /\ seqno \in [Peers -> Nat] /\ window \in [Peers -> SUBSET Nat]
  /\ \A p \in Peers :
       /\ \A c \in channel[p] : c \in Channels /\ (c.ready <=> c.peerKey # NoKey)
       /\ \A c, d \in channel[p] : c = d
       /\ \A t \in Threads[p] : \A j \in job[p][t] : j \in Jobs
  /\ heard \in [Peers -> BOOLEAN] /\ keys \in [Peers -> Nat]
  /\ \A m \in net : m \in Packets

Init ==
  /\ clock = 1 /\ reinitTime = [p \in Peers |-> 1] /\ dstReinit = [p \in Peers |-> 0]
  /\ seqno = [p \in Peers |-> 0] /\ window = [p \in Peers |-> {}]
  /\ channel = [p \in Peers |-> {}] /\ heard = [p \in Peers |-> FALSE]
  /\ keys = [p \in Peers |-> 0]
  /\ job = [p \in Peers |-> [t \in Threads[p] |-> {}]] /\ net = {}
  /\ handled = [p \in Peers |-> {}] /\ replayed = FALSE
  /\ confirmed = [p \in Peers |-> FALSE]

Ready(p) == \E c \in channel[p] : c.ready
NewKey(p) == <<p, reinitTime[p], keys[p]>>

\* lifecycleVersion++: all the work in progress is stale.
Stale(jobs) == [t \in DOMAIN jobs |-> {[j EXCEPT !.current = FALSE] : j \in jobs[t]}]

-----------------------------------------------------------------------------
(* Sending                                                                 *)

Packet(p, over, life, data) ==
  [src |-> p, over |-> over, seqno |-> seqno[p] + 1, reinit |-> reinitTime[p],
   dst |-> dstReinit[p], life |-> life, data |-> data]

\* Every packet takes the next seqno.
Emit(p, m) ==
  /\ seqno[p] < MaxSeqno[p] /\ seqno' = [seqno EXCEPT ![p] = @ + 1]
  /\ net' = net \cup {m}

\* buildRequestMessage over an established channel; with the confirmation in a
\* root packet until the peer's first packet in the channel; or, after a while
\* of silence, in a root packet that gets the peer to say that it has forgotten.
SendReady(p) ==
  \E c \in channel[p] :
    /\ c.ready
    /\ \/ ~c.wantConfirm /\ Emit(p, Packet(p, <<c.key, c.peerKey>>, None, TRUE))
       \/ /\ c.wantConfirm
          /\ Emit(p, Packet(p, <<>>, Confirm(c.key, c.peerKey, c.initDate), TRUE))
       \/ heard[p] /\ Emit(p, Packet(p, <<>>, None, TRUE))
    /\ UNCHANGED <<clock, reinitTime, dstReinit, window, channel, keys, heard, job, history>>

\* ... and while there is none, with the request to create it.
SendPending(p) ==
  /\ ~Ready(p)
  /\ IF channel[p] = {}
       THEN /\ channel' = [channel EXCEPT ![p] = {Pending(NewKey(p), clock)}]
            /\ keys' = [keys EXCEPT ![p] = @ + 1]
       ELSE UNCHANGED <<channel, keys>>
  /\ \E c \in channel'[p] : Emit(p, Packet(p, <<>>, Create(c.key, c.initDate), TRUE))
  /\ UNCHANGED <<clock, reinitTime, dstReinit, window, heard, job, history>>

-----------------------------------------------------------------------------
(* Epochs                                                                  *)

Greater(a, b) == IF a > b THEN a ELSE b

Tick ==
  /\ clock < MaxClock /\ clock' = clock + 1
  /\ UNCHANGED <<conn, heard, job, net, history>>

\* Mutant: the channel outlives the epoch.
ReinitKeepsChannel(p) ==
  LET tm == Greater(clock, reinitTime[p] + 1)
  IN /\ p \in Restless /\ tm <= MaxEpoch
     /\ reinitTime' = [reinitTime EXCEPT ![p] = tm]
     /\ dstReinit' = [dstReinit EXCEPT ![p] = 0]
     /\ seqno' = [seqno EXCEPT ![p] = 0] /\ window' = [window EXCEPT ![p] = {}]
     /\ job' = [job EXCEPT ![p] = Stale(@)] /\ heard' = [heard EXCEPT ![p] = FALSE]
     /\ handled' = [handled EXCEPT ![p] = {}]
     /\ UNCHANGED <<clock, channel, keys, net, replayed, confirmed>>

\* Reinit, and a restart, which takes at least a second.
Reinit(p) ==
  LET tm == Greater(clock, reinitTime[p] + 1)
  IN /\ p \in Restless /\ tm <= MaxEpoch
     /\ reinitTime' = [reinitTime EXCEPT ![p] = tm]
     /\ dstReinit' = [dstReinit EXCEPT ![p] = 0]
     /\ seqno' = [seqno EXCEPT ![p] = 0] /\ window' = [window EXCEPT ![p] = {}]
     /\ channel' = [channel EXCEPT ![p] = {}]
     /\ job' = [job EXCEPT ![p] = Stale(@)] /\ heard' = [heard EXCEPT ![p] = FALSE]
     /\ handled' = [handled EXCEPT ![p] = {}] /\ confirmed' = [confirmed EXCEPT ![p] = FALSE]
     /\ UNCHANGED <<clock, keys, net, replayed>>

-----------------------------------------------------------------------------
(* Receiving                                                               *)

Idle(p, t) == job[p][t] = {}
Put(jobs, t, j) == [jobs EXCEPT ![t] = {j}]
Drop(p, t) == job' = [job EXCEPT ![p][t] = {}]
First(m) == IF m.life = None THEN "data" ELSE "life"
Start(at, m) == [at |-> at, packet |-> m, current |-> TRUE]

\* Mutant: the peer's new epoch leaves the channel as it is.
ApplyKeepsChannel(p) == channel[p]

\* applyPeerReinitLocked: the channel is pending again, with our key.
Repending(p) == {Pending(c.key, c.initDate) : c \in channel[p]}

\* preparePacketLocked for a root packet.  The date of a packet is never a
\* minute ahead of the clock here.
PrepareRoot(p, t, m) ==
  LET newer == m.reinit > dstReinit[p]
      known == Greater(dstReinit[p], m.reinit)
      fresh == m.seqno \notin (IF newer THEN {} ELSE window[p])
      jobs == IF newer THEN Stale(job[p]) ELSE job[p]
      drop == m.reinit < known
      answer == ~drop /\ m.dst > 0 /\ m.dst < reinitTime[p]
      process == ~drop /\ ~answer /\ fresh
  IN /\ m.over = <<>> /\ m.dst <= reinitTime[p]
     /\ dstReinit' = [dstReinit EXCEPT ![p] = known]
     /\ channel' = IF newer THEN [channel EXCEPT ![p] = Repending(p)] ELSE channel
     /\ confirmed' = IF newer THEN [confirmed EXCEPT ![p] = FALSE] ELSE confirmed
     /\ window' = [window EXCEPT ![p] = (IF newer THEN {} ELSE @) \cup (IF process THEN {m.seqno} ELSE {})]
     /\ job' = [job EXCEPT ![p] =
                  IF answer THEN Put(jobs, t, Start("respond", m))
                  ELSE IF process THEN Put(jobs, t, Start(First(m), m)) ELSE jobs]
     /\ UNCHANGED <<reinitTime, seqno, keys, handled, replayed>>

\* A root packet that names an epoch we are not in yet is dropped.
DropRoot(p, m) ==
  /\ m.over = <<>> /\ m.dst > reinitTime[p]
  /\ UNCHANGED <<conn, job, history>>

\* process and preparePacketLocked for a packet in the current channel: it has
\* no epochs, and it confirms the channel.
PrepareChannel(p, t, m) ==
  \E c \in channel[p] :
    /\ m.over = <<c.peerKey, c.key>>
    /\ channel' = [channel EXCEPT ![p] = {[c EXCEPT !.wantConfirm = FALSE]}]
    /\ IF m.seqno \in window[p] THEN UNCHANGED <<window, job>>
       ELSE /\ window' = [window EXCEPT ![p] = @ \cup {m.seqno}]
            /\ job' = [job EXCEPT ![p] = Put(@, t, Start("data", m))]
    /\ UNCHANGED <<reinitTime, dstReinit, seqno, keys, history>>

Receive(p, t, m) ==
  /\ Idle(p, t) /\ m.src # p
  /\ heard' = [heard EXCEPT ![p] = TRUE]
  /\ PrepareRoot(p, t, m) \/ DropRoot(p, m) \/ PrepareChannel(p, t, m)
  /\ UNCHANGED <<clock, net>>

\* The answer to a packet for an older epoch of ours.
RespondReinit(p, t) ==
  \E j \in job[p][t] :
    /\ j.at = "respond" /\ Emit(p, Packet(p, <<>>, None, FALSE)) /\ Drop(p, t)
    /\ UNCHANGED <<clock, reinitTime, dstReinit, window, channel, keys, heard, history>>

\* A new channel is published: other work in progress is stale, and the work
\* on this packet goes on.
Publish(p, t, j, c) ==
  /\ channel' = [channel EXCEPT ![p] = {c}]
  /\ job' = [job EXCEPT ![p] = Put(Stale(@), t, [j EXCEPT !.at = "data"])]
GoOn(p, t, j) ==
  /\ job' = [job EXCEPT ![p][t] = {[j EXCEPT !.at = "data"]}] /\ UNCHANGED channel

\* processCreateChannelLocked
CreateChannel(p, t, j, ms) ==
  /\ ms.type = "create"
  /\ \/ /\ channel[p] = {} /\ keys' = [keys EXCEPT ![p] = @ + 1]
        /\ Publish(p, t, j, [key |-> NewKey(p), peerKey |-> ms.key, ready |-> TRUE,
                             wantConfirm |-> TRUE, initDate |-> clock, peerDate |-> ms.date])
        /\ confirmed' = [confirmed EXCEPT ![p] = FALSE]
     \/ \E c \in channel[p] :
          LET known == c.peerKey = ms.key \/ (c.peerDate > 0 /\ ms.date <= c.peerDate)
          IN /\ IF known THEN GoOn(p, t, j) /\ UNCHANGED confirmed
                ELSE /\ Publish(p, t, j, [c EXCEPT !.peerKey = ms.key, !.ready = TRUE,
                                                   !.wantConfirm = TRUE, !.peerDate = ms.date])
                     /\ confirmed' = [confirmed EXCEPT ![p] = FALSE]
             /\ UNCHANGED keys

\* processConfirmChannelLocked; a confirmation of a key we do not have is an
\* error, and the rest of the packet is lost.
ConfirmChannel(p, t, j, ms) ==
  /\ ms.type = "confirm" /\ UNCHANGED keys
  /\ \/ /\ \A c \in channel[p] : c.key # ms.peerKey
        /\ Drop(p, t) /\ UNCHANGED <<channel, confirmed>>
     \/ \E c \in channel[p] :
          LET same == c.peerKey = ms.key
          IN /\ c.key = ms.peerKey
             /\ IF (same /\ c.ready) \/ (~same /\ c.peerDate > 0 /\ ms.date <= c.peerDate)
                  THEN GoOn(p, t, j)
                  ELSE Publish(p, t, j, [c EXCEPT !.peerKey = ms.key, !.ready = TRUE,
                                                 !.wantConfirm = FALSE, !.peerDate = ms.date])
             /\ confirmed' = [confirmed EXCEPT ![p] = @ \/ channel'[p] # channel[p] \/ same]

\* Mutant: work that has become stale goes on.
ProcessStale(p, t) ==
  \E j \in job[p][t] :
    /\ j.at = "life"
    /\ \/ CreateChannel(p, t, j, j.packet.life)
       \/ ConfirmChannel(p, t, j, j.packet.life)
    /\ UNCHANGED <<clock, reinitTime, dstReinit, seqno, window, heard, net, handled, replayed>>

\* processLifecycleMessage, for the two messages this code sends.
ProcessLifecycle(p, t) ==
  \E j \in job[p][t] :
    /\ j.at = "life"
    /\ \/ ~j.current /\ Drop(p, t) /\ UNCHANGED <<channel, keys, confirmed>>
       \/ j.current /\ CreateChannel(p, t, j, j.packet.life)
       \/ j.current /\ ConfirmChannel(p, t, j, j.packet.life)
    /\ UNCHANGED <<clock, reinitTime, dstReinit, seqno, window, heard, net, handled, replayed>>

Id(m) == <<m.reinit, m.seqno>>

\* The test inboundStateCurrent, and processMessageWithState, which hands the
\* user's message to its handler.  The handler runs after the test and outside
\* lifecycleMx, and touches nothing of this state: when it runs makes no
\* difference to what the test let through, which is what handled records.
ProcessData(p, t) ==
  \E j \in job[p][t] :
    /\ j.at = "data" /\ Drop(p, t)
    /\ IF j.current /\ j.packet.data
         THEN /\ handled' = [handled EXCEPT ![p] = @ \cup {Id(j.packet)}]
              /\ replayed' = (replayed \/ Id(j.packet) \in handled[p])
         ELSE UNCHANGED <<handled, replayed>>
    /\ UNCHANGED <<clock, conn, heard, net, confirmed>>

-----------------------------------------------------------------------------
Next ==
  \/ Tick
  \/ \E p \in Peers :
       \/ SendReady(p) \/ SendPending(p) \/ Reinit(p)
       \/ \E t \in Threads[p] :
            \/ \E m \in net : Receive(p, t, m)
            \/ RespondReinit(p, t) \/ ProcessLifecycle(p, t) \/ ProcessData(p, t)

Spec == Init /\ [][Next]_vars

-----------------------------------------------------------------------------
(* Properties                                                              *)

\* The data of a packet is handled at most once in an epoch of the receiver:
\* neither copies, nor a new epoch of the sender, nor a new channel let a
\* packet in again.
HandledOnce == ~replayed

\* The peer's key of a channel belongs to the epoch of the peer that we know:
\* no work on a packet of an older epoch sets up a channel in a newer one.
ChannelOfEpoch ==
  \A p \in Peers : \A c \in channel[p] : c.ready => KeyEpoch(c.peerKey) = dstReinit[p]

\* A peer that has stopped confirming its channel is understood: unless the
\* other side has started a new epoch since, it has the same channel.
NoBlackHole ==
  \A p \in Peers : \A c \in channel[p] :
    c.ready /\ ~c.wantConfirm /\ reinitTime[Other(p)] = dstReinit[p] =>
      \E d \in channel[Other(p)] : d.ready /\ d.key = c.peerKey /\ d.peerKey = c.key

\* "if client not yet received confirmation - we will send it till his first
\* packet in channel": once each side has received the confirmation of the other,
\* someone sends a packet in the channel.
ConfirmationEnds ==
  (\A p \in Peers : confirmed[p]) => \E p \in Peers : \E c \in channel[p] : ~c.wantConfirm
=============================================================================
