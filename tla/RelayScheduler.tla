--------------------------- MODULE RelayScheduler ---------------------------
(***************************************************************************)
(* The relay of ordinary broadcasts (adnl/overlay/broadcast-relay.go and   *)
(* the dispatcher of broadcast-two-step.go).  Messages for all peers wait  *)
(* in shared slots, linked into one list per peer.  A peer with messages   *)
(* is in the ready channel, or owned by the worker that sends it one.  The *)
(* body of a message is shared by its recipients and counted against a     *)
(* limit of bytes until the last of them is done with.  Close cancels the  *)
(* workers, waits for them and lets go what they have left.                *)
(*                                                                         *)
(* scheduler.mx and submitMx are held for one step.  Slots are numbered    *)
(* from 1, and 0 ends a list.  Whether a send succeeds makes no difference *)
(* but in statistics, which are left out.                                  *)
(***************************************************************************)
EXTENDS Naturals, Sequences, FiniteSets, FiniteSetsExt

CONSTANTS
  Peers, Workers, None,
  Bodies,          \* messages to relay
  Size,            \* bytes of each
  Targets,         \* its recipients, in the order of the relay operations
  QueueSize,       \* slots
  MaxActiveBytes

perPeerLimit == QueueSize \div (IF Cardinality(Workers) > 2 THEN Cardinality(Workers) ELSE 2)

VARIABLES
  peers,         \* registered peers: head, tail and length of their lists
  slots, free,   \* the slots, and the list of free ones
  queued, ready,
  activeBytes, refs,
  pending,       \* recipients a message has yet to be submitted for
  at,            \* where a worker is
  owns, task,    \* the peer it has taken, and the message it sends
  ctx, closed    \* cancelled; closed: "no", "yes", "drained"

lists == <<peers, slots, free, queued>>
payloads == <<activeBytes, refs>>
workers == <<at, owns, task>>
vars == <<lists, ready, payloads, pending, workers, ctx, closed>>

Slots == 1..QueueSize
Empty == [body |-> None, next |-> 0]

TypeOK ==
  /\ peers \in [Peers -> {None} \cup [head : 0..QueueSize, tail : 0..QueueSize, queued : 0..QueueSize]]
  /\ slots \in [Slots -> [body : Bodies \cup {None}, next : 0..QueueSize]]
  /\ free \in 0..QueueSize /\ queued \in 0..QueueSize /\ ready \in Seq(Peers)
  /\ activeBytes \in 0..MaxActiveBytes /\ refs \in [Bodies -> 0..Cardinality(Peers)]
  /\ pending \in [Bodies -> {None} \cup Seq(Peers)]
  /\ at \in [Workers -> {"select", "taken", "sending", "sent", "exited"}]
  /\ owns \in [Workers -> Peers \cup {None}] /\ task \in [Workers -> Bodies \cup {None}]
  /\ ctx \in BOOLEAN /\ closed \in {"no", "yes", "drained"}

Empties ==
  /\ peers = [p \in Peers |-> None]
  /\ slots = [s \in Slots |-> [Empty EXCEPT !.next = IF s = QueueSize THEN 0 ELSE s + 1]]
  /\ free = 1 /\ queued = 0 /\ ready = <<>>
  /\ activeBytes = 0 /\ refs = [b \in Bodies |-> 0]
  /\ owns = [w \in Workers |-> None]
  /\ task = [w \in Workers |-> None] /\ ctx = FALSE /\ closed = "no"
Init ==
  Empties /\ pending = [b \in Bodies |-> None] /\ at = [w \in Workers |-> "select"]

-----------------------------------------------------------------------------
(* Messages                                                                *)

\* Mutant: a reference for the message, not for each recipient.
ReserveUncounted(b) ==
  /\ activeBytes' = activeBytes + Size[b]
  /\ refs' = [refs EXCEPT ![b] = 1]
  /\ pending' = [pending EXCEPT ![b] = Targets[b]]

\* enqueueBroadcastRelayOps: one reference for each recipient; a message that
\* does not fit is dropped.
Reserve(b) ==
  IF activeBytes + Size[b] > MaxActiveBytes
  THEN pending' = [pending EXCEPT ![b] = <<>>] /\ UNCHANGED payloads
  ELSE /\ activeBytes' = activeBytes + Size[b]
       /\ refs' = [refs EXCEPT ![b] = Len(Targets[b])]
       /\ pending' = [pending EXCEPT ![b] = Targets[b]]

\* A goroutine that has the dispatcher may be slow: Close does not stop it here.
Enqueue(b) ==
  /\ pending[b] = None
  /\ Reserve(b)
  /\ UNCHANGED <<lists, ready, workers, ctx, closed>>

\* releasePayload, for each of a number of references.
Release(count) ==
  LET done == {b \in Bodies : refs[b] > 0 /\ refs[b] = count[b]} IN
  /\ refs' = [b \in Bodies |-> refs[b] - count[b]]
  /\ activeBytes' = activeBytes - MapThenSumSet(LAMBDA b : Size[b], done)

Only(b) == [c \in Bodies |-> IF c = b THEN 1 ELSE 0]

\* Mutant: a scheduled peer may take all the slots.
TakesAny(p) == free # 0

\* broadcastOrdinaryRelayScheduler.submit
Takes(p) == free # 0 /\ (peers[p] # None => peers[p].queued < perPeerLimit)

PutInSlot(p, b) ==
  LET s == free
      filled == [slots EXCEPT ![s] = [body |-> b, next |-> 0]]
  IN
  /\ free' = slots[s].next /\ queued' = queued + 1
  /\ IF peers[p] = None
     THEN /\ peers' = [peers EXCEPT ![p] = [head |-> s, tail |-> s, queued |-> 1]]
          /\ slots' = filled
          /\ Len(ready) < QueueSize /\ ready' = Append(ready, p)
     ELSE /\ peers' = [peers EXCEPT ![p] =
                         [head |-> IF @.tail = 0 THEN s ELSE @.head, tail |-> s, queued |-> @.queued + 1]]
          /\ slots' = IF peers[p].tail = 0 THEN filled ELSE [filled EXCEPT ![peers[p].tail].next = s]
          /\ UNCHANGED ready

\* Submit, for one of the recipients.
Submit(b) ==
  /\ pending[b] \notin {None, <<>>}
  /\ pending' = [pending EXCEPT ![b] = Tail(@)]
  /\ LET p == Head(pending[b]) IN
     IF closed = "no" /\ Takes(p)
     THEN PutInSlot(p, b) /\ UNCHANGED payloads
     ELSE Release(Only(b)) /\ UNCHANGED <<lists, ready>>
  /\ UNCHANGED <<workers, ctx, closed>>

-----------------------------------------------------------------------------
(* Workers: runOrdinaryWorker                                              *)

Move(w, l) == at' = [at EXCEPT ![w] = l]

Select(w) ==
  /\ at[w] = "select"
  /\ \/ ctx /\ Move(w, "exited") /\ UNCHANGED <<ready, owns>>
     \/ /\ ready # <<>> /\ Move(w, "taken")
        /\ owns' = [owns EXCEPT ![w] = Head(ready)] /\ ready' = Tail(ready)
  /\ UNCHANGED <<lists, payloads, pending, task, ctx, closed>>

\* The first message of the peer leaves its slot, which is free again.
Unlink(w) ==
  LET p == owns[w]
      s == peers[p].head
      next == slots[s].next
  IN
  /\ at[w] = "taken" /\ Move(w, "sending")
  /\ task' = [task EXCEPT ![w] = slots[s].body]
  /\ peers' = [peers EXCEPT ![p] = [head |-> next, tail |-> IF next = 0 THEN 0 ELSE @.tail,
                                    queued |-> @.queued - 1]]
  /\ slots' = [slots EXCEPT ![s] = [Empty EXCEPT !.next = free]]
  /\ free' = s /\ queued' = queued - 1
  /\ UNCHANGED <<ready, payloads, pending, owns, ctx, closed>>

\* The send ends: done, failed, timed out or cancelled.
Send(w) ==
  /\ at[w] = "sending" /\ Move(w, "sent")
  /\ Release(Only(task[w])) /\ task' = [task EXCEPT ![w] = None]
  /\ UNCHANGED <<lists, ready, pending, owns, ctx, closed>>

\* Mutant: a peer without messages goes to ready too.
RotateAlways(w) ==
  /\ at[w] = "sent" /\ Move(w, IF ctx THEN "exited" ELSE "select")
  /\ owns' = [owns EXCEPT ![w] = None] /\ UNCHANGED peers /\ ready' = Append(ready, owns[w])
  /\ UNCHANGED <<slots, free, queued, payloads, pending, task, ctx, closed>>

\* A peer without messages is forgotten, another one goes to the end of ready.
\* Shutdown comes before further work.
Rotate(w) ==
  LET p == owns[w] IN
  /\ at[w] = "sent" /\ Move(w, IF ctx THEN "exited" ELSE "select")
  /\ owns' = [owns EXCEPT ![w] = None]
  /\ IF peers[p].head = 0 THEN peers' = [peers EXCEPT ![p] = None] /\ UNCHANGED ready
     ELSE /\ UNCHANGED peers
          /\ IF ctx THEN UNCHANGED ready
             ELSE Len(ready) < QueueSize /\ ready' = Append(ready, p)
  /\ UNCHANGED <<slots, free, queued, payloads, pending, task, ctx, closed>>

-----------------------------------------------------------------------------
(* Close: the receiver cancels the workers before it closes the dispatcher. *)

Cancel ==
  /\ ~ctx /\ ctx' = TRUE
  /\ UNCHANGED <<lists, ready, payloads, pending, workers, closed>>

Close ==
  /\ ctx /\ closed = "no" /\ closed' = "yes"
  /\ UNCHANGED <<lists, ready, payloads, pending, workers, ctx>>

\* The messages in a list, first one first.
Messages(p) ==
  LET from[n \in 0..QueueSize, s \in 0..QueueSize] ==
        IF n = 0 \/ s = 0 THEN <<>> ELSE <<slots[s].body>> \o from[n - 1, slots[s].next]
  IN IF peers[p] = None THEN <<>> ELSE from[QueueSize, peers[p].head]

Occurrences(q, b) == Cardinality({n \in DOMAIN q : q[n] = b})
Left == [b \in Bodies |-> MapThenSumSet(LAMBDA p : Occurrences(Messages(p), b), Peers)]

Drain ==
  /\ closed = "yes" /\ \A w \in Workers : at[w] = "exited"
  /\ closed' = "drained" /\ Release(Left)
  /\ peers' = [p \in Peers |-> None] /\ slots' = [s \in Slots |-> Empty] /\ queued' = 0
  /\ ready' = <<>>
  /\ UNCHANGED <<free, pending, workers, ctx>>

Worker(w) == Select(w) \/ Unlink(w) \/ Send(w) \/ Rotate(w)
Next ==
  \/ Cancel \/ Close \/ Drain
  \/ \E b \in Bodies : Enqueue(b) \/ Submit(b)
  \/ \E w \in Workers : Worker(w)

Spec == Init /\ [][Next]_vars

-----------------------------------------------------------------------------
\* "A peer is present in ready exactly once until a worker takes it", and that
\* worker owns it until its send returns: a registered peer is scheduled once,
\* as long as there are workers, and the ready channel, which is written under
\* scheduler.mx, is never full.
ScheduledOnce ==
  /\ Len(ready) <= queued
  /\ \A p \in Peers :
       LET times == Occurrences(ready, p) + Cardinality({w \in Workers : owns[w] = p})
       IN IF peers[p] = None THEN times = 0 ELSE times = 1 \/ (ctx /\ times = 0)

\* The references of a message are its submissions to come, its slots and its
\* sends, and the bytes counted are those of the messages still referred to:
\* nothing is let go twice or never (reservePayload, releasePayload, Close).
RefsExact ==
  /\ \A b \in Bodies :
       refs[b] = Cardinality({s \in Slots : slots[s].body = b})
                 + Cardinality({w \in Workers : task[w] = b})
                 + IF pending[b] = None THEN 0 ELSE Len(pending[b])
  /\ activeBytes = MapThenSumSet(LAMBDA b : Size[b], {b \in Bodies : refs[b] > 0})

Abstract == INSTANCE RelayQueues WITH
  Room <- QueueSize, Share <- perPeerLimit,
  waiting <- [p \in Peers |-> Messages(p)],
  serving <- [p \in Peers |-> \E w \in Workers : owns[w] = p /\ at[w] \in {"sending", "sent"}]

\* The linked slots and the ready channel give each peer a queue of its own:
\* first in, first out, one send at a time, and no more than its share.
ImplementsQueues == Abstract!Spec
=============================================================================
