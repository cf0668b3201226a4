---------------------------- MODULE RldpTransfer ----------------------------
(***************************************************************************)
(* One outbound RLDP transfer and its receiver (adnl/rldp/client.go): the  *)
(* sender cuts the data into parts and streams FEC symbols of the current  *)
(* part until the receiver reports the part complete; the receiver decodes *)
(* the parts and hands the data over.  Symbols and completions travel over *)
(* a network that loses, duplicates, delays and reorders them.             *)
(*                                                                         *)
(* Sender goroutines interleave between the critical sections of r.mx and  *)
(* activeTransfer.mx.  The receiver takes a symbol in one step: what its   *)
(* goroutines do to each other is RldpStream's subject.  A symbol is its   *)
(* seqno; the last seqno of the model stands for all the later ones.       *)
(***************************************************************************)
EXTENDS Integers, FiniteSets

CONSTANTS
  Goroutines,   \* of the sender: callers, message handlers
  Last,         \* index of the last part
  NeedSymbols,  \* symbols a decoder needs before it tries
  Overhead,     \* symbols beyond those after which decoding cannot fail
  MaxActive,    \* maxActiveStreamParts
  MaxSeqno,     \* bound: seqnos told apart
  Burst,        \* bound: symbols sendFastSymbols sends
  MaxDrops,     \* bound: streams the receiver drops
  Duplicates    \* the network may deliver a message again and again

ASSUME TransferAssumption ==
  /\ Last \in Nat /\ NeedSymbols \in Nat \ {0} /\ Overhead \in Nat /\ MaxActive \in Nat \ {0}
  /\ MaxSeqno \in Nat /\ Burst \in 0..(MaxSeqno + 1) /\ MaxDrops \in Nat
  /\ Duplicates \in BOOLEAN

Parts == 0..Last
Seqnos == 0..MaxSeqno
NoPart == -1

VARIABLES
  \* the sender
  kind,            \* "query" (or message) or "answer": what is transferred
  currentPart,     \* activeTransfer.currentPart, the index
  registered,      \* the transfer is in activeTransfers
  started,         \* it has been: outboundTransfersStarted
  outcome,         \* terminal, with the outcome that was counted
  finishes,        \* outcomes counted
  seqno, recoveryReady,   \* of each activeTransferPart
  expired,         \* the clock is past timeoutAt
  closed,
  task,            \* what each goroutine is about to do
  rec, recPart,    \* recoverySender: where it is, the part it picked
  active, wake,    \* its ticker runs; a value in activateRecoverySender
  \* the network
  symNet, cmpNet,  \* symbols and completions in flight
  \* the receiver
  streamOpen, nextPartIndex, symbols, decoded, finishedAt,  \* decoderStream
  throttled,       \* a completion was sent less than 10 ms ago
  expected,        \* the query this answer belongs to is in expectedTransfers
  cancelled,       \* the transfer is in cancelledTransfers
  delivered, gaveUp, drops   \* history: times handed over; dropped, cancelled
                             \* or rejected; streams dropped

registry == <<kind, registered, started, outcome, finishes, expired, closed>>
partVars == <<currentPart, seqno, recoveryReady>>
loop == <<rec, recPart, active, wake>>
sender == <<registry, partVars, task, loop>>
net == <<symNet, cmpNet>>
stream == <<streamOpen, nextPartIndex, symbols, decoded, finishedAt, throttled>>
receiver == <<stream, expected, cancelled, delivered, gaveUp, drops>>
vars == <<sender, net, receiver>>

Outcomes == {"completed", "timedout", "failed", "canceled"}
Task(at, part, why) == [at |-> at, part |-> part, why |-> why]
Idle == Task("idle", NoPart, "none")
Tasks == [at : {"idle", "register", "lock", "fast", "ready", "unregister", "finish"},
          part : Parts \cup {NoPart}, why : Outcomes \cup {"none"}]

RegistryOK ==
  /\ kind \in {"query", "answer"} /\ registered \in BOOLEAN /\ started \in BOOLEAN
  /\ outcome \in Outcomes \cup {"none"} /\ finishes \in Nat
  /\ expired \in BOOLEAN /\ closed \in BOOLEAN
PartsOK ==
  /\ currentPart \in Parts \cup {NoPart}
  /\ seqno \in [Parts -> 0..(MaxSeqno + 1)] /\ recoveryReady \in [Parts -> BOOLEAN]
LoopOK ==
  /\ rec \in {"wait", "timeout", "send", "gone"} /\ recPart \in Parts
  /\ active \in BOOLEAN /\ wake \in BOOLEAN
NetOK == symNet \subseteq Parts \X Seqnos /\ cmpNet \subseteq Parts
ReceiverOK ==
  /\ streamOpen \in BOOLEAN /\ nextPartIndex \in 0..(Last + 1)
  /\ symbols \in [Parts -> SUBSET Seqnos] /\ decoded \subseteq Parts
  /\ finishedAt \in BOOLEAN /\ throttled \in BOOLEAN
  /\ expected \in BOOLEAN /\ cancelled \in BOOLEAN
  /\ delivered \in Nat /\ gaveUp \in BOOLEAN /\ drops \in 0..MaxDrops
TypeOK ==
  /\ RegistryOK /\ PartsOK /\ LoopOK /\ NetOK /\ ReceiverOK
  /\ task \in [Goroutines -> Tasks]

Init ==
  /\ kind \in {"query", "answer"} /\ currentPart = NoPart
  /\ registered = FALSE /\ started = FALSE /\ outcome = "none" /\ finishes = 0
  /\ seqno = [p \in Parts |-> 0] /\ recoveryReady = [p \in Parts |-> FALSE]
  /\ expired = FALSE /\ closed = FALSE
  /\ task = [g \in Goroutines |-> Idle]
  /\ rec = "wait" /\ recPart = 0 /\ active = FALSE /\ wake = FALSE
  /\ symNet = {} /\ cmpNet = {}
  /\ streamOpen = FALSE /\ nextPartIndex = 0 /\ symbols = [p \in Parts |-> {}]
  /\ decoded = {} /\ finishedAt = FALSE /\ throttled = FALSE
  /\ expected = (kind = "answer") /\ cancelled = FALSE
  /\ delivered = 0 /\ gaveUp = FALSE /\ drops = 0

At(g, p) == task[g].at = p
Do(g, t) == task' = [task EXCEPT ![g] = t]
Terminal == outcome # "none"
\* A message that is delivered stays in flight if the network duplicates.
Without(msgs, m) == IF Duplicates THEN msgs ELSE msgs \ {m}

-----------------------------------------------------------------------------
(* Sender: startTransfer                                                   *)

\* prepareNextPart cuts part 0; a transfer that is out of time is refused.
StartTransfer(g) ==
  /\ At(g, "idle") /\ currentPart = NoPart /\ ~closed /\ ~expired
  /\ currentPart' = 0 /\ Do(g, Task("register", 0, "none"))
  /\ UNCHANGED <<registry, seqno, recoveryReady, loop, net, receiver>>

\* Under r.mx: the caller's context may have been cancelled meanwhile.
Register(g) ==
  /\ At(g, "register")
  /\ \/ /\ ~closed /\ registered' = TRUE /\ started' = TRUE
        /\ Do(g, Task("fast", 0, "none"))
     \/ Do(g, Idle) /\ UNCHANGED <<registered, started>>
  /\ UNCHANGED <<kind, outcome, finishes, expired, closed, partVars, loop, net, receiver>>

\* sendFastSymbols reads the current part again; the pacing bucket decides how
\* many symbols go out.  A failed send ends the transfer.
SendFastSymbols(g) ==
  /\ At(g, "fast")
  /\ \E b \in 0..Burst :
       /\ symNet' = symNet \cup {<<currentPart, s>> : s \in {x \in Seqnos : x < b}}
       /\ \/ /\ seqno' = [seqno EXCEPT ![currentPart] = b]
             /\ Do(g, Task("ready", currentPart, "none"))
          \/ Do(g, Task("unregister", currentPart, "failed")) /\ UNCHANGED seqno
  /\ UNCHANGED <<registry, currentPart, recoveryReady, loop, cmpNet, receiver>>

\* Mutant: the recovery loop is not woken up.
MarkReadySilent(g) ==
  /\ At(g, "ready") /\ Do(g, Idle)
  /\ recoveryReady' = [recoveryReady EXCEPT ![task[g].part] = TRUE]
  /\ UNCHANGED <<registry, currentPart, seqno, loop, net, receiver>>

MarkReady(g) ==
  /\ At(g, "ready") /\ Do(g, Idle)
  /\ recoveryReady' = [recoveryReady EXCEPT ![task[g].part] = TRUE]
  /\ wake' = TRUE
  /\ UNCHANGED <<registry, currentPart, seqno, rec, recPart, active, net, receiver>>

-----------------------------------------------------------------------------
(* Sender: a Complete message, and the end of a transfer                   *)

HandleComplete(g, p) ==
  /\ At(g, "idle") /\ registered /\ p \in cmpNet /\ cmpNet' = Without(cmpNet, p)
  /\ Do(g, Task("lock", p, "none"))
  /\ UNCHANGED <<registry, partVars, loop, symNet, receiver>>

\* Mutant: a completion of any part moves the transfer on.
AdvanceAnyPart(g) ==
  /\ At(g, "lock")
  /\ \/ Terminal /\ Do(g, Idle) /\ UNCHANGED currentPart
     \/ /\ ~Terminal /\ (expired \/ currentPart = Last)
        /\ Do(g, Task("unregister", currentPart, IF currentPart < Last THEN "timedout" ELSE "completed"))
        /\ UNCHANGED currentPart
     \/ /\ ~Terminal /\ ~expired /\ currentPart < Last /\ currentPart' = currentPart + 1
        /\ Do(g, Task("fast", currentPart + 1, "none"))
  /\ UNCHANGED <<registry, seqno, recoveryReady, loop, net, receiver>>

\* Under t.mx: only a completion of the current part counts.  prepareNextPart
\* has no next part when time is out or no data is left, and may fail.
Advance(g) ==
  LET p == task[g].part
      current == ~Terminal /\ currentPart = p
  IN /\ At(g, "lock")
     /\ \/ ~current /\ Do(g, Idle) /\ UNCHANGED currentPart
        \/ /\ current /\ (expired \/ p = Last)
           /\ Do(g, Task("unregister", p, IF p < Last THEN "timedout" ELSE "completed"))
           /\ UNCHANGED currentPart
        \/ /\ current /\ ~expired /\ p < Last /\ currentPart' = p + 1
           /\ Do(g, Task("fast", p + 1, "none"))
        \/ /\ current /\ ~expired /\ p < Last /\ UNCHANGED currentPart
           /\ Do(g, Task("unregister", p, "failed"))
     /\ UNCHANGED <<registry, seqno, recoveryReady, loop, net, receiver>>

Unregister(g) ==
  /\ At(g, "unregister") /\ registered' = FALSE
  /\ Do(g, [task[g] EXCEPT !.at = "finish"])
  /\ UNCHANGED <<kind, started, outcome, finishes, expired, closed, partVars, loop, net, receiver>>

\* Mutant: the outcome is counted without the compare-and-swap.
FinishAlways(why) == outcome' = why /\ finishes' = finishes + 1

\* finishOutboundTransfer: the first outcome wins.
Finish(why) ==
  IF Terminal THEN UNCHANGED <<outcome, finishes>>
  ELSE outcome' = why /\ finishes' = finishes + 1

FinishOutboundTransfer(g) ==
  /\ At(g, "finish") /\ Finish(task[g].why) /\ Do(g, Idle)
  /\ UNCHANGED <<kind, registered, started, expired, closed, partVars, loop, net, receiver>>

\* deleteActiveRequestLocked: the query was answered, cancelled or timed out.
EndRequest(g) ==
  /\ kind = "query" /\ At(g, "idle") /\ registered
  /\ \E why \in {"completed", "timedout", "canceled"} :
       /\ why = "completed" => delivered > 0     \* the answer has arrived
       /\ Do(g, Task("finish", NoPart, why))
  /\ registered' = FALSE
  /\ UNCHANGED <<kind, started, outcome, finishes, expired, closed, partVars, loop, net, receiver>>

CloseState(g) ==
  /\ At(g, "idle") /\ ~closed /\ closed' = TRUE /\ registered' = FALSE
  /\ Do(g, IF registered THEN Task("finish", NoPart, "canceled") ELSE Idle)
  /\ UNCHANGED <<kind, started, outcome, finishes, expired, partVars, loop, net, receiver>>

\* The clock passes timeoutAt.
PassDeadline ==
  /\ started /\ ~expired /\ expired' = TRUE
  /\ UNCHANGED <<kind, registered, started, outcome, finishes, closed, partVars, task, loop, net, receiver>>

-----------------------------------------------------------------------------
(* Sender: recoverySender                                                  *)

Awake ==
  /\ rec = "wait" /\ wake /\ wake' = FALSE /\ active' = TRUE
  /\ UNCHANGED <<registry, partVars, task, rec, recPart, net, receiver>>

\* A tick looks at the transfer under r.mx and acts on it after the unlock.
RecoveryTick ==
  /\ rec = "wait" /\ active
  /\ active' = registered
  /\ \/ registered /\ expired /\ rec' = "timeout" /\ UNCHANGED recPart
     \/ /\ registered /\ ~expired /\ recoveryReady[currentPart]
        /\ rec' = "send" /\ recPart' = currentPart
     \/ ~registered /\ UNCHANGED <<rec, recPart>>
  /\ UNCHANGED <<registry, partVars, task, wake, net, receiver>>

TimeOut ==
  /\ rec = "timeout" /\ rec' = "wait"
  /\ IF registered THEN registered' = FALSE /\ Finish("timedout")
     ELSE UNCHANGED <<registered, outcome, finishes>>
  /\ UNCHANGED <<kind, started, expired, closed, partVars, task, recPart, active, wake, net, receiver>>

Lesser(a, b) == IF a < b THEN a ELSE b

\* The next symbol of the part that was picked, which may be over by now; the
\* bucket may be empty and the send may fail.
Resend ==
  /\ rec = "send" /\ rec' = "wait" /\ recPart' = 0
  /\ \/ /\ symNet' = symNet \cup {<<recPart, Lesser(seqno[recPart], MaxSeqno)>>}
        /\ seqno' = [seqno EXCEPT ![recPart] = Lesser(@ + 1, MaxSeqno + 1)]
     \/ UNCHANGED <<symNet, seqno>>
  /\ UNCHANGED <<registry, currentPart, recoveryReady, task, active, wake, cmpNet, receiver>>

\* The peer's context is done: closeState, then the goroutine ends.
RecoveryExit ==
  /\ rec = "wait" /\ closed /\ rec' = "gone"
  /\ UNCHANGED <<registry, partVars, task, recPart, active, wake, net, receiver>>

-----------------------------------------------------------------------------
(* Receiver                                                                *)

\* Mutant: a stray symbol of a finished part is ignored.
SayNothing(p) == UNCHANGED <<cmpNet, throttled>>

\* A completion is repeated for a stray symbol, but not too often.
SayComplete(p) ==
  IF throttled THEN UNCHANGED <<cmpNet, throttled>>
  ELSE cmpNet' = cmpNet \cup {p} /\ throttled' = TRUE

\* replyCancelledTransferComplete: nobody wants the data any more.
ReplyCancelled(p, s) ==
  /\ <<p, s>> \in symNet /\ symNet' = Without(symNet, <<p, s>>)
  /\ ~streamOpen /\ cancelled /\ SayComplete(p)
  /\ UNCHANGED <<sender, streamOpen, nextPartIndex, symbols, decoded, finishedAt,
                 expected, cancelled, delivered, gaveUp, drops>>

\* processStreamMessagePart, a symbol of a part that is decoded already.
ReplyFinished(p, s) ==
  /\ <<p, s>> \in symNet /\ symNet' = Without(symNet, <<p, s>>)
  /\ streamOpen /\ (finishedAt \/ p \in decoded) /\ SayComplete(p)
  /\ UNCHANGED <<sender, streamOpen, nextPartIndex, symbols, decoded, finishedAt,
                 expected, cancelled, delivered, gaveUp, drops>>

ActiveParts == {p \in Parts : p < nextPartIndex} \ decoded

\* A decoder exists for the part or may be created: in order, not too many; a
\* stream is opened by part 0 only.
Accepts(p) ==
  IF streamOpen
    THEN /\ ~finishedAt
         /\ p \in ActiveParts \/ (p = nextPartIndex /\ Cardinality(ActiveParts) < MaxActive)
    ELSE p = 0 /\ ~cancelled

\* Mutant: an answer is handed over whether or not a query waits for it.
DeliverAlways == delivered' = delivered + 1 /\ UNCHANGED <<expected, cancelled, gaveUp>>

\* An answer is taken by the query that waits for it, and by nothing else; the
\* query is then over (deleteActiveRequestLocked).
Deliver ==
  /\ IF kind = "query"
       THEN delivered' = delivered + 1 /\ UNCHANGED <<expected, cancelled>>
       ELSE /\ delivered' = IF expected THEN delivered + 1 ELSE delivered
            /\ expected' = FALSE /\ cancelled' = (cancelled \/ expected)
  /\ UNCHANGED gaveUp

\* The parts are larger than the data, do not parse, or answer another query:
\* an error after the completion was sent.
Reject == gaveUp' = TRUE /\ UNCHANGED <<delivered, expected, cancelled>>

\* A part is decoded: it is reported, and the last one to come completes the
\* transfer.
Decode(p) ==
  /\ decoded' = decoded \cup {p} /\ symbols' = [symbols EXCEPT ![p] = {}]
  /\ cmpNet' = cmpNet \cup {p} /\ throttled' = TRUE
  /\ IF decoded \cup {p} = Parts THEN finishedAt' = TRUE /\ (Deliver \/ Reject)
     ELSE UNCHANGED <<finishedAt, delivered, expected, cancelled, gaveUp>>

\* A new symbol; the decoder tries once it has enough, and may still need more.
\* A symbol the part has already only refreshes the confirmation.
AddSymbol(p, s) ==
  LET got == Cardinality(symbols[p] \cup {s})
  IN /\ <<p, s>> \in symNet /\ symNet' = Without(symNet, <<p, s>>)
     /\ Accepts(p) /\ s \notin symbols[p]
     /\ streamOpen' = TRUE
     /\ nextPartIndex' = IF p = nextPartIndex THEN p + 1 ELSE nextPartIndex
     /\ \/ got >= NeedSymbols /\ Decode(p)
        \/ /\ got < NeedSymbols + Overhead
           /\ symbols' = [symbols EXCEPT ![p] = @ \cup {s}]
           /\ UNCHANGED <<decoded, cmpNet, throttled, finishedAt, delivered, expected, cancelled,
                          gaveUp>>
     /\ UNCHANGED <<sender, drops>>

ForgetStream ==
  /\ streamOpen' = FALSE /\ nextPartIndex' = 0 /\ symbols' = [p \in Parts |-> {}]
  /\ decoded' = {} /\ finishedAt' = FALSE /\ throttled' = FALSE

\* cleanupRecvStreams: idle for 30 s, or finished 15 s ago.
ExpireStream ==
  /\ streamOpen /\ drops < MaxDrops /\ drops' = drops + 1
  /\ ForgetStream /\ gaveUp' = (gaveUp \/ ~finishedAt)
  /\ UNCHANGED <<sender, net, expected, cancelled, delivered>>

\* cancelActiveRequest, or the deadline of the query, on the receiving side.
CancelQuery ==
  /\ expected /\ expected' = FALSE /\ cancelled' = TRUE
  /\ ForgetStream /\ gaveUp' = TRUE
  /\ UNCHANGED <<sender, net, delivered, drops>>

\* The record of a cancelled transfer runs out.
ForgetCancelled ==
  /\ cancelled /\ cancelled' = FALSE
  /\ UNCHANGED <<sender, net, stream, expected, delivered, gaveUp, drops>>

\* 10 ms pass.
Breathe ==
  /\ throttled /\ throttled' = FALSE
  /\ UNCHANGED <<sender, net, streamOpen, nextPartIndex, symbols, decoded, finishedAt,
                 expected, cancelled, delivered, gaveUp, drops>>

-----------------------------------------------------------------------------
(* The network                                                             *)

LoseSymbol(m) ==
  /\ symNet' = symNet \ {m} /\ UNCHANGED <<sender, cmpNet, receiver>>
LoseComplete(p) ==
  /\ cmpNet' = cmpNet \ {p} /\ UNCHANGED <<sender, symNet, receiver>>

-----------------------------------------------------------------------------
Work(g) ==
  \/ Register(g) \/ SendFastSymbols(g) \/ MarkReady(g) \/ Advance(g)
  \/ Unregister(g) \/ FinishOutboundTransfer(g)
Call(g) ==
  \/ StartTransfer(g) \/ EndRequest(g) \/ CloseState(g)
  \/ \E p \in Parts : HandleComplete(g, p)
Recovery == Awake \/ RecoveryTick \/ TimeOut \/ Resend \/ RecoveryExit
Receive(p, s) == ReplyCancelled(p, s) \/ ReplyFinished(p, s) \/ AddSymbol(p, s)
Tidy == ExpireStream \/ CancelQuery \/ ForgetCancelled \/ Breathe

Protocol ==
  \/ \E g \in Goroutines : Work(g) \/ Call(g)
  \/ Recovery \/ PassDeadline \/ Tidy
  \/ \E p \in Parts, s \in Seqnos : Receive(p, s)
Loss ==
  \/ \E m \in symNet : LoseSymbol(m)
  \/ \E p \in cmpNet : LoseComplete(p)
Next == Protocol \/ Loss

Spec == Init /\ [][Next]_vars
\* A message may be delivered at any time, any number of times, or never: for
\* safety, loss adds nothing but states.
LosslessSpec == Init /\ [][Protocol]_vars

\* Goroutines and the ticker are scheduled; a message that is sent again and
\* again arrives; the bucket is not empty for ever.
SendsSymbol == Resend /\ <<recPart, Lesser(seqno[recPart], MaxSeqno)>> \in symNet'
Fairness ==
  /\ \A g \in Goroutines : WF_vars(Work(g))
  /\ \A p \in Parts : SF_vars(\E g \in Goroutines : HandleComplete(g, p))
  /\ WF_vars(Recovery) /\ SF_vars(SendsSymbol) /\ SF_vars(RecoveryTick)
  /\ WF_vars(Breathe)
  /\ \A p \in Parts, s \in Seqnos : SF_vars(Receive(p, s))
LiveSpec == Spec /\ Fairness

-----------------------------------------------------------------------------
(* Properties                                                              *)

\* The sender reports a transfer completed only if its data was handed over,
\* or the receiver had dropped, cancelled or rejected it: no stale, repeated
\* or reordered Complete makes the sender skip a part.
CompletedMeansDelivered == outcome = "completed" => delivered > 0 \/ gaveUp

\* One outcome is counted for a transfer, whichever of the answer, the last
\* Complete, the timeout, a failed send, a cancellation and closeState come
\* together (finishOutboundTransfer).
AccountedOnce == finishes = IF Terminal THEN 1 ELSE 0

\* A transfer that has left activeTransfers has its outcome, or a goroutine is
\* on its way to count it: none is dropped silently.
NoSilentDrop ==
  started /\ ~registered => Terminal \/ \E g \in Goroutines : At(g, "finish")

\* Every transfer that ends is counted, and once (finishOutboundTransfer).
Accounted == AccountedOnce /\ NoSilentDrop

\* An answer is handed to its query at most once, even when its stream was
\* forgotten and stray symbols arrive; a query at most once per stream.
DeliveredOnce == delivered <= IF kind = "answer" THEN 1 ELSE 1 + drops

\* The receiver never holds a part that the sender has not reached, and without
\* a restart holds all the earlier ones decoded.
PartsInStep ==
  ~gaveUp /\ delivered = 0 =>
    /\ nextPartIndex <= currentPart + 1
    /\ \A p \in Parts : p < currentPart => p \in decoded

\* Every transfer whose deadline passes ends: the recovery loop is awake for it.
TransferEnds == expired ~> Terminal

\* A transfer gets through a lossy network, and its sender learns of it although
\* completions are lost too: parts are sent until they are reported, and the
\* receiver answers stray symbols while it remembers the stream.
GetsThrough == started ~> (Terminal \/ expired \/ gaveUp)

\* The transfer implements the service of RldpDelivery.
Service == INSTANCE RldpDelivery WITH
  fresh <- IF kind = "answer" THEN expected ELSE ~finishedAt
ImplementsDelivery == Service!Spec

=============================================================================
