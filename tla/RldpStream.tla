----------------------------- MODULE RldpStream -----------------------------
(***************************************************************************)
(* The receive side of one RLDP transfer id (adnl/rldp/client.go): the     *)
(* goroutines that run handleMessagePart for parts of that transfer, the   *)
(* stream cleaner of stateCleaner, the cancellation of the request that    *)
(* expects the transfer, and closeState.                                   *)
(*                                                                         *)
(* A gateway reads datagrams with several threads, so handleMessagePart    *)
(* runs concurrently for one stream.  The part is put into the stream's    *)
(* queue, and the caller that wins the compare-and-swap on "processing"    *)
(* drains the queue on behalf of everyone.  Every atomic operation is a    *)
(* step of its own here.  A critical section of r.mx is one step, except   *)
(* the two that another goroutine's atomics can cut through: the read      *)
(* section around Enqueue ("pend") and the body of cleanupRecvStreams      *)
(* ("try").                                                                *)
(*                                                                         *)
(* Time is abstracted: a stream may be found expired by any cleanup, and a *)
(* cancelled-transfer record may expire at any moment.                     *)
(***************************************************************************)
EXTENDS Naturals, Sequences, FiniteSets

CONSTANTS
  Workers,      \* goroutines that deliver parts of this transfer
  Streams,      \* identities of the decoderStream objects ever allocated
  Msgs,         \* the parts that arrive
  Openers,      \* parts with Part = 0 that pass validateFirstTransferPart
  Oversized,    \* openers larger than the unexpected-transfer limit
  QSize,        \* capacity of a stream's msgBuf
  SlotLimit,    \* maxInboundTransfersPerIP
  NoStream, NoWorker, NoMsg

ASSUME ConstantsAssumption ==
  /\ Openers \subseteq Msgs /\ Oversized \subseteq Openers
  /\ QSize \in Nat \ {0} /\ SlotLimit \in Nat
  /\ NoStream \notin Streams /\ NoWorker \notin Workers /\ NoMsg \notin Msgs
  /\ IsFiniteSet(Streams)

VARIABLES
  recvStreams,    \* r.recvStreams[id]
  closed,         \* r.closed
  expected,       \* r.expectedTransfers[id] is set
  cancelled,      \* r.cancelledTransfers[id] is set and has not expired
  byIP,           \* inboundTransfers.byIP of the sender's address
  created,        \* the stream objects allocated so far
  retired, msgBuf, pending, processing,   \* fields of each decoderStream
  mx,             \* who holds stream.mx
  started,        \* stream.nextPartIndex > 0
  toRetire,       \* unregistered streams a canceller or closer still retires
  pc, strm, msg, sawExpected,             \* locals of each handleMessagePart
  inbox,          \* parts that have not arrived yet
  cpc,            \* where the stream branch of stateCleaner is
  streamTicker,   \* the cleanup ticker is armed
  activateStreamCleanup                   \* the activation channel is full

maps == <<recvStreams, closed, expected, cancelled>>
flags == <<retired, started>>
locals == <<strm, msg, sawExpected>>
cleaner == <<cpc, streamTicker, activateStreamCleanup>>
vars == <<maps, byIP, created, flags, msgBuf, pending, processing, mx,
          toRetire, pc, locals, inbox, cleaner>>

-----------------------------------------------------------------------------
(* Program points.  A worker at one of OwnerPoints has set "processing".   *)

OwnerPoints == {"lock", "chk", "drop", "clr", "drain", "proc", "fail",
                "failretire", "failclear", "freeproc", "chkpending", "release"}
MxPoints == (OwnerPoints \ {"lock"}) \cup {"recheck", "recas", "unlock"}
Points == OwnerPoints \cup MxPoints
            \cup {"idle", "create", "arm", "enq", "pend", "cas"}

TypeOK ==
  /\ recvStreams \in Streams \cup {NoStream}
  /\ closed \in BOOLEAN /\ expected \in BOOLEAN /\ cancelled \in BOOLEAN
  /\ byIP \in Nat
  /\ created \subseteq Streams /\ toRetire \subseteq Streams
  /\ retired \in [Streams -> BOOLEAN]
  /\ started \in [Streams -> BOOLEAN]
  /\ pending \in [Streams -> BOOLEAN]
  /\ processing \in [Streams -> BOOLEAN]
  /\ msgBuf \in [Streams -> Seq(Msgs)]
  /\ mx \in [Streams -> Workers \cup {NoWorker}]
  /\ pc \in [Workers -> Points]
  /\ strm \in [Workers -> Streams \cup {NoStream}]
  /\ msg \in [Workers -> Msgs \cup {NoMsg}]
  /\ sawExpected \in [Workers -> BOOLEAN]
  /\ inbox \subseteq Msgs
  /\ cpc \in {"wait", "stop", "clean", "try"}
  /\ streamTicker \in BOOLEAN /\ activateStreamCleanup \in BOOLEAN

Init ==
  /\ recvStreams = NoStream /\ closed = FALSE
  /\ expected \in BOOLEAN /\ cancelled = FALSE
  /\ byIP = 0 /\ created = {} /\ toRetire = {}
  /\ retired = [s \in Streams |-> FALSE]
  /\ started = [s \in Streams |-> FALSE]
  /\ pending = [s \in Streams |-> FALSE]
  /\ processing = [s \in Streams |-> FALSE]
  /\ msgBuf = [s \in Streams |-> <<>>]
  /\ mx = [s \in Streams |-> NoWorker]
  /\ pc = [w \in Workers |-> "idle"]
  /\ strm = [w \in Workers |-> NoStream]
  /\ msg = [w \in Workers |-> NoMsg]
  /\ sawExpected = [w \in Workers |-> FALSE]
  /\ inbox = Msgs
  /\ cpc = "wait" /\ streamTicker = FALSE /\ activateStreamCleanup = FALSE

\* r.mx can be taken for reading: the cleaner does not hold it.
Readable == cpc # "try"
\* r.mx can be taken for writing: nobody is inside the read section either.
Writable == Readable /\ \A w \in Workers : pc[w] # "pend"

At(w, p) == pc[w] = p
Goto(w, p) == pc' = [pc EXCEPT ![w] = p] /\ UNCHANGED locals
\* The call goes on with these locals.
Enter(w, p, s, m, e) ==
  /\ pc' = [pc EXCEPT ![w] = p]
  /\ strm' = [strm EXCEPT ![w] = s]
  /\ msg' = [msg EXCEPT ![w] = m]
  /\ sawExpected' = [sawExpected EXCEPT ![w] = e]
\* The call returns and its locals are gone.
Return(w) ==
  /\ pc' = [pc EXCEPT ![w] = "idle"]
  /\ strm' = [strm EXCEPT ![w] = NoStream]
  /\ msg' = [msg EXCEPT ![w] = NoMsg]
  /\ sawExpected' = [sawExpected EXCEPT ![w] = FALSE]

-----------------------------------------------------------------------------
(* handleMessagePart                                                       *)

\* A part that may open a stream: part zero, of an allowed size.
CanOpen(m, wanted) == m \in Openers /\ (wanted \/ m \notin Oversized)

\* The first read section and the tests before the stream is created.
Lookup(w) ==
  /\ At(w, "idle") /\ Readable
  /\ \E m \in inbox :
       /\ inbox' = inbox \ {m}
       /\ \/ /\ recvStreams # NoStream
             /\ Enter(w, "enq", recvStreams, m, FALSE)
          \/ /\ recvStreams = NoStream
             /\ ~closed /\ (expected \/ ~cancelled) /\ CanOpen(m, expected)
             /\ Enter(w, "create", NoStream, m, expected)
          \/ /\ recvStreams = NoStream
             /\ closed \/ (~expected /\ cancelled) \/ ~CanOpen(m, expected)
             /\ UNCHANGED <<pc, locals>>
  /\ UNCHANGED <<maps, byIP, created, flags, msgBuf, pending, processing, mx,
                 toRetire, cleaner>>

\* The write section that re-checks what the read section saw and allocates.
Create(w) ==
  /\ At(w, "create") /\ Writable
  /\ \/ /\ \/ closed
           \/ recvStreams = NoStream /\ sawExpected[w] /\ ~expected
           \/ recvStreams = NoStream /\ byIP >= SlotLimit
        /\ Return(w)
        /\ UNCHANGED <<recvStreams, byIP, created>>
     \/ /\ ~closed /\ recvStreams # NoStream
        /\ Enter(w, "enq", recvStreams, msg[w], FALSE)
        /\ UNCHANGED <<recvStreams, byIP, created>>
     \/ /\ ~closed /\ recvStreams = NoStream
        /\ sawExpected[w] => expected
        /\ byIP < SlotLimit
        /\ \E s \in Streams \ created :
             /\ created' = created \cup {s}
             /\ byIP' = byIP + 1
             /\ recvStreams' = s
             /\ Enter(w, "arm", s, msg[w], FALSE)
  /\ UNCHANGED <<closed, expected, cancelled, flags, msgBuf, pending, processing,
                 mx, toRetire, inbox, cleaner>>

\* Mutant: the activation is forgotten.
ArmForgotten(w) ==
  /\ At(w, "arm") /\ Goto(w, "enq")
  /\ UNCHANGED <<maps, byIP, created, flags, msgBuf, pending, processing, mx,
                 toRetire, inbox, cleaner>>

\* activateStreamCleanupLoop, after the unlock.
Arm(w) ==
  /\ At(w, "arm")
  /\ activateStreamCleanup' = TRUE
  /\ Goto(w, "enq")
  /\ UNCHANGED <<maps, byIP, created, flags, msgBuf, pending, processing, mx,
                 toRetire, inbox, cpc, streamTicker>>

\* Queue.Enqueue: a full queue loses its oldest part.
Enqueued(q, m) == IF Len(q) < QSize THEN Append(q, m) ELSE Append(Tail(q), m)

\* The second read section, up to the queue write.
Enqueue(w) ==
  /\ At(w, "enq") /\ Readable
  /\ IF recvStreams = strm[w]
       THEN /\ msgBuf' = [msgBuf EXCEPT ![strm[w]] = Enqueued(@, msg[w])]
            /\ Enter(w, "pend", strm[w], NoMsg, FALSE)
       ELSE Return(w) /\ UNCHANGED msgBuf
  /\ UNCHANGED <<maps, byIP, created, flags, pending, processing, mx, toRetire,
                 inbox, cleaner>>

SetPending(w) ==
  /\ At(w, "pend")
  /\ pending' = [pending EXCEPT ![strm[w]] = TRUE]
  /\ Goto(w, "cas")
  /\ UNCHANGED <<maps, byIP, created, flags, msgBuf, processing, mx, toRetire,
                 inbox, cleaner>>

\* processing.CompareAndSwap(false, true), first and repeated use.
CasProcessing(w) ==
  /\ \/ At(w, "cas") /\ processing[strm[w]] /\ Return(w)
     \/ At(w, "cas") /\ ~processing[strm[w]] /\ Goto(w, "lock")
     \/ At(w, "recas") /\ Goto(w, IF processing[strm[w]] THEN "unlock" ELSE "clr")
  /\ processing' = [processing EXCEPT ![strm[w]] = TRUE]
  /\ UNCHANGED <<maps, byIP, created, flags, msgBuf, pending, mx, toRetire,
                 inbox, cleaner>>

LockStream(w) ==
  /\ At(w, "lock") /\ mx[strm[w]] = NoWorker
  /\ mx' = [mx EXCEPT ![strm[w]] = w]
  /\ Goto(w, "chk")
  /\ UNCHANGED <<maps, byIP, created, flags, msgBuf, pending, processing,
                 toRetire, inbox, cleaner>>

\* Mutant: the stream is not re-checked after its mutex was taken.
CheckRetiredNever(w) ==
  /\ At(w, "chk") /\ Goto(w, "clr")
  /\ UNCHANGED <<maps, byIP, created, flags, msgBuf, pending, processing, mx,
                 toRetire, inbox, cleaner>>

CheckRetired(w) ==
  /\ At(w, "chk")
  /\ Goto(w, IF retired[strm[w]] THEN "drop" ELSE "clr")
  /\ UNCHANGED <<maps, byIP, created, flags, msgBuf, pending, processing, mx,
                 toRetire, inbox, cleaner>>

\* pending.Store(false): on the retired exit, at the head of the drain loop,
\* and on the exit of a transfer that never started.
ClearPending(w) ==
  /\ \/ At(w, "drop") /\ Goto(w, "freeproc")
     \/ At(w, "clr") /\ Goto(w, "drain")
     \/ At(w, "failclear") /\ Goto(w, "freeproc")
  /\ pending' = [pending EXCEPT ![strm[w]] = FALSE]
  /\ UNCHANGED <<maps, byIP, created, flags, msgBuf, processing, mx, toRetire,
                 inbox, cleaner>>

Dequeue(w) ==
  /\ At(w, "drain")
  /\ IF msgBuf[strm[w]] = <<>>
       THEN Goto(w, "chkpending") /\ UNCHANGED msgBuf
       ELSE Goto(w, "proc") /\ msgBuf' = [msgBuf EXCEPT ![strm[w]] = Tail(@)]
  /\ UNCHANGED <<maps, byIP, created, flags, pending, processing, mx, toRetire,
                 inbox, cleaner>>

\* processStreamMessagePart.  It may start the first part, leave the stream as
\* it was, fail (which matters only while no part has started), or complete
\* the answer of the request, which then leaves expectedTransfers.
Process(w) ==
  /\ At(w, "proc")
  /\ \/ /\ started' \in {[started EXCEPT ![strm[w]] = TRUE], started}
        /\ Goto(w, "drain") /\ UNCHANGED <<expected, cancelled>>
     \/ /\ ~started[strm[w]] /\ Goto(w, "fail")
        /\ UNCHANGED <<started, expected, cancelled>>
     \/ /\ expected /\ Writable
        /\ expected' = FALSE /\ cancelled' = TRUE
        /\ started' = [started EXCEPT ![strm[w]] = TRUE]
        /\ Goto(w, "drain")
  /\ UNCHANGED <<recvStreams, closed, byIP, created, retired, msgBuf, pending,
                 processing, mx, toRetire, inbox, cleaner>>

\* The write section of the exit of a transfer that never started.
Unregister(w) ==
  /\ At(w, "fail") /\ Writable
  /\ recvStreams' = IF recvStreams = strm[w] THEN NoStream ELSE recvStreams
  /\ Goto(w, "failretire")
  /\ UNCHANGED <<closed, expected, cancelled, byIP, created, flags, msgBuf,
                 pending, processing, mx, toRetire, inbox, cleaner>>

\* retireInboundStreamLocked: idempotent, releases the admission slot.
Retire(s) ==
  /\ retired' = [retired EXCEPT ![s] = TRUE]
  /\ byIP' = IF retired[s] THEN byIP ELSE byIP - 1

RetireFailed(w) ==
  /\ At(w, "failretire")
  /\ Retire(strm[w])
  /\ Goto(w, "failclear")
  /\ UNCHANGED <<maps, created, started, msgBuf, pending, processing, mx,
                 toRetire, inbox, cleaner>>

\* Mutant: "pending" is not tested again after "processing" was released.
CheckPendingOnce(w) ==
  /\ \/ At(w, "chkpending") /\ Goto(w, IF pending[strm[w]] THEN "clr" ELSE "release")
     \/ At(w, "recheck") /\ Goto(w, "unlock")
  /\ UNCHANGED <<maps, byIP, created, flags, msgBuf, pending, processing, mx,
                 toRetire, inbox, cleaner>>

CheckPending(w) ==
  /\ \/ At(w, "chkpending") /\ Goto(w, IF pending[strm[w]] THEN "clr" ELSE "release")
     \/ At(w, "recheck") /\ Goto(w, IF pending[strm[w]] THEN "recas" ELSE "unlock")
  /\ UNCHANGED <<maps, byIP, created, flags, msgBuf, pending, processing, mx,
                 toRetire, inbox, cleaner>>

\* processing.Store(false): in the drain loop and on the two early exits.
ReleaseProcessing(w) ==
  /\ \/ At(w, "release") /\ Goto(w, "recheck")
     \/ At(w, "freeproc") /\ Goto(w, "unlock")
  /\ processing' = [processing EXCEPT ![strm[w]] = FALSE]
  /\ UNCHANGED <<maps, byIP, created, flags, msgBuf, pending, mx, toRetire,
                 inbox, cleaner>>

\* Mutant: an exit without the Unlock.
UnlockForgotten(w) ==
  /\ At(w, "unlock") /\ Return(w)
  /\ UNCHANGED <<maps, byIP, created, flags, msgBuf, pending, processing, mx,
                 toRetire, inbox, cleaner>>

\* The deferred stream.mx.Unlock.
UnlockStream(w) ==
  /\ At(w, "unlock")
  /\ mx' = [mx EXCEPT ![strm[w]] = NoWorker]
  /\ Return(w)
  /\ UNCHANGED <<maps, byIP, created, flags, msgBuf, pending, processing,
                 toRetire, inbox, cleaner>>

-----------------------------------------------------------------------------
(* stateCleaner, the stream branch                                         *)

worker == <<pc, locals, inbox>>

CleanerActivate ==
  /\ cpc = "wait" /\ activateStreamCleanup
  /\ activateStreamCleanup' = FALSE /\ streamTicker' = TRUE
  /\ UNCHANGED <<maps, byIP, created, flags, msgBuf, pending, processing, mx,
                 toRetire, worker, cpc>>

\* A tick: hasStreams is read in its own read section.
CleanerTick ==
  /\ cpc = "wait" /\ streamTicker
  /\ cpc' = IF recvStreams = NoStream THEN "stop" ELSE "clean"
  /\ UNCHANGED <<maps, byIP, created, flags, msgBuf, pending, processing, mx,
                 toRetire, worker, streamTicker, activateStreamCleanup>>

CleanerStop ==
  /\ cpc = "stop"
  /\ streamTicker' = FALSE /\ cpc' = "wait"
  /\ UNCHANGED <<maps, byIP, created, flags, msgBuf, pending, processing, mx,
                 toRetire, worker, activateStreamCleanup>>

\* cleanupRecvStreams takes r.mx and skips a stream that is in use.
CleanerCheck ==
  /\ cpc = "clean" /\ Writable
  /\ cpc' = IF recvStreams = NoStream THEN "wait"
            ELSE IF pending[recvStreams] \/ processing[recvStreams] THEN "wait"
            ELSE "try"
  /\ UNCHANGED <<maps, byIP, created, flags, msgBuf, pending, processing, mx,
                 toRetire, worker, streamTicker, activateStreamCleanup>>

\* TryLock, the expiry test, the retirement and the delete.
CleanerRetire ==
  /\ cpc = "try"
  /\ cpc' = "wait"
  /\ \/ UNCHANGED <<byIP, retired, recvStreams>>
     \/ /\ mx[recvStreams] = NoWorker
        /\ Retire(recvStreams)
        /\ recvStreams' = NoStream
  /\ UNCHANGED <<closed, expected, cancelled, created, started, msgBuf, pending,
                 processing, mx, toRetire, worker, streamTicker,
                 activateStreamCleanup>>

-----------------------------------------------------------------------------
(* The end of the request, and of the client                               *)

\* Mutant: the stream leaves the map and is not retired.
CancelForgetsStream ==
  /\ expected /\ Writable
  /\ expected' = FALSE /\ cancelled' = TRUE /\ recvStreams' = NoStream
  /\ UNCHANGED <<closed, byIP, created, flags, msgBuf, pending, processing, mx,
                 toRetire, worker, cleaner>>

\* cancelActiveRequest, or the request branch of stateCleaner: the request
\* leaves the maps in one write section, its stream is retired afterwards.
CancelRequest ==
  /\ expected /\ Writable
  /\ expected' = FALSE /\ cancelled' = TRUE
  /\ recvStreams' = NoStream
  /\ toRetire' = IF recvStreams = NoStream THEN toRetire
                 ELSE toRetire \cup {recvStreams}
  /\ UNCHANGED <<closed, byIP, created, flags, msgBuf, pending, processing, mx,
                 worker, cleaner>>

\* The cancelled-transfer record passes its expiry time.
ForgetCancelled ==
  /\ cancelled
  /\ cancelled' = FALSE
  /\ UNCHANGED <<recvStreams, closed, expected, byIP, created, flags, msgBuf,
                 pending, processing, mx, toRetire, worker, cleaner>>

\* closeState, up to the unlock.
CloseState ==
  /\ ~closed /\ Writable
  /\ closed' = TRUE /\ expected' = FALSE /\ cancelled' = FALSE
  /\ recvStreams' = NoStream
  /\ toRetire' = IF recvStreams = NoStream THEN toRetire
                 ELSE toRetire \cup {recvStreams}
  /\ UNCHANGED <<byIP, created, flags, msgBuf, pending, processing, mx, worker,
                 cleaner>>

\* retireInboundStream (or a successful tryRetireInboundStream).
RetireUnregistered ==
  \E s \in toRetire :
    /\ mx[s] = NoWorker
    /\ Retire(s)
    /\ toRetire' = toRetire \ {s}
    /\ UNCHANGED <<maps, created, started, msgBuf, pending, processing, mx,
                   worker, cleaner>>

-----------------------------------------------------------------------------
Work(w) ==
  \/ Create(w) \/ Arm(w) \/ Enqueue(w) \/ SetPending(w) \/ CasProcessing(w)
  \/ LockStream(w) \/ CheckRetired(w) \/ ClearPending(w) \/ Dequeue(w)
  \/ Process(w) \/ Unregister(w) \/ RetireFailed(w) \/ CheckPending(w)
  \/ ReleaseProcessing(w) \/ UnlockStream(w)

Cleaner == CleanerActivate \/ CleanerTick \/ CleanerStop \/ CleanerCheck
             \/ CleanerRetire

Next ==
  \/ \E w \in Workers : Lookup(w) \/ Work(w)
  \/ Cleaner \/ CancelRequest \/ ForgetCancelled \/ CloseState
  \/ RetireUnregistered

Spec == Init /\ [][Next]_vars

\* Goroutines inside handleMessagePart keep running, the cleaner keeps being
\* scheduled, and a pending retirement gets its turn.  The fairness is strong
\* because all of them wait for r.mx or stream.mx, which Go's mutexes hand to
\* every waiter in the end.  No part has to arrive and nobody has to cancel or
\* close.
Fairness ==
  /\ \A w \in Workers : SF_vars(Work(w))
  /\ WF_vars(Cleaner) /\ SF_vars(RetireUnregistered)

FairSpec == Spec /\ Fairness

-----------------------------------------------------------------------------
(* Properties                                                              *)

Serving(s, points) == \E w \in Workers : strm[w] = s /\ pc[w] \in points

\* No lost wake-up: while a live stream holds a queued part, some goroutine is
\* still bound to look at the queue again (handleMessagePart, the hand-off of
\* "pending" and "processing" at the end of the drain loop).
NoLostWakeup ==
  \A s \in Streams :
    msgBuf[s] # <<>> /\ ~retired[s] =>
      \/ Serving(s, {"pend", "cas"} \cup (OwnerPoints \ {"chkpending", "release"}))
      \/ pending[s] /\ Serving(s, {"chkpending", "release", "recheck", "recas"})

\* The per-IP admission counter is the number of streams that are not retired.
SlotCount == byIP = Cardinality({s \in created : ~retired[s]})

\* A slot is held by a stream somebody can still retire: one that is
\* registered, one a canceller or closer is retiring, or one that is failing.
NoLeakedStream ==
  \A s \in created : ~retired[s] =>
    \/ recvStreams = s \/ s \in toRetire \/ Serving(s, {"failretire"})

\* Admission slots are given back exactly once: the per-IP counter is the number
\* of streams that are not retired, so that expiry, failure, cancellation and
\* closeState together never give one back twice (retireInboundStreamLocked), and
\* each of those streams still has somebody to retire it, so that no slot is kept
\* for good.
SlotsMatchStreams == SlotCount /\ NoLeakedStream

\* A goroutine never processes a part of a stream that was already retired.
NoProcessingAfterRetire ==
  \A w \in Workers : pc[w] = "proc" => ~retired[strm[w]]

\* Expiry never drops a part that is already queued: cleanupRecvStreams is the
\* only one to retire a stream that is still registered, and it does so only
\* when the queue is empty ("keep the stream registered until the message is
\* visible to cleanup").
ExpiryKeepsQueuedParts ==
  [][ \A s \in Streams :
        recvStreams = s /\ retired'[s] /\ ~retired[s] => msgBuf[s] = <<>> ]_vars

\* Registered streams are always going to be looked at by the cleaner: the
\* ticker is armed, or an activation is on its way ("no cleanup can be
\* stranded" in stateCleaner).
CleanupNotStranded ==
  recvStreams # NoStream =>
    \/ activateStreamCleanup \/ \E w \in Workers : pc[w] = "arm"
    \/ streamTicker /\ cpc # "stop"

\* Every call of handleMessagePart returns.
HandlersReturn == \A w \in Workers : pc[w] # "idle" ~> pc[w] = "idle"
=============================================================================
