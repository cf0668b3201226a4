----------------------------- MODULE TwoStepFec -----------------------------
(***************************************************************************)
(* Receiving two-step FEC broadcasts (adnl/overlay/broadcast-two-step.go). *)
(* Every part is handled in a goroutine of its own: it finds or creates    *)
(* the stream of its broadcast under state.mx, lets that go, and works on  *)
(* the stream under stream.mx.  The part that completes the payload asks   *)
(* the application; parts that arrive meanwhile wait for the verdict, and  *)
(* start over when it is "retry".  A sweep removes idle streams.           *)
(*                                                                         *)
(* state.mx is held for one step, except by a sweep, which looks at the    *)
(* streams one by one.  Time is left out: a goroutine may be so slow that  *)
(* the stream it is about to work on is past its 25 seconds, so any stream *)
(* not being admitted may be found stale.  The hand-over of a part to the  *)
(* relay is RelayScheduler's Enqueue, and the cache of delivered ones is   *)
(* taken to be large enough (it has 4096 entries).                         *)
(***************************************************************************)
EXTENDS Naturals, FiniteSets, FiniteSetsExt

CONSTANTS
  Handlers,     \* goroutines that receive parts
  Ticker,       \* runBroadcastCleanup
  None,
  Ids,          \* broadcasts
  Parts,        \* parts: a broadcast and a seqno
  Need,         \* parts it takes to decode each broadcast
  Budget,       \* estimateTwoStepBroadcastBudgetBytes of each broadcast
  MaxActiveStreams,
  MaxActiveBytes,
  MaxParts,     \* bound: parts received
  MaxSweeps     \* bound: sweeps

\* Stream objects; one nobody refers to is used again.
Streams == 1..(Cardinality(Handlers) + Cardinality(Ids))
Verdicts == {"accept", "ignore", "retry"}
Seqnos == {p.seqno : p \in Parts}

VARIABLES
  mx,           \* who holds state.mx to sweep
  todo,         \* the streams this sweep has still to look at
  victim,       \* the stream it has found stale
  streams,      \* the stream registered for a broadcast
  activeBytes,
  delivered,    \* broadcasts delivered
  stream,       \* the streams, registered or not
  lock,         \* who holds stream.mx
  pc, part,     \* where a goroutine is, and the part it has
  ref,          \* the stream it has looked up
  checked,      \* checkedNewStream
  verdict,      \* disposition it has got from the application
  parts, sweeps,
  committed     \* history: broadcasts whose admission has ended without "retry"

registry == <<streams, activeBytes, delivered>>
sweeping == <<mx, todo, victim, sweeps>>
local == <<part, checked, verdict>>
vars == <<registry, sweeping, stream, lock, pc, ref, local, parts, committed>>

\* admission is nil, open, or closed with a verdict.
Blank == [id |-> None, removed |-> FALSE, seen |-> {}, admission |-> "nil"]

TypeOK ==
  /\ mx \in Handlers \cup {Ticker, None} /\ todo \subseteq Streams
  /\ victim \in Streams \cup {None}
  /\ streams \in [Ids -> Streams \cup {None}] /\ activeBytes \in Nat
  /\ delivered \subseteq Ids /\ committed \subseteq Ids 
  /\ stream \in [Streams -> [id : Ids \cup {None}, removed : BOOLEAN,
                             seen : SUBSET Seqnos,
                             admission : Verdicts \cup {"nil", "open"}]]
  /\ lock \in [Streams -> Handlers \cup {None}]
  /\ pc \in [Handlers -> {"idle", "lookup", "check", "register", "lock", "work",
                          "deliver", "finish", "commit", "await"}]
  /\ part \in [Handlers -> Parts \cup {None}] /\ ref \in [Handlers -> Streams \cup {None}]
  /\ checked \in [Handlers -> BOOLEAN] /\ verdict \in [Handlers -> Verdicts]
  /\ parts \in 0..MaxParts /\ sweeps \in 0..MaxSweeps

Init ==
  /\ mx = None /\ todo = {} /\ victim = None /\ sweeps = 0
  /\ streams = [i \in Ids |-> None] /\ activeBytes = 0 /\ delivered = {} /\ committed = {}
  /\ stream = [s \in Streams |-> Blank] /\ lock = [s \in Streams |-> None]
  /\ pc = [h \in Handlers |-> "idle"] /\ part = [h \in Handlers |-> None]
  /\ ref = [h \in Handlers |-> None] /\ checked = [h \in Handlers |-> FALSE]
  /\ verdict = [h \in Handlers |-> "retry"] /\ parts = 0

\* Mutant: a delivered broadcast is not recognised.
NotRemembered(i) == FALSE
IsDelivered(i) == i \in delivered

Registered == {streams[i] : i \in Ids} \ {None}
Goto(h, l) == pc' = [pc EXCEPT ![h] = l]

\* A goroutine that returns, with or without an error.
Return(h) ==
  /\ Goto(h, "idle") /\ ref' = [ref EXCEPT ![h] = None]
  /\ part' = [part EXCEPT ![h] = None] /\ checked' = [checked EXCEPT ![h] = FALSE]
  /\ verdict' = [verdict EXCEPT ![h] = "retry"]

\* It starts over: recontend.
Recontend(h) ==
  /\ Goto(h, "lookup") /\ ref' = [ref EXCEPT ![h] = None]
  /\ checked' = [checked EXCEPT ![h] = FALSE] /\ UNCHANGED <<part, verdict>>

Released(bytes) == IF activeBytes < bytes THEN 0 ELSE activeBytes - bytes

\* Others than h that refer to a stream.
Holders(s, h) == {g \in Handlers \ {h} : ref[g] = s}

\* Mutant: the budget of a removed stream stays in use.
RemoveUnreleased(s, h, left) ==
  /\ streams' = [streams EXCEPT ![stream[s].id] = None] /\ UNCHANGED activeBytes
  /\ stream' = [stream EXCEPT ![s] = IF Holders(s, h) = {} THEN Blank ELSE [left EXCEPT !.removed = TRUE]]

\* removeStreamLocked, of the stream registered.
RemoveStream(s, h, left) ==
  /\ streams' = [streams EXCEPT ![stream[s].id] = None]
  /\ activeBytes' = Released(Budget[stream[s].id])
  /\ stream' = [stream EXCEPT ![s] = IF Holders(s, h) = {} THEN Blank ELSE [left EXCEPT !.removed = TRUE]]

-----------------------------------------------------------------------------
(* The sweep: cleanupLocked, by the ticker or in a section of a goroutine. *)

\* A goroutine sweeps before it looks its stream up, and before it reserves
\* the budget of a new one.
MaySweep(w) ==
  w \in Handlers =>
    \/ pc[w] = "lookup"
    \/ /\ pc[w] = "register" /\ checked[w]
       /\ ~IsDelivered(part[w].id) /\ streams[part[w].id] = None

StartSweep(w) ==
  /\ mx = None /\ sweeps < MaxSweeps /\ MaySweep(w)
  /\ mx' = w /\ sweeps' = sweeps + 1 /\ todo' = Registered
  /\ UNCHANGED <<registry, victim, stream, lock, pc, ref, local, parts, committed>>

\* Mutant: the sweep waits for stream.mx.
ProbeWaits(w) ==
  /\ mx = w /\ victim = None
  /\ \E s \in todo :
       /\ lock[s] = None
       /\ todo' = todo \ {s}
       /\ victim' \in IF stream[s].admission = "nil" THEN {s, None} ELSE {None}
  /\ UNCHANGED <<registry, mx, sweeps, stream, lock, pc, ref, local, parts, committed>>

\* One stream: TryLock, the test, Unlock.
Probe(w) ==
  /\ mx = w /\ victim = None
  /\ \E s \in todo :
       /\ todo' = todo \ {s}
       /\ victim' \in IF lock[s] = None /\ stream[s].admission = "nil" THEN {s, None} ELSE {None}
  /\ UNCHANGED <<registry, mx, sweeps, stream, lock, pc, ref, local, parts, committed>>

Evict(w) ==
  /\ mx = w /\ victim # None /\ victim' = None
  /\ RemoveStream(victim, w, stream[victim])
  /\ UNCHANGED <<delivered, mx, todo, sweeps, lock, pc, ref, local, parts, committed>>

EndTick ==
  /\ mx = Ticker /\ todo = {} /\ victim = None /\ mx' = None
  /\ UNCHANGED <<registry, todo, victim, sweeps, stream, lock, pc, ref, local, parts, committed>>

-----------------------------------------------------------------------------
(* A part                                                                  *)

Receive(h) ==
  /\ pc[h] = "idle" /\ parts < MaxParts /\ parts' = parts + 1
  /\ \E p \in Parts : part' = [part EXCEPT ![h] = p]
  /\ Goto(h, "lookup")
  /\ UNCHANGED <<registry, sweeping, stream, lock, ref, checked, verdict, committed>>

\* state.mx is free, or mine after a sweep; the section ends with its release.
Section(h) ==
  /\ mx \in {None, h} /\ todo = {} /\ victim = None /\ mx' = None
  /\ UNCHANGED <<todo, victim, sweeps>>

Lookup(h) ==
  /\ pc[h] = "lookup" /\ Section(h)
  /\ IF IsDelivered(part[h].id) THEN Return(h)
     ELSE Goto(h, "check") /\ ref' = [ref EXCEPT ![h] = streams[part[h].id]] /\ UNCHANGED local
  /\ UNCHANGED <<registry, stream, lock, parts, committed>>

\* Without a stream: source rules, precheck, signature, precheck, date.
CheckNew(h) ==
  /\ pc[h] = "check" /\ ref[h] = None
  /\ \/ Return(h)
     \/ /\ Goto(h, "register") /\ checked' = [checked EXCEPT ![h] = TRUE]
        /\ UNCHANGED <<ref, part, verdict>>
  /\ UNCHANGED <<registry, sweeping, stream, lock, parts, committed>>

\* With one: the signature, unless the same bytes have been verified before.
CheckKnown(h) ==
  /\ pc[h] = "check" /\ ref[h] # None /\ lock[ref[h]] = None
  /\ \/ Goto(h, "register") /\ UNCHANGED <<ref, local>>
     \/ (stream[ref[h]].removed \/ part[h].seqno \notin stream[ref[h]].seen) /\ Return(h)
  /\ UNCHANGED <<registry, sweeping, stream, lock, parts, committed>>

HasBudget(i) ==
  /\ Cardinality(Registered) + 1 <= MaxActiveStreams
  /\ activeBytes + Budget[i] <= MaxActiveBytes

\* The stream of the part, found or created; reserveLocked may refuse, and so
\* may the decoder, whose reservation is released at once.
Register(h) ==
  LET i == part[h].id
      s == Min(Streams \ (Registered \cup {ref[g] : g \in Handlers}))
  IN
  /\ pc[h] = "register" /\ Section(h)
  /\ \/ IsDelivered(i) /\ Return(h) /\ UNCHANGED <<registry, stream>>
     \/ /\ ~IsDelivered(i) /\ streams[i] # None
        /\ Goto(h, "lock") /\ ref' = [ref EXCEPT ![h] = streams[i]]
        /\ UNCHANGED <<registry, stream, local>>
     \/ /\ ~IsDelivered(i) /\ streams[i] = None /\ ~checked[h]
        /\ Recontend(h) /\ UNCHANGED <<registry, stream>>
     \/ /\ ~IsDelivered(i) /\ streams[i] = None /\ checked[h]
        /\ \/ Return(h) /\ UNCHANGED <<registry, stream>>
           \/ /\ HasBudget(i)
              /\ streams' = [streams EXCEPT ![i] = s]
              /\ activeBytes' = activeBytes + Budget[i] /\ UNCHANGED delivered
              /\ stream' = [stream EXCEPT ![s] = [Blank EXCEPT !.id = i]]
              /\ Goto(h, "lock") /\ ref' = [ref EXCEPT ![h] = s] /\ UNCHANGED local
  /\ UNCHANGED <<lock, parts, committed>>

\* lockLiveTwoStepStream
Lock(h) ==
  LET s == ref[h] IN
  /\ pc[h] = "lock" /\ lock[s] = None
  /\ IF stream[s].removed THEN Recontend(h) /\ UNCHANGED lock
     ELSE Goto(h, "work") /\ lock' = [lock EXCEPT ![s] = h] /\ UNCHANGED <<ref, local>>
  /\ UNCHANGED <<registry, sweeping, stream, parts, committed>>

WithPart(s, p) == [stream[s] EXCEPT !.seen = @ \cup {p.seqno}]

\* The work on the stream.  The decoder may refuse the part, may want more
\* parts than it needs at least, and may produce something of another hash.
Work(h) ==
  LET s == ref[h]
      with == WithPart(s, part[h])
  IN
  /\ pc[h] = "work" /\ lock' = [lock EXCEPT ![s] = None]
  /\ \/ /\ stream[s].admission # "nil"
        /\ stream' = [stream EXCEPT ![s] = with]
        /\ Goto(h, "await") /\ UNCHANGED <<ref, local>>
     \/ /\ stream[s].admission = "nil"
        /\ \E left \in {stream[s], with} : stream' = [stream EXCEPT ![s] = left]
        /\ Return(h)
     \/ /\ stream[s].admission = "nil" /\ part[h].seqno \notin stream[s].seen
        /\ Cardinality(with.seen) >= Need[part[h].id]
        /\ stream' = [stream EXCEPT ![s] = [with EXCEPT !.admission = "open"]]
        /\ Goto(h, "deliver") /\ UNCHANGED <<ref, local>>
  /\ UNCHANGED <<registry, sweeping, parts, committed>>

\* The application decides; a payload that cannot be parsed is ignored.
Deliver(h) ==
  /\ pc[h] = "deliver" /\ Goto(h, "finish")
  /\ \E v \in Verdicts : verdict' = [verdict EXCEPT ![h] = v]
  /\ UNCHANGED <<registry, sweeping, stream, lock, ref, part, checked, parts, committed>>

\* finishFECAdmission: stream.mx first, then state.mx.
Finish(h) ==
  /\ pc[h] = "finish" /\ lock[ref[h]] = None
  /\ lock' = [lock EXCEPT ![ref[h]] = h] /\ Goto(h, "commit")
  /\ UNCHANGED <<registry, sweeping, stream, ref, local, parts, committed>>

Commit(h) ==
  LET s == ref[h]
      i == part[h].id
  IN
  /\ pc[h] = "commit" /\ mx = None /\ lock' = [lock EXCEPT ![s] = None]
  /\ IF streams[i] # s THEN UNCHANGED <<registry, stream>>
     ELSE /\ RemoveStream(s, h, [Blank EXCEPT !.id = i, !.admission = verdict[h]])
          /\ delivered' = IF verdict[h] = "retry" THEN delivered ELSE delivered \cup {i}
  /\ committed' = IF verdict[h] = "retry" THEN committed ELSE committed \cup {i}
  /\ Return(h)
  /\ UNCHANGED <<sweeping, parts>>

Await(h) ==
  /\ pc[h] = "await" /\ stream[ref[h]].admission \in Verdicts
  /\ IF stream[ref[h]].admission = "retry" THEN Recontend(h) ELSE Return(h)
  /\ UNCHANGED <<registry, sweeping, stream, lock, parts, committed>>

Sweep(w) == Probe(w) \/ Evict(w)
Step(h) ==
  \/ Lookup(h) \/ CheckNew(h) \/ CheckKnown(h) \/ Register(h) \/ Lock(h) \/ Work(h)
  \/ Deliver(h) \/ Finish(h) \/ Commit(h) \/ Await(h)

Next ==
  \/ EndTick
  \/ \E w \in Handlers \cup {Ticker} : StartSweep(w) \/ Sweep(w)
  \/ \E h \in Handlers : Receive(h) \/ Step(h)

Spec == Init /\ [][Next]_vars
Fairness ==
  /\ WF_vars(EndTick) /\ \A w \in Handlers \cup {Ticker} : WF_vars(Sweep(w))
  /\ \A h \in Handlers : WF_vars(Step(h))
FairSpec == Spec /\ Fairness

-----------------------------------------------------------------------------
\* A stream taken by a sweep after its admission had begun: the sweep has found
\* it idle, and has let stream.mx go before it removes it.
Orphan(s) == stream[s].removed /\ stream[s].admission = "open"

Asking == {"deliver", "finish", "commit"}

\* The budget in use is that of the registered streams, within the limits
\* (reserveLocked, releaseLocked, removeStreamLocked), whoever removes them.
BudgetExact ==
  /\ activeBytes = MapThenSumSet(LAMBDA i : Budget[i], {i \in Ids : streams[i] # None})
  /\ activeBytes <= MaxActiveBytes /\ Cardinality(Registered) <= MaxActiveStreams

\* The application is asked about a broadcast once at a time and not about a
\* delivered one (the admission of processBroadcastTwoStepFECPart), orphans apart.
AskedOnce ==
  \A g \in Handlers : pc[g] \in Asking /\ ~Orphan(ref[g]) =>
    /\ part[g].id \notin delivered
    /\ \A h \in Handlers : pc[h] \in Asking /\ part[h].id = part[g].id /\ ~Orphan(ref[h]) => h = g

\* Every part is done with, unless it waits for the admission of an orphan.
PartsEnd ==
  \A h \in Handlers :
    pc[h] = "lookup" ~> pc[h] = "idle" \/ (pc[h] = "await" /\ Orphan(ref[h]))

\* "Retry is the only outcome that leaves the broadcast uncommitted"
\* (BroadcastDisposition): after any other one it is among the delivered.
RetryOnlyUncommitted == committed \subseteq delivered
=============================================================================
