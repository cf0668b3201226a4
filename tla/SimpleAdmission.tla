-------------------------- MODULE SimpleAdmission --------------------------
(***************************************************************************)
(* Admission of simple overlay broadcasts (adnl/overlay/overlay-adnl.go,   *)
(* processBroadcast; broadcast-fec-relay.go).  Copies of one broadcast     *)
(* arrive from every neighbour, each in a goroutine of its own.  The first *)
(* one owns the admission and asks the application, the second waits for   *)
(* its verdict and takes over when that is "retry", further ones are       *)
(* dropped.  Two-step simple broadcasts are admitted by the same protocol. *)
(*                                                                         *)
(* An admission is named by the goroutine that created it: it is compared  *)
(* by nobody else, and only until that goroutine finishes it.  The verdict *)
(* in a finished admission never changes again, so the one who waits gets  *)
(* it at that moment.                                                      *)
(***************************************************************************)
EXTENDS Naturals, FiniteSets

CONSTANTS
  Handlers,       \* goroutines that receive copies
  Ids,            \* broadcasts
  None,
  MaxAdmissions,  \* DefaultBroadcastMaxConcurrentAdmissions
  SimpleMax,      \* size of the cache of delivered broadcasts
  MaxCopies       \* bound: copies received

ASSUME AdmissionAssumption ==
  /\ None \notin Handlers \cup Ids
  /\ MaxAdmissions \in Nat /\ SimpleMax \in Nat /\ MaxCopies \in Nat

Verdicts == {"accept", "ignore", "retry"}

VARIABLES
  active,      \* BroadcastReceiver.active
  simple,      \* broadcasts delivered and remembered
  admitting,   \* the admission of a broadcast, by its owner
  standby,     \* ... and the copies that wait for it
  pc,          \* where a goroutine is
  id,          \* the broadcast it has a copy of
  verdict,     \* the disposition it has got
  copies       \* copies received so far

vars == <<active, simple, admitting, standby, pc, id, verdict, copies>>

Locations == {"idle", "begin", "wait", "woken", "own", "deliver", "finish", "relay"}
Owning == {"own", "deliver", "finish"}

TypeOK ==
  /\ active \in BOOLEAN /\ simple \subseteq Ids
  /\ admitting \in [Ids -> Handlers \cup {None}] /\ standby \in [Ids -> Nat]
  /\ pc \in [Handlers -> Locations] /\ id \in [Handlers -> Ids \cup {None}]
  /\ verdict \in [Handlers -> Verdicts] /\ copies \in Nat
  /\ \A h \in Handlers : pc[h] # "idle" => id[h] \in Ids

Init ==
  /\ active = TRUE /\ simple = {} /\ copies = 0
  /\ admitting = [i \in Ids |-> None] /\ standby = [i \in Ids |-> 0]
  /\ pc = [h \in Handlers |-> "idle"] /\ id = [h \in Handlers |-> None]
  /\ verdict = [h \in Handlers |-> "retry"]

-----------------------------------------------------------------------------
Goto(h, l) == pc' = [pc EXCEPT ![h] = l]

\* A goroutine that returns.
Return(h) == Goto(h, "idle") /\ id' = [id EXCEPT ![h] = None]

SetActive ==
  /\ active' = ~active
  /\ UNCHANGED <<simple, admitting, standby, pc, id, verdict, copies>>

\* A copy in date and from a known kind of key; an inactive receiver drops it.
Receive(h) ==
  /\ pc[h] = "idle" /\ copies < MaxCopies /\ copies' = copies + 1
  /\ active
  /\ \E i \in Ids : id' = [id EXCEPT ![h] = i]
  /\ Goto(h, "begin")
  /\ UNCHANGED <<active, simple, admitting, standby, verdict>>

Admitted == {i \in Ids : admitting[i] # None}

\* beginSimpleAdmission, with the broadcasts that count as delivered.
BeginBut(h, known) ==
  /\ pc[h] = "begin"
  /\ \/ /\ \/ id[h] \in known
           \/ admitting[id[h]] # None /\ standby[id[h]] > 0
           \/ admitting[id[h]] = None /\ Cardinality(Admitted) >= MaxAdmissions
        /\ Return(h) /\ UNCHANGED <<admitting, standby>>
     \/ /\ id[h] \notin known /\ admitting[id[h]] # None /\ standby[id[h]] = 0
        /\ standby' = [standby EXCEPT ![id[h]] = @ + 1]
        /\ Goto(h, "wait") /\ UNCHANGED <<admitting, id>>
     \/ /\ id[h] \notin known /\ admitting[id[h]] = None
        /\ Cardinality(Admitted) < MaxAdmissions
        /\ admitting' = [admitting EXCEPT ![id[h]] = h]
        /\ standby' = [standby EXCEPT ![id[h]] = 0]
        /\ Goto(h, "own") /\ UNCHANGED id
  /\ UNCHANGED <<active, simple, verdict, copies>>

\* Mutant: a delivered broadcast is not recognised.
BeginAgain(h) == BeginBut(h, {})
Begin(h) == BeginBut(h, simple)

\* The standby reads the verdict of the admission it has waited for.
Wake(h) ==
  /\ pc[h] = "woken"
  /\ IF verdict[h] = "retry" THEN Goto(h, "begin") /\ UNCHANGED id ELSE Return(h)
  /\ UNCHANGED <<active, simple, admitting, standby, verdict, copies>>

\* Source, prechecks, signature and date; a payload that cannot be parsed is
\* ignored for good, everything else that fails leaves "retry".
Check(h) ==
  /\ pc[h] = "own"
  /\ \/ Goto(h, "finish") /\ \E v \in {"retry", "ignore"} : verdict' = [verdict EXCEPT ![h] = v]
     \/ active /\ Goto(h, "deliver") /\ UNCHANGED verdict
  /\ UNCHANGED <<active, simple, admitting, standby, id, copies>>

\* The application decides; an unknown disposition is an error, hence "retry".
Deliver(h) ==
  /\ pc[h] = "deliver" /\ Goto(h, "finish")
  /\ \E v \in Verdicts : verdict' = [verdict EXCEPT ![h] = v]
  /\ UNCHANGED <<active, simple, admitting, standby, id, copies>>

\* registerSimpleDeliveredLocked and trimSimpleDeliveredLocked; the entry used
\* least recently goes, here any other one.
Registered(i) ==
  IF SimpleMax = 0 THEN {simple}
  ELSE IF i \in simple \/ Cardinality(simple) < SimpleMax THEN {simple \cup {i}}
  ELSE {(simple \cup {i}) \ {j} : j \in simple}

\* Mutant: who waits is not woken.
FinishForgetful(h) ==
  /\ pc[h] = "finish"
  /\ admitting' = [admitting EXCEPT ![id[h]] = None]
  /\ simple' \in IF verdict[h] = "retry" THEN {simple} ELSE Registered(id[h])
  /\ UNCHANGED <<standby, verdict>>
  /\ IF verdict[h] = "accept" THEN Goto(h, "relay") /\ UNCHANGED id ELSE Return(h)
  /\ UNCHANGED <<active, copies>>

\* finishSimpleAdmission
Finish(h) ==
  LET i == id[h]
      woken == {w \in Handlers : pc[w] = "wait" /\ id[w] = i}
      after == IF verdict[h] = "accept" THEN "relay" ELSE "idle"
  IN
  /\ pc[h] = "finish"
  /\ IF admitting[i] # h
     THEN UNCHANGED <<simple, admitting, verdict>> /\ Goto(h, after)
     ELSE /\ simple' \in IF verdict[h] = "retry" THEN {simple} ELSE Registered(i)
          /\ admitting' = [admitting EXCEPT ![i] = None]
          /\ verdict' = [w \in Handlers |-> IF w \in woken THEN verdict[h] ELSE verdict[w]]
          /\ pc' = [w \in Handlers |-> IF w = h THEN after
                                       ELSE IF w \in woken THEN "woken" ELSE pc[w]]
  /\ id' = IF after = "idle" THEN [id EXCEPT ![h] = None] ELSE id
  /\ UNCHANGED <<active, standby, copies>>

\* relaySimpleBroadcast hands an accepted broadcast to the relay (RelayScheduler);
\* a receiver that has been switched off meanwhile does not.
Relay(h) ==
  /\ pc[h] = "relay" /\ Return(h)
  /\ UNCHANGED <<active, simple, admitting, standby, verdict, copies>>

Step(h) == Begin(h) \/ Wake(h) \/ Check(h) \/ Deliver(h) \/ Finish(h) \/ Relay(h)

Next == SetActive \/ \E h \in Handlers : Receive(h) \/ Step(h)

Spec == Init /\ [][Next]_vars
Fairness == \A h \in Handlers : WF_vars(Step(h))
FairSpec == Spec /\ Fairness

-----------------------------------------------------------------------------
\* The application is asked about a broadcast by one goroutine at a time, and
\* never about one that is remembered as delivered (beginSimpleAdmission,
\* finishSimpleAdmission): a copy that comes while another is being decided, or
\* in the moment between the verdict and its being recorded, starts nothing.
AskedOnce ==
  \A g \in Handlers : pc[g] \in {"own", "deliver"} =>
    /\ id[g] \notin simple
    /\ \A h \in Handlers : pc[h] \in Owning /\ id[h] = id[g] => h = g

\* Of the copies that arrive during an admission exactly one may park
\* (broadcast_admission_standby_test.go): no two goroutines wait for the same
\* broadcast, and one that waits has an admission to wait for.
OneStandby ==
  \A g \in Handlers : pc[g] = "wait" =>
    /\ admitting[id[g]] # None
    /\ \A h \in Handlers : pc[h] = "wait" /\ id[h] = id[g] => h = g

\* Every copy is done with: the standby is woken whatever way the owner leaves
\* (the deferred finishSimpleAdmission), and may have to start over.
CopiesEnd == \A h \in Handlers : pc[h] = "begin" ~> pc[h] = "idle"
=============================================================================
