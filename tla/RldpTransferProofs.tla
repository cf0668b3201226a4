------------------------- MODULE RldpTransferProofs -------------------------
(***************************************************************************)
(* Proofs about RldpTransfer, for any number of goroutines, parts and      *)
(* symbols and for a network with or without duplication.                  *)
(***************************************************************************)
EXTENDS RldpTransfer, TLAPS

(* The inductive invariant.                                                *)

\* A transfer is registered, or worked on, only once its first part is cut.
Begun ==
  /\ registered => started
  /\ started => currentPart \in Parts
  /\ \A g \in Goroutines : task[g].at # "idle" => currentPart \in Parts

\* What a goroutine carries from one critical section to the next.
Tasked ==
  \A g \in Goroutines :
    /\ task[g].at \in {"unregister", "finish"} => task[g].why \in Outcomes
    /\ task[g].at = "lock" => task[g].part \in Parts

Typed == TypeOK /\ Begun /\ Tasked

\* What is handed over, and what can still be.
Handed ==
  /\ kind = "answer" => delivered <= IF expected THEN 0 ELSE 1
  /\ kind = "query" => ~expected /\ delivered <= drops + (IF finishedAt THEN 1 ELSE 0)
  /\ ~streamOpen => ~finishedAt

\* Everything up to part p is decoded.
DecodedTo(p) == \A q \in Parts : q <= p => q \in decoded

\* While nothing has been handed over or given up, the sender is ahead of the
\* receiver by one part at most, and knows only of parts that are decoded.
InStep ==
  /\ \A p \in cmpNet : DecodedTo(p)
  /\ DecodedTo(currentPart - 1)
  /\ \A g \in Goroutines : task[g].at = "lock" => DecodedTo(task[g].part)
  /\ \A m \in symNet : m[1] <= currentPart
  /\ rec = "send" => recPart <= currentPart
  /\ nextPartIndex <= currentPart + 1
  /\ decoded # Parts /\ ~finishedAt /\ ~cancelled
  /\ kind = "answer" => expected
  /\ \A g \in Goroutines : task[g].at \in {"unregister", "finish"} => task[g].why # "completed"
  /\ outcome # "completed"

Settled == gaveUp \/ delivered > 0
Ahead == Settled \/ InStep

IInv == Typed /\ Accounted /\ Handed /\ Ahead

-----------------------------------------------------------------------------
(* Types                                                                   *)


\* A task is built of its fields.
LEMMA TaskType ==
  ASSUME NEW at \in {"idle", "register", "lock", "fast", "ready", "unregister", "finish"},
         NEW part \in Parts \cup {NoPart}, NEW why \in Outcomes \cup {"none"}
  PROVE  /\ Task(at, part, why) \in Tasks
         /\ Task(at, part, why).at = at /\ Task(at, part, why).part = part
         /\ Task(at, part, why).why = why
BY Zenon DEF Task, Tasks

\* Being idle is a task.
LEMMA IdleType == Idle \in Tasks /\ Idle.at = "idle"
BY TaskType DEF Idle

\* What Do does to the goroutines.
LEMMA DoStep ==
  ASSUME task \in [Goroutines -> Tasks], NEW g \in Goroutines, NEW t \in Tasks, Do(g, t)
  PROVE  /\ task' \in [Goroutines -> Tasks] /\ task'[g] = t
         /\ \A h \in Goroutines : h # g => task'[h] = task[h]
BY DEF Do

\* Initially the fields and locals have their types.
LEMMA TypedInit == Init => Typed
<1> SUFFICES ASSUME Init PROVE Typed
  OBVIOUS
<1>1. task \in [Goroutines -> Tasks] /\ \A g \in Goroutines : task[g].at = "idle"
  BY IdleType DEF Init
<1>2. RegistryOK
  BY Zenon DEF Init, RegistryOK
<1>3. PartsOK
  BY TransferAssumption DEF Init, PartsOK
<1>4. LoopOK /\ NetOK
  <2>1. recPart \in Parts
    BY TransferAssumption DEF Init, Parts
  <2> QED BY <2>1, Zenon DEF Init, LoopOK, NetOK
<1>5. ReceiverOK
  <2>1. nextPartIndex \in 0..(Last + 1) /\ delivered \in Nat /\ drops \in 0..MaxDrops
    BY TransferAssumption DEF Init
  <2>2. expected \in BOOLEAN
    BY DEF Init
  <2> QED BY <2>1, <2>2, Zenon DEF Init, ReceiverOK
<1>6. Begun /\ Tasked
  BY <1>1, Zenon DEF Init, Begun, Tasked
<1> QED BY <1>1, <1>2, <1>3, <1>4, <1>5, <1>6 DEF Typed, TypeOK

\* A step of a goroutine: it takes up t, and only t matters to the invariant.
LEMMA TypedTask ==
  ASSUME Typed, NEW g \in Goroutines, NEW t \in Tasks, Do(g, t),
         started' = started, registered' => registered, currentPart' = currentPart,
         t.at # "idle" => currentPart \in Parts,
         t.at \in {"unregister", "finish"} => t.why \in Outcomes,
         t.at = "lock" => t.part \in Parts
  PROVE  Begun' /\ Tasked' /\ task' \in [Goroutines -> Tasks]
<1>1. /\ task' \in [Goroutines -> Tasks] /\ task'[g] = t
      /\ \A h \in Goroutines : h # g => task'[h] = task[h]
  BY DoStep DEF Typed, TypeOK
<1>2. Begun'
  <2>1. (registered' => started') /\ (started' => currentPart' \in Parts)
    BY DEF Typed, Begun
  <2>2. ASSUME NEW h \in Goroutines, task'[h].at # "idle" PROVE currentPart' \in Parts
    BY <1>1, <2>2 DEF Typed, Begun
  <2> QED BY <2>1, <2>2 DEF Begun, Parts
<1>3. Tasked'
  BY <1>1, Zenon DEF Typed, Tasked
<1> QED BY <1>1, <1>2, <1>3

\* The parts of TypeOK depend on their own variables only.
LEMMA TypeFrame ==
  /\ RegistryOK /\ UNCHANGED registry => RegistryOK'
  /\ PartsOK /\ UNCHANGED partVars => PartsOK'
  /\ LoopOK /\ UNCHANGED loop => LoopOK'
  /\ NetOK /\ UNCHANGED net => NetOK'
  /\ ReceiverOK /\ UNCHANGED receiver => ReceiverOK'
<1>1. RegistryOK /\ UNCHANGED registry => RegistryOK'
  BY DEF RegistryOK, registry, Outcomes
<1>2. PartsOK /\ UNCHANGED partVars => PartsOK'
  BY DEF PartsOK, partVars, Parts, NoPart
<1>3. LoopOK /\ UNCHANGED loop => LoopOK'
  BY DEF LoopOK, loop, Parts
<1>4. NetOK /\ UNCHANGED net => NetOK'
  BY DEF NetOK, net, Parts, Seqnos
<1>5. ReceiverOK /\ UNCHANGED receiver => ReceiverOK'
  BY DEF ReceiverOK, receiver, stream, Parts, Seqnos
<1> QED BY <1>1, <1>2, <1>3, <1>4, <1>5

\* The goroutines' steps keep the types of fields and locals.
LEMMA TypedWork ==
  ASSUME Typed, NEW g \in Goroutines, Work(g)
  PROVE  Typed'
<1>1. CASE Register(g)
  <2>1. LoopOK' /\ NetOK' /\ ReceiverOK' /\ PartsOK'
    BY <1>1, TypeFrame, Zenon DEF Register, Typed, TypeOK, loop, net, receiver, partVars
  <2>2. RegistryOK'
    BY <1>1, Zenon DEF Register, Typed, TypeOK, RegistryOK, Outcomes
  <2>3. currentPart \in Parts /\ currentPart' = currentPart
    BY <1>1, Zenon DEF Register, At, Typed, Begun, partVars
  <2>4. PICK t \in {Task("fast", 0, "none"), Idle} : Do(g, t)
    BY <1>1 DEF Register
  <2>5. 0 \in Parts
    BY TransferAssumption DEF Parts
  <2>6. t \in Tasks /\ t.at \in {"idle", "fast"}
    BY <2>4, <2>5, TaskType, IdleType
  <2>7. /\ task' \in [Goroutines -> Tasks] /\ task'[g] = t
        /\ \A h \in Goroutines : h # g => task'[h] = task[h]
    BY <2>4, <2>6, DoStep, Zenon DEF Typed, TypeOK
  <2>8. registered' => started'
    <3>1. (registered' = TRUE /\ started' = TRUE) \/ (registered' = registered /\ started' = started)
      BY <1>1, Zenon DEF Register
    <3>2. registered => started
      BY DEF Typed, Begun
    <3>3. CASE registered' = registered /\ started' = started
      BY <3>2, <3>3
    <3>4. CASE started' = TRUE
      BY <3>4
    <3> QED BY <3>1, <3>3, <3>4, Zenon
  <2>9. Begun'
    BY <2>3, <2>8, Zenon DEF Begun, Parts
  <2>10. Tasked'
    BY <2>6, <2>7, Zenon DEF Typed, Tasked, Parts, Outcomes
  <2> QED BY <2>1, <2>2, <2>7, <2>9, <2>10 DEF Typed, TypeOK, Tasks, Parts, NoPart, Outcomes
<1>2. CASE SendFastSymbols(g)
  <2>1. RegistryOK' /\ LoopOK' /\ ReceiverOK'
    BY <1>2, TypeFrame, Zenon DEF SendFastSymbols, Typed, TypeOK
  <2>2. currentPart \in Parts /\ currentPart' = currentPart
    BY <1>2, Zenon DEF SendFastSymbols, At, Typed, Begun
  <2>3. PICK t \in {Task("ready", currentPart, "none"), Task("unregister", currentPart, "failed")} : Do(g, t)
    BY <1>2, Zenon DEF SendFastSymbols
  <2>4. t \in Tasks /\ (t.at = "unregister" => t.why = "failed") /\ t.at \notin {"finish", "lock", "idle"}
    BY <2>2, <2>3, TaskType DEF Outcomes
  <2>5. Begun' /\ Tasked' /\ task' \in [Goroutines -> Tasks]
    BY <1>2, <2>2, <2>3, <2>4, TypedTask, Zenon DEF SendFastSymbols, registry, Outcomes
  <2>6. PartsOK'
    <3>1. PICK b \in 0..Burst : seqno' \in {seqno, [seqno EXCEPT ![currentPart] = b]}
      BY <1>2, Zenon DEF SendFastSymbols
    <3>2. b \in 0..(MaxSeqno + 1)
      BY <3>1, TransferAssumption
    <3>3. seqno' \in [Parts -> 0..(MaxSeqno + 1)]
      BY <3>1, <3>2, Zenon DEF Typed, TypeOK, PartsOK
    <3> QED BY <1>2, <3>3 DEF SendFastSymbols, Typed, TypeOK, PartsOK, Parts, NoPart
  <2>7. NetOK'
    BY <1>2, <2>2 DEF SendFastSymbols, Typed, TypeOK, NetOK, Parts, Seqnos
  <2> QED BY <2>1, <2>5, <2>6, <2>7 DEF Typed, TypeOK, Tasks, Parts, NoPart, Outcomes
<1>3. CASE MarkReady(g)
  <2>1. RegistryOK' /\ NetOK' /\ ReceiverOK'
    BY <1>3, TypeFrame, Zenon DEF MarkReady, Typed, TypeOK
  <2>2. Begun' /\ Tasked' /\ task' \in [Goroutines -> Tasks]
    BY <1>3, IdleType, TypedTask, Zenon DEF MarkReady, registry
  <2>3. PartsOK'
    BY <1>3, Zenon DEF MarkReady, Typed, TypeOK, PartsOK, Parts, NoPart
  <2>4. LoopOK'
    BY <1>3, Zenon DEF MarkReady, Typed, TypeOK, LoopOK, Parts
  <2> QED BY <2>1, <2>2, <2>3, <2>4 DEF Typed, TypeOK, Tasks, Parts, NoPart, Outcomes
<1>4. CASE Advance(g)
  <2>1. RegistryOK' /\ LoopOK' /\ NetOK' /\ ReceiverOK'
    BY <1>4, TypeFrame, Zenon DEF Advance, Typed, TypeOK
  <2>2. task[g].part \in Parts /\ currentPart \in Parts
    BY <1>4, Zenon DEF Advance, At, Typed, Begun, Tasked
  <2>3. currentPart' \in Parts
    BY <1>4, <2>2, TransferAssumption DEF Advance, Parts
  <2>4. PartsOK'
    BY <1>4, <2>3, Zenon DEF Advance, Typed, TypeOK, PartsOK, Parts, NoPart
  <2>5. PICK t \in {Idle, Task("unregister", task[g].part, "timedout"), Task("unregister", task[g].part, "completed"),
                    Task("unregister", task[g].part, "failed"), Task("fast", currentPart', "none")} : Do(g, t)
    BY <1>4, Zenon DEF Advance
  <2>6. /\ t \in Tasks /\ t.at \in {"idle", "unregister", "fast"}
        /\ t.at = "unregister" => t.why \in Outcomes
    BY <2>2, <2>3, <2>5, TaskType, IdleType DEF Outcomes
  <2>7. /\ task' \in [Goroutines -> Tasks] /\ task'[g] = t
        /\ \A h \in Goroutines : h # g => task'[h] = task[h]
    BY <2>5, <2>6, DoStep, Zenon DEF Typed, TypeOK
  <2>8. Begun'
    BY <1>4, <2>3, Zenon DEF Advance, registry, Typed, Begun, Parts
  <2>9. Tasked'
    BY <2>6, <2>7, Zenon DEF Typed, Tasked, Parts, Outcomes
  <2> QED BY <2>1, <2>4, <2>7, <2>8, <2>9 DEF Typed, TypeOK, Tasks, Parts, NoPart, Outcomes
<1>5. CASE Unregister(g)
  <2>1. LoopOK' /\ NetOK' /\ ReceiverOK' /\ PartsOK'
    BY <1>5, TypeFrame DEF Unregister, Typed, TypeOK
  <2>2. RegistryOK'
    BY <1>5, Zenon DEF Unregister, Typed, TypeOK, RegistryOK, Outcomes
  <2>3. task[g] \in Tasks /\ task[g].why \in Outcomes /\ currentPart \in Parts
    BY <1>5 DEF Unregister, At, Typed, TypeOK, Tasked, Begun
  <2>4. [task[g] EXCEPT !.at = "finish"] \in Tasks /\ [task[g] EXCEPT !.at = "finish"].at = "finish"
        /\ [task[g] EXCEPT !.at = "finish"].why = task[g].why
    BY <2>3 DEF Tasks
  <2>5. Begun' /\ Tasked' /\ task' \in [Goroutines -> Tasks]
    BY <1>5, <2>3, <2>4, TypedTask, Zenon DEF Unregister, partVars
  <2> QED BY <2>1, <2>2, <2>5 DEF Typed, TypeOK, Tasks, Parts, NoPart, Outcomes
<1>6. CASE FinishOutboundTransfer(g)
  <2>1. LoopOK' /\ NetOK' /\ ReceiverOK' /\ PartsOK'
    BY <1>6, TypeFrame, Zenon DEF FinishOutboundTransfer, Typed, TypeOK
  <2>2. task[g].why \in Outcomes
    BY <1>6, Zenon DEF FinishOutboundTransfer, At, Typed, Tasked
  <2>3. RegistryOK'
    BY <1>6, <2>2 DEF FinishOutboundTransfer, Finish, Terminal, Typed, TypeOK, RegistryOK, Outcomes
  <2>4. Begun' /\ Tasked' /\ task' \in [Goroutines -> Tasks]
    BY <1>6, IdleType, TypedTask, Zenon DEF FinishOutboundTransfer, partVars
  <2> QED BY <2>1, <2>3, <2>4 DEF Typed, TypeOK, Tasks, Parts, NoPart, Outcomes
<1> QED BY <1>1, <1>2, <1>3, <1>4, <1>5, <1>6 DEF Work

\* So do the calls.
LEMMA TypedCall ==
  ASSUME Typed, NEW g \in Goroutines, Call(g)
  PROVE  Typed'
<1>1. CASE StartTransfer(g)
  <2>1. RegistryOK' /\ LoopOK' /\ NetOK' /\ ReceiverOK'
    BY <1>1, TypeFrame, Zenon DEF StartTransfer, Typed, TypeOK
  <2>2. 0 \in Parts
    BY TransferAssumption DEF Parts
  <2>3. PartsOK' /\ currentPart' \in Parts
    BY <1>1, <2>2, Zenon DEF StartTransfer, Typed, TypeOK, PartsOK, Parts, NoPart
  <2>4. /\ task' \in [Goroutines -> Tasks] /\ task'[g].at = "register"
        /\ \A h \in Goroutines : h # g => task'[h] = task[h]
    BY <1>1, <2>2, TaskType, DoStep DEF StartTransfer, Typed, TypeOK
  <2>5. Begun'
    BY <1>1, <2>3, Zenon DEF StartTransfer, registry, Typed, Begun, Parts
  <2>6. Tasked'
    BY <2>4, Zenon DEF Typed, Tasked, Parts, Outcomes
  <2> QED BY <2>1, <2>3, <2>4, <2>5, <2>6 DEF Typed, TypeOK, Tasks, Parts, NoPart, Outcomes
<1>2. CASE EndRequest(g)
  <2>1. LoopOK' /\ NetOK' /\ ReceiverOK' /\ PartsOK'
    BY <1>2, TypeFrame, Zenon DEF EndRequest, Typed, TypeOK
  <2>2. RegistryOK'
    BY <1>2, Zenon DEF EndRequest, Typed, TypeOK, RegistryOK, Outcomes
  <2>3. currentPart \in Parts
    BY <1>2, Zenon DEF EndRequest, Typed, Begun
  <2>4. PICK why \in {"completed", "timedout", "canceled"} : Do(g, Task("finish", NoPart, why))
    BY <1>2, Zenon DEF EndRequest
  <2>5. Task("finish", NoPart, why) \in Tasks /\ Task("finish", NoPart, why).at = "finish"
        /\ Task("finish", NoPart, why).why \in Outcomes
    BY TaskType DEF Outcomes
  <2>6. Begun' /\ Tasked' /\ task' \in [Goroutines -> Tasks]
    BY <1>2, <2>3, <2>4, <2>5, TypedTask, Zenon DEF EndRequest, partVars
  <2> QED BY <2>1, <2>2, <2>6 DEF Typed, TypeOK, Tasks, Parts, NoPart, Outcomes
<1>3. CASE CloseState(g)
  <2>1. LoopOK' /\ NetOK' /\ ReceiverOK' /\ PartsOK'
    BY <1>3, TypeFrame, Zenon DEF CloseState, Typed, TypeOK
  <2>2. RegistryOK'
    BY <1>3, Zenon DEF CloseState, Typed, TypeOK, RegistryOK, Outcomes
  <2>3. registered => currentPart \in Parts
    BY Zenon DEF Typed, Begun
  <2> DEFINE t == IF registered THEN Task("finish", NoPart, "canceled") ELSE Idle
  <2>4. t \in Tasks /\ t.at # "lock" /\ (t.at # "idle" => registered)
        /\ (t.at \in {"unregister", "finish"} => t.why \in Outcomes)
    BY TaskType, IdleType DEF Outcomes
  <2>5. Do(g, t) /\ started' = started /\ (registered' => registered) /\ currentPart' = currentPart
    BY <1>3, Zenon DEF CloseState, partVars
  <2> HIDE DEF t
  <2>6. Begun' /\ Tasked' /\ task' \in [Goroutines -> Tasks]
    BY <2>3, <2>4, <2>5, TypedTask, Zenon
  <2> QED BY <2>1, <2>2, <2>6 DEF Typed, TypeOK, Tasks, Parts, NoPart, Outcomes
<1>4. ASSUME NEW p \in Parts, HandleComplete(g, p) PROVE Typed'
  <2>1. RegistryOK' /\ LoopOK' /\ ReceiverOK' /\ PartsOK'
    BY <1>4, TypeFrame, Zenon DEF HandleComplete, Typed, TypeOK
  <2>2. NetOK'
    BY <1>4, Zenon DEF HandleComplete, Without, Typed, TypeOK, NetOK, Parts, Seqnos
  <2>3. Task("lock", p, "none") \in Tasks /\ Task("lock", p, "none").at = "lock"
        /\ Task("lock", p, "none").part = p
    BY TaskType
  <2>4. currentPart \in Parts
    BY <1>4, Zenon DEF HandleComplete, Typed, Begun
  <2>5. Begun' /\ Tasked' /\ task' \in [Goroutines -> Tasks]
    BY <1>4, <2>3, <2>4, TypedTask, Zenon DEF HandleComplete, partVars, registry
  <2> QED BY <2>1, <2>2, <2>5 DEF Typed, TypeOK, Tasks, Parts, NoPart, Outcomes
<1> QED BY <1>1, <1>2, <1>3, <1>4 DEF Call

\* A step that moves no goroutine and leaves the registry's story alone.
LEMMA TypedQuiet ==
  ASSUME Typed, task' = task, started' = started, currentPart' = currentPart,
         registered' => registered
  PROVE  Begun' /\ Tasked' /\ task' \in [Goroutines -> Tasks]
<1>1. Begun'
  BY Zenon DEF Typed, Begun, Parts
<1>2. Tasked'
  BY Zenon DEF Typed, Tasked, Parts, Outcomes
<1> QED BY <1>1, <1>2 DEF Typed, TypeOK

\* The recovery loop and the clock.
LEMMA TypedRecovery ==
  ASSUME Typed, Recovery \/ PassDeadline
  PROVE  Typed'
<1>1. CASE Awake
  <2>1. RegistryOK' /\ PartsOK' /\ NetOK' /\ ReceiverOK'
    BY <1>1, TypeFrame, Zenon DEF Awake, Typed, TypeOK
  <2>2. LoopOK'
    BY <1>1, Zenon DEF Awake, Typed, TypeOK, LoopOK, Parts
  <2>3. Begun' /\ Tasked' /\ task' \in [Goroutines -> Tasks]
    BY <1>1, TypedQuiet, Zenon DEF Awake, registry, partVars
  <2> QED BY <2>1, <2>2, <2>3 DEF Typed, TypeOK, Tasks, Parts, NoPart, Outcomes
<1>2. CASE RecoveryTick
  <2>1. RegistryOK' /\ PartsOK' /\ NetOK' /\ ReceiverOK'
    BY <1>2, TypeFrame, Zenon DEF RecoveryTick, Typed, TypeOK
  <2>2. registered => currentPart \in Parts
    BY Zenon DEF Typed, Begun
  <2>3. recPart' \in Parts
    BY <1>2, <2>2, Zenon DEF RecoveryTick, Typed, TypeOK, LoopOK
  <2>4. LoopOK'
    BY <1>2, <2>3, Zenon DEF RecoveryTick, Typed, TypeOK, LoopOK, RegistryOK, Parts
  <2>5. Begun' /\ Tasked' /\ task' \in [Goroutines -> Tasks]
    BY <1>2, TypedQuiet, Zenon DEF RecoveryTick, registry, partVars
  <2> QED BY <2>1, <2>4, <2>5 DEF Typed, TypeOK, Tasks, Parts, NoPart, Outcomes
<1>3. CASE TimeOut
  <2>1. PartsOK' /\ NetOK' /\ ReceiverOK'
    BY <1>3, TypeFrame, Zenon DEF TimeOut, Typed, TypeOK
  <2>2. RegistryOK'
    <3>1. outcome' \in Outcomes \cup {"none"} /\ finishes' \in Nat
      BY <1>3 DEF TimeOut, Finish, Terminal, Typed, TypeOK, RegistryOK, Outcomes
    <3>2. registered' \in BOOLEAN
      BY <1>3, Zenon DEF TimeOut, Typed, TypeOK, RegistryOK
    <3> QED BY <1>3, <3>1, <3>2 DEF TimeOut, Typed, TypeOK, RegistryOK, Outcomes
  <2>3. LoopOK'
    BY <1>3, Zenon DEF TimeOut, Typed, TypeOK, LoopOK, Parts
  <2>4. Begun' /\ Tasked' /\ task' \in [Goroutines -> Tasks]
    BY <1>3, TypedQuiet, Zenon DEF TimeOut, partVars
  <2> QED BY <2>1, <2>2, <2>3, <2>4 DEF Typed, TypeOK, Tasks, Parts, NoPart, Outcomes
<1>4. CASE Resend
  <2>1. RegistryOK' /\ ReceiverOK'
    BY <1>4, TypeFrame, Zenon DEF Resend, Typed, TypeOK
  <2>2. recPart \in Parts /\ seqno[recPart] \in 0..(MaxSeqno + 1)
    BY Zenon DEF Typed, TypeOK, LoopOK, PartsOK
  <2>3. /\ Lesser(seqno[recPart], MaxSeqno) \in Seqnos
        /\ Lesser(seqno[recPart] + 1, MaxSeqno + 1) \in 0..(MaxSeqno + 1)
    BY <2>2, TransferAssumption DEF Lesser, Seqnos
  <2>4. PartsOK'
    BY <1>4, <2>2, <2>3, Zenon DEF Resend, Typed, TypeOK, PartsOK, Parts, NoPart
  <2>5. NetOK'
    BY <1>4, <2>2, <2>3 DEF Resend, Typed, TypeOK, NetOK, Parts, Seqnos
  <2>6. LoopOK'
    BY <1>4, TransferAssumption DEF Resend, Typed, TypeOK, LoopOK, Parts
  <2>7. Begun' /\ Tasked' /\ task' \in [Goroutines -> Tasks]
    BY <1>4, TypedQuiet, Zenon DEF Resend, registry
  <2> QED BY <2>1, <2>4, <2>5, <2>6, <2>7 DEF Typed, TypeOK, Tasks, Parts, NoPart, Outcomes
<1>5. CASE RecoveryExit
  <2>1. RegistryOK' /\ PartsOK' /\ NetOK' /\ ReceiverOK'
    BY <1>5, TypeFrame, Zenon DEF RecoveryExit, Typed, TypeOK
  <2>2. LoopOK'
    BY <1>5, Zenon DEF RecoveryExit, Typed, TypeOK, LoopOK, Parts
  <2>3. Begun' /\ Tasked' /\ task' \in [Goroutines -> Tasks]
    BY <1>5, TypedQuiet, Zenon DEF RecoveryExit, registry, partVars
  <2> QED BY <2>1, <2>2, <2>3 DEF Typed, TypeOK, Tasks, Parts, NoPart, Outcomes
<1>6. CASE PassDeadline
  <2>1. LoopOK' /\ PartsOK' /\ NetOK' /\ ReceiverOK'
    BY <1>6, TypeFrame, Zenon DEF PassDeadline, Typed, TypeOK
  <2>2. RegistryOK'
    BY <1>6, Zenon DEF PassDeadline, Typed, TypeOK, RegistryOK, Outcomes
  <2>3. Begun' /\ Tasked' /\ task' \in [Goroutines -> Tasks]
    BY <1>6, TypedQuiet, Zenon DEF PassDeadline, partVars
  <2> QED BY <2>1, <2>2, <2>3 DEF Typed, TypeOK, Tasks, Parts, NoPart, Outcomes
<1> QED BY <1>1, <1>2, <1>3, <1>4, <1>5, <1>6 DEF Recovery

\* The receiver and the network do not touch the sender.
LEMMA TypedSenderFrame ==
  ASSUME Typed, UNCHANGED sender
  PROVE  RegistryOK' /\ PartsOK' /\ LoopOK' /\ Begun' /\ Tasked' /\ task' \in [Goroutines -> Tasks]
<1>1. UNCHANGED registry /\ UNCHANGED partVars /\ UNCHANGED loop /\ task' = task
  BY Zenon DEF sender
<1>2. RegistryOK' /\ PartsOK' /\ LoopOK'
  BY <1>1, TypeFrame, Zenon DEF Typed, TypeOK
<1>3. Begun' /\ Tasked' /\ task' \in [Goroutines -> Tasks]
  BY <1>1, TypedQuiet, Zenon DEF registry, partVars
<1> QED BY <1>2, <1>3

\* Receiving a symbol, tidying up and losing messages keep the types.
LEMMA TypedReceiver ==
  ASSUME Typed,
         Tidy \/ Loss \/ \E p \in Parts, s \in Seqnos : Receive(p, s)
  PROVE  Typed'
<1>1. SUFFICES UNCHANGED sender /\ NetOK' /\ ReceiverOK'
  BY TypedSenderFrame, Zenon DEF Typed, TypeOK, Tasks, Parts, NoPart, Outcomes
<1> USE DEF Typed, TypeOK
<1>2. CASE Loss
  <2>1. UNCHANGED receiver /\ UNCHANGED sender
    BY <1>2, Zenon DEF Loss, LoseSymbol, LoseComplete
  <2>2. NetOK'
    BY <1>2, Zenon DEF Loss, LoseSymbol, LoseComplete, NetOK, Parts, Seqnos
  <2> QED BY <2>1, <2>2, TypeFrame
<1>3. CASE ExpireStream
  <2>1. NetOK' /\ UNCHANGED sender
    BY <1>3, TypeFrame, Zenon DEF ExpireStream
  <2>2. ReceiverOK'
    <3>1. nextPartIndex' \in 0..(Last + 1) /\ drops' \in 0..MaxDrops /\ delivered' \in Nat
      BY <1>3, TransferAssumption DEF ExpireStream, ForgetStream, ReceiverOK
    <3>2. symbols' \in [Parts -> SUBSET Seqnos] /\ decoded' \subseteq Parts
      BY <1>3, Zenon DEF ExpireStream, ForgetStream
    <3>3. /\ streamOpen' \in BOOLEAN /\ finishedAt' \in BOOLEAN /\ throttled' \in BOOLEAN
          /\ expected' \in BOOLEAN /\ cancelled' \in BOOLEAN /\ gaveUp' \in BOOLEAN
      BY <1>3, Zenon DEF ExpireStream, ForgetStream, ReceiverOK
    <3> QED BY <3>1, <3>2, <3>3 DEF ReceiverOK, Parts, Seqnos
  <2> QED BY <2>1, <2>2
<1>4. CASE CancelQuery
  <2>1. NetOK' /\ UNCHANGED sender
    BY <1>4, TypeFrame, Zenon DEF CancelQuery
  <2>2. ReceiverOK'
    <3>1. nextPartIndex' \in 0..(Last + 1) /\ drops' \in 0..MaxDrops /\ delivered' \in Nat
      BY <1>4, TransferAssumption DEF CancelQuery, ForgetStream, ReceiverOK
    <3>2. symbols' \in [Parts -> SUBSET Seqnos] /\ decoded' \subseteq Parts
      BY <1>4, Zenon DEF CancelQuery, ForgetStream
    <3>3. /\ streamOpen' \in BOOLEAN /\ finishedAt' \in BOOLEAN /\ throttled' \in BOOLEAN
          /\ expected' \in BOOLEAN /\ cancelled' \in BOOLEAN /\ gaveUp' \in BOOLEAN
      BY <1>4, Zenon DEF CancelQuery, ForgetStream, ReceiverOK
    <3> QED BY <3>1, <3>2, <3>3 DEF ReceiverOK, Parts, Seqnos
  <2> QED BY <2>1, <2>2
<1>5. CASE ForgetCancelled
  <2>1. NetOK' /\ UNCHANGED sender
    BY <1>5, TypeFrame, Zenon DEF ForgetCancelled
  <2>2. ReceiverOK'
    BY <1>5, Zenon DEF ForgetCancelled, stream, ReceiverOK, Parts, Seqnos
  <2> QED BY <2>1, <2>2
<1>6. CASE Breathe
  <2>1. NetOK' /\ UNCHANGED sender
    BY <1>6, TypeFrame, Zenon DEF Breathe
  <2>2. ReceiverOK'
    BY <1>6, Zenon DEF Breathe, ReceiverOK, Parts, Seqnos
  <2> QED BY <2>1, <2>2
<1>7. ASSUME NEW p \in Parts, NEW s \in Seqnos, ReplyCancelled(p, s) \/ ReplyFinished(p, s)
      PROVE  UNCHANGED sender /\ NetOK' /\ ReceiverOK'
  <2>1. NetOK' /\ UNCHANGED sender
    BY <1>7, Zenon DEF ReplyCancelled, ReplyFinished, SayComplete, Without, NetOK, Parts, Seqnos
  <2>2. ReceiverOK'
    BY <1>7, Zenon DEF ReplyCancelled, ReplyFinished, SayComplete, ReceiverOK, Parts, Seqnos
  <2> QED BY <2>1, <2>2
<1>8. ASSUME NEW p \in Parts, NEW s \in Seqnos, AddSymbol(p, s)
      PROVE  UNCHANGED sender /\ NetOK' /\ ReceiverOK'
  <2>1. NetOK' /\ UNCHANGED sender
    BY <1>8, Zenon DEF AddSymbol, Decode, Without, NetOK, Parts, Seqnos
  <2>2. delivered' \in Nat /\ expected' \in BOOLEAN /\ cancelled' \in BOOLEAN
    <3>1. Deliver \/ UNCHANGED <<delivered, expected, cancelled>>
      BY <1>8, Zenon DEF AddSymbol, Decode, Reject
    <3>2. delivered' \in Nat
      BY <3>1 DEF Deliver, ReceiverOK
    <3>3. expected' \in BOOLEAN /\ cancelled' \in BOOLEAN
      BY <3>1, Zenon DEF Deliver, ReceiverOK
    <3> QED BY <3>2, <3>3
  <2>3. nextPartIndex' \in 0..(Last + 1)
    BY <1>8, TransferAssumption DEF AddSymbol, ReceiverOK, Parts
  <2>4. symbols' \in [Parts -> SUBSET Seqnos] /\ decoded' \subseteq Parts
    BY <1>8, Zenon DEF AddSymbol, Decode, ReceiverOK
  <2>5. finishedAt' \in BOOLEAN /\ throttled' \in BOOLEAN
    BY <1>8, Zenon DEF AddSymbol, Decode, ReceiverOK
  <2>6. streamOpen' = TRUE /\ drops' = drops
    BY <1>8, Zenon DEF AddSymbol
  <2>7. gaveUp' \in BOOLEAN
    BY <1>8, Zenon DEF AddSymbol, Decode, Deliver, Reject, ReceiverOK
  <2> QED BY <2>1, <2>2, <2>3, <2>4, <2>5, <2>6, <2>7 DEF ReceiverOK, Parts, Seqnos
<1> QED BY <1>2, <1>3, <1>4, <1>5, <1>6, <1>7, <1>8 DEF Tidy, Receive

\* Every step keeps the types.
LEMMA TypedStep == Typed /\ [Next]_vars => Typed'
<1> SUFFICES ASSUME Typed, [Next]_vars PROVE Typed'
  OBVIOUS
<1>1. CASE UNCHANGED vars
  <2>1. UNCHANGED sender /\ UNCHANGED net /\ UNCHANGED receiver
    BY <1>1, Zenon DEF vars
  <2>2. NetOK' /\ ReceiverOK'
    BY <2>1, TypeFrame, Zenon DEF Typed, TypeOK
  <2> QED BY <2>1, <2>2, TypedSenderFrame DEF Typed, TypeOK, Tasks, Parts, NoPart, Outcomes
<1> QED BY <1>1, TypedWork, TypedCall, TypedRecovery, TypedReceiver DEF Next, Protocol

-----------------------------------------------------------------------------
(* Accounting                                                              *)

\* A goroutine that has something else to do than to finish takes up t.
LEMMA OtherTask ==
  ASSUME Typed, NEW g \in Goroutines, NEW t, Do(g, t), task[g].at # "finish"
  PROVE  \A h \in Goroutines : task[h].at = "finish" => task'[h].at = "finish"
BY Zenon DEF Do, Typed, TypeOK

\* Steps that neither end a transfer nor take it out of the map.
LEMMA AccountedFrame ==
  ASSUME Accounted, outcome' = outcome, finishes' = finishes, started' = started,
         registered' = registered,
         \A h \in Goroutines : task[h].at = "finish" => task'[h].at = "finish"
  PROVE  Accounted'
BY Zenon DEF Accounted, AccountedOnce, NoSilentDrop, Terminal, At

\* An outcome is counted exactly once and no transfer is dropped silently.
LEMMA AccountedStep == Typed /\ Accounted /\ [Next]_vars => Accounted'
<1> SUFFICES ASSUME Typed, Accounted, [Next]_vars PROVE Accounted'
  OBVIOUS
<1> USE DEF At
<1>1. ASSUME NEW g \in Goroutines, Work(g) PROVE Accounted'
  <2>1. CASE Register(g)
    <3>1. \A h \in Goroutines : task[h].at = "finish" => task'[h].at = "finish"
      BY <2>1, OtherTask, Zenon DEF Register
    <3>2. outcome' = outcome /\ finishes' = finishes
          /\ ((registered' = registered /\ started' = started) \/ registered' = TRUE)
      BY <2>1, Zenon DEF Register
    <3>3. CASE registered' = TRUE
      BY <3>1, <3>2, <3>3, Zenon DEF Accounted, AccountedOnce, NoSilentDrop, Terminal
    <3> QED BY <3>1, <3>2, <3>3, AccountedFrame, Zenon
  <2>2. CASE SendFastSymbols(g) \/ MarkReady(g) \/ Advance(g)
    <3>1. \A h \in Goroutines : task[h].at = "finish" => task'[h].at = "finish"
      BY <2>2, OtherTask, Zenon DEF SendFastSymbols, MarkReady, Advance
    <3>2. UNCHANGED registry
      BY <2>2, Zenon DEF SendFastSymbols, MarkReady, Advance
    <3> QED BY <3>1, <3>2, AccountedFrame DEF registry
  <2>3. CASE Unregister(g)
    <3>1. task'[g].at = "finish"
      BY <2>3 DEF Unregister, Do, Typed, TypeOK, Tasks
    <3> QED BY <2>3, <3>1 DEF Unregister, Accounted, AccountedOnce, NoSilentDrop, Terminal
  <2>4. CASE FinishOutboundTransfer(g)
    <3>1. task[g].why # "none" /\ finishes \in Nat
      BY <2>4, Zenon DEF FinishOutboundTransfer, Typed, Tasked, TypeOK, RegistryOK, Outcomes
    <3>2. Terminal' /\ AccountedOnce'
      BY <2>4, <3>1 DEF FinishOutboundTransfer, Finish, Terminal, Accounted, AccountedOnce
    <3> QED BY <3>2 DEF Accounted, NoSilentDrop
  <2> QED BY <1>1, <2>1, <2>2, <2>3, <2>4 DEF Work
<1>2. ASSUME NEW g \in Goroutines, Call(g) PROVE Accounted'
  <2>1. CASE StartTransfer(g) \/ \E p \in Parts : HandleComplete(g, p)
    <3>1. \A h \in Goroutines : task[h].at = "finish" => task'[h].at = "finish"
      BY <2>1, OtherTask, Zenon DEF StartTransfer, HandleComplete
    <3>2. UNCHANGED registry
      BY <2>1, Zenon DEF StartTransfer, HandleComplete
    <3> QED BY <3>1, <3>2, AccountedFrame DEF registry
  <2>2. CASE EndRequest(g)
    <3>1. PICK why \in Outcomes : Do(g, Task("finish", NoPart, why))
      BY <2>2, Zenon DEF EndRequest, Outcomes
    <3>2. task'[g].at = "finish"
      BY <3>1, Zenon DEF Do, Task, Typed, TypeOK
    <3> QED BY <2>2, <3>2 DEF EndRequest, Accounted, AccountedOnce, NoSilentDrop, Terminal
  <2>3. CASE CloseState(g)
    <3>1. CASE registered
      <4>1. task'[g].at = "finish"
        BY <2>3, <3>1, Zenon DEF CloseState, Do, Task, Typed, TypeOK
      <4> QED BY <2>3, <4>1 DEF CloseState, Accounted, AccountedOnce, NoSilentDrop, Terminal
    <3>2. CASE ~registered
      <4>1. \A h \in Goroutines : task[h].at = "finish" => task'[h].at = "finish"
        BY <2>3, OtherTask, Zenon DEF CloseState
      <4> QED BY <2>3, <3>2, <4>1 DEF CloseState, Accounted, AccountedOnce, NoSilentDrop, Terminal
    <3> QED BY <3>1, <3>2
  <2> QED BY <1>2, <2>1, <2>2, <2>3 DEF Call
<1>3. CASE TimeOut
  <2>1. CASE registered
    <3>1. finishes \in Nat
      BY Zenon DEF Typed, TypeOK, RegistryOK
    <3>2. Terminal' /\ AccountedOnce'
      BY <1>3, <2>1, <3>1 DEF TimeOut, Finish, Terminal, Accounted, AccountedOnce
    <3> QED BY <3>2 DEF Accounted, NoSilentDrop
  <2>2. CASE ~registered
    BY <1>3, <2>2, AccountedFrame, Zenon DEF TimeOut
  <2> QED BY <2>1, <2>2
<1>4. CASE Awake \/ RecoveryTick \/ Resend \/ RecoveryExit \/ PassDeadline
  <2>1. task' = task /\ outcome' = outcome /\ finishes' = finishes /\ started' = started
        /\ registered' = registered
    BY <1>4, Zenon DEF Awake, RecoveryTick, Resend, RecoveryExit, PassDeadline, registry
  <2> QED BY <2>1, AccountedFrame
<1>5. CASE UNCHANGED sender
  BY <1>5, AccountedFrame, Zenon DEF sender, registry
<1>6. CASE Tidy \/ Loss \/ \E p \in Parts, s \in Seqnos : Receive(p, s)
  <2>1. UNCHANGED sender
    BY <1>6, Zenon DEF Tidy, ExpireStream, CancelQuery, ForgetCancelled, Breathe, Loss, LoseSymbol, LoseComplete,
                Receive, ReplyCancelled, ReplyFinished, AddSymbol
  <2> QED BY <2>1, <1>5
<1>7. CASE UNCHANGED vars
  BY <1>5, <1>7, Zenon DEF vars
<1> QED BY <1>1, <1>2, <1>3, <1>4, <1>6, <1>7 DEF Next, Protocol, Recovery

-----------------------------------------------------------------------------
(* Delivery                                                                *)

\* The sender's steps leave the receiver and the kind of transfer alone.
LEMMA SenderStep ==
  ASSUME \/ \E g \in Goroutines : Work(g) \/ Call(g)
         \/ Recovery \/ PassDeadline
  PROVE  UNCHANGED receiver /\ kind' = kind
<1>1. ASSUME NEW g \in Goroutines, Work(g) PROVE UNCHANGED receiver /\ kind' = kind
  BY <1>1, Zenon DEF Work, Register, SendFastSymbols, MarkReady, Advance, Unregister, FinishOutboundTransfer, registry
<1>2. ASSUME NEW g \in Goroutines, Call(g) PROVE UNCHANGED receiver /\ kind' = kind
  BY <1>2, Zenon DEF Call, StartTransfer, HandleComplete, EndRequest, CloseState, registry
<1>3. CASE Recovery \/ PassDeadline
  BY <1>3, Zenon DEF Recovery, Awake, RecoveryTick, TimeOut, Resend, RecoveryExit, PassDeadline, registry
<1> QED BY <1>1, <1>2, <1>3

\* The other steps leave the sender alone.
LEMMA ReceiverStep ==
  ASSUME Tidy \/ Loss \/ \E p \in Parts, s \in Seqnos : Receive(p, s)
  PROVE  UNCHANGED sender
BY Zenon DEF Tidy, ExpireStream, CancelQuery, ForgetCancelled, Breathe, Loss, LoseSymbol, LoseComplete,
       Receive, ReplyCancelled, ReplyFinished, AddSymbol

\* Only a symbol that completes the data hands it over, and only a stream that
\* had not done so yet.
LEMMA HandedStep == Typed /\ Handed /\ [Next]_vars => Handed'
<1> SUFFICES ASSUME Typed, Handed, [Next]_vars PROVE Handed'
  OBVIOUS
<1>0. /\ delivered \in Nat /\ drops \in Nat /\ expected \in BOOLEAN /\ finishedAt \in BOOLEAN
      /\ streamOpen \in BOOLEAN /\ kind \in {"query", "answer"}
  BY TransferAssumption DEF Typed, TypeOK, ReceiverOK, RegistryOK
<1>1. ASSUME UNCHANGED <<kind, delivered, drops, expected, finishedAt, streamOpen>> PROVE Handed'
  BY <1>1, Zenon DEF Handed
<1>2. CASE \/ \E g \in Goroutines : Work(g) \/ Call(g)
           \/ Recovery \/ PassDeadline
  BY <1>1, <1>2, SenderStep, Zenon DEF receiver, stream
<1>3. CASE UNCHANGED vars
  BY <1>1, <1>3, Zenon DEF vars, sender, registry, receiver, stream
<1>4. ASSUME UNCHANGED sender PROVE kind' = kind
  BY <1>4, Zenon DEF sender, registry
<1>5. CASE Loss \/ ForgetCancelled \/ Breathe
  <2>1. UNCHANGED sender
    BY <1>5, ReceiverStep, Zenon DEF Tidy
  <2> QED BY <1>1, <1>4, <1>5, <2>1 DEF Loss, LoseSymbol, LoseComplete, ForgetCancelled, Breathe, receiver, stream
<1>6. CASE ExpireStream
  <2>1. kind' = kind /\ drops' = drops + 1 /\ finishedAt' = FALSE /\ delivered' = delivered /\ expected' = expected
    BY <1>4, <1>6, Zenon DEF ExpireStream, ForgetStream
  <2> QED BY <1>0, <2>1 DEF Handed
<1>7. CASE CancelQuery
  <2>1. kind' = kind /\ drops' = drops /\ finishedAt' = FALSE /\ delivered' = delivered /\ expected
    BY <1>4, <1>7, Zenon DEF CancelQuery, ForgetStream
  <2> QED BY <1>0, <2>1 DEF Handed
<1>8. ASSUME NEW p \in Parts, NEW s \in Seqnos, ReplyCancelled(p, s) \/ ReplyFinished(p, s) PROVE Handed'
  BY <1>1, <1>4, <1>8, Zenon DEF ReplyCancelled, ReplyFinished
<1>9. ASSUME NEW p \in Parts, NEW s \in Seqnos, AddSymbol(p, s) PROVE Handed'
  <2>1. kind' = kind /\ drops' = drops /\ streamOpen' = TRUE /\ finishedAt = FALSE
    BY <1>0, <1>4, <1>9, Zenon DEF AddSymbol, Accepts, Handed
  <2>2. CASE UNCHANGED <<finishedAt, delivered, expected>>
    BY <1>0, <2>1, <2>2, Zenon DEF Handed
  <2>3. CASE finishedAt' = TRUE /\ Deliver
    <3>1. CASE kind = "query"
      BY <1>0, <2>1, <2>3, <3>1 DEF Handed, Deliver
    <3>2. CASE kind = "answer"
      <4>1. expected' = FALSE /\ delivered' = IF expected THEN delivered + 1 ELSE delivered
        BY <2>3, <3>2, Zenon DEF Deliver
      <4>2. delivered <= IF expected THEN 0 ELSE 1
        BY <3>2, Zenon DEF Handed
      <4> QED BY <1>0, <2>1, <3>2, <4>1, <4>2 DEF Handed
    <3> QED BY <1>0, <3>1, <3>2
  <2>4. CASE finishedAt' = TRUE /\ Reject
    <3>1. delivered' = delivered /\ expected' = expected
      BY <2>4, Zenon DEF Reject
    <3> QED BY <1>0, <2>1, <2>4, <3>1 DEF Handed
  <2> QED BY <1>9, <2>2, <2>3, <2>4, Zenon DEF AddSymbol, Decode
<1> QED BY <1>2, <1>3, <1>5, <1>6, <1>7, <1>8, <1>9 DEF Next, Protocol, Tidy, Receive

\* The part of InStep about one goroutine.
InStepTask(t) ==
  /\ t.at = "lock" => DecodedTo(t.part)
  /\ t.at \in {"unregister", "finish"} => t.why # "completed"

\* A step of the sender, in step if all it takes up is.
LEMMA InStepSender ==
  ASSUME Typed, InStep, UNCHANGED receiver, kind' = kind, outcome' # "completed",
         \A h \in Goroutines : InStepTask(task'[h]),
         currentPart' \in Int, currentPart <= currentPart', DecodedTo(currentPart' - 1),
         rec' = "send" => recPart' <= currentPart',
         cmpNet' \subseteq cmpNet, \A m \in symNet' : m[1] <= currentPart'
  PROVE  InStep'
<1>0. currentPart \in Int /\ nextPartIndex \in Int
  BY TransferAssumption DEF Typed, TypeOK, PartsOK, ReceiverOK, Parts, NoPart
<1>1. /\ decoded' = decoded /\ nextPartIndex' = nextPartIndex /\ finishedAt' = finishedAt
      /\ cancelled' = cancelled /\ expected' = expected
  BY Zenon DEF receiver, stream
<1>2. /\ \A p \in cmpNet' : DecodedTo(p)'
      /\ DecodedTo(currentPart - 1)'
      /\ \A h \in Goroutines : task'[h].at = "lock" => DecodedTo(task[h].part)'
  BY <1>1, Zenon DEF InStep, InStepTask, DecodedTo, Parts
<1>3. nextPartIndex' <= currentPart' + 1
  <2>1. nextPartIndex <= currentPart + 1
    BY Zenon DEF InStep
  <2>2. \A a, b, c \in Int : a <= b + 1 /\ b <= c => a <= c + 1
    OBVIOUS
  <2> QED BY <1>0, <1>1, <2>1, <2>2, Zenon
<1>4. \A h \in Goroutines : task'[h].at \in {"unregister", "finish"} => task'[h].why # "completed"
  BY Zenon DEF InStepTask
<1>5. decoded' # Parts /\ ~finishedAt' /\ ~cancelled' /\ (kind' = "answer" => expected')
  BY <1>1, Zenon DEF InStep
<1> QED BY <1>2, <1>3, <1>4, <1>5 DEF InStep, Parts

\* ... which for a goroutine is its next task.
LEMMA InStepDo ==
  ASSUME Typed, InStep, NEW g \in Goroutines, NEW t \in Tasks, Do(g, t), InStepTask(t)
  PROVE  \A h \in Goroutines : InStepTask(task'[h])
<1>1. \A h \in Goroutines : task'[h] = IF h = g THEN t ELSE task[h]
  BY DoStep, Zenon DEF Typed, TypeOK
<1> QED BY <1>1 DEF InStep, InStepTask

\* Being idle is in step.
LEMMA InStepIdle == InStepTask(Idle)
BY IdleType, Zenon DEF InStepTask

\* What the steps of the recovery loop and the clock do.
LEMMA InStepRecovery ==
  ASSUME Typed, InStep, Recovery \/ PassDeadline
  PROVE  InStep'
<1>1. UNCHANGED receiver /\ kind' = kind
  BY SenderStep, Zenon
<1>2. /\ task' = task /\ currentPart' = currentPart /\ cmpNet' = cmpNet
  BY Zenon DEF Recovery, Awake, RecoveryTick, TimeOut, Resend, RecoveryExit, PassDeadline, registry, partVars, net
<1>3. outcome' # "completed"
  BY Zenon DEF InStep, Recovery, Awake, RecoveryTick, TimeOut, Resend, RecoveryExit, PassDeadline, registry, Finish
<1>4. currentPart \in Int /\ recPart \in Int /\ DecodedTo(currentPart - 1)
  BY TransferAssumption DEF InStep, Typed, TypeOK, PartsOK, LoopOK, Parts, NoPart
<1>5. \A h \in Goroutines : InStepTask(task'[h])
  BY <1>2, Zenon DEF InStep, InStepTask
<1>6. rec' = "send" => recPart' <= currentPart'
  <2>1. rec' = "send" => (rec = "send" /\ recPart' = recPart) \/ recPart' = currentPart
    BY Zenon DEF Recovery, Awake, RecoveryTick, TimeOut, Resend, RecoveryExit, PassDeadline, loop
  <2>2. rec = "send" => recPart <= currentPart
    BY Zenon DEF InStep
  <2> QED BY <1>2, <1>4, <2>1, <2>2
<1>7. \A m \in symNet' : m[1] <= currentPart'
  <2>1. symNet' = symNet \/ (rec = "send" /\ \E s : symNet' = symNet \cup {<<recPart, s>>})
    BY Zenon DEF Recovery, Awake, RecoveryTick, TimeOut, Resend, RecoveryExit, PassDeadline, net
  <2>2. \A m \in symNet : m[1] <= currentPart
    BY Zenon DEF InStep
  <2>3. rec = "send" => recPart <= currentPart
    BY Zenon DEF InStep
  <2> QED BY <1>2, <2>1, <2>2, <2>3
<1>8. currentPart' \in Int /\ currentPart <= currentPart' /\ DecodedTo(currentPart' - 1)
  BY <1>2, <1>4
<1> QED BY <1>1, <1>2, <1>3, <1>5, <1>6, <1>7, <1>8, InStepSender

\* Steps of a goroutine that stay on the part.
LEMMA InStepStay ==
  ASSUME Typed, InStep, NEW g \in Goroutines, NEW t \in Tasks, Do(g, t), InStepTask(t),
         UNCHANGED receiver, kind' = kind, outcome' # "completed", currentPart' = currentPart,
         rec' = rec, recPart' = recPart, cmpNet' \subseteq cmpNet,
         \A m \in symNet' : m \in symNet \/ m[1] = currentPart
  PROVE  InStep'
<1>1. currentPart \in Int /\ DecodedTo(currentPart - 1)
  BY TransferAssumption DEF InStep, Typed, TypeOK, PartsOK, Parts, NoPart
<1>2. currentPart' \in Int /\ currentPart <= currentPart' /\ DecodedTo(currentPart' - 1)
  BY <1>1
<1>3. (rec' = "send" => recPart' <= currentPart') /\ \A m \in symNet' : m[1] <= currentPart'
  BY <1>1 DEF InStep
<1>4. \A h \in Goroutines : InStepTask(task'[h])
  BY InStepDo, Zenon
<1> QED BY <1>2, <1>3, <1>4, InStepSender

\* A goroutine's critical sections.
LEMMA InStepWork ==
  ASSUME Typed, Typed', InStep, NEW g \in Goroutines, Work(g)
  PROVE  InStep'
<1> USE DEF At
<1>0. UNCHANGED receiver /\ kind' = kind /\ task[g] \in Tasks
  BY SenderStep, Zenon DEF Typed, TypeOK
<1>1. CASE Register(g) \/ MarkReady(g)
  <2>1. 0 \in Parts /\ Task("fast", 0, "none") \in Tasks /\ InStepTask(Task("fast", 0, "none"))
    <3>1. 0 \in Parts
      BY TransferAssumption DEF Parts
    <3> QED BY <3>1, TaskType DEF InStepTask
  <2>2. PICK t \in {Idle, Task("fast", 0, "none")} : Do(g, t)
    BY <1>1, Zenon DEF Register, MarkReady
  <2>3. t \in Tasks /\ InStepTask(t)
    BY <2>1, IdleType, InStepIdle, Zenon
  <2>4. outcome' = outcome /\ currentPart' = currentPart /\ rec' = rec /\ recPart' = recPart
        /\ cmpNet' = cmpNet /\ symNet' = symNet
    BY <1>1, Zenon DEF Register, MarkReady, registry, partVars, loop, net
  <2>5. outcome' # "completed"
    BY <2>4, Zenon DEF InStep
  <2> QED BY <1>0, <2>2, <2>3, <2>4, <2>5, InStepStay
<1>2. CASE SendFastSymbols(g)
  <2>1. currentPart \in Parts
    BY <1>2, Zenon DEF SendFastSymbols, Typed, Begun
  <2>2. PICK t \in {Task("ready", currentPart, "none"), Task("unregister", currentPart, "failed")} : Do(g, t)
    BY <1>2, Zenon DEF SendFastSymbols
  <2>3. t \in Tasks /\ InStepTask(t)
    <3>1. CASE t = Task("ready", currentPart, "none")
      BY <2>1, <3>1, TaskType, Zenon DEF InStepTask
    <3>2. CASE t = Task("unregister", currentPart, "failed")
      BY <2>1, <3>2, TaskType DEF InStepTask, Outcomes
    <3> QED BY <3>1, <3>2
  <2>4. outcome' = outcome /\ currentPart' = currentPart /\ rec' = rec /\ recPart' = recPart
        /\ cmpNet' = cmpNet
    BY <1>2, Zenon DEF SendFastSymbols, registry, loop
  <2>5. \A m \in symNet' : m \in symNet \/ m[1] = currentPart
    BY <1>2 DEF SendFastSymbols
  <2>6. outcome' # "completed"
    BY <2>4, Zenon DEF InStep
  <2> QED BY <1>0, <2>2, <2>3, <2>4, <2>5, <2>6, InStepStay
<1>3. CASE Advance(g)
  <2>0. task[g].part \in Parts /\ DecodedTo(task[g].part)
    BY <1>3, Zenon DEF Advance, Typed, Tasked, InStep
  <2>1. task[g].part # Last
    <3>1. decoded \subseteq Parts /\ decoded # Parts
      BY Zenon DEF InStep, Typed, TypeOK, ReceiverOK
    <3>2. \A q \in Parts : q <= Last
      BY TransferAssumption DEF Parts
    <3> QED BY <2>0, <3>1, <3>2 DEF DecodedTo
  <2> DEFINE p == task[g].part
  <2>2. outcome' = outcome /\ UNCHANGED loop /\ UNCHANGED net
    BY <1>3, Zenon DEF Advance, registry
  <2>3. outcome' # "completed" /\ rec' = rec /\ recPart' = recPart /\ cmpNet' = cmpNet /\ symNet' = symNet
    BY <2>2, Zenon DEF InStep, loop, net
  <2>4. CASE currentPart' = currentPart
    <3>1. p \in Parts /\ p # Last
      BY <2>0, <2>1, Zenon
    <3>2. currentPart # p + 1 \/ currentPart # p
      BY <3>1, TransferAssumption DEF Parts
    <3>3. PICK t \in {Idle, Task("unregister", p, "timedout"), Task("unregister", p, "failed")} : Do(g, t)
      <4>1. p < Last
        BY <3>1, TransferAssumption DEF Parts
      <4> QED BY <1>3, <2>4, <3>1, <3>2, <4>1 DEF Advance
    <3>4. t \in Tasks /\ InStepTask(t)
      <4>1. CASE t = Idle
        BY <4>1, IdleType, InStepIdle, Zenon
      <4>2. CASE t = Task("unregister", p, "timedout")
        BY <3>1, <4>2, TaskType DEF InStepTask, Outcomes
      <4>3. CASE t = Task("unregister", p, "failed")
        BY <3>1, <4>3, TaskType DEF InStepTask, Outcomes
      <4> QED BY <4>1, <4>2, <4>3
    <3> QED BY <1>0, <2>3, <2>4, <3>3, <3>4, InStepStay
  <2>5. CASE currentPart' # currentPart
    <3>1. currentPart = p /\ currentPart' = p + 1 /\ p < Last /\ Do(g, Task("fast", p + 1, "none"))
      BY <1>3, <2>5, Zenon DEF Advance
    <3>2. p \in Int /\ p + 1 \in Parts
      <4>1. \A i \in Parts : i < Last => i \in Int /\ i + 1 \in Parts
        BY TransferAssumption DEF Parts
      <4>2. p \in Parts /\ p < Last
        BY <2>0, <3>1, Zenon
      <4> HIDE DEF p
      <4> QED BY <4>1, <4>2
    <3>3. Task("fast", p + 1, "none") \in Tasks /\ InStepTask(Task("fast", p + 1, "none"))
      <4>1. \A q \in Parts : /\ Task("fast", q, "none") \in Tasks
                             /\ Task("fast", q, "none").at = "fast"
        BY TaskType
      <4>2. \A q \in Parts : InStepTask(Task("fast", q, "none"))
        BY <4>1, Zenon DEF InStepTask
      <4> QED BY <3>2, <4>1, <4>2
    <3>4. \A h \in Goroutines : InStepTask(task'[h])
      BY <3>1, <3>3, InStepDo, Zenon
    <3>5. currentPart' \in Int /\ currentPart <= currentPart' /\ currentPart' - 1 = p
      BY <3>1, <3>2
    <3>6. rec' = "send" => recPart' <= currentPart'
      <4>1. recPart \in Int /\ (rec = "send" => recPart <= currentPart)
        BY TransferAssumption DEF InStep, Typed, TypeOK, LoopOK, Parts
      <4> QED BY <2>3, <3>1, <3>2, <4>1
    <3>7. \A m \in symNet' : m[1] <= currentPart'
      <4>1. ASSUME NEW m \in symNet PROVE m[1] <= currentPart'
        <5>1. m[1] \in Int /\ m[1] <= currentPart
          BY <4>1, TransferAssumption DEF InStep, Typed, TypeOK, NetOK, Parts
        <5> QED BY <3>1, <3>2, <5>1
      <4> QED BY <2>3, <4>1
    <3>8. DecodedTo(currentPart' - 1)
      BY <2>0, <3>5, Zenon
    <3> QED BY <1>0, <2>3, <3>4, <3>5, <3>6, <3>7, <3>8, InStepSender
  <2> QED BY <2>4, <2>5
<1>4. CASE Unregister(g) \/ FinishOutboundTransfer(g)
  <2>1. task[g].why # "completed"
    BY <1>4, Zenon DEF Unregister, FinishOutboundTransfer, InStep
  <2>2. PICK t \in {Idle, [task[g] EXCEPT !.at = "finish"]} : Do(g, t)
    BY <1>4 DEF Unregister, FinishOutboundTransfer
  <2>3. t \in Tasks /\ InStepTask(t)
    <3>1. CASE t = Idle
      BY <3>1, IdleType, InStepIdle
    <3>2. CASE t = [task[g] EXCEPT !.at = "finish"]
      BY <1>0, <2>1, <3>2 DEF InStepTask, Tasks
    <3> QED BY <3>1, <3>2
  <2>4. currentPart' = currentPart /\ rec' = rec /\ recPart' = recPart /\ cmpNet' = cmpNet /\ symNet' = symNet
    BY <1>4, Zenon DEF Unregister, FinishOutboundTransfer, partVars, loop, net
  <2>5. outcome' # "completed"
    BY <1>4, <2>1, Zenon DEF Unregister, FinishOutboundTransfer, Finish, InStep
  <2> QED BY <1>0, <2>2, <2>3, <2>4, <2>5, InStepStay
<1> QED BY <1>1, <1>2, <1>3, <1>4 DEF Work

\* What callers and handlers start.
LEMMA InStepCall ==
  ASSUME Typed, ~Settled, InStep, NEW g \in Goroutines, Call(g)
  PROVE  InStep'
<1> USE DEF At
<1>0. UNCHANGED receiver /\ kind' = kind /\ NoPart \in Parts \cup {NoPart}
  BY SenderStep, Zenon
<1>1. CASE StartTransfer(g)
  <2>1. 0 \in Parts /\ Task("register", 0, "none") \in Tasks /\ InStepTask(Task("register", 0, "none"))
    <3>1. 0 \in Parts
      BY TransferAssumption DEF Parts
    <3> QED BY <3>1, TaskType DEF InStepTask
  <2>2. \A h \in Goroutines : InStepTask(task'[h])
    BY <1>1, <2>1, InStepDo, Zenon DEF StartTransfer
  <2>3. currentPart = -1 /\ currentPart' = 0 /\ UNCHANGED loop /\ UNCHANGED net /\ outcome' = outcome
    BY <1>1, Zenon DEF StartTransfer, NoPart, registry
  <2>4. outcome' # "completed" /\ rec' = rec /\ recPart' = recPart /\ cmpNet' = cmpNet /\ symNet' = symNet
    BY <2>3, Zenon DEF InStep, loop, net
  <2>5. rec' = "send" => recPart' <= currentPart'
    <3>1. recPart \in Int /\ (rec = "send" => recPart <= -1)
      BY <2>3, TransferAssumption DEF InStep, Typed, TypeOK, LoopOK, Parts
    <3> QED BY <2>3, <2>4, <3>1
  <2>6. \A m \in symNet' : m[1] <= currentPart'
    <3>1. ASSUME NEW m \in symNet PROVE m[1] <= 0
      <4>1. m[1] \in Int /\ m[1] <= -1
        BY <2>3, <3>1, TransferAssumption DEF InStep, Typed, TypeOK, NetOK, Parts
      <4> QED BY <4>1
    <3> QED BY <2>3, <2>4, <3>1
  <2>7. DecodedTo(currentPart' - 1)
    BY <2>3, TransferAssumption DEF DecodedTo, Parts
  <2>8. currentPart' \in Int /\ currentPart <= currentPart'
    BY <2>3
  <2> QED BY <1>0, <2>2, <2>4, <2>5, <2>6, <2>7, <2>8, InStepSender
<1>2. CASE EndRequest(g) \/ CloseState(g)
  <2>1. PICK t \in {Idle, Task("finish", NoPart, "timedout"), Task("finish", NoPart, "canceled")} : Do(g, t)
    BY <1>2, Zenon DEF EndRequest, CloseState, Settled
  <2>2. t \in Tasks /\ InStepTask(t)
    <3>1. CASE t = Idle
      BY <3>1, IdleType, InStepIdle, Zenon
    <3>2. CASE t = Task("finish", NoPart, "timedout")
      BY <1>0, <3>2, TaskType DEF InStepTask, Outcomes
    <3>3. CASE t = Task("finish", NoPart, "canceled")
      BY <1>0, <3>3, TaskType DEF InStepTask, Outcomes
    <3> QED BY <2>1, <3>1, <3>2, <3>3
  <2>3. outcome' = outcome /\ currentPart' = currentPart /\ rec' = rec /\ recPart' = recPart
        /\ cmpNet' = cmpNet /\ symNet' = symNet
    BY <1>2, Zenon DEF EndRequest, CloseState, partVars, loop, net
  <2>4. outcome' # "completed"
    BY <2>3, Zenon DEF InStep
  <2> QED BY <1>0, <2>1, <2>2, <2>3, <2>4, InStepStay
<1>3. ASSUME NEW p \in Parts, HandleComplete(g, p) PROVE InStep'
  <2>1. Task("lock", p, "none") \in Tasks /\ InStepTask(Task("lock", p, "none"))
    <3>1. DecodedTo(p)
      BY <1>3, Zenon DEF HandleComplete, InStep
    <3> QED BY <3>1, TaskType DEF InStepTask
  <2>2. outcome' = outcome /\ currentPart' = currentPart /\ rec' = rec /\ recPart' = recPart
        /\ cmpNet' \subseteq cmpNet /\ symNet' = symNet
    BY <1>3, Zenon DEF HandleComplete, registry, partVars, loop, Without
  <2>3. outcome' # "completed"
    BY <2>2, Zenon DEF InStep
  <2> QED BY <1>0, <1>3, <2>1, <2>2, <2>3, InStepStay, Zenon DEF HandleComplete
<1> QED BY <1>1, <1>2, <1>3 DEF Call

\* A step of the receiver or the network that decodes no more than it was sent.
LEMMA InStepOther ==
  ASSUME Typed, InStep, UNCHANGED sender, symNet' \subseteq symNet, decoded \subseteq decoded',
         \A q \in cmpNet' : q \in cmpNet \/ (q <= currentPart /\ q \in Int /\ q \in decoded'),
         nextPartIndex' <= currentPart + 1, decoded' # Parts, ~finishedAt', ~cancelled',
         expected' = expected
  PROVE  InStep'
<1>1. /\ task' = task /\ currentPart' = currentPart /\ rec' = rec /\ recPart' = recPart /\ kind' = kind
      /\ outcome' = outcome
  BY Zenon DEF sender, partVars, loop, registry
<1>2. ASSUME NEW q, DecodedTo(q) PROVE \A r \in Parts : r <= q => r \in decoded'
  BY <1>2, Zenon DEF DecodedTo
<1>3. DecodedTo(currentPart - 1)'
  BY <1>1, <1>2, Zenon DEF InStep, DecodedTo, Parts
<1>4. \A g \in Goroutines : task'[g].at = "lock" => DecodedTo(task[g].part)'
  BY <1>1, <1>2, Zenon DEF InStep, DecodedTo, Parts
<1>5. \A q \in cmpNet' : DecodedTo(q)'
  <2>1. ASSUME NEW q \in cmpNet', q \notin cmpNet, NEW r \in Parts, r <= q PROVE r \in decoded'
    <3>1. q <= currentPart /\ q \in Int /\ q \in decoded' /\ r \in Int /\ currentPart \in Int
      BY <2>1, TransferAssumption DEF Typed, TypeOK, PartsOK, Parts, NoPart
    <3>2. CASE r = q
      BY <3>1, <3>2, Zenon
    <3>3. CASE r # q
      <4>1. r <= currentPart - 1
        BY <2>1, <3>1, <3>3
      <4> QED BY <1>2, <4>1 DEF InStep
    <3> QED BY <3>2, <3>3
  <2>2. ASSUME NEW q \in cmpNet', q \in cmpNet, NEW r \in Parts, r <= q PROVE r \in decoded'
    BY <1>2, <2>2, Zenon DEF InStep
  <2> QED BY <2>1, <2>2 DEF DecodedTo, Parts
<1>6. /\ \A m \in symNet' : m[1] <= currentPart'
      /\ rec' = "send" => recPart' <= currentPart'
  BY <1>1, Zenon DEF InStep
<1>7. /\ \A g \in Goroutines : task'[g].at \in {"unregister", "finish"} => task'[g].why # "completed"
      /\ outcome' # "completed" /\ (kind' = "answer" => expected')
  BY <1>1, Zenon DEF InStep
<1>8. nextPartIndex' <= currentPart' + 1
  BY <1>1, Zenon
<1> QED BY <1>3, <1>4, <1>5, <1>6, <1>7, <1>8 DEF InStep, Parts

\* What the receiver does with a symbol, and what it tidies up.
LEMMA AheadReceive ==
  ASSUME Typed, Handed, ~Settled, InStep,
         Tidy \/ Loss \/ \E p \in Parts, s \in Seqnos : Receive(p, s)
  PROVE  Settled' \/ InStep'
<1>0. /\ UNCHANGED sender /\ nextPartIndex <= currentPart + 1 /\ decoded # Parts
      /\ ~finishedAt /\ ~cancelled
  BY ReceiverStep, Zenon DEF InStep
<1>1. CASE Loss \/ Breathe
  <2>1. symNet' \subseteq symNet /\ cmpNet' \subseteq cmpNet /\ decoded' = decoded /\ nextPartIndex' = nextPartIndex
        /\ finishedAt' = finishedAt /\ cancelled' = cancelled /\ expected' = expected
    BY <1>1, Zenon DEF Loss, LoseSymbol, LoseComplete, Breathe, net, receiver, stream
  <2> QED BY <1>0, <2>1, InStepOther
<1>2. CASE ExpireStream \/ CancelQuery
  BY <1>0, <1>2, Zenon DEF ExpireStream, CancelQuery, Settled
<1>3. CASE ForgetCancelled
  BY <1>0, <1>3, Zenon DEF ForgetCancelled
<1>4. ASSUME NEW p \in Parts, NEW s \in Seqnos, ReplyCancelled(p, s) PROVE Settled' \/ InStep'
  BY <1>0, <1>4, Zenon DEF ReplyCancelled
<1>5. ASSUME NEW p \in Parts, NEW s \in Seqnos, <<p, s>> \in symNet PROVE p <= currentPart /\ p \in Int
  BY <1>5, TransferAssumption DEF InStep, Parts
<1>6. ASSUME NEW p \in Parts, NEW s \in Seqnos, ReplyFinished(p, s) PROVE Settled' \/ InStep'
  <2>1. p <= currentPart /\ p \in Int /\ p \in decoded
    BY <1>0, <1>5, <1>6, Zenon DEF ReplyFinished
  <2>2. symNet' \subseteq symNet /\ cmpNet' \subseteq cmpNet \cup {p} /\ decoded' = decoded /\ nextPartIndex' = nextPartIndex
        /\ finishedAt' = finishedAt /\ cancelled' = cancelled /\ expected' = expected
    BY <1>6, Zenon DEF ReplyFinished, SayComplete, Without
  <2> QED BY <1>0, <2>1, <2>2, InStepOther
<1>7. ASSUME NEW p \in Parts, NEW s \in Seqnos, AddSymbol(p, s) PROVE Settled' \/ InStep'
  <2>1. p <= currentPart /\ p \in Int /\ symNet' \subseteq symNet
    BY <1>5, <1>7, Zenon DEF AddSymbol, Without
  <2>2. nextPartIndex' <= currentPart + 1
    <3>1. nextPartIndex' = p + 1 \/ nextPartIndex' = nextPartIndex
      BY <1>7, Zenon DEF AddSymbol
    <3>2. currentPart \in Int
      BY TransferAssumption DEF Typed, TypeOK, PartsOK, Parts, NoPart
    <3> QED BY <1>0, <2>1, <3>1, <3>2
  <2>3. CASE Deliver
    <3>1. delivered \in Nat /\ kind \in {"query", "answer"} /\ (kind = "answer" => expected)
      BY Zenon DEF Typed, TypeOK, ReceiverOK, RegistryOK, InStep
    <3>2. delivered' = delivered + 1
      BY <2>3, <3>1, Zenon DEF Deliver
    <3> QED BY <3>1, <3>2 DEF Settled
  <2>4. CASE Reject
    BY <2>4, Zenon DEF Reject, Settled
  <2>5. CASE ~Deliver /\ ~Reject
    <3>1. finishedAt' = finishedAt /\ cancelled' = cancelled /\ expected' = expected
      BY <1>7, <2>5, Zenon DEF AddSymbol, Decode
    <3>2. decoded' \in {decoded, decoded \cup {p}} /\ decoded' # Parts
      BY <1>0, <1>7, <2>5, Zenon DEF AddSymbol, Decode
    <3>3. cmpNet' = cmpNet \/ (cmpNet' = cmpNet \cup {p} /\ decoded' = decoded \cup {p})
      BY <1>7, Zenon DEF AddSymbol, Decode
    <3> QED BY <1>0, <2>1, <2>2, <3>1, <3>2, <3>3, InStepOther
  <2> QED BY <2>3, <2>4, <2>5
<1> QED BY <1>1, <1>2, <1>3, <1>4, <1>6, <1>7 DEF Tidy, Receive

\* Until the data is handed over or given up, sender and receiver stay in step.
LEMMA AheadStep == Typed /\ Typed' /\ Handed /\ Ahead /\ [Next]_vars => Ahead'
<1> SUFFICES ASSUME Typed, Typed', Handed, Ahead, [Next]_vars PROVE Ahead'
  OBVIOUS
<1>1. CASE Settled
  <2>1. /\ delivered \in Nat /\ delivered' \in Nat
        /\ gaveUp \in BOOLEAN
    BY Zenon DEF Typed, TypeOK, ReceiverOK
  <2>2. (gaveUp => gaveUp') /\ (delivered' = delivered \/ delivered' = delivered + 1)
    <3>1. CASE (\E g \in Goroutines : Work(g) \/ Call(g)) \/ Recovery \/ PassDeadline
      BY <3>1, SenderStep DEF receiver
    <3>2. CASE Tidy \/ Loss
      <4>1. delivered' = delivered
        BY <3>2, Zenon DEF Tidy, ExpireStream, CancelQuery, ForgetCancelled, Breathe, Loss, LoseSymbol, LoseComplete, receiver
      <4>2. CASE ExpireStream
        BY <4>1, <4>2, Zenon DEF ExpireStream
      <4>3. CASE CancelQuery \/ ForgetCancelled \/ Breathe \/ Loss
        BY <4>1, <4>3 DEF CancelQuery, ForgetCancelled, Breathe, Loss, LoseSymbol, LoseComplete, receiver
      <4> QED BY <3>2, <4>2, <4>3 DEF Tidy
    <3>3. ASSUME NEW p \in Parts, NEW s \in Seqnos, Receive(p, s)
          PROVE  (gaveUp => gaveUp') /\ (delivered' = delivered \/ delivered' = delivered + 1)
      <4>1. CASE ReplyCancelled(p, s) \/ ReplyFinished(p, s)
        BY <4>1 DEF ReplyCancelled, ReplyFinished
      <4>2. CASE AddSymbol(p, s)
        <5>1. Deliver \/ Reject \/ UNCHANGED <<delivered, gaveUp>>
          BY <4>2, Zenon DEF AddSymbol, Decode
        <5> QED BY <2>1, <5>1 DEF Deliver, Reject
      <4> QED BY <3>3, <4>1, <4>2 DEF Receive
    <3>4. CASE UNCHANGED vars
      BY <3>4, Zenon DEF vars, receiver
    <3> QED BY <3>1, <3>2, <3>3, <3>4 DEF Next, Protocol
  <2> QED BY <1>1, <2>1, <2>2 DEF Ahead, Settled
<1>2. CASE ~Settled /\ InStep
  <2>1. CASE UNCHANGED vars
    <3>1. UNCHANGED sender /\ symNet' = symNet /\ cmpNet' = cmpNet /\ decoded' = decoded
          /\ nextPartIndex' = nextPartIndex /\ finishedAt' = finishedAt /\ cancelled' = cancelled
          /\ expected' = expected
      BY <2>1, Zenon DEF vars, net, receiver, stream
    <3>2. nextPartIndex <= currentPart + 1 /\ decoded # Parts /\ ~finishedAt /\ ~cancelled
      BY <1>2, Zenon DEF InStep
    <3> QED BY <1>2, <3>1, <3>2, InStepOther DEF Ahead
  <2> QED BY <1>2, <2>1, InStepWork, InStepCall, InStepRecovery, AheadReceive DEF Ahead, Next, Protocol
<1> QED BY <1>1, <1>2 DEF Ahead

-----------------------------------------------------------------------------
(* The theorems                                                            *)

\* The invariant holds initially.
LEMMA InvariantInit == Init => IInv
<1> SUFFICES ASSUME Init PROVE IInv
  OBVIOUS
<1>1. Typed
  BY TypedInit
<1>2. Accounted
  BY Zenon DEF Init, Accounted, AccountedOnce, NoSilentDrop, Terminal
<1>3. Handed
  <2>1. kind = "query" => ~expected
    BY Zenon DEF Init
  <2>2. delivered <= 0 /\ delivered <= drops + (IF finishedAt THEN 1 ELSE 0)
    BY DEF Init
  <2>3. delivered <= IF expected THEN 0 ELSE 1
    BY <2>2 DEF Init
  <2> QED BY <2>1, <2>2, <2>3 DEF Init, Handed
<1>4. InStep
  <2>1. \A g \in Goroutines : task[g].at = "idle"
    BY IdleType, Zenon DEF Init
  <2>2. DecodedTo(currentPart - 1)
    <3>1. currentPart = NoPart
      BY Zenon DEF Init
    <3>2. \A q \in Parts : ~(q <= NoPart - 1)
      BY TransferAssumption DEF Parts, NoPart
    <3> QED
      BY <3>1, <3>2, Zenon DEF DecodedTo
  <2>3. decoded # Parts
    <3>1. 0 \in Parts
      BY TransferAssumption DEF Parts
    <3> QED
      BY <3>1, Zenon DEF Init
  <2>4. nextPartIndex <= currentPart + 1
    <3>1. 0 <= NoPart + 1
      BY DEF NoPart
    <3> QED
      BY <3>1, Zenon DEF Init
  <2>5. kind = "answer" => expected
    BY Zenon DEF Init
  <2> QED BY <2>1, <2>2, <2>3, <2>4, <2>5 DEF Init, InStep
<1> QED BY <1>1, <1>2, <1>3, <1>4 DEF IInv, Ahead

\* The invariant of a transfer: types, accounting, what was handed over, and
\* sender and receiver in step until then.
THEOREM Invariant == Spec => []IInv
<1>1. IInv /\ [Next]_vars => IInv'
  BY TypedStep, AccountedStep, HandedStep, AheadStep, Zenon DEF IInv
<1> QED BY InvariantInit, <1>1, PTL DEF Spec

\* Every variable keeps its type; no part index runs past the data.
THEOREM TypeCorrect == Spec => []TypeOK
<1>1. IInv => TypeOK
  BY DEF IInv, Typed
<1> QED BY Invariant, <1>1, PTL

\* finishOutboundTransfer counts one outcome, whatever races with what, and no
\* transfer leaves activeTransfers without one.
THEOREM OneOutcome == Spec => []Accounted
<1>1. IInv => Accounted
  BY DEF IInv
<1> QED BY Invariant, <1>1, PTL

\* A transfer that is reported completed was handed over, or given up by the
\* receiver, over any network.
THEOREM CompletionIsHonest == Spec => []CompletedMeansDelivered
<1>1. IInv => CompletedMeansDelivered
  BY Zenon DEF IInv, Ahead, InStep, Settled, CompletedMeansDelivered
<1> QED BY Invariant, <1>1, PTL

\* Data is handed over at most once: an answer at all, a query per stream.
THEOREM NoSecondDelivery == Spec => []DeliveredOnce
<1>1. IInv => DeliveredOnce
  <2> SUFFICES ASSUME IInv PROVE DeliveredOnce
    OBVIOUS
  <2>1. delivered \in Nat /\ drops \in Nat /\ kind \in {"query", "answer"}
    BY TransferAssumption DEF IInv, Typed, TypeOK, ReceiverOK, RegistryOK
  <2>2. /\ kind = "answer" => delivered <= IF expected THEN 0 ELSE 1
        /\ kind = "query" => delivered <= drops + (IF finishedAt THEN 1 ELSE 0)
    BY Zenon DEF IInv, Handed
  <2> QED BY <2>1, <2>2 DEF DeliveredOnce
<1> QED BY Invariant, <1>1, PTL

\* The receiver holds what the sender has left behind, and nothing ahead of it.
THEOREM SenderAndReceiverInStep == Spec => []PartsInStep
<1>1. IInv => PartsInStep
  <2> SUFFICES ASSUME IInv, ~gaveUp, delivered = 0 PROVE PartsInStep
    BY Zenon DEF PartsInStep
  <2>1. InStep
    BY DEF IInv, Ahead, Settled
  <2>2. currentPart \in Int /\ DecodedTo(currentPart - 1) /\ nextPartIndex <= currentPart + 1
    BY <2>1, TransferAssumption DEF InStep, IInv, Typed, TypeOK, PartsOK, Parts, NoPart
  <2>3. \A p \in Parts : p < currentPart => p <= currentPart - 1
    BY <2>2, TransferAssumption DEF Parts
  <2> QED BY <2>2, <2>3 DEF DecodedTo, PartsInStep
<1> QED BY Invariant, <1>1, PTL

-----------------------------------------------------------------------------
(* The refinement of RldpDelivery                                          *)

\* The sender ends the transfer, or the service notices nothing.
LEMMA ServiceSender ==
  ASSUME IInv, IInv', (\E g \in Goroutines : Work(g) \/ Call(g)) \/ Recovery \/ PassDeadline
  PROVE  Service!Next \/ UNCHANGED Service!vars
<1>1. kind' = kind /\ delivered' = delivered /\ gaveUp' = gaveUp /\ expected' = expected /\ finishedAt' = finishedAt
  BY SenderStep, Zenon DEF receiver, stream
<1>2. outcome' = outcome \/ outcome = "none"
  BY Zenon DEF Work, Call, Register, SendFastSymbols, MarkReady, Advance, Unregister, FinishOutboundTransfer, Finish, Terminal,
         StartTransfer, HandleComplete, EndRequest, CloseState, Recovery, Awake, RecoveryTick, TimeOut, Resend,
         RecoveryExit, PassDeadline, registry
<1>3. CASE outcome' = outcome
  BY <1>1, <1>3, Zenon DEF Service!vars
<1>4. CASE outcome' # outcome
  <2>1. outcome' \in Outcomes
    BY <1>2, <1>4, Zenon DEF IInv, Typed, TypeOK, RegistryOK, Outcomes
  <2>2. outcome' = "completed" => delivered > 0 \/ gaveUp
    BY <1>1, Zenon DEF IInv, Ahead, InStep, Settled
  <2> QED BY <1>1, <1>2, <1>4, <2>1, <2>2 DEF Service!Next, Service!End, Outcomes, Service!Outcomes
<1> QED BY <1>3, <1>4

\* The receiver hands the data over, gives it up, or forgets that it did.
LEMMA ServiceReceiver ==
  ASSUME IInv, Tidy \/ Loss \/ \E p \in Parts, s \in Seqnos : Receive(p, s)
  PROVE  Service!Next \/ UNCHANGED Service!vars
<1>0. kind' = kind /\ outcome' = outcome /\ kind \in {"query", "answer"}
      /\ expected \in BOOLEAN /\ finishedAt \in BOOLEAN /\ gaveUp \in BOOLEAN
  BY ReceiverStep, Zenon DEF sender, registry, IInv, Typed, TypeOK, RegistryOK, ReceiverOK
<1>1. ASSUME UNCHANGED <<delivered, gaveUp, expected, finishedAt>> PROVE UNCHANGED Service!vars
  BY <1>0, <1>1, Zenon DEF Service!vars
<1>2. CASE Loss \/ ForgetCancelled \/ Breathe
  BY <1>1, <1>2, Zenon DEF Loss, LoseSymbol, LoseComplete, ForgetCancelled, Breathe, receiver, stream
<1>3. CASE ExpireStream
  <2>1. finishedAt' = FALSE /\ expected' = expected /\ delivered' = delivered
    BY <1>3, Zenon DEF ExpireStream, ForgetStream
  <2>2. CASE ~finishedAt
    <3>1. gaveUp' = TRUE
      BY <1>3, <2>2, Zenon DEF ExpireStream
    <3> QED BY <1>0, <2>1, <2>2, <3>1, Zenon DEF Service!Next, Service!GiveUp
  <2>3. CASE finishedAt
    <3>1. gaveUp' = gaveUp
      BY <1>0, <1>3, <2>3, Zenon DEF ExpireStream
    <3> QED BY <1>0, <2>1, <2>3, <3>1 DEF Service!Next, Service!Forget, Service!vars
  <2> QED BY <2>2, <2>3
<1>4. CASE CancelQuery
  <2>1. kind = "answer"
    BY <1>0, <1>4, Zenon DEF CancelQuery, IInv, Handed
  <2> QED BY <1>0, <1>4, <2>1, Zenon DEF CancelQuery, Service!Next, Service!GiveUp
<1>5. ASSUME NEW p \in Parts, NEW s \in Seqnos, ReplyCancelled(p, s) \/ ReplyFinished(p, s)
      PROVE  UNCHANGED Service!vars
  BY <1>1, <1>5, Zenon DEF ReplyCancelled, ReplyFinished
<1>6. ASSUME NEW p \in Parts, NEW s \in Seqnos, AddSymbol(p, s)
      PROVE  Service!Next \/ UNCHANGED Service!vars
  <2>1. ~finishedAt
    BY <1>0, <1>6, Zenon DEF AddSymbol, Accepts, IInv, Handed
  <2>2. CASE UNCHANGED <<delivered, expected, finishedAt, gaveUp>>
    BY <1>1, <2>2, Zenon
  <2>3. CASE finishedAt' = TRUE /\ Deliver
    <3>1. CASE kind = "query"
      BY <1>0, <2>1, <2>3, <3>1, Zenon DEF Deliver, Service!Next, Service!Deliver
    <3>2. CASE kind = "answer" /\ expected
      BY <1>0, <2>1, <2>3, <3>2, Zenon DEF Deliver, Service!Next, Service!Deliver
    <3>3. CASE kind = "answer" /\ ~expected
      <4>1. delivered' = delivered /\ expected' = expected /\ gaveUp' = gaveUp
        BY <1>0, <2>3, <3>3, Zenon DEF Deliver
      <4> QED BY <1>0, <2>1, <3>3, <4>1 DEF Service!vars
    <3> QED BY <1>0, <3>1, <3>2, <3>3
  <2>4. CASE finishedAt' = TRUE /\ Reject
    BY <1>0, <2>4, Zenon DEF Reject, Service!Next, Service!GiveUp
  <2> QED BY <1>6, <2>2, <2>3, <2>4, Zenon DEF AddSymbol, Decode
<1> QED BY <1>2, <1>3, <1>4, <1>5, <1>6 DEF Tidy, Receive

\* One RLDP transfer implements the delivery service: parts, symbols, repeated
\* and stale completions, timeouts and forgotten streams are details of it.
THEOREM TransferImplementsDelivery == Spec => ImplementsDelivery
<1>1. Init => Service!Init
  <2> SUFFICES ASSUME Init PROVE Service!Init
    OBVIOUS
  <2>1. kind = "answer" => expected
    BY Zenon DEF Init
  <2>2. (IF kind = "answer" THEN expected ELSE ~finishedAt) = TRUE
    BY <2>1, Zenon DEF Init
  <2> QED BY <2>2 DEF Init, Service!Init
<1>2. IInv /\ IInv' /\ [Next]_vars => [Service!Next]_Service!vars
  <2> SUFFICES ASSUME IInv, IInv', [Next]_vars PROVE Service!Next \/ UNCHANGED Service!vars
    OBVIOUS
  <2>1. CASE UNCHANGED vars
    BY <2>1, Zenon DEF vars, sender, registry, receiver, stream, Service!vars
  <2> QED BY <2>1, ServiceSender, ServiceReceiver DEF Next, Protocol
<1> QED BY Invariant, <1>1, <1>2, PTL DEF Spec, ImplementsDelivery, Service!Spec

=============================================================================
