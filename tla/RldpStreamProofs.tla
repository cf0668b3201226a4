-------------------------- MODULE RldpStreamProofs --------------------------
(***************************************************************************)
(* Machine-checked proofs about RldpStream, for any number of goroutines,  *)
(* streams and parts.                                                      *)
(***************************************************************************)
EXTENDS RldpStream, FiniteSetTheorems, TLAPS

\* Queue.Enqueue keeps a queue of parts a queue of parts.
LEMMA EnqueuedType ==
  ASSUME NEW q \in Seq(Msgs), NEW m \in Msgs
  PROVE  Enqueued(q, m) \in Seq(Msgs) /\ Enqueued(q, m) # <<>>
<1>1. CASE Len(q) < QSize
  BY <1>1 DEF Enqueued
<1>2. CASE ~(Len(q) < QSize)
  <2>1. q # <<>>
    BY <1>2, ConstantsAssumption DEF ConstantsAssumption
  <2>2. Tail(q) \in Seq(Msgs)
    BY <2>1
  <2>3. ASSUME NEW t \in Seq(Msgs)
        PROVE  Append(t, m) \in Seq(Msgs) /\ Append(t, m) # <<>>
    OBVIOUS
  <2> QED
    BY <1>2, <2>2, <2>3, Zenon DEF Enqueued
<1> QED
  BY <1>1, <1>2, Zenon

-----------------------------------------------------------------------------
(* First layer: types, and what a goroutine's locals refer to.             *)

\* A goroutine that still has to enqueue a part holds that part.
HoldsPart == \A w \in Workers : pc[w] \in {"create", "arm", "enq"} => msg[w] \in Msgs
\* A goroutine past the lookup works on an allocated stream.
HoldsStream == \A w \in Workers : pc[w] \notin {"idle", "create"} => strm[w] \in created
\* The registered stream, and those waiting to be retired, are allocated.
KnownStreams == recvStreams \in created \cup {NoStream} /\ toRetire \subseteq created
\* A stream that is not allocated yet is not retired.
FreshStreams == \A s \in Streams \ created : ~retired[s]
\* The cleaner, while it holds r.mx, works on the registered stream.
CleanerHoldsStream == cpc = "try" => recvStreams # NoStream
Typed == /\ TypeOK /\ HoldsPart /\ HoldsStream /\ KnownStreams /\ FreshStreams
         /\ CleanerHoldsStream /\ SlotCount

\* retireInboundStreamLocked keeps the slot counter equal to the number of
\* streams that hold a slot, whether or not the stream was retired before.
LEMMA RetireKeepsSlots ==
  ASSUME Typed, NEW s \in created, Retire(s), created' = created
  PROVE  SlotCount' /\ byIP' \in Nat /\ retired' \in [Streams -> BOOLEAN]
<1> DEFINE live == {x \in created : ~retired[x]}
<1>1. retired' = [retired EXCEPT ![s] = TRUE] /\ s \in Streams
  BY Zenon DEF Retire, Typed, TypeOK
<1>2. {x \in created' : ~retired'[x]} = live \ {s}
  BY <1>1, Zenon DEF Typed, TypeOK
<1>3. IsFiniteSet(live) /\ byIP = Cardinality(live)
  BY ConstantsAssumption, FS_Subset, Zenon DEF ConstantsAssumption, Typed, TypeOK, SlotCount
<1>4. Cardinality(live \ {s}) = IF s \in live THEN byIP - 1 ELSE byIP
  BY <1>3, FS_RemoveElement, Zenon
<1>5. Cardinality(live \ {s}) \in Nat
  BY <1>3, FS_RemoveElement, FS_CardinalityType, Zenon
<1>6. byIP' = Cardinality(live \ {s})
  BY <1>4, Zenon DEF Retire
<1> QED
  BY <1>1, <1>2, <1>5, <1>6, Zenon DEF SlotCount, Typed, TypeOK

\* A stream that handleMessagePart allocates takes exactly one more slot.
LEMMA AllocationKeepsSlots ==
  ASSUME Typed, NEW s \in Streams \ created, ~retired[s],
         created' = created \cup {s}, byIP' = byIP + 1, retired' = retired
  PROVE  SlotCount' /\ byIP' \in Nat
<1> DEFINE live == {x \in created : ~retired[x]}
<1>1. {x \in created' : ~retired'[x]} = live \cup {s}
  OBVIOUS
<1>2. IsFiniteSet(live) /\ byIP = Cardinality(live)
  BY ConstantsAssumption, FS_Subset, Zenon DEF ConstantsAssumption, Typed, TypeOK, SlotCount
<1>3. Cardinality(live \cup {s}) = byIP + 1
  BY <1>2, FS_AddElement, Zenon
<1>4. byIP' \in Nat
  BY DEF Typed, TypeOK
<1> QED
  BY <1>1, <1>3, <1>4, Zenon DEF SlotCount
\* The two operations on a stream's queue keep it a queue of parts.
LEMMA QueueStep ==
  ASSUME Typed, NEW w \in Workers, Enqueue(w) \/ Dequeue(w)
  PROVE  msgBuf' \in [Streams -> Seq(Msgs)]
<1> DEFINE q == msgBuf[strm[w]]
<1>1. strm[w] \in Streams /\ q \in Seq(Msgs) /\ msgBuf \in [Streams -> Seq(Msgs)]
  BY Zenon DEF Typed, TypeOK, HoldsStream, Enqueue, Dequeue, At
<1>2. CASE Enqueue(w)
  <2>1. msg[w] \in Msgs
    BY <1>2, Zenon DEF Typed, HoldsPart, Enqueue, At
  <2>2. Enqueued(q, msg[w]) \in Seq(Msgs)
    BY <1>1, <2>1, EnqueuedType, Zenon
  <2> QED
    BY <1>1, <1>2, <2>2, Zenon DEF Enqueue
<1>3. CASE Dequeue(w)
  <2>1. CASE q = <<>>
    BY <1>1, <1>3, <2>1, Zenon DEF Dequeue
  <2>2. CASE q # <<>>
    <3>1. \A t \in Seq(Msgs) : t # <<>> => Tail(t) \in Seq(Msgs)
      OBVIOUS
    <3>2. Tail(q) \in Seq(Msgs)
      BY <1>1, <2>2, <3>1, Zenon
    <3>3. msgBuf' = [msgBuf EXCEPT ![strm[w]] = Tail(q)]
      BY <1>3, <2>2, Zenon DEF Dequeue
    <3> HIDE DEF q
    <3> QED
      BY <1>1, <3>2, <3>3, Zenon
  <2> QED
    BY <2>1, <2>2, Zenon
<1> QED
  BY <1>2, <1>3

LEMMA TypedInit == Init => Typed
<1> SUFFICES ASSUME Init PROVE Typed
  OBVIOUS
<1>1. msgBuf \in [Streams -> Seq(Msgs)]
  BY DEF Init
<1>2. TypeOK
  BY <1>1, ConstantsAssumption, Zenon
  DEF ConstantsAssumption, Init, TypeOK, Points, OwnerPoints, MxPoints
<1>3. HoldsPart /\ HoldsStream /\ KnownStreams /\ FreshStreams /\ CleanerHoldsStream
  BY Zenon DEF Init, HoldsPart, HoldsStream, KnownStreams, FreshStreams, CleanerHoldsStream
<1>4. SlotCount
  BY FS_EmptySet, Zenon DEF Init, SlotCount
<1> QED
  BY <1>2, <1>3, <1>4 DEF Typed

LEMMA TypedStep == Typed /\ [Next]_vars => Typed'
<1> SUFFICES ASSUME Typed, [Next]_vars PROVE Typed'
  OBVIOUS
<1> USE ConstantsAssumption
    DEF ConstantsAssumption, Typed, TypeOK, HoldsPart, HoldsStream, KnownStreams,
        FreshStreams, CleanerHoldsStream, maps, flags, locals, cleaner, worker, At,
        Goto, Enter, Return, Points, Readable, Writable
<1>0. UNCHANGED <<byIP, created, retired>> => SlotCount'
  BY Zenon DEF SlotCount
<1>1. ASSUME NEW w \in Workers, Lookup(w) PROVE Typed'
  <2> PICK m \in inbox : Lookup(w)!2!(m)
    BY <1>1, Zenon DEF Lookup
  <2>1. CASE Enter(w, "enq", recvStreams, m, FALSE) /\ recvStreams # NoStream
    BY <1>0, <1>1, <2>1 DEF Lookup
  <2>2. CASE Enter(w, "create", NoStream, m, expected)
    BY <1>0, <1>1, <2>2 DEF Lookup
  <2>3. CASE UNCHANGED <<pc, locals>>
    BY <1>0, <1>1, <2>3 DEF Lookup
  <2> QED
    BY <1>1, <2>1, <2>2, <2>3, Zenon DEF Lookup
<1>2. ASSUME NEW w \in Workers, Create(w) PROVE Typed'
  <2>1. CASE Return(w) /\ UNCHANGED <<recvStreams, byIP, created>>
    BY <1>0, <1>2, <2>1 DEF Create
  <2>2. CASE /\ Enter(w, "enq", recvStreams, msg[w], FALSE) /\ recvStreams # NoStream
             /\ UNCHANGED <<recvStreams, byIP, created>>
    BY <1>0, <1>2, <2>2 DEF Create
  <2>3. ASSUME NEW s \in Streams \ created, created' = created \cup {s},
               byIP' = byIP + 1, recvStreams' = s, Enter(w, "arm", s, msg[w], FALSE)
        PROVE  Typed'
    <3>1. SlotCount' /\ byIP' \in Nat
      BY <1>2, <2>3, AllocationKeepsSlots, Zenon DEF Create
    <3> QED
      BY <1>2, <2>3, <3>1 DEF Create
  <2> QED
    BY <1>2, <2>1, <2>2, <2>3, Zenon DEF Create
<1>3. ASSUME NEW w \in Workers, Arm(w) PROVE Typed'
  BY <1>0, <1>3 DEF Arm
<1>4. ASSUME NEW w \in Workers, Enqueue(w) PROVE Typed'
  <2>1. msgBuf' \in [Streams -> Seq(Msgs)]
    BY <1>4, QueueStep, Zenon
  <2>2. Enter(w, "pend", strm[w], NoMsg, FALSE) \/ Return(w)
    BY <1>4, Zenon DEF Enqueue
  <2>3. /\ pc[w] = "enq"
        /\ UNCHANGED <<maps, byIP, created, flags, pending, processing, mx,
                       toRetire, inbox, cleaner>>
    BY <1>4, Zenon DEF Enqueue
  <2>4. CASE Enter(w, "pend", strm[w], NoMsg, FALSE)
    BY <1>0, <2>1, <2>3, <2>4
  <2>5. CASE Return(w)
    BY <1>0, <2>1, <2>3, <2>5
  <2> QED
    BY <2>2, <2>4, <2>5, Zenon
<1>5. ASSUME NEW w \in Workers, SetPending(w) PROVE Typed'
  <2>1. TypeOK'
    BY <1>5, Zenon DEF SetPending
  <2>2. HoldsPart' /\ HoldsStream'
    BY <1>5, Zenon DEF SetPending
  <2> QED
    BY <1>0, <1>5, <2>1, <2>2, Zenon DEF SetPending
<1>6. ASSUME NEW w \in Workers, CasProcessing(w) PROVE Typed'
  <2>1. CASE Return(w)
    BY <1>0, <1>6, <2>1 DEF CasProcessing
  <2>2. ASSUME NEW p \in {"lock", "unlock", "clr"}, Goto(w, p) PROVE Typed'
    BY <1>0, <1>6, <2>2 DEF CasProcessing, OwnerPoints, MxPoints
  <2> QED
    BY <1>6, <2>1, <2>2, Zenon DEF CasProcessing
<1>7. ASSUME NEW w \in Workers, LockStream(w) PROVE Typed'
  <2>0. "chk" \in Points
    BY Zenon DEF OwnerPoints, MxPoints
  <2>1. TypeOK'
    <3> HIDE DEF Points
    <3> QED
      BY <1>7, <2>0, Zenon DEF LockStream
  <2>2. HoldsPart' /\ HoldsStream'
    BY <1>7, Zenon DEF LockStream
  <2> QED
    BY <1>0, <1>7, <2>1, <2>2, Zenon DEF LockStream
<1>8. ASSUME NEW w \in Workers, CheckRetired(w) PROVE Typed'
  BY <1>0, <1>8 DEF CheckRetired, OwnerPoints, MxPoints
<1>9. ASSUME NEW w \in Workers, ClearPending(w) PROVE Typed'
  <2> PICK p \in {"freeproc", "drain"} : Goto(w, p)
    BY <1>9, Zenon DEF ClearPending
  <2> QED
    BY <1>0, <1>9 DEF ClearPending, OwnerPoints, MxPoints
<1>10. ASSUME NEW w \in Workers, Dequeue(w) PROVE Typed'
  <2>1. msgBuf' \in [Streams -> Seq(Msgs)]
    BY <1>10, QueueStep, Zenon
  <2>2. PICK p \in {"chkpending", "proc"} : Goto(w, p)
    BY <1>10, Zenon DEF Dequeue
  <2> QED
    BY <1>0, <1>10, <2>1, <2>2 DEF Dequeue, OwnerPoints, MxPoints
<1>11. ASSUME NEW w \in Workers, Process(w) PROVE Typed'
  <2>1. PICK p \in {"drain", "fail"} : Goto(w, p)
    BY <1>11, Zenon DEF Process
  <2>2. expected' \in BOOLEAN /\ cancelled' \in BOOLEAN /\ started' \in [Streams -> BOOLEAN]
    BY <1>11, Zenon DEF Process
  <2> QED
    BY <1>0, <1>11, <2>1, <2>2 DEF Process, OwnerPoints, MxPoints
<1>12. ASSUME NEW w \in Workers, Unregister(w) PROVE Typed'
  BY <1>0, <1>12 DEF Unregister, OwnerPoints, MxPoints
<1>13. ASSUME NEW w \in Workers, RetireFailed(w) PROVE Typed'
  <2>1. SlotCount' /\ byIP' \in Nat /\ retired' \in [Streams -> BOOLEAN]
    BY <1>13, RetireKeepsSlots, Zenon DEF RetireFailed
  <2> QED
    BY <1>13, <2>1 DEF RetireFailed, Retire, OwnerPoints, MxPoints
<1>14. ASSUME NEW w \in Workers, CheckPending(w) PROVE Typed'
  <2> PICK p \in {"clr", "release", "recas", "unlock"} : Goto(w, p)
    BY <1>14, Zenon DEF CheckPending
  <2> QED
    BY <1>0, <1>14 DEF CheckPending, OwnerPoints, MxPoints
<1>15. ASSUME NEW w \in Workers, ReleaseProcessing(w) PROVE Typed'
  <2> PICK p \in {"recheck", "unlock"} : Goto(w, p)
    BY <1>15, Zenon DEF ReleaseProcessing
  <2> QED
    BY <1>0, <1>15 DEF ReleaseProcessing, OwnerPoints, MxPoints
<1>16. ASSUME NEW w \in Workers, UnlockStream(w) PROVE Typed'
  <2>1. TypeOK'
    BY <1>16, Zenon DEF UnlockStream
  <2>2. HoldsPart' /\ HoldsStream'
    BY <1>16, Zenon DEF UnlockStream
  <2> QED
    BY <1>0, <1>16, <2>1, <2>2, Zenon DEF UnlockStream
<1>17. CASE CleanerActivate \/ CleanerTick \/ CleanerStop \/ CleanerCheck
  <2>1. CASE CleanerActivate
    BY <1>0, <2>1, Zenon DEF CleanerActivate
  <2>2. CASE CleanerTick
    BY <1>0, <2>2, Zenon DEF CleanerTick
  <2>3. CASE CleanerStop
    BY <1>0, <2>3, Zenon DEF CleanerStop
  <2>4. CASE CleanerCheck
    BY <1>0, <2>4, Zenon DEF CleanerCheck
  <2> QED
    BY <1>17, <2>1, <2>2, <2>3, <2>4, Zenon
<1>18. CASE CleanerRetire
  <2>1. CASE UNCHANGED <<byIP, retired, recvStreams>>
    BY <1>0, <1>18, <2>1, Zenon DEF CleanerRetire
  <2>2. CASE Retire(recvStreams) /\ recvStreams' = NoStream /\ recvStreams # NoStream
    <3>1. SlotCount' /\ byIP' \in Nat /\ retired' \in [Streams -> BOOLEAN]
      BY <1>18, <2>2, RetireKeepsSlots, Zenon DEF CleanerRetire
    <3> QED
      BY <1>18, <2>2, <3>1, Zenon DEF CleanerRetire, Retire
  <2> QED
    BY <1>18, <2>1, <2>2, Zenon DEF CleanerRetire
<1>19. CASE CancelRequest \/ ForgetCancelled \/ CloseState
  <2>1. CASE CancelRequest
    BY <1>0, <2>1, Zenon DEF CancelRequest
  <2>2. CASE ForgetCancelled
    BY <1>0, <2>2, Zenon DEF ForgetCancelled
  <2>3. CASE CloseState
    BY <1>0, <2>3, Zenon DEF CloseState
  <2> QED
    BY <1>19, <2>1, <2>2, <2>3, Zenon
<1>20. CASE RetireUnregistered
  <2> PICK s \in toRetire : RetireUnregistered!(s)
    BY <1>20, Zenon DEF RetireUnregistered
  <2>1. SlotCount' /\ byIP' \in Nat /\ retired' \in [Streams -> BOOLEAN]
    BY RetireKeepsSlots, Zenon
  <2> QED
    BY <2>1 DEF Retire
<1>21. CASE UNCHANGED vars
  BY <1>0, <1>21 DEF vars
<1> QED
  BY <1>1, <1>2, <1>3, <1>4, <1>5, <1>6, <1>7, <1>8, <1>9, <1>10, <1>11, <1>12,
     <1>13, <1>14, <1>15, <1>16, <1>17, <1>18, <1>19, <1>20, <1>21, Zenon
  DEF Next, Work, Cleaner
-----------------------------------------------------------------------------
(* Second layer: who owns "processing" and stream.mx.                      *)

\* Past its Lock a goroutine holds the mutex of its stream.
MxHeld == \A w \in Workers : pc[w] \in MxPoints => mx[strm[w]] = w
\* A goroutine that won the compare-and-swap keeps the flag up, and is the only one.
OwnerMarked == \A w \in Workers : pc[w] \in OwnerPoints => processing[strm[w]]
OneOwner == \A v, w \in Workers :
  pc[v] \in OwnerPoints /\ pc[w] \in OwnerPoints /\ strm[v] = strm[w] => v = w
\* The flag is up only while some goroutine owns it.
OwnerExists == \A s \in Streams : processing[s] => Serving(s, OwnerPoints)
Owned == MxHeld /\ OwnerMarked /\ OneOwner /\ OwnerExists

\* Goroutine w goes to point p, now working on stream s; the others stay.
Moves(w, p, s) == pc' = [pc EXCEPT ![w] = p] /\ strm' = [strm EXCEPT ![w] = s]

LEMMA MovesFrame ==
  ASSUME Typed, NEW w \in Workers, NEW p, NEW s, Moves(w, p, s)
  PROVE  /\ pc'[w] = p /\ strm'[w] = s
         /\ \A v \in Workers \ {w} : pc'[v] = pc[v] /\ strm'[v] = strm[v]
BY Zenon DEF Moves, Typed, TypeOK

\* Whoever only changes its place inside (or outside) the owned region, on the
\* same stream, disturbs nothing about ownership.
LEMMA OwnedFrame ==
  ASSUME Typed, Owned, NEW w \in Workers, NEW p, NEW s, Moves(w, p, s),
         UNCHANGED <<processing, mx>>,
         pc[w] \in OwnerPoints <=> p \in OwnerPoints,
         p \in OwnerPoints \cup MxPoints => s = strm[w],
         p \in MxPoints => pc[w] \in MxPoints
  PROVE  Owned'
<1> USE MovesFrame
<1>1. MxHeld'
  BY DEF Owned, MxHeld
<1>2. OwnerMarked'
  BY DEF Owned, OwnerMarked
<1>3. OneOwner'
  BY DEF Owned, OneOwner
<1>4. OwnerExists'
  <2> SUFFICES ASSUME NEW x \in Streams, processing[x]
               PROVE  Serving(x, OwnerPoints)'
    BY Zenon DEF OwnerExists
  <2> PICK v \in Workers : strm[v] = x /\ pc[v] \in OwnerPoints
    BY Zenon DEF Owned, OwnerExists, Serving
  <2>1. strm'[v] = x /\ pc'[v] \in OwnerPoints
    OBVIOUS
  <2> QED
    BY <2>1, Zenon DEF Serving
<1> QED
  BY <1>1, <1>2, <1>3, <1>4, Zenon DEF Owned

LEMMA OwnedStep == Typed /\ Owned /\ [Next]_vars => Owned'
<1> SUFFICES ASSUME Typed, Owned, [Next]_vars PROVE Owned'
  OBVIOUS
<1> USE DEF At, Goto, Enter, Return, locals, Moves
<1>0. strm \in [Workers -> Streams \cup {NoStream}] /\ pc \in [Workers -> Points]
  BY Zenon DEF Typed, TypeOK
<1>1. ASSUME NEW w \in Workers, Lookup(w) PROVE Owned'
  <2>1. pc[w] = "idle" /\ UNCHANGED <<processing, mx>>
    BY <1>1, Zenon DEF Lookup
  <2>2. PICK p \in {"idle", "enq", "create"} : \E s : Moves(w, p, s)
    BY <1>0, <1>1, Zenon DEF Lookup
  <2> QED
    BY <2>1, <2>2, OwnedFrame, Zenon DEF OwnerPoints, MxPoints
<1>2. ASSUME NEW w \in Workers, Create(w) PROVE Owned'
  <2>1. pc[w] = "create" /\ UNCHANGED <<processing, mx>>
    BY <1>2, Zenon DEF Create
  <2>2. PICK p \in {"idle", "enq", "arm"} : \E s : Moves(w, p, s)
    BY <1>0, <1>2, Zenon DEF Create
  <2> QED
    BY <2>1, <2>2, OwnedFrame, Zenon DEF OwnerPoints, MxPoints
<1>3. ASSUME NEW w \in Workers, Arm(w) PROVE Owned'
  <2>1. pc[w] = "arm" /\ UNCHANGED <<processing, mx>>
    BY <1>3, Zenon DEF Arm
  <2>2. Moves(w, "enq", strm[w])
    BY <1>0, <1>3, Zenon DEF Arm
  <2> QED
    BY <2>1, <2>2, OwnedFrame, Zenon DEF OwnerPoints, MxPoints
<1>4. ASSUME NEW w \in Workers, Enqueue(w) PROVE Owned'
  <2>1. pc[w] = "enq" /\ UNCHANGED <<processing, mx>>
    BY <1>4, Zenon DEF Enqueue
  <2>2. PICK p \in {"idle", "pend"} : \E s : Moves(w, p, s)
    BY <1>0, <1>4, Zenon DEF Enqueue
  <2> QED
    BY <2>1, <2>2, OwnedFrame, Zenon DEF OwnerPoints, MxPoints
<1>5. ASSUME NEW w \in Workers, SetPending(w) PROVE Owned'
  <2>1. pc[w] = "pend" /\ UNCHANGED <<processing, mx>>
    BY <1>5, Zenon DEF SetPending
  <2>2. Moves(w, "cas", strm[w])
    BY <1>0, <1>5, Zenon DEF SetPending
  <2> QED
    BY <2>1, <2>2, OwnedFrame, Zenon DEF OwnerPoints, MxPoints
<1>6. ASSUME NEW w \in Workers, CasProcessing(w) PROVE Owned'
  <2>1. CASE processing[strm[w]]
    <3>1. UNCHANGED <<processing, mx>>
      BY <1>6, <2>1 DEF CasProcessing, Typed, TypeOK
    <3>2. \/ pc[w] = "cas" /\ Moves(w, "idle", NoStream)
          \/ pc[w] = "recas" /\ Moves(w, "unlock", strm[w])
      BY <1>0, <1>6, <2>1, Zenon DEF CasProcessing
    <3>3. CASE pc[w] = "cas" /\ Moves(w, "idle", NoStream)
      BY <3>1, <3>3, OwnedFrame, Zenon DEF OwnerPoints, MxPoints
    <3>4. CASE pc[w] = "recas" /\ Moves(w, "unlock", strm[w])
      BY <3>1, <3>4, OwnedFrame, Zenon DEF OwnerPoints, MxPoints
    <3> QED
      BY <3>2, <3>3, <3>4, Zenon
  <2>2. CASE ~processing[strm[w]]
    <3>1. PICK p \in {"lock", "clr"} :
              Moves(w, p, strm[w]) /\ (p = "clr" => pc[w] = "recas")
      BY <1>0, <1>6, <2>2, Zenon DEF CasProcessing
    <3>2. processing' = [processing EXCEPT ![strm[w]] = TRUE] /\ mx' = mx
      BY <1>6, Zenon DEF CasProcessing
    <3>3. \A v \in Workers : pc[v] \in OwnerPoints => strm[v] # strm[w]
      BY <2>2, Zenon DEF Owned, OwnerMarked
    <3>4. pc'[w] \in OwnerPoints
      BY <3>1, MovesFrame, Zenon DEF OwnerPoints
    <3>5. strm[w] \in Streams
      BY <1>6, Zenon DEF CasProcessing, Typed, HoldsStream, TypeOK
    <3> USE <3>1, MovesFrame
    <3>6. MxHeld'
      BY <3>2 DEF Owned, MxHeld, MxPoints
    <3>7. OwnerMarked' /\ OneOwner'
      BY <3>2, <3>3, <3>5 DEF Owned, OwnerMarked, OneOwner, Typed, TypeOK
    <3>8. OwnerExists'
      BY <3>2, <3>4, <3>5 DEF Owned, OwnerExists, Serving, Typed, TypeOK
    <3> QED
      BY <3>6, <3>7, <3>8, Zenon DEF Owned
  <2> QED
    BY <2>1, <2>2, Zenon
<1>7. ASSUME NEW w \in Workers, LockStream(w) PROVE Owned'
  <2>1. /\ pc[w] = "lock" /\ Moves(w, "chk", strm[w]) /\ mx[strm[w]] = NoWorker
        /\ mx' = [mx EXCEPT ![strm[w]] = w] /\ processing' = processing
    BY <1>0, <1>7, Zenon DEF LockStream
  <2>2. strm[w] \in Streams
    BY <2>1, Zenon DEF Typed, HoldsStream, TypeOK
  <2>3. \A v \in Workers : pc'[v] \in OwnerPoints <=> pc[v] \in OwnerPoints
    BY <2>1, MovesFrame DEF OwnerPoints
  <2>4. \A v \in Workers : strm'[v] = strm[v]
    BY <2>1, MovesFrame, Zenon
  <2>5. MxHeld'
    BY <2>1, <2>2, MovesFrame, ConstantsAssumption
    DEF Owned, MxHeld, Typed, TypeOK, ConstantsAssumption
  <2>6. OwnerMarked' /\ OneOwner' /\ OwnerExists'
    BY <2>1, <2>3, <2>4 DEF Owned, OwnerMarked, OneOwner, OwnerExists, Serving
  <2> QED
    BY <2>5, <2>6, Zenon DEF Owned
<1>8. ASSUME NEW w \in Workers, CheckRetired(w) PROVE Owned'
  <2>1. pc[w] = "chk" /\ UNCHANGED <<processing, mx>>
    BY <1>8, Zenon DEF CheckRetired
  <2>2. PICK p \in {"drop", "clr"} : Moves(w, p, strm[w])
    BY <1>0, <1>8, Zenon DEF CheckRetired
  <2> QED
    BY <2>1, <2>2, OwnedFrame, Zenon DEF OwnerPoints, MxPoints
<1>9. ASSUME NEW w \in Workers, ClearPending(w) PROVE Owned'
  <2>1. pc[w] \in {"drop", "clr", "failclear"} /\ UNCHANGED <<processing, mx>>
    BY <1>9, Zenon DEF ClearPending
  <2>2. PICK p \in {"drain", "freeproc"} : Moves(w, p, strm[w])
    BY <1>0, <1>9, Zenon DEF ClearPending
  <2> QED
    BY <2>1, <2>2, OwnedFrame, Zenon DEF OwnerPoints, MxPoints
<1>10. ASSUME NEW w \in Workers, Dequeue(w) PROVE Owned'
  <2>1. pc[w] = "drain" /\ UNCHANGED <<processing, mx>>
    BY <1>10, Zenon DEF Dequeue
  <2>2. PICK p \in {"chkpending", "proc"} : Moves(w, p, strm[w])
    BY <1>0, <1>10, Zenon DEF Dequeue
  <2> QED
    BY <2>1, <2>2, OwnedFrame, Zenon DEF OwnerPoints, MxPoints
<1>11. ASSUME NEW w \in Workers, Process(w) PROVE Owned'
  <2>1. pc[w] = "proc" /\ UNCHANGED <<processing, mx>>
    BY <1>11, Zenon DEF Process
  <2>2. PICK p \in {"drain", "fail"} : Moves(w, p, strm[w])
    BY <1>0, <1>11, Zenon DEF Process
  <2> QED
    BY <2>1, <2>2, OwnedFrame, Zenon DEF OwnerPoints, MxPoints
<1>12. ASSUME NEW w \in Workers, Unregister(w) PROVE Owned'
  <2>1. pc[w] = "fail" /\ UNCHANGED <<processing, mx>>
    BY <1>12, Zenon DEF Unregister
  <2>2. Moves(w, "failretire", strm[w])
    BY <1>0, <1>12, Zenon DEF Unregister
  <2> QED
    BY <2>1, <2>2, OwnedFrame, Zenon DEF OwnerPoints, MxPoints
<1>13. ASSUME NEW w \in Workers, RetireFailed(w) PROVE Owned'
  <2>1. pc[w] = "failretire" /\ UNCHANGED <<processing, mx>>
    BY <1>13, Zenon DEF RetireFailed
  <2>2. Moves(w, "failclear", strm[w])
    BY <1>0, <1>13, Zenon DEF RetireFailed
  <2> QED
    BY <2>1, <2>2, OwnedFrame, Zenon DEF OwnerPoints, MxPoints
<1>14. ASSUME NEW w \in Workers, CheckPending(w) PROVE Owned'
  <2>1. UNCHANGED <<processing, mx>>
    BY <1>14, Zenon DEF CheckPending
  <2>2. CASE pc[w] = "chkpending"
    <3>1. PICK p \in {"clr", "release"} : Moves(w, p, strm[w])
      BY <1>0, <1>14, <2>2, Zenon DEF CheckPending
    <3> QED
      BY <2>1, <2>2, <3>1, OwnedFrame, Zenon DEF OwnerPoints, MxPoints
  <2>3. CASE pc[w] = "recheck"
    <3>1. PICK p \in {"recas", "unlock"} : Moves(w, p, strm[w])
      BY <1>0, <1>14, <2>3, Zenon DEF CheckPending
    <3> QED
      BY <2>1, <2>3, <3>1, OwnedFrame, Zenon DEF OwnerPoints, MxPoints
  <2> QED
    BY <1>14, <2>2, <2>3, Zenon DEF CheckPending
<1>15. ASSUME NEW w \in Workers, ReleaseProcessing(w) PROVE Owned'
  <2>1. /\ pc[w] \in {"release", "freeproc"} /\ mx' = mx
        /\ processing' = [processing EXCEPT ![strm[w]] = FALSE]
    BY <1>15, Zenon DEF ReleaseProcessing
  <2>2. PICK p \in {"recheck", "unlock"} : Moves(w, p, strm[w])
    BY <1>0, <1>15, Zenon DEF ReleaseProcessing
  <2>3. /\ pc[w] \in OwnerPoints /\ pc[w] \in MxPoints
        /\ p \in MxPoints /\ p \notin OwnerPoints
    BY <2>1, Zenon DEF OwnerPoints, MxPoints
  <2>4. \A v \in Workers \ {w} : pc[v] \in OwnerPoints => strm[v] # strm[w]
    BY <2>3, Zenon DEF Owned, OneOwner
  <2> USE <2>1, <2>2, <2>3, MovesFrame
  <2>5. MxHeld' /\ OneOwner'
    BY DEF Owned, MxHeld, OneOwner
  <2>6. OwnerMarked'
    BY <2>4 DEF Owned, OwnerMarked, Typed, TypeOK, HoldsStream
  <2>7. OwnerExists'
    <3> SUFFICES ASSUME NEW x \in Streams, processing'[x]
                 PROVE  Serving(x, OwnerPoints)'
      BY Zenon DEF OwnerExists
    <3>1. processing[x] /\ x # strm[w]
      BY Zenon DEF Typed, TypeOK
    <3> PICK v \in Workers : strm[v] = x /\ pc[v] \in OwnerPoints
      BY <3>1, Zenon DEF Owned, OwnerExists, Serving
    <3>2. strm'[v] = x /\ pc'[v] \in OwnerPoints
      BY <3>1
    <3> QED
      BY <3>2, Zenon DEF Serving
  <2> QED
    BY <2>5, <2>6, <2>7, Zenon DEF Owned
<1>16. ASSUME NEW w \in Workers, UnlockStream(w) PROVE Owned'
  <2>1. /\ pc[w] = "unlock" /\ Moves(w, "idle", NoStream)
        /\ mx' = [mx EXCEPT ![strm[w]] = NoWorker] /\ processing' = processing
    BY <1>0, <1>16, Zenon DEF UnlockStream
  <2>2. /\ pc[w] \in MxPoints /\ pc[w] \notin OwnerPoints
        /\ "idle" \notin MxPoints /\ "idle" \notin OwnerPoints
    BY <2>1, Zenon DEF OwnerPoints, MxPoints
  <2>3. \A v \in Workers : pc'[v] \in OwnerPoints <=> pc[v] \in OwnerPoints
    BY <2>1, <2>2, MovesFrame
  <2>4. \A v \in Workers : pc[v] \in OwnerPoints => strm'[v] = strm[v]
    BY <2>1, <2>2, MovesFrame, Zenon
  <2>5. MxHeld'
    BY <2>1, <2>2, MovesFrame DEF Owned, MxHeld, Typed, TypeOK
  <2>6. OwnerMarked' /\ OneOwner'
    BY <2>1, <2>3, <2>4, Zenon DEF Owned, OwnerMarked, OneOwner
  <2>7. OwnerExists'
    BY <2>1, <2>3, <2>4 DEF Owned, OwnerExists, Serving
  <2> QED
    BY <2>5, <2>6, <2>7, Zenon DEF Owned
<1>17. CASE Cleaner \/ CancelRequest \/ ForgetCancelled \/ CloseState
              \/ RetireUnregistered \/ UNCHANGED vars
  <2>1. UNCHANGED <<pc, strm, processing, mx>>
    BY <1>17, Zenon DEF Cleaner, CleanerActivate, CleanerTick, CleanerStop, CleanerCheck,
       CleanerRetire, CancelRequest, ForgetCancelled, CloseState,
       RetireUnregistered, worker, vars
  <2> QED
    BY <2>1, Zenon DEF Owned, MxHeld, OwnerMarked, OneOwner, OwnerExists, Serving
<1> QED
  BY <1>1, <1>2, <1>3, <1>4, <1>5, <1>6, <1>7, <1>8, <1>9, <1>10, <1>11, <1>12,
     <1>13, <1>14, <1>15, <1>16, <1>17, Zenon DEF Next, Work

-----------------------------------------------------------------------------
(* Third layer: where a stream is between its allocation and retirement.   *)

RetiredPoints == {"drop", "failclear", "freeproc"}
LivePoints == {"clr", "drain", "proc", "fail", "failretire", "chkpending",
               "release", "recheck", "recas"}
\* What CheckRetired and the failing exit know about "retired" stays true.
RetiredSeen == \A w \in Workers : pc[w] \in RetiredPoints => retired[strm[w]]
LiveSeen == \A w \in Workers : pc[w] \in LivePoints => ~retired[strm[w]]
\* A stream that is being dropped by its owner is out of the map.
FailUnregistered == \A w \in Workers : pc[w] = "failretire" => recvStreams # strm[w]
\* The registered stream is live and nobody else is about to retire it.
RegisteredLive ==
  recvStreams # NoStream => ~retired[recvStreams] /\ recvStreams \notin toRetire
Life == RetiredSeen /\ LiveSeen /\ FailUnregistered /\ RegisteredLive /\ NoLeakedStream

\* A goroutine that moves consistently with what it knows about "retired".
LEMMA LifeFrame ==
  ASSUME Typed, Life, NEW w \in Workers, NEW p, NEW s, Moves(w, p, s),
         UNCHANGED <<retired, recvStreams, toRetire, created>>,
         p \in RetiredPoints => retired[s],
         p \in LivePoints => ~retired[s],
         p # "failretire", pc[w] # "failretire"
  PROVE  Life'
<1> USE MovesFrame
<1>1. RetiredSeen' /\ LiveSeen'
  BY DEF Life, RetiredSeen, LiveSeen
<1>2. FailUnregistered' /\ RegisteredLive'
  BY DEF Life, FailUnregistered, RegisteredLive
<1>3. NoLeakedStream'
  BY DEF Life, NoLeakedStream, Serving
<1> QED
  BY <1>1, <1>2, <1>3, Zenon DEF Life

\* Retiring a stream whose mutex is free, and that is not registered any more,
\* contradicts nothing any goroutine knows.
LEMMA LifeRetire ==
  ASSUME Typed, Owned, Life, NEW s \in created, Retire(s), mx[s] = NoWorker,
         UNCHANGED <<pc, strm, created>>, recvStreams' \in {recvStreams, NoStream},
         recvStreams' # s, toRetire' \subseteq toRetire,
         recvStreams' # recvStreams => recvStreams = s, toRetire \ toRetire' \subseteq {s}
  PROVE  Life'
<1>1. retired' = [retired EXCEPT ![s] = TRUE] /\ s \in Streams
  BY Zenon DEF Retire, Typed, TypeOK
<1>2. \A w \in Workers : pc[w] \in LivePoints => strm[w] # s
  BY ConstantsAssumption, Zenon DEF ConstantsAssumption, Owned, MxHeld, MxPoints, OwnerPoints, LivePoints
<1>3. RetiredSeen' /\ LiveSeen'
  BY <1>1, <1>2 DEF Life, RetiredSeen, LiveSeen, Typed, TypeOK
<1>4. FailUnregistered'
  <2>1. \A w \in Workers : pc[w] = "failretire" => strm[w] # NoStream
    BY ConstantsAssumption, Zenon DEF ConstantsAssumption, Typed, TypeOK, HoldsStream
  <2> QED
    BY <2>1, Zenon DEF Life, FailUnregistered
<1>5. RegisteredLive'
  BY <1>1, Zenon DEF Life, RegisteredLive, Typed, TypeOK
<1>6. NoLeakedStream'
  BY <1>1 DEF Life, NoLeakedStream, Serving, Typed, TypeOK
<1> QED
  BY <1>3, <1>4, <1>5, <1>6, Zenon DEF Life

LEMMA LifeStep == Typed /\ Owned /\ Life /\ [Next]_vars => Life'
<1> SUFFICES ASSUME Typed, Owned, Life, [Next]_vars PROVE Life'
  OBVIOUS
<1> USE DEF At, Goto, Enter, Return, locals, maps, flags, Moves
<1>0. strm \in [Workers -> Streams \cup {NoStream}] /\ pc \in [Workers -> Points]
  BY Zenon DEF Typed, TypeOK
<1>1. ASSUME NEW w \in Workers, Lookup(w) PROVE Life'
  <2>1. pc[w] = "idle" /\ UNCHANGED <<retired, recvStreams, toRetire, created>>
    BY <1>1, Zenon DEF Lookup
  <2>2. PICK p \in {"idle", "enq", "create"} : \E s : Moves(w, p, s)
    BY <1>0, <1>1, Zenon DEF Lookup
  <2> QED
    BY <2>1, <2>2, LifeFrame, Zenon DEF RetiredPoints, LivePoints, Life, LiveSeen
<1>2. ASSUME NEW w \in Workers, Create(w) PROVE Life'
  <2>1. pc[w] = "create" /\ UNCHANGED <<retired, toRetire>>
    BY <1>2, Zenon DEF Create
  <2>2. CASE UNCHANGED <<recvStreams, created>>
    <3>1. PICK p \in {"idle", "enq", "arm"} : \E s : Moves(w, p, s)
      BY <1>2, Zenon DEF Create
    <3> QED
      BY <2>1, <2>2, <3>1, LifeFrame, Zenon DEF RetiredPoints, LivePoints
  <2>3. ASSUME NEW s \in Streams \ created, created' = created \cup {s},
               recvStreams = NoStream, recvStreams' = s, Moves(w, "arm", s)
        PROVE  Life'
    <3> USE <2>1, <2>3, MovesFrame
    <3>1. RetiredSeen' /\ LiveSeen'
      BY DEF Life, RetiredSeen, LiveSeen, RetiredPoints, LivePoints
    <3>2. FailUnregistered'
      BY DEF Typed, HoldsStream, FailUnregistered
    <3>3. RegisteredLive'
      BY Zenon DEF Typed, FreshStreams, KnownStreams, RegisteredLive
    <3>4. NoLeakedStream'
      <4> SUFFICES ASSUME NEW x \in created, ~retired[x]
                   PROVE  x \in toRetire \/ Serving(x, {"failretire"})'
        BY Zenon DEF NoLeakedStream
      <4>1. x \in toRetire \/ Serving(x, {"failretire"})
        BY ConstantsAssumption DEF ConstantsAssumption, Life, NoLeakedStream, Typed, TypeOK
      <4> QED
        BY <4>1 DEF Serving
    <3> QED
      BY <3>1, <3>2, <3>3, <3>4, Zenon DEF Life
  <2> QED
    BY <1>2, <2>2, <2>3, Zenon DEF Create
<1>3. ASSUME NEW w \in Workers, Arm(w) PROVE Life'
  <2>1. pc[w] = "arm" /\ UNCHANGED <<retired, recvStreams, toRetire, created>>
    BY <1>3, Zenon DEF Arm
  <2>2. Moves(w, "enq", strm[w])
    BY <1>0, <1>3, Zenon DEF Arm
  <2> QED
    BY <2>1, <2>2, LifeFrame, Zenon DEF RetiredPoints, LivePoints, Life, LiveSeen
<1>4. ASSUME NEW w \in Workers, Enqueue(w) PROVE Life'
  <2>1. pc[w] = "enq" /\ UNCHANGED <<retired, recvStreams, toRetire, created>>
    BY <1>4, Zenon DEF Enqueue
  <2>2. PICK p \in {"idle", "pend"} : \E s : Moves(w, p, s)
    BY <1>0, <1>4, Zenon DEF Enqueue
  <2> QED
    BY <2>1, <2>2, LifeFrame, Zenon DEF RetiredPoints, LivePoints, Life, LiveSeen
<1>5. ASSUME NEW w \in Workers, SetPending(w) PROVE Life'
  <2>1. pc[w] = "pend" /\ UNCHANGED <<retired, recvStreams, toRetire, created>>
    BY <1>5, Zenon DEF SetPending
  <2>2. Moves(w, "cas", strm[w])
    BY <1>0, <1>5, Zenon DEF SetPending
  <2> QED
    BY <2>1, <2>2, LifeFrame, Zenon DEF RetiredPoints, LivePoints, Life, LiveSeen
<1>6. ASSUME NEW w \in Workers, CasProcessing(w) PROVE Life'
  <2>1. UNCHANGED <<retired, recvStreams, toRetire, created>>
    BY <1>6, Zenon DEF CasProcessing
  <2>2. \/ pc[w] = "cas" /\ \E p \in {"idle", "lock"} : \E s : Moves(w, p, s)
        \/ pc[w] = "recas" /\ \E p \in {"unlock", "clr"} : Moves(w, p, strm[w])
    BY <1>0, <1>6 DEF CasProcessing
  <2> QED
    BY <2>1, <2>2, LifeFrame, Zenon DEF RetiredPoints, LivePoints, Life, LiveSeen
<1>7. ASSUME NEW w \in Workers, LockStream(w) PROVE Life'
  <2>1. pc[w] = "lock" /\ UNCHANGED <<retired, recvStreams, toRetire, created>>
    BY <1>7, Zenon DEF LockStream
  <2>2. Moves(w, "chk", strm[w])
    BY <1>0, <1>7, Zenon DEF LockStream
  <2> QED
    BY <2>1, <2>2, LifeFrame, Zenon DEF RetiredPoints, LivePoints, Life, LiveSeen
<1>8. ASSUME NEW w \in Workers, CheckRetired(w) PROVE Life'
  <2>1. pc[w] = "chk" /\ UNCHANGED <<retired, recvStreams, toRetire, created>>
    BY <1>8, Zenon DEF CheckRetired
  <2>2. Moves(w, IF retired[strm[w]] THEN "drop" ELSE "clr", strm[w])
    BY <1>0, <1>8, Zenon DEF CheckRetired
  <2> QED
    BY <2>1, <2>2, LifeFrame, Zenon DEF RetiredPoints, LivePoints
<1>9. ASSUME NEW w \in Workers, ClearPending(w) PROVE Life'
  <2>1. UNCHANGED <<retired, recvStreams, toRetire, created>>
    BY <1>9, Zenon DEF ClearPending
  <2>2. \/ pc[w] \in {"drop", "failclear"} /\ Moves(w, "freeproc", strm[w])
        \/ pc[w] = "clr" /\ Moves(w, "drain", strm[w])
    BY <1>0, <1>9, Zenon DEF ClearPending
  <2> QED
    BY <2>1, <2>2, LifeFrame, Zenon
    DEF RetiredPoints, LivePoints, Life, LiveSeen, RetiredSeen
<1>10. ASSUME NEW w \in Workers, Dequeue(w) PROVE Life'
  <2>1. pc[w] = "drain" /\ UNCHANGED <<retired, recvStreams, toRetire, created>>
    BY <1>10, Zenon DEF Dequeue
  <2>2. PICK p \in {"chkpending", "proc"} : Moves(w, p, strm[w])
    BY <1>0, <1>10, Zenon DEF Dequeue
  <2> QED
    BY <2>1, <2>2, LifeFrame, Zenon DEF RetiredPoints, LivePoints, Life, LiveSeen
<1>11. ASSUME NEW w \in Workers, Process(w) PROVE Life'
  <2>1. pc[w] = "proc" /\ UNCHANGED <<retired, recvStreams, toRetire, created>>
    BY <1>11, Zenon DEF Process
  <2>2. PICK p \in {"drain", "fail"} : Moves(w, p, strm[w])
    BY <1>0, <1>11, Zenon DEF Process
  <2> QED
    BY <2>1, <2>2, LifeFrame, Zenon DEF RetiredPoints, LivePoints, Life, LiveSeen
<1>12. ASSUME NEW w \in Workers, Unregister(w) PROVE Life'
  <2>1. /\ pc[w] = "fail" /\ Moves(w, "failretire", strm[w])
        /\ UNCHANGED <<retired, toRetire, created>>
        /\ recvStreams' = IF recvStreams = strm[w] THEN NoStream ELSE recvStreams
    BY <1>0, <1>12, Zenon DEF Unregister
  <2>2. strm[w] \in created /\ NoStream \notin created
    BY <2>1, ConstantsAssumption, Zenon DEF Typed, HoldsStream, TypeOK, ConstantsAssumption
  <2> USE <2>1, <2>2, MovesFrame
  <2>3. RetiredSeen' /\ LiveSeen'
    BY DEF Life, RetiredSeen, LiveSeen, RetiredPoints, LivePoints
  <2>4. FailUnregistered' /\ RegisteredLive'
    BY DEF Life, FailUnregistered, RegisteredLive, Typed, HoldsStream
  <2>5. NoLeakedStream'
    <3> SUFFICES ASSUME NEW x \in created, ~retired[x]
                 PROVE  recvStreams' = x \/ x \in toRetire \/ Serving(x, {"failretire"})'
      BY Zenon DEF NoLeakedStream
    <3>1. CASE x = strm[w]
      BY <3>1, Zenon DEF Serving
    <3>2. CASE x # strm[w]
      BY <3>2 DEF Life, NoLeakedStream, Serving
    <3> QED
      BY <3>1, <3>2, Zenon
  <2> QED
    BY <2>3, <2>4, <2>5, Zenon DEF Life
<1>13. ASSUME NEW w \in Workers, RetireFailed(w) PROVE Life'
  <2>1. /\ pc[w] = "failretire" /\ Moves(w, "failclear", strm[w])
        /\ UNCHANGED <<recvStreams, toRetire, created>>
        /\ retired' = [retired EXCEPT ![strm[w]] = TRUE]
    BY <1>0, <1>13, Zenon DEF RetireFailed, Retire
  <2>2. strm[w] \in Streams
    BY <2>1, Zenon DEF Typed, HoldsStream, TypeOK
  <2>3. \A v \in Workers \ {w} : pc[v] \in LivePoints => strm[v] # strm[w]
    BY <2>1, Zenon DEF LivePoints, Owned, MxHeld, MxPoints, OwnerPoints
  <2> USE <2>1, <2>2, MovesFrame
  <2>4. RetiredSeen' /\ LiveSeen'
    BY <2>3 DEF Life, RetiredSeen, LiveSeen, RetiredPoints, LivePoints, Typed, TypeOK
  <2>5. FailUnregistered' /\ RegisteredLive'
    BY Zenon DEF Life, FailUnregistered, RegisteredLive, Typed, TypeOK
  <2>6. NoLeakedStream'
    BY DEF Life, NoLeakedStream, Serving, Typed, TypeOK
  <2> QED
    BY <2>4, <2>5, <2>6, Zenon DEF Life
<1>14. ASSUME NEW w \in Workers, CheckPending(w) PROVE Life'
  <2>1. pc[w] \in {"chkpending", "recheck"} /\ UNCHANGED <<retired, recvStreams, toRetire, created>>
    BY <1>14, Zenon DEF CheckPending
  <2>2. PICK p \in {"clr", "release", "recas", "unlock"} : Moves(w, p, strm[w])
    BY <1>0, <1>14, Zenon DEF CheckPending
  <2> QED
    BY <2>1, <2>2, LifeFrame, Zenon DEF RetiredPoints, LivePoints, Life, LiveSeen
<1>15. ASSUME NEW w \in Workers, ReleaseProcessing(w) PROVE Life'
  <2>1. UNCHANGED <<retired, recvStreams, toRetire, created>>
    BY <1>15, Zenon DEF ReleaseProcessing
  <2>2. \/ pc[w] = "release" /\ Moves(w, "recheck", strm[w])
        \/ pc[w] = "freeproc" /\ Moves(w, "unlock", strm[w])
    BY <1>0, <1>15, Zenon DEF ReleaseProcessing
  <2> QED
    BY <2>1, <2>2, LifeFrame, Zenon DEF RetiredPoints, LivePoints, Life, LiveSeen
<1>16. ASSUME NEW w \in Workers, UnlockStream(w) PROVE Life'
  <2>1. pc[w] = "unlock" /\ UNCHANGED <<retired, recvStreams, toRetire, created>>
    BY <1>16, Zenon DEF UnlockStream
  <2>2. PICK p \in {"idle"} : \E s : Moves(w, p, s)
    BY <1>0, <1>16, Zenon DEF UnlockStream
  <2> QED
    BY <2>1, <2>2, LifeFrame, Zenon DEF RetiredPoints, LivePoints, Life, LiveSeen
<1>17. CASE CleanerRetire
  <2>1. CASE UNCHANGED <<byIP, retired, recvStreams>>
    BY <1>17, <2>1, Zenon DEF CleanerRetire, worker, Life, RetiredSeen, LiveSeen,
       FailUnregistered, RegisteredLive, NoLeakedStream, Serving
  <2>2. CASE Retire(recvStreams) /\ mx[recvStreams] = NoWorker /\ recvStreams' = NoStream
    <3>1. recvStreams \in created /\ NoStream \notin created
      BY <1>17, ConstantsAssumption, Zenon
      DEF CleanerRetire, Typed, TypeOK, KnownStreams, CleanerHoldsStream, ConstantsAssumption
    <3>2. UNCHANGED <<pc, strm, created, toRetire>>
      BY <1>17, Zenon DEF CleanerRetire, worker
    <3> QED
      BY <2>2, <3>1, <3>2, LifeRetire, Zenon
  <2> QED
    BY <1>17, <2>1, <2>2, Zenon DEF CleanerRetire
<1>18. CASE RetireUnregistered
  <2>2. PICK s \in toRetire :
          /\ mx[s] = NoWorker /\ Retire(s) /\ toRetire' = toRetire \ {s}
          /\ UNCHANGED <<pc, strm, created, recvStreams>>
    BY <1>18, Zenon DEF RetireUnregistered, worker
  <2>3. s \in created /\ recvStreams # s
    BY ConstantsAssumption, Zenon
    DEF Typed, TypeOK, KnownStreams, Life, RegisteredLive, ConstantsAssumption
  <2> QED
    BY <2>2, <2>3, LifeRetire, Zenon
<1>19. CASE CancelRequest \/ CloseState
  <2>1. /\ UNCHANGED <<pc, strm, created, retired>> /\ recvStreams' = NoStream
        /\ toRetire' = IF recvStreams = NoStream THEN toRetire
                       ELSE toRetire \cup {recvStreams}
    BY <1>19, Zenon DEF CancelRequest, CloseState, worker
  <2>2. RetiredSeen' /\ LiveSeen' /\ RegisteredLive'
    BY <2>1, Zenon DEF Life, RetiredSeen, LiveSeen, RegisteredLive
  <2>3. FailUnregistered'
    BY <2>1, ConstantsAssumption, Zenon
    DEF ConstantsAssumption, Typed, TypeOK, HoldsStream, FailUnregistered
  <2>4. NoLeakedStream'
    BY <2>1, Zenon DEF Life, NoLeakedStream, Serving, Typed, TypeOK
  <2> QED
    BY <2>2, <2>3, <2>4, Zenon DEF Life
<1>20. CASE CleanerActivate \/ CleanerTick \/ CleanerStop \/ CleanerCheck
              \/ ForgetCancelled \/ UNCHANGED vars
  <2>1. UNCHANGED <<pc, strm, retired, recvStreams, toRetire, created>>
    BY <1>20, Zenon DEF CleanerActivate, CleanerTick, CleanerStop, CleanerCheck,
       ForgetCancelled, worker, vars
  <2> QED
    BY <2>1, Zenon DEF Life, RetiredSeen, LiveSeen, FailUnregistered, RegisteredLive,
       NoLeakedStream, Serving
<1> QED
  BY <1>1, <1>2, <1>3, <1>4, <1>5, <1>6, <1>7, <1>8, <1>9, <1>10, <1>11, <1>12,
     <1>13, <1>14, <1>15, <1>16, <1>17, <1>18, <1>19, <1>20, Zenon DEF Next, Work, Cleaner

-----------------------------------------------------------------------------
(* Fourth layer: who looks at a queue that holds a part.                   *)

QueuePoints == {"pend", "drain", "proc", "fail", "failretire"}
WakePoints == OwnerPoints \cup {"cas", "recheck", "recas"}
\* A queued part is announced by "pending", or by a goroutine that is about to
\* announce it or is in the middle of draining.
QueueWatched == \A s \in Streams :
  msgBuf[s] # <<>> /\ ~retired[s] => pending[s] \/ Serving(s, QueuePoints)
\* While "pending" is up some goroutine has still to test it.
PendingWatched == \A s \in Streams : pending[s] /\ ~retired[s] => Serving(s, WakePoints)
\* The cleaner retires only a stream whose queue is empty.
TryEmpty == cpc = "try" => msgBuf[recvStreams] = <<>>
Watched == QueueWatched /\ PendingWatched /\ TryEmpty

\* A goroutine that adds no part and leaves "pending" alone may give up its
\* watch only if the stream is retired, there is nothing to see, or another
\* goroutine keeps watching.
LEMMA WatchedFrame ==
  ASSUME Typed, Watched, NEW w \in Workers, NEW p, NEW s, Moves(w, p, s),
         UNCHANGED <<pending, cpc>>, cpc = "try" => recvStreams' = recvStreams,
         \A x \in Streams : retired[x] => retired'[x],
         \A x \in Streams : msgBuf[x] = <<>> => msgBuf'[x] = <<>>,
         pc[w] \in QueuePoints => \/ p \in QueuePoints /\ s = strm[w]
                                 \/ retired'[strm[w]] \/ msgBuf'[strm[w]] = <<>>,
         pc[w] \in WakePoints => \/ p \in WakePoints /\ s = strm[w]
                                \/ retired'[strm[w]] \/ ~pending[strm[w]]
                                \/ \E v \in Workers \ {w} : /\ strm[v] = strm[w]
                                                          /\ pc[v] \in WakePoints
  PROVE  Watched'
<1> USE MovesFrame
<1>1. QueueWatched'
  <2> SUFFICES ASSUME NEW x \in Streams, msgBuf'[x] # <<>>, ~retired'[x], ~pending[x]
               PROVE  Serving(x, QueuePoints)'
    BY Zenon DEF QueueWatched
  <2>1. PICK v \in Workers : strm[v] = x /\ pc[v] \in QueuePoints
    BY Zenon DEF Watched, QueueWatched, Serving
  <2>2. strm'[v] = x /\ pc'[v] \in QueuePoints
    BY <2>1
  <2> QED
    BY <2>2, Zenon DEF Serving
<1>2. PendingWatched'
  <2> SUFFICES ASSUME NEW x \in Streams, ~retired'[x], pending[x]
               PROVE  Serving(x, WakePoints)'
    BY Zenon DEF PendingWatched
  <2>1. PICK v \in Workers : strm[v] = x /\ pc[v] \in WakePoints
    BY Zenon DEF Watched, PendingWatched, Serving
  <2>2. \E u \in Workers : strm'[u] = x /\ pc'[u] \in WakePoints
    BY <2>1
  <2> QED
    BY <2>2, Zenon DEF Serving
<1>3. TryEmpty'
  BY Zenon DEF Watched, TryEmpty, Typed, TypeOK, CleanerHoldsStream
<1> QED
  BY <1>1, <1>2, <1>3, Zenon DEF Watched

\* A step that touches one stream x only.
LEMMA WatchedOther ==
  ASSUME Typed, Watched, NEW w \in Workers, NEW p, Moves(w, p, strm[w]),
         UNCHANGED <<retired, recvStreams, cpc>>,
         \A y \in Streams \ {strm[w]} : msgBuf'[y] = msgBuf[y] /\ pending'[y] = pending[y],
         p \in QueuePoints \/ pending'[strm[w]] \/ retired[strm[w]],
         p \in WakePoints \/ ~pending'[strm[w]],
         cpc = "try" => msgBuf' = msgBuf
  PROVE  Watched'
<1>a. /\ pc'[w] = p /\ strm'[w] = strm[w]
      /\ \A v \in Workers \ {w} : pc'[v] = pc[v] /\ strm'[v] = strm[v]
  BY MovesFrame, Zenon
<1>0. /\ \A v \in Workers : strm'[v] = strm[v]
      /\ \A v \in Workers : v # w => pc'[v] = pc[v]
      /\ pc'[w] = p
  BY <1>a, Zenon
<1>1. QueueWatched'
  <2> SUFFICES ASSUME NEW x \in Streams, msgBuf'[x] # <<>>, ~retired[x], ~pending'[x]
               PROVE  Serving(x, QueuePoints)'
    BY Zenon DEF QueueWatched
  <2>1. PICK v \in Workers : strm'[v] = x /\ pc'[v] \in QueuePoints
    <3>1. CASE x = strm[w]
      <4>1. p \in QueuePoints
        BY <3>1, Zenon
      <4> QED
        BY <1>0, <3>1, <4>1, Zenon
    <3>2. CASE x # strm[w]
      <4>1. msgBuf[x] # <<>> /\ ~pending[x]
        BY <3>2, Zenon
      <4>2. Serving(x, QueuePoints)
        BY <4>1, Zenon DEF Watched, QueueWatched
      <4>3. PICK v \in Workers : strm[v] = x /\ pc[v] \in QueuePoints
        BY <4>2, Zenon DEF Serving
      <4>4. v # w
        BY <3>2, <4>3, Zenon
      <4> QED
        BY <1>0, <4>3, <4>4, Zenon
    <3> QED
      BY <3>1, <3>2, Zenon
  <2> QED
    BY <2>1, Zenon DEF Serving
<1>2. PendingWatched'
  <2> SUFFICES ASSUME NEW x \in Streams, ~retired[x], pending'[x]
               PROVE  Serving(x, WakePoints)'
    BY Zenon DEF PendingWatched
  <2>1. PICK v \in Workers : strm'[v] = x /\ pc'[v] \in WakePoints
    <3>1. CASE x = strm[w]
      <4>1. p \in WakePoints
        BY <3>1, Zenon
      <4> QED
        BY <1>0, <3>1, <4>1, Zenon
    <3>2. CASE x # strm[w]
      <4>1. pending[x]
        BY <3>2, Zenon
      <4>2. Serving(x, WakePoints)
        BY <4>1, Zenon DEF Watched, PendingWatched
      <4>3. PICK v \in Workers : strm[v] = x /\ pc[v] \in WakePoints
        BY <4>2, Zenon DEF Serving
      <4>4. v # w
        BY <3>2, <4>3, Zenon
      <4> QED
        BY <1>0, <4>3, <4>4, Zenon
    <3> QED
      BY <3>1, <3>2, Zenon
  <2> QED
    BY <2>1, Zenon DEF Serving
<1>3. TryEmpty'
  BY Zenon DEF Watched, TryEmpty
<1> QED
  BY <1>1, <1>2, <1>3, Zenon DEF Watched

LEMMA WatchedStep == Typed /\ Owned /\ Life /\ Watched /\ [Next]_vars => Watched'
<1> SUFFICES ASSUME Typed, Owned, Life, Watched, [Next]_vars PROVE Watched'
  OBVIOUS
<1> USE DEF At, Goto, Enter, Return, locals, maps, flags, cleaner, Moves
<1>0. strm \in [Workers -> Streams \cup {NoStream}] /\ pc \in [Workers -> Points]
  BY Zenon DEF Typed, TypeOK
<1>1. ASSUME NEW w \in Workers, Lookup(w) PROVE Watched'
  <2>1. pc[w] = "idle" /\ UNCHANGED <<msgBuf, pending, retired, recvStreams, cpc>>
    BY <1>1, Zenon DEF Lookup
  <2>2. PICK p \in {"idle", "enq", "create"} : \E s : Moves(w, p, s)
    BY <1>0, <1>1, Zenon DEF Lookup
  <2> QED
    BY <2>1, <2>2, WatchedFrame, Zenon DEF QueuePoints, WakePoints, OwnerPoints
<1>2. ASSUME NEW w \in Workers, Create(w) PROVE Watched'
  <2>1. /\ pc[w] = "create" /\ UNCHANGED <<msgBuf, pending, retired, cpc>>
        /\ cpc # "try" /\ \E p \in {"idle", "enq", "arm"} : \E s : Moves(w, p, s)
    BY <1>2, Zenon DEF Create, Writable, Readable
  <2> QED
    BY <2>1, WatchedFrame, Zenon DEF QueuePoints, WakePoints, OwnerPoints
<1>3. ASSUME NEW w \in Workers, Arm(w) PROVE Watched'
  <2>1. pc[w] = "arm" /\ UNCHANGED <<msgBuf, pending, retired, recvStreams, cpc>>
    BY <1>3, Zenon DEF Arm
  <2>2. Moves(w, "enq", strm[w])
    BY <1>0, <1>3, Zenon DEF Arm
  <2> QED
    BY <2>1, <2>2, WatchedFrame, Zenon DEF QueuePoints, WakePoints, OwnerPoints
<1>4. ASSUME NEW w \in Workers, Enqueue(w) PROVE Watched'
  <2>1. CASE recvStreams # strm[w]
    <3>1. pc[w] = "enq" /\ Moves(w, "idle", NoStream) /\ UNCHANGED <<msgBuf, pending, retired, recvStreams, cpc>>
      BY <1>4, <2>1, Zenon DEF Enqueue
    <3> QED
      BY <3>1, WatchedFrame, Zenon DEF QueuePoints, WakePoints, OwnerPoints
  <2>2. CASE recvStreams = strm[w]
    <3>1. /\ pc[w] = "enq" /\ Moves(w, "pend", strm[w]) /\ cpc # "try"
          /\ UNCHANGED <<pending, retired, recvStreams, cpc>>
      BY <1>4, <2>2, Zenon DEF Enqueue, Readable
    <3>2. \A y \in Streams \ {strm[w]} : msgBuf'[y] = msgBuf[y]
      BY <1>4, <2>2, Zenon DEF Enqueue, Typed, TypeOK
    <3>3. "pend" \in QueuePoints /\ pc[w] \notin WakePoints
      BY <3>1, Zenon DEF QueuePoints, WakePoints, OwnerPoints
    <3>4. \A x \in Streams : Serving(x, WakePoints) => Serving(x, WakePoints)'
      BY <3>1, <3>3, MovesFrame, Zenon DEF Serving
    <3>5. PendingWatched'
      BY <3>1, <3>4, Zenon DEF Watched, PendingWatched
    <3>6. QueueWatched'
      <4> SUFFICES ASSUME NEW x \in Streams, msgBuf'[x] # <<>>, ~retired[x], ~pending[x]
                   PROVE  Serving(x, QueuePoints)'
        BY <3>1, Zenon DEF QueueWatched
      <4>1. pc[w] \notin QueuePoints
        BY <3>1, Zenon DEF QueuePoints
      <4>2. CASE x = strm[w]
        <5>1. strm'[w] = x /\ pc'[w] \in QueuePoints
          BY <3>1, <3>3, <4>2, MovesFrame, Zenon
        <5> QED
          BY <5>1, Zenon DEF Serving
      <4>3. CASE x # strm[w]
        <5>1. PICK v \in Workers : strm[v] = x /\ pc[v] \in QueuePoints
          BY <3>1, <3>2, <4>3, Zenon DEF Watched, QueueWatched, Serving
        <5> QED
          BY <3>1, <4>1, <5>1, MovesFrame DEF Serving
      <4> QED
        BY <4>2, <4>3, Zenon
    <3> QED
      BY <3>1, <3>5, <3>6, Zenon DEF Watched, TryEmpty
  <2> QED
    BY <2>1, <2>2, Zenon
<1>5. ASSUME NEW w \in Workers, SetPending(w) PROVE Watched'
  <2>1. /\ pc[w] = "pend" /\ Moves(w, "cas", strm[w])
        /\ pending' = [pending EXCEPT ![strm[w]] = TRUE]
        /\ UNCHANGED <<msgBuf, retired, recvStreams, cpc>>
    BY <1>0, <1>5, Zenon DEF SetPending
  <2>2. strm[w] \in Streams
    BY <2>1, Zenon DEF Typed, HoldsStream, TypeOK
  <2>3. /\ pending'[strm[w]]
        /\ \A y \in Streams \ {strm[w]} : pending'[y] = pending[y]
    BY <2>1, <2>2, Zenon DEF Typed, TypeOK
  <2> QED
    BY <2>1, <2>3, WatchedOther, Zenon DEF WakePoints
<1>6. ASSUME NEW w \in Workers, CasProcessing(w) PROVE Watched'
  <2>1. UNCHANGED <<msgBuf, pending, retired, recvStreams, cpc>>
    BY <1>6, Zenon DEF CasProcessing
  <2>2. pc[w] \in {"cas", "recas"} /\ strm[w] \in Streams
    BY <1>6, Zenon DEF CasProcessing, Typed, HoldsStream, TypeOK
  <2>3. CASE ~processing[strm[w]]
    <3>1. PICK p \in {"lock", "clr"} : Moves(w, p, strm[w])
      BY <1>0, <1>6, <2>3, Zenon DEF CasProcessing
    <3> QED
      BY <2>1, <2>2, <3>1, WatchedFrame, Zenon DEF QueuePoints, WakePoints, OwnerPoints
  <2>4. CASE processing[strm[w]]
    <3>1. \E v \in Workers \ {w} : strm[v] = strm[w] /\ pc[v] \in WakePoints
      BY <2>2, <2>4, Zenon DEF Owned, OwnerExists, Serving, WakePoints, OwnerPoints
    <3>2. \E p, s : Moves(w, p, s)
      BY <1>0, <1>6 DEF CasProcessing
    <3> QED
      BY <2>1, <2>2, <3>1, <3>2, WatchedFrame, Zenon DEF QueuePoints
  <2> QED
    BY <2>3, <2>4, Zenon
<1>7. ASSUME NEW w \in Workers, LockStream(w) PROVE Watched'
  <2>1. pc[w] = "lock" /\ UNCHANGED <<msgBuf, pending, retired, recvStreams, cpc>>
    BY <1>7, Zenon DEF LockStream
  <2>2. Moves(w, "chk", strm[w])
    BY <1>0, <1>7, Zenon DEF LockStream
  <2> QED
    BY <2>1, <2>2, WatchedFrame, Zenon DEF QueuePoints, WakePoints, OwnerPoints
<1>8. ASSUME NEW w \in Workers, CheckRetired(w) PROVE Watched'
  <2>1. pc[w] = "chk" /\ UNCHANGED <<msgBuf, pending, retired, recvStreams, cpc>>
    BY <1>8, Zenon DEF CheckRetired
  <2>2. PICK p \in {"drop", "clr"} : Moves(w, p, strm[w])
    BY <1>0, <1>8, Zenon DEF CheckRetired
  <2> QED
    BY <2>1, <2>2, WatchedFrame, Zenon DEF QueuePoints, WakePoints, OwnerPoints
<1>9. ASSUME NEW w \in Workers, ClearPending(w) PROVE Watched'
  <2>1. /\ pending' = [pending EXCEPT ![strm[w]] = FALSE]
        /\ UNCHANGED <<msgBuf, retired, recvStreams, cpc>>
    BY <1>9, Zenon DEF ClearPending
  <2>2. \/ pc[w] \in {"drop", "failclear"} /\ Moves(w, "freeproc", strm[w])
        \/ pc[w] = "clr" /\ Moves(w, "drain", strm[w])
    BY <1>0, <1>9, Zenon DEF ClearPending
  <2>3. strm[w] \in Streams
    BY <2>2, Zenon DEF Typed, HoldsStream, TypeOK
  <2>4. /\ ~pending'[strm[w]]
        /\ \A y \in Streams \ {strm[w]} : pending'[y] = pending[y]
    BY <2>1, <2>3, Zenon DEF Typed, TypeOK
  <2>5. CASE pc[w] = "clr" /\ Moves(w, "drain", strm[w])
    BY <2>1, <2>4, <2>5, WatchedOther, Zenon DEF QueuePoints
  <2>6. CASE pc[w] \in {"drop", "failclear"} /\ Moves(w, "freeproc", strm[w])
    <3>1. retired[strm[w]]
      BY <2>6, Zenon DEF Life, RetiredSeen, RetiredPoints
    <3> QED
      BY <2>1, <2>4, <2>6, <3>1, WatchedOther, Zenon
  <2> QED
    BY <2>2, <2>5, <2>6, Zenon
<1>10. ASSUME NEW w \in Workers, Dequeue(w) PROVE Watched'
  <2>1. pc[w] = "drain" /\ UNCHANGED <<pending, retired, recvStreams, cpc>>
    BY <1>10, Zenon DEF Dequeue
  <2>2. strm[w] \in Streams
    BY <2>1, Zenon DEF Typed, HoldsStream, TypeOK
  <2>3. CASE msgBuf[strm[w]] = <<>>
    <3>1. Moves(w, "chkpending", strm[w]) /\ msgBuf' = msgBuf
      BY <1>0, <1>10, <2>3, Zenon DEF Dequeue
    <3> QED
      BY <2>1, <2>3, <3>1, WatchedFrame, Zenon DEF QueuePoints, WakePoints, OwnerPoints
  <2>4. CASE msgBuf[strm[w]] # <<>>
    <3>1. Moves(w, "proc", strm[w])
      BY <1>0, <1>10, <2>4, Zenon DEF Dequeue
    <3>2. \A x \in Streams : msgBuf[x] = <<>> => msgBuf'[x] = <<>>
      BY <1>10, <2>4, Zenon DEF Dequeue, Typed, TypeOK
    <3> QED
      BY <2>1, <3>1, <3>2, WatchedFrame, Zenon DEF QueuePoints, WakePoints, OwnerPoints
  <2> QED
    BY <2>3, <2>4, Zenon
<1>11. ASSUME NEW w \in Workers, Process(w) PROVE Watched'
  <2>1. pc[w] = "proc" /\ UNCHANGED <<msgBuf, pending, retired, recvStreams, cpc>>
    BY <1>11, Zenon DEF Process
  <2>2. PICK p \in {"drain", "fail"} : Moves(w, p, strm[w])
    BY <1>0, <1>11, Zenon DEF Process
  <2> QED
    BY <2>1, <2>2, WatchedFrame, Zenon DEF QueuePoints, WakePoints, OwnerPoints
<1>12. ASSUME NEW w \in Workers, Unregister(w) PROVE Watched'
  <2>1. /\ pc[w] = "fail" /\ Moves(w, "failretire", strm[w]) /\ cpc # "try"
        /\ UNCHANGED <<msgBuf, pending, retired, cpc>>
    BY <1>0, <1>12, Zenon DEF Unregister, Writable, Readable
  <2> QED
    BY <2>1, WatchedFrame, Zenon DEF QueuePoints, WakePoints, OwnerPoints
<1>13. ASSUME NEW w \in Workers, RetireFailed(w) PROVE Watched'
  <2>1. /\ pc[w] = "failretire" /\ Moves(w, "failclear", strm[w])
        /\ UNCHANGED <<msgBuf, pending, recvStreams, cpc>>
        /\ retired' = [retired EXCEPT ![strm[w]] = TRUE]
    BY <1>0, <1>13, Zenon DEF RetireFailed, Retire
  <2>2. strm[w] \in Streams
    BY <2>1, Zenon DEF Typed, HoldsStream, TypeOK
  <2>3. retired'[strm[w]] /\ \A x \in Streams : retired[x] => retired'[x]
    BY <2>1, <2>2, Zenon DEF Typed, TypeOK
  <2> QED
    BY <2>1, <2>3, WatchedFrame, Zenon
<1>14. ASSUME NEW w \in Workers, CheckPending(w) PROVE Watched'
  <2>1. UNCHANGED <<msgBuf, pending, retired, recvStreams, cpc>>
    BY <1>14, Zenon DEF CheckPending
  <2>2. CASE pc[w] = "chkpending"
    <3>1. PICK p \in {"clr", "release"} : Moves(w, p, strm[w])
      BY <1>0, <1>14, <2>2, Zenon DEF CheckPending
    <3> QED
      BY <2>1, <2>2, <3>1, WatchedFrame, Zenon DEF QueuePoints, WakePoints, OwnerPoints
  <2>3. CASE pc[w] = "recheck"
    <3>1. PICK p \in {"recas", "unlock"} :
            Moves(w, p, strm[w]) /\ (p = "unlock" => ~pending[strm[w]])
      BY <1>0, <1>14, <2>3, Zenon DEF CheckPending
    <3> QED
      BY <2>1, <2>3, <3>1, WatchedFrame, Zenon DEF QueuePoints, WakePoints
  <2> QED
    BY <1>14, <2>2, <2>3, Zenon DEF CheckPending
<1>15. ASSUME NEW w \in Workers, ReleaseProcessing(w) PROVE Watched'
  <2>1. UNCHANGED <<msgBuf, pending, retired, recvStreams, cpc>>
    BY <1>15, Zenon DEF ReleaseProcessing
  <2>2. \/ pc[w] = "release" /\ Moves(w, "recheck", strm[w])
        \/ pc[w] = "freeproc" /\ Moves(w, "unlock", strm[w]) /\ retired[strm[w]]
    BY <1>0, <1>15, Zenon DEF ReleaseProcessing, Life, RetiredSeen, RetiredPoints
  <2> QED
    BY <2>1, <2>2, WatchedFrame, Zenon DEF QueuePoints, WakePoints
<1>16. ASSUME NEW w \in Workers, UnlockStream(w) PROVE Watched'
  <2>1. pc[w] = "unlock" /\ UNCHANGED <<msgBuf, pending, retired, recvStreams, cpc>>
    BY <1>16, Zenon DEF UnlockStream
  <2>2. PICK p \in {"idle"} : \E s : Moves(w, p, s)
    BY <1>0, <1>16, Zenon DEF UnlockStream
  <2> QED
    BY <2>1, <2>2, WatchedFrame, Zenon DEF QueuePoints, WakePoints, OwnerPoints
<1>17. CASE CleanerCheck
  <2>1. /\ UNCHANGED <<pc, strm, msgBuf, pending, retired, recvStreams>>
        /\ cpc' = "try" => /\ recvStreams # NoStream
                           /\ ~pending[recvStreams] /\ ~processing[recvStreams]
        /\ \A w \in Workers : pc[w] # "pend"
    BY <1>17, Zenon DEF CleanerCheck, Writable, worker
  <2>2. ASSUME cpc' = "try" PROVE msgBuf[recvStreams] = <<>>
    <3>1. recvStreams \in Streams /\ ~retired[recvStreams]
      BY <2>1, <2>2, Zenon DEF Typed, TypeOK, Life, RegisteredLive
    <3>2. \A w \in Workers : strm[w] = recvStreams => pc[w] \notin OwnerPoints
      BY <2>1, <2>2, Zenon DEF Owned, OwnerMarked
    <3>3. ~Serving(recvStreams, QueuePoints)
      BY <2>1, <3>2, Zenon DEF Serving, QueuePoints, OwnerPoints
    <3> QED
      BY <2>1, <2>2, <3>1, <3>3, Zenon DEF Watched, QueueWatched
  <2>3. QueueWatched' /\ PendingWatched'
    BY <2>1, Zenon DEF Watched, QueueWatched, PendingWatched, Serving
  <2> QED
    BY <2>1, <2>2, <2>3, Zenon DEF Watched, TryEmpty
<1>18. CASE CleanerRetire \/ RetireUnregistered
  <2>1. /\ UNCHANGED <<pc, strm, msgBuf, pending>>
        /\ \A x \in Streams : retired[x] => retired'[x]
        /\ cpc' = "try" => cpc = "try" /\ recvStreams' = recvStreams
    BY <1>18, Zenon DEF CleanerRetire, RetireUnregistered, Retire, worker, Typed, TypeOK
  <2>2. QueueWatched' /\ PendingWatched'
    BY <2>1, Zenon DEF Watched, QueueWatched, PendingWatched, Serving
  <2> QED
    BY <2>1, <2>2, Zenon DEF Watched, TryEmpty
<1>19. CASE CleanerActivate \/ CleanerTick \/ CleanerStop \/ ForgetCancelled
              \/ CancelRequest \/ CloseState \/ UNCHANGED vars
  <2>1. /\ UNCHANGED <<pc, strm, msgBuf, pending, retired>>
        /\ cpc' = "try" => cpc = "try" /\ recvStreams' = recvStreams
    BY <1>19, Zenon DEF CleanerActivate, CleanerTick, CleanerStop, CancelRequest, CloseState,
       ForgetCancelled, Writable, Readable, worker, vars
  <2>2. QueueWatched' /\ PendingWatched'
    BY <2>1, Zenon DEF Watched, QueueWatched, PendingWatched, Serving
  <2> QED
    BY <2>1, <2>2, Zenon DEF Watched, TryEmpty
<1> QED
  BY <1>1, <1>2, <1>3, <1>4, <1>5, <1>6, <1>7, <1>8, <1>9, <1>10, <1>11, <1>12,
     <1>13, <1>14, <1>15, <1>16, <1>17, <1>18, <1>19, Zenon DEF Next, Work, Cleaner

-----------------------------------------------------------------------------
(* The cleanup ticker, and the inductive invariant as a whole.             *)

LEMMA CleanupStep == Typed /\ CleanupNotStranded /\ [Next]_vars => CleanupNotStranded'
<1> SUFFICES ASSUME Typed, CleanupNotStranded, [Next]_vars, recvStreams' # NoStream
             PROVE  CleanupNotStranded'
  BY Zenon DEF CleanupNotStranded
<1> USE DEF CleanupNotStranded, locals, cleaner, maps, worker
<1>1. ASSUME NEW w \in Workers, Create(w) PROVE CleanupNotStranded'
  <2>1. CASE UNCHANGED recvStreams
    <3>1. \A v \in Workers : pc[v] = "arm" => pc'[v] = "arm"
      BY <1>1, Zenon DEF Create, At, Enter, Return, Typed, TypeOK
    <3> QED
      BY <1>1, <2>1, <3>1, Zenon DEF Create
  <2>2. CASE \E s : Enter(w, "arm", s, msg[w], FALSE)
    <3>1. pc'[w] = "arm"
      BY <2>2, Zenon DEF Enter, Typed, TypeOK
    <3> QED
      BY <3>1, Zenon
  <2> QED
    BY <1>1, <2>1, <2>2, Zenon DEF Create
<1>2. ASSUME NEW w \in Workers, Arm(w) PROVE CleanupNotStranded'
  BY <1>2, Zenon DEF Arm
<1>3. ASSUME NEW w \in Workers, Lookup(w) \/ Work(w), ~Create(w), ~Arm(w)
      PROVE  CleanupNotStranded'
  <2>1. /\ UNCHANGED cleaner /\ recvStreams' \in {recvStreams, NoStream}
        /\ pc[w] # "arm" /\ \E p : pc' = [pc EXCEPT ![w] = p]
    BY <1>3, Zenon DEF Work, Lookup, Enqueue, SetPending, CasProcessing, LockStream,
       CheckRetired, ClearPending, Dequeue, Process, Unregister, RetireFailed,
       CheckPending, ReleaseProcessing, UnlockStream, At, Goto, Enter, Return,
       Typed, TypeOK
  <2>2. \A v \in Workers : pc[v] = "arm" => pc'[v] = "arm"
    BY <2>1, Zenon DEF Typed, TypeOK
  <2> QED
    BY <2>1, <2>2, Zenon
<1>4. CASE CleanerActivate
  BY <1>4, Zenon DEF CleanerActivate
<1>5. CASE CleanerTick
  BY <1>5, Zenon DEF CleanerTick
<1>6. CASE CleanerStop
  BY <1>6, Zenon DEF CleanerStop
<1>7. CASE CleanerCheck
  BY <1>7, Zenon DEF CleanerCheck
<1>8. CASE CleanerRetire
  BY <1>8, Zenon DEF CleanerRetire
<1>9. CASE CancelRequest \/ ForgetCancelled \/ CloseState \/ RetireUnregistered
             \/ UNCHANGED vars
  BY <1>9, Zenon DEF CancelRequest, ForgetCancelled, CloseState, RetireUnregistered, vars
<1> QED
  BY <1>1, <1>2, <1>3, <1>4, <1>5, <1>6, <1>7, <1>8, <1>9, Zenon DEF Next, Cleaner

\* The inductive invariant.
IInv == Typed /\ Owned /\ Life /\ Watched /\ CleanupNotStranded

LEMMA InvariantInit == Init => IInv
<1> SUFFICES ASSUME Init PROVE IInv
  OBVIOUS
<1>1. Owned
  BY Zenon DEF Init, Owned, MxHeld, OwnerMarked, OneOwner, OwnerExists, OwnerPoints, MxPoints
<1>2. Life
  BY Zenon DEF Init, Life, RetiredSeen, LiveSeen, FailUnregistered, RegisteredLive,
     NoLeakedStream, RetiredPoints, LivePoints
<1>3. Watched /\ CleanupNotStranded
  BY Zenon DEF Init, Watched, QueueWatched, PendingWatched, TryEmpty, CleanupNotStranded
<1> QED
  BY <1>1, <1>2, <1>3, TypedInit, Zenon DEF IInv

(* The inductive invariant holds in every reachable state, whatever the     *)
(* interleaving of handleMessagePart, cleaner, cancellation and close.      *)
THEOREM Invariant == Spec => []IInv
<1>1. IInv /\ [Next]_vars => IInv'
  BY TypedStep, OwnedStep, LifeStep, WatchedStep, CleanupStep, Zenon DEF IInv
<1> QED
  BY <1>1, InvariantInit, PTL DEF Spec

(* Type correctness of the client's maps, of every stream's fields and of   *)
(* every goroutine's locals.                                                *)
THEOREM TypeCorrect == Spec => []TypeOK
BY Invariant, PTL DEF IInv, Typed

(* The hand-off of "pending" and "processing" never leaves a queued part    *)
(* behind: whoever gave up was seen, or will be, by another goroutine.      *)
THEOREM NoWakeupIsLost == Spec => []NoLostWakeup
<1>1. IInv => NoLostWakeup
  <2> SUFFICES ASSUME IInv, NEW s \in Streams, msgBuf[s] # <<>>, ~retired[s]
               PROVE  \/ Serving(s, {"pend", "cas"} \cup (OwnerPoints \ {"chkpending", "release"}))
                      \/ pending[s] /\ Serving(s, {"chkpending", "release", "recheck", "recas"})
    BY Zenon DEF NoLostWakeup
  <2>1. CASE Serving(s, QueuePoints)
    BY <2>1, Zenon DEF Serving, QueuePoints, OwnerPoints
  <2>2. CASE pending[s] /\ Serving(s, WakePoints)
    BY <2>2, Zenon DEF Serving, WakePoints
  <2> QED
    BY <2>1, <2>2, Zenon DEF IInv, Watched, QueueWatched, PendingWatched
<1> QED
  BY <1>1, Invariant, PTL

(* Every path out of a transfer gives its per-IP admission slot back, none  *)
(* gives it back twice, and no stream keeps its slot without somebody left  *)
(* to retire it.                                                            *)
THEOREM SlotsAreExact == Spec => []SlotsMatchStreams
<1>1. IInv => SlotsMatchStreams
  BY Zenon DEF IInv, Typed, Life, SlotsMatchStreams
<1> QED
  BY <1>1, Invariant, PTL

(* The test of stream.retired under stream.mx protects every later call of  *)
(* processStreamMessagePart.                                                *)
THEOREM ProcessingIsLive == Spec => []NoProcessingAfterRetire
<1>1. IInv => NoProcessingAfterRetire
  BY Zenon DEF IInv, Life, LiveSeen, LivePoints, NoProcessingAfterRetire
<1> QED
  BY <1>1, Invariant, PTL

(* The ticker that stateCleaner stops is re-armed for every stream that is  *)
(* created around the stop.                                                 *)
THEOREM CleanupIsArmed == Spec => []CleanupNotStranded
BY Invariant, PTL DEF IInv

(* cleanupRecvStreams never retires a stream that holds a queued part.      *)
THEOREM ExpiryIsSafe == Spec => ExpiryKeepsQueuedParts
<1> DEFINE Safe == \A s \in Streams :
              recvStreams = s /\ retired'[s] /\ ~retired[s] => msgBuf[s] = <<>>
<1>1. IInv /\ [Next]_vars => Safe
  <2> SUFFICES ASSUME IInv, [Next]_vars, recvStreams \in Streams,
                      retired'[recvStreams], ~retired[recvStreams]
               PROVE  msgBuf[recvStreams] = <<>>
    OBVIOUS
  <2>1. CASE CleanerRetire
    BY <2>1, Zenon DEF CleanerRetire, IInv, Watched, TryEmpty
  <2>2. ASSUME NEW w \in Workers, RetireFailed(w) PROVE FALSE
    BY <2>2, Zenon DEF RetireFailed, Retire, At, IInv, Life, FailUnregistered, Typed, TypeOK
  <2>3. CASE RetireUnregistered
    <3>1. PICK x \in toRetire : Retire(x)
      BY <2>3, Zenon DEF RetireUnregistered
    <3> QED
      BY <3>1, ConstantsAssumption, Zenon DEF ConstantsAssumption, Retire, IInv, Life, RegisteredLive, Typed, TypeOK
  <2>4. CASE retired' = retired
    BY <2>4, Zenon
  <2> QED
    BY <2>1, <2>2, <2>3, <2>4, Zenon
    DEF Next, Work, Cleaner, Lookup, Create, Arm, Enqueue, SetPending, CasProcessing,
        LockStream, CheckRetired, ClearPending, Dequeue, Process, Unregister,
        CheckPending, ReleaseProcessing, UnlockStream, CleanerActivate, CleanerTick,
        CleanerStop, CleanerCheck, CancelRequest, ForgetCancelled, CloseState,
        flags, vars
<1>2. IInv /\ [Next]_vars => [Safe]_vars
  BY <1>1, Zenon
<1> QED
  BY <1>2, Invariant, PTL DEF Spec, ExpiryKeepsQueuedParts
=============================================================================
