------------------------------- MODULE MCGates -------------------------------
(* Model values for TLC, and one of the gates in each behaviour.              *)
EXTENDS AdnlPeer, Gates, Pacing, FiniteSetsExt, TLC

CONSTANTS Words, Bits, t1, t2, t3, alice, bob, t0

ASSUME WordsAssumption == Size = Words * Bits

VARIABLES words, taken, gate

Stored == INSTANCE PacketWindowWords WITH seqno <- arrived, accepted <- passed

\* PacketWindowWords: words and masks are the window (acceptPacketSeqnoLocked).
WordsAgree == Stored!WordsAgree

windowVars == <<confirmSeqno, recvSeqnoWindow, arrived, ok, passed, words, taken>>
bucketVars == <<ratePerSec, capacity, tokens, lastRefill, now, pc, loc, spent, boost>>
limiterVars == <<time, times, place, seen, starts>>
simpleVars == <<active, simple, admitting, standby, stage, id, verdict, copies>>

\* Zero and negative seqnos, and two windows of two words.
MCSeqnos == -1..11
\* Alice starts new epochs, bob has two threads.
MCPeers == {alice, bob}
MCRestless == {alice}
MCThreads == alice :> {t0} @@ bob :> {t1, t2}
MCMaxSeqno == alice :> 2 @@ bob :> 1
GateSymmetry == Permutations({t1, t2})

GatesInit ==
  /\ gate \in {"window", "bucket", "limiter", "simple", "peers"}
  /\ Stored!WordsInit /\ Limiter!Init /\ Bucket!Init /\ Simple!Init /\ Init
  /\ gate # "bucket" => ratePerSec = Min(Rates)
GatesNext ==
  /\ UNCHANGED gate
  /\ \/ /\ gate = "window" /\ Stored!WordsNext
        /\ UNCHANGED <<bucketVars, limiterVars, simpleVars, vars>>
     \/ /\ gate = "bucket" /\ Bucket!Next
        /\ UNCHANGED <<windowVars, limiterVars, simpleVars, vars>>
     \/ /\ gate = "limiter" /\ Limiter!Next
        /\ UNCHANGED <<windowVars, bucketVars, simpleVars, vars>>
     \/ /\ gate = "simple" /\ Simple!Next
        /\ UNCHANGED <<windowVars, bucketVars, limiterVars, vars>>
     \/ /\ gate = "peers" /\ Next
        /\ UNCHANGED <<windowVars, bucketVars, limiterVars, simpleVars>>
GatesSpec ==
  GatesInit /\ [][GatesNext]_<<gate, windowVars, bucketVars, limiterVars, simpleVars, vars>>
=============================================================================
