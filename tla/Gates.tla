-------------------------------- MODULE Gates --------------------------------
(* What lets packets, requests and broadcasts through: the replay window, the *)
(* limiter of requests and the admission of simple broadcasts, side by side.  *)
EXTENDS Integers, Sequences

CONSTANTS
  Size, Seqnos,
  Callers, max, span, MaxStall, MaxTime, MaxStarts,
  Handlers, Ids, Nobody, MaxAdmissions, SimpleMax, MaxCopies

ASSUME WindowAssumption == Size \in Nat \ {0} /\ Seqnos \subseteq Int
ASSUME LimiterAssumption ==
  max \in Nat \ {0} /\ span \in Nat /\ MaxStall \in Nat /\ MaxTime \in Nat
ASSUME AdmissionAssumption ==
  /\ Nobody \notin Handlers \cup Ids
  /\ MaxAdmissions \in Nat /\ SimpleMax \in Nat /\ MaxCopies \in Nat

VARIABLES
  confirmSeqno, recvSeqnoWindow, arrived, ok, passed,
  time, times, place, seen, starts,
  active, simple, admitting, standby, stage, id, verdict, copies

Window == INSTANCE PacketWindow WITH seqno <- arrived, accepted <- passed
Limiter == INSTANCE SlidingLimiter
  WITH clock <- time, at <- place, window <- span, MaxClock <- MaxTime
Simple == INSTANCE SimpleAdmission WITH None <- Nobody, pc <- stage

\* PacketWindow: no packet passes twice in an epoch (acceptPacketSeqnoLocked).
NoReplay == Window!NoReplay
\* PacketWindow: no packet is lost to the window (acceptPacketSeqnoLocked).
NoFalseReplay == Window!NoFalseReplay
\* SlidingLimiter: no window has more than max requests (slidingLimiter.wait).
RateBound == Limiter!RateBound
\* SimpleAdmission: the application is asked once at a time, and not after
\* delivery (beginSimpleAdmission, finishSimpleAdmission).
AskedOnce == Simple!AskedOnce
=============================================================================
