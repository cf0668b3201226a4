---------------------------- MODULE PacketWindow ----------------------------
(***************************************************************************)
(* The replay window of an ADNL peer (adnl/adnl.go): which packets of the  *)
(* peer's current epoch acceptPacketSeqnoLocked lets through.  The window  *)
(* is circular: seqno s has slot s % Size, and only the slots that an      *)
(* advance reuses are cleared.                                             *)
(***************************************************************************)
EXTENDS Integers

CONSTANTS
  Size,    \* packetReplayWindowSize
  Seqnos   \* seqnos that arrive

VARIABLES
  confirmSeqno,     \* highest seqno seen, 0 for none
  recvSeqnoWindow,  \* slots whose bit is set
  seqno, ok,        \* the last call and what it returned
  accepted          \* history: seqnos let through since the last reinit

vars == <<confirmSeqno, recvSeqnoWindow, seqno, ok, accepted>>

Slots == 0..(Size - 1)
Slot(s) == s % Size

TypeOK ==
  /\ confirmSeqno \in Nat /\ recvSeqnoWindow \subseteq Slots
  /\ seqno \in Int /\ ok \in BOOLEAN /\ accepted \subseteq Int

Init ==
  /\ confirmSeqno = 0 /\ recvSeqnoWindow = {} /\ seqno = 0 /\ ok = FALSE
  /\ accepted = {}

\* Mutant: a jump past the whole window clears nothing.
ReusedInWindow(highest, s) ==
  IF s - highest >= Size THEN {}
  ELSE {Slot(i) : i \in (highest + 1)..s}

\* Slots reused by the window when it advances from highest to s.
Reused(highest, s) ==
  IF s - highest >= Size THEN Slots
  ELSE {Slot(i) : i \in (highest + 1)..s}

Refuse(s) ==
  /\ ok' = FALSE /\ seqno' = s /\ UNCHANGED accepted
Take(s) ==
  /\ ok' = TRUE /\ seqno' = s /\ accepted' = accepted \cup {s}

\* Mutant: a seqno that has fallen out of the window is let through.
AcceptOld(s) ==
  \/ /\ s > confirmSeqno /\ confirmSeqno' = s /\ Take(s)
     /\ recvSeqnoWindow' = (recvSeqnoWindow \ Reused(confirmSeqno, s)) \cup {Slot(s)}
  \/ /\ s > 0 /\ s <= confirmSeqno /\ Slot(s) \notin recvSeqnoWindow
     /\ recvSeqnoWindow' = recvSeqnoWindow \cup {Slot(s)}
     /\ Take(s) /\ UNCHANGED confirmSeqno

\* acceptPacketSeqnoLocked
AcceptPacketSeqno(s) ==
  \/ /\ s <= 0
     /\ Refuse(s) /\ UNCHANGED <<confirmSeqno, recvSeqnoWindow>>
  \/ /\ s > 0 /\ s > confirmSeqno
     /\ confirmSeqno' = s
     /\ recvSeqnoWindow' = (recvSeqnoWindow \ Reused(confirmSeqno, s)) \cup {Slot(s)}
     /\ Take(s)
  \/ /\ s > 0 /\ s <= confirmSeqno
     /\ confirmSeqno - s >= Size \/ Slot(s) \in recvSeqnoWindow
     /\ Refuse(s) /\ UNCHANGED <<confirmSeqno, recvSeqnoWindow>>
  \/ /\ s > 0 /\ s <= confirmSeqno
     /\ confirmSeqno - s < Size /\ Slot(s) \notin recvSeqnoWindow
     /\ recvSeqnoWindow' = recvSeqnoWindow \cup {Slot(s)}
     /\ Take(s) /\ UNCHANGED confirmSeqno

\* Either side reinitialises: seqnos start again.
Reinit ==
  /\ confirmSeqno' = 0 /\ recvSeqnoWindow' = {} /\ accepted' = {}
  /\ seqno' = 0 /\ ok' = FALSE

Next == Reinit \/ \E s \in Seqnos : AcceptPacketSeqno(s)
Spec == Init /\ [][Next]_vars

-----------------------------------------------------------------------------
(* Properties                                                              *)

\* No packet is let through twice in an epoch, however its copies are delayed
\* and however far the window has moved in between.
NoReplay == [][ok' => seqno' \notin accepted]_vars

\* No packet is lost to the window: one that was not let through before, and
\* is not Size or more behind the highest seqno seen, is let through now.
NoFalseReplay ==
  [][seqno' > 0 /\ seqno' \notin accepted /\ confirmSeqno - seqno' < Size => ok']_vars

\* A bit of the window stands for exactly one seqno, the one of the last Size
\* that has its slot.
WindowExact ==
  \A s \in (confirmSeqno - Size + 1)..confirmSeqno :
    Slot(s) \in recvSeqnoWindow <=> s \in accepted
=============================================================================
