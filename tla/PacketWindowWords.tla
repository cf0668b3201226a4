-------------------------- MODULE PacketWindowWords --------------------------
(***************************************************************************)
(* The replay window of an ADNL peer as acceptPacketSeqnoLocked stores it: *)
(* an array of words, cleared word by word with masks when the window      *)
(* advances.  The array and the circular window of PacketWindow are given  *)
(* the same calls, and each decides from its own state.                    *)
(***************************************************************************)
EXTENDS PacketWindow, FiniteSetsExt

CONSTANTS Words, Bits   \* packetReplayWindowSize / 64 words of 64 bits

VARIABLES
  words,   \* recvSeqnoWindow: the bits set in each word
  taken    \* what the call returned

Empty == [w \in 0..(Words - 1) |-> {}]

WordsInit == Init /\ words = Empty /\ taken = FALSE

\* Mutant: the mask of a word reaches one bit too far.
ClearedWide[slot \in 0..(Size - 1), remaining \in 0..Size] ==
  IF remaining = 0 THEN {}
  ELSE LET bits == Min({Bits - (slot % Bits), remaining})
       IN {<<slot \div Bits, (slot % Bits) + i>> : i \in 0..bits}
            \cup ClearedWide[(slot + bits) % Size, remaining - bits]
ClearedFromWide(slot, remaining) == ClearedWide[slot, remaining]

\* The loop: what the masks of the words, from slot on, clear.
Cleared[slot \in 0..(Size - 1), remaining \in 0..Size] ==
  IF remaining = 0 THEN {}
  ELSE LET bits == Min({Bits - (slot % Bits), remaining})
       IN {<<slot \div Bits, (slot % Bits) + i>> : i \in 0..(bits - 1)}
            \cup Cleared[(slot + bits) % Size, remaining - bits]
ClearedFrom(slot, remaining) == Cleared[slot, remaining]

\* The window after an advance from highest to s.
Advance(highest, s) ==
  IF s - highest >= Size THEN Empty
  ELSE LET gone == ClearedFrom((highest + 1) % Size, s - highest)
       IN [w \in DOMAIN words |-> {b \in words[w] : <<w, b>> \notin gone}]

\* acceptPacketSeqnoLocked, in the order of its statements.
StorePacketSeqno(s) ==
  LET advanced == IF s > confirmSeqno THEN Advance(confirmSeqno, s) ELSE words
      highest == Max({confirmSeqno, s})
      index == (s % Size) \div Bits
      bit == s % Bits
      fresh == s > 0 /\ highest - s < Size /\ bit \notin advanced[index]
  IN /\ words' = IF s <= 0 THEN words
                 ELSE IF fresh THEN [advanced EXCEPT ![index] = @ \cup {bit}] ELSE advanced
     /\ taken' = fresh

\* clear(recvSeqnoWindow)
ClearWords == words' = Empty /\ taken' = FALSE

WordsNext ==
  \/ Reinit /\ ClearWords
  \/ \E s \in Seqnos : AcceptPacketSeqno(s) /\ StorePacketSeqno(s)
WordsSpec == WordsInit /\ [][WordsNext]_<<vars, words, taken>>

\* Words and masks are the circular window of PacketWindow, and give its
\* verdict: across word boundaries, the wrap of the array and jumps past the
\* whole window (acceptPacketSeqnoLocked).
WordsAgree ==
  /\ recvSeqnoWindow = UNION {{Bits * w + b : b \in words[w]} : w \in DOMAIN words}
  /\ taken = ok
=============================================================================
