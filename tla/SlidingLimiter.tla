--------------------------- MODULE SlidingLimiter ---------------------------
(***************************************************************************)
(* The limiter of requests of the toncenter client (toncenter/client.go):  *)
(* a caller reads the clock, then takes the lock, drops the starts that    *)
(* have left the window, and starts if there are fewer than max of them.   *)
(* The clock goes on between the two, at most MaxStall.                    *)
(***************************************************************************)
EXTENDS Integers, Sequences

CONSTANTS
  Callers,
  max,         \* requests in a window
  window,
  MaxStall,    \* bound: how long a caller waits for the lock
  MaxClock,    \* bound: time
  MaxStarts    \* bound: requests

VARIABLES
  clock,
  times,     \* the moments of the starts that count
  at,        \* where each caller is: out, at l.mu, at time.Until, asleep, in the loop
  seen,      \* the time a caller has read: now, or waitUntil
  starts     \* history: when requests have really started

vars == <<clock, times, at, seen, starts>>

TypeOK ==
  /\ clock \in 0..MaxClock /\ at \in [Callers -> {"idle", "lock", "until", "sleep", "again"}]
  /\ seen \in [Callers -> 0..(MaxClock + window)]
  /\ times \in Seq(0..MaxClock) /\ Len(times) <= max
  /\ starts \in Seq(0..MaxClock)

Init ==
  /\ clock = 0 /\ times = <<>> /\ at = [c \in Callers |-> "idle"]
  /\ seen = [c \in Callers |-> 0] /\ starts = <<>>

-----------------------------------------------------------------------------
Tick ==
  /\ clock < MaxClock /\ clock' = clock + 1
  /\ \A c \in Callers : at[c] = "lock" => clock' <= seen[c] + MaxStall
  /\ UNCHANGED <<times, at, seen, starts>>

Goto(c, p, t) == at' = [at EXCEPT ![c] = p] /\ seen' = [seen EXCEPT ![c] = t]

ReadClock(c) ==
  /\ at[c] \in {"idle", "again"} /\ Len(starts) < MaxStarts
  /\ Goto(c, "lock", clock) /\ UNCHANGED <<clock, times, starts>>

\* The starts that are left when those before the cutoff at the head are dropped.
Kept(now) ==
  {SubSeq(times, i + 1, Len(times)) : i \in {i \in 0..Len(times) :
     /\ \A k \in 1..i : times[k] < now - window
     /\ i < Len(times) => times[i + 1] >= now - window}}

Free(kept) == Len(kept) < max

\* Mutant: a start that was let through is not remembered.
StartForgotten(c, kept) ==
  /\ Free(kept) /\ times' = kept /\ starts' = Append(starts, clock)
  /\ Goto(c, "idle", 0)

\* Under the lock.
Start(c, kept) ==
  /\ Free(kept) /\ times' = Append(kept, seen[c]) /\ starts' = Append(starts, clock)
  /\ Goto(c, "idle", 0)

Full(c, kept) ==
  /\ ~Free(kept) /\ times' = kept /\ UNCHANGED starts
  /\ Goto(c, "until", kept[1] + window)

Lock(c) ==
  /\ at[c] = "lock" /\ Len(starts) < MaxStarts
  /\ \E kept \in Kept(seen[c]) : Start(c, kept) \/ Full(c, kept)
  /\ UNCHANGED clock

\* time.Until: a moment that has passed is not waited for.
Until(c) ==
  /\ at[c] = "until" /\ UNCHANGED <<clock, times, starts>>
  /\ IF seen[c] <= clock THEN Goto(c, "again", 0) ELSE Goto(c, "sleep", seen[c])

Wake(c) ==
  /\ at[c] = "sleep" /\ seen[c] <= clock
  /\ Goto(c, "again", 0) /\ UNCHANGED <<clock, times, starts>>

Cancelled(c) ==
  /\ at[c] = "sleep" /\ Goto(c, "idle", 0) /\ UNCHANGED <<clock, times, starts>>

-----------------------------------------------------------------------------
Next ==
  \/ Tick
  \/ \E c \in Callers : ReadClock(c) \/ Lock(c) \/ Until(c) \/ Wake(c) \/ Cancelled(c)

Spec == Init /\ [][Next]_vars

-----------------------------------------------------------------------------
(* Properties                                                              *)

\* Between a request and the one max further lies more than a window, less the
\* time a caller may have spent between reading the clock and taking the lock:
\* the limiter lets no burst through although starts are recorded late, out of
\* order and dropped by callers with an older clock.
RateBound ==
  \A i, j \in 1..Len(starts) : j >= i + max => starts[j] - starts[i] > window - MaxStall
=============================================================================
