----------------------------- MODULE TokenBucket -----------------------------
(***************************************************************************)
(* The pacing bucket of an RLDP client (adnl/rldp/bucket.go).  Senders     *)
(* consume from it and the congestion controller reconfigures it, from     *)
(* different goroutines and without a lock: every atomic load, store and   *)
(* compare-and-swap is a step of its own.                                  *)
(*                                                                         *)
(* Amounts are in the code's micro-bytes and time in ticks; a "second" has *)
(* Second ticks.  The product of elapsed time and rate is computed in      *)
(* signed arithmetic of Width bits, as the code does with int64.           *)
(***************************************************************************)
EXTENDS Integers

CONSTANTS
  Threads,
  Rates,        \* rates SetRate is called with, after its clamping
  Capacities,   \* bursts SetCapacityBytes is called with
  Units,        \* packet sizes of consumeUnits
  MaxUnits,     \* packets asked for at once
  Boosts,       \* amounts AddTokens is called with
  Second,       \* ticks per second
  CapSlack,     \* SetRate follows a capacity within rate / CapSlack (64)
  Width,        \* bits of the signed product
  MaxNow, MaxBoost   \* bounds on the clock and on the sum of the boosts

VARIABLES
  ratePerSec, capacity, tokens, lastRefill,   \* the fields of TokenBucket
  now,            \* the clock
  pc, loc,        \* where each goroutine is, and its locals
  spent, boost    \* history: consumed so far, added by AddTokens so far

fields == <<ratePerSec, capacity, tokens, lastRefill>>
history == <<spent, boost>>
vars == <<fields, now, pc, loc, history>>

Points == {"idle", "clock", "last", "add", "casrefill", "rload", "rcap", "rcas",
           "load", "take", "aload", "acap", "acas", "cstore", "cload", "ccas",
           "rcapload", "rrateload", "rcapstore"}
\* t: clock value; last; n: amount of the call (add, units, new capacity...);
\* unit: packet size; curr: loaded value; new: value to store.
Locals == [t : Nat, last : Nat, n : Nat, unit : Nat, curr : Nat, new : Nat, add : Nat]
NoLocals == [t |-> 0, last |-> 0, n |-> 0, unit |-> 0, curr |-> 0, new |-> 0, add |-> 0]

TypeOK ==
  /\ ratePerSec \in Nat \ {0} /\ capacity \in Nat /\ tokens \in Nat
  /\ lastRefill \in 0..MaxNow /\ now \in 0..MaxNow
  /\ pc \in [Threads -> Points]
  /\ loc \in [Threads -> Locals]
  /\ spent \in Nat /\ boost \in 0..MaxBoost

\* NewTokenBucket: a full bucket with a burst of one second.
Init ==
  /\ ratePerSec \in Rates /\ capacity = ratePerSec /\ tokens = ratePerSec
  /\ lastRefill = 0 /\ now = 0
  /\ pc = [i \in Threads |-> "idle"] /\ loc = [i \in Threads |-> NoLocals]
  /\ spent = 0 /\ boost = 0

At(i, p) == pc[i] = p
Goto(i, p, l) == pc' = [pc EXCEPT ![i] = p] /\ loc' = [loc EXCEPT ![i] = l]
Return(i) == Goto(i, "idle", NoLocals)
Lesser(a, b) == IF a < b THEN a ELSE b
Distance(a, b) == IF a < b THEN b - a ELSE a - b
\* Two's complement of Width bits.
Signed(x) == LET m == x % 2^Width IN IF m >= 2^(Width - 1) THEN m - 2^Width ELSE m

-----------------------------------------------------------------------------
(* consumeUnits, behind ConsumeUpTo, ConsumePackets and TryConsumeBytes     *)

Consume(i) ==
  /\ At(i, "idle")
  /\ \E n \in 1..MaxUnits, u \in Units :
       Goto(i, "clock", [NoLocals EXCEPT !.n = n, !.unit = u])
  /\ UNCHANGED <<fields, now, history>>

ReadClock(i) ==
  /\ At(i, "clock") /\ Goto(i, "last", [loc[i] EXCEPT !.t = now])
  /\ UNCHANGED <<fields, now, history>>

LoadRefill(i) ==
  /\ At(i, "last") /\ Goto(i, "add", [loc[i] EXCEPT !.last = lastRefill])
  /\ UNCHANGED <<fields, now, history>>

\* What the elapsed time is worth; division truncates towards zero.
Worth(elapsed, rate) ==
  IF elapsed > 0 /\ Signed(elapsed * rate) > 0
    THEN Signed(elapsed * rate) \div Second ELSE 0

ComputeAdd(i) ==
  /\ At(i, "add")
  /\ LET add == Worth(loc[i].t - loc[i].last, ratePerSec)
     IN  Goto(i, IF add > 0 THEN "casrefill" ELSE "load", [loc[i] EXCEPT !.add = add])
  /\ UNCHANGED <<fields, now, history>>

\* Only one goroutine claims an elapsed interval.
CasRefill(i) ==
  /\ At(i, "casrefill")
  /\ IF lastRefill = loc[i].last
       THEN lastRefill' = loc[i].t /\ Goto(i, "rload", loc[i])
       ELSE UNCHANGED lastRefill /\ Goto(i, "load", loc[i])
  /\ UNCHANGED <<ratePerSec, capacity, tokens, now, history>>

\* The loop that credits the bucket: in consumeUnits and in AddTokens.
CreditLoad(i) ==
  /\ pc[i] \in {"rload", "aload"}
  /\ Goto(i, IF At(i, "rload") THEN "rcap" ELSE "acap", [loc[i] EXCEPT !.curr = tokens])
  /\ UNCHANGED <<fields, now, history>>

\* AddTokens treats a capacity of zero as no capacity.
Capped(i) ==
  IF At(i, "acap") /\ capacity = 0 THEN loc[i].curr + loc[i].add
  ELSE Lesser(loc[i].curr + loc[i].add, capacity)

CreditCap(i) ==
  /\ pc[i] \in {"rcap", "acap"}
  /\ Goto(i, IF At(i, "rcap") THEN "rcas" ELSE "acas", [loc[i] EXCEPT !.new = Capped(i)])
  /\ UNCHANGED <<fields, now, history>>

CreditCas(i) ==
  /\ pc[i] \in {"rcas", "acas"}
  /\ IF tokens = loc[i].curr
       THEN /\ tokens' = loc[i].new
            /\ IF At(i, "rcas") THEN Goto(i, "load", loc[i]) ELSE Return(i)
       ELSE /\ UNCHANGED tokens
            /\ Goto(i, IF At(i, "rcas") THEN "rload" ELSE "aload", loc[i])
  /\ UNCHANGED <<ratePerSec, capacity, lastRefill, now, history>>

\* Whole packets only: all of them, or as many as the tokens cover.
Affordable(i, avail) ==
  Lesser(loc[i].n, avail \div loc[i].unit) * loc[i].unit

LoadTokens(i) ==
  /\ At(i, "load")
  /\ IF Affordable(i, tokens) = 0 THEN Return(i)
     ELSE Goto(i, "take", [loc[i] EXCEPT !.curr = tokens, !.new = tokens - Affordable(i, tokens)])
  /\ UNCHANGED <<fields, now, history>>

\* Mutant: the tokens are stored, not compared and swapped.
TakeBlind(i) ==
  /\ At(i, "take") /\ tokens' = loc[i].new /\ spent' = spent + loc[i].curr - loc[i].new
  /\ Return(i) /\ UNCHANGED <<ratePerSec, capacity, lastRefill, now, boost>>

Take(i) ==
  /\ At(i, "take")
  /\ IF tokens = loc[i].curr
       THEN tokens' = loc[i].new /\ spent' = spent + loc[i].curr - loc[i].new /\ Return(i)
       ELSE /\ UNCHANGED <<tokens, spent>>
            /\ Goto(i, "clock", [NoLocals EXCEPT !.n = loc[i].n, !.unit = loc[i].unit])
  /\ UNCHANGED <<ratePerSec, capacity, lastRefill, now, boost>>

-----------------------------------------------------------------------------
(* The controller's operations                                             *)

\* The boost is counted when the call starts.
AddTokens(i) ==
  /\ At(i, "idle")
  /\ \E b \in Boosts : /\ boost + b <= MaxBoost /\ boost' = boost + b
                       /\ Goto(i, "aload", [NoLocals EXCEPT !.add = b])
  /\ UNCHANGED <<fields, now, spent>>

SetCapacityBytes(i) ==
  /\ At(i, "idle")
  /\ \E c \in Capacities : Goto(i, "cstore", [NoLocals EXCEPT !.n = c])
  /\ UNCHANGED <<fields, now, history>>

StoreCapacity(i) ==
  /\ At(i, "cstore") /\ capacity' = loc[i].n /\ Goto(i, "cload", loc[i])
  /\ UNCHANGED <<ratePerSec, tokens, lastRefill, now, history>>

LoadExcess(i) ==
  /\ At(i, "cload")
  /\ IF tokens <= loc[i].n THEN Return(i)
     ELSE Goto(i, "ccas", [loc[i] EXCEPT !.curr = tokens])
  /\ UNCHANGED <<fields, now, history>>

CutExcess(i) ==
  /\ At(i, "ccas")
  /\ IF tokens = loc[i].curr THEN tokens' = loc[i].n /\ Return(i)
     ELSE UNCHANGED tokens /\ Goto(i, "cload", [loc[i] EXCEPT !.curr = 0])
  /\ UNCHANGED <<ratePerSec, capacity, lastRefill, now, history>>

SetRate(i) ==
  /\ At(i, "idle")
  /\ \E r \in Rates : ratePerSec' = r /\ Goto(i, "rcapload", NoLocals)
  /\ UNCHANGED <<capacity, tokens, lastRefill, now, history>>

\* A capacity that is about the rate follows the rate.
RateLoadCapacity(i) ==
  /\ At(i, "rcapload") /\ Goto(i, "rrateload", [NoLocals EXCEPT !.curr = capacity])
  /\ UNCHANGED <<fields, now, history>>

RateLoadRate(i) ==
  /\ At(i, "rrateload")
  /\ IF Distance(loc[i].curr, ratePerSec) < ratePerSec \div CapSlack
       THEN Goto(i, "rcapstore", [NoLocals EXCEPT !.new = ratePerSec])
       ELSE Return(i)
  /\ UNCHANGED <<fields, now, history>>

RateStoreCapacity(i) ==
  /\ At(i, "rcapstore") /\ capacity' = loc[i].new /\ Return(i)
  /\ UNCHANGED <<ratePerSec, tokens, lastRefill, now, history>>

Tick ==
  /\ now < MaxNow /\ now' = now + 1
  /\ UNCHANGED <<fields, pc, loc, history>>

-----------------------------------------------------------------------------
Sender(i) ==
  \/ Consume(i) \/ ReadClock(i) \/ LoadRefill(i) \/ ComputeAdd(i) \/ CasRefill(i)
  \/ CreditLoad(i) \/ CreditCap(i) \/ CreditCas(i) \/ LoadTokens(i) \/ Take(i)
Controller(i) ==
  \/ AddTokens(i) \/ SetCapacityBytes(i) \/ StoreCapacity(i) \/ LoadExcess(i)
  \/ CutExcess(i) \/ SetRate(i) \/ RateLoadCapacity(i) \/ RateLoadRate(i)
  \/ RateStoreCapacity(i)

Next == Tick \/ \E i \in Threads : Sender(i) \/ Controller(i)
Spec == Init /\ [][Next]_vars

-----------------------------------------------------------------------------
(* Properties                                                              *)

Fastest == CHOOSE r \in Rates : \A s \in Rates : s <= r

\* Pacing: what was sent never exceeds the initial burst, the boosts, and what
\* the fastest configured rate is worth over the time that was accounted for,
\* however the goroutines interleave (consumeUnits credits an interval once).
PacingBound ==
  (spent + tokens - Fastest - boost) * Second <= Fastest * lastRefill

\* A bucket that was left alone for as long as its burst takes to refill hands
\* out the whole burst: a caller alone in the bucket that asks for at least
\* that much comes away with it.
IdleRefillsBurst ==
  \A i \in Threads :
    /\ At(i, "load") /\ \A j \in Threads \ {i} : At(j, "idle")
    /\ (loc[i].t - loc[i].last) * ratePerSec >= capacity * Second
    => tokens >= capacity
=============================================================================
