---------------------------- MODULE BucketProofs ----------------------------
(***************************************************************************)
(* Proofs about Pacing: what the pacing bucket lets through, for any       *)
(* goroutines, rates, bursts, boosts and width of the product.             *)
(***************************************************************************)
EXTENDS Pacing, FiniteSetTheorems, TLAPS

\* What is spent comes out of the bucket.
LEMMA Moves ==
  ASSUME NEW s \in Nat, NEW t \in Nat, NEW b \in Nat, NEW sn \in Nat, NEW tn \in Nat,
         sn + tn = s + t
  PROVE  sn + tn - b + 0 <= s + t - b + 0
  OBVIOUS

\* What is claimed is owed; what is credited is owed no more.
LEMMA Claims ==
  ASSUME NEW s \in Nat, NEW t \in Nat, NEW b \in Nat, NEW a \in Nat
  PROVE  s + t - b + a - (s + t - b + 0) = a
  OBVIOUS

LEMMA Pays ==
  ASSUME NEW s \in Nat, NEW b \in Nat, NEW n \in Nat, NEW c \in Nat, NEW a \in Nat, n <= c + a
  PROVE  s + n - b + 0 <= s + c - b + a
  OBVIOUS

\* A sum over goroutines as a cardinality: one pair for each unit of each.
Pairs(c) == {x \in Goroutines \X Nat : 1 <= x[2] /\ x[2] <= c[x[1]]}
Row(i, n) == {i} \X (1..n)

LEMMA RowCounts ==
  ASSUME NEW i, NEW n \in Nat
  PROVE  IsFiniteSet(Row(i, n)) /\ Cardinality(Row(i, n)) = n
<1>1. IsFiniteSet({i}) /\ Cardinality({i}) = 1
  BY FS_Singleton, Zenon
<1>2. IsFiniteSet(1..n) /\ Cardinality(1..n) = n
  BY FS_Interval
<1>3. /\ IsFiniteSet({i} \X (1..n))
      /\ Cardinality({i} \X (1..n)) = Cardinality({i}) * Cardinality(1..n)
  BY ONLY <1>1, <1>2, FS_Product, Zenon
<1> QED
  BY <1>1, <1>2, <1>3 DEF Row

\* Two functions that differ at one goroutine have sums that differ as they do.
LEMMA SumChanges ==
  ASSUME NEW c \in [Goroutines -> Nat], NEW d \in [Goroutines -> Nat], NEW i \in Goroutines,
         \A j \in Goroutines \ {i} : d[j] = c[j], IsFiniteSet(Pairs(c))
  PROVE  /\ IsFiniteSet(Pairs(d))
         /\ Cardinality(Pairs(c)) \in Nat /\ Cardinality(Pairs(d)) \in Nat
         /\ Cardinality(Pairs(d)) = Cardinality(Pairs(c)) - c[i] + d[i]
<1> DEFINE rest == {x \in Pairs(c) : x[1] # i}
<1>1. Pairs(c) = rest \cup Row(i, c[i]) /\ Pairs(d) = rest \cup Row(i, d[i])
  BY DEF Pairs, Row
<1>2. rest \cap Row(i, c[i]) = {} /\ rest \cap Row(i, d[i]) = {}
  BY DEF Row
<1>3. IsFiniteSet(rest)
  BY FS_Subset, Zenon
<1> HIDE DEF rest
<1>4. Cardinality(rest) \in Nat
  BY <1>3, FS_CardinalityType
<1>5. ASSUME NEW n \in Nat, rest \cap Row(i, n) = {}
      PROVE  /\ IsFiniteSet(rest \cup Row(i, n))
             /\ Cardinality(rest \cup Row(i, n)) = Cardinality(rest) + n
  <2>1. /\ IsFiniteSet(rest \cup Row(i, n))
        /\ Cardinality(rest \cup Row(i, n)) =
             Cardinality(rest) + Cardinality(Row(i, n)) - Cardinality(rest \cap Row(i, n))
    BY <1>3, RowCounts, FS_Union, Zenon
  <2>2. Cardinality(Row(i, n)) = n /\ Cardinality(rest \cap Row(i, n)) = 0
    BY <1>5, RowCounts, FS_EmptySet, Zenon
  <2> QED
    BY ONLY <2>1, <2>2, <1>4, n \in Nat
<1>6. c[i] \in Nat /\ d[i] \in Nat
  OBVIOUS
<1>7. /\ Cardinality(Pairs(c)) = Cardinality(rest) + c[i] /\ IsFiniteSet(Pairs(d))
      /\ Cardinality(Pairs(d)) = Cardinality(rest) + d[i]
  BY <1>1, <1>2, <1>5, <1>6, Zenon
<1> QED
  BY <1>4, <1>6, <1>7

Crediting == {"rload", "rcap", "rcas", "aload", "acap", "acas"}
Sending == {"clock", "last", "add", "casrefill", "rload", "rcap", "rcas", "load", "take"}

\* What a goroutine at p with locals l has claimed and not yet put in the bucket.
Owes(p, l) == IF p \in Crediting THEN l.add ELSE 0
credits == [i \in Goroutines |-> Owes(pc[i], loc[i])]
owed == Cardinality(Pairs(credits))

\* What the locals of a goroutine say at each point: before the claim, that its
\* credit is worth no more than the interval; before a compare-and-swap, how the
\* new value relates to the one that was read.
Sound(p, l) ==
  /\ p \in Bucket!Points /\ l \in Bucket!Locals /\ l.t <= MaxNow
  /\ p \in Sending => l.unit >= 1
  /\ p = "casrefill" => l.last < l.t /\ l.add * Second <= (l.t - l.last) * Bucket!Fastest
  /\ p \in {"rcas", "acas"} => l.new <= l.curr + l.add
  /\ p = "take" => l.new <= l.curr
  /\ p = "ccas" => l.n <= l.curr

Registers ==
  /\ ratePerSec \in Rates /\ capacity \in Nat /\ tokens \in Nat
  /\ lastRefill \in 0..MaxNow /\ now \in 0..MaxNow
  /\ spent \in Nat /\ boost \in 0..MaxBoost
Running ==
  /\ pc = [i \in Goroutines |-> pc[i]] /\ loc = [i \in Goroutines |-> loc[i]]
  /\ \A i \in Goroutines : Sound(pc[i], loc[i])
\* Pacing, with what has been claimed counted as if it were in the bucket.
Paced ==
  /\ IsFiniteSet(Pairs(credits))
  /\ (spent + tokens + owed - Bucket!Fastest - boost) * Second <= Bucket!Fastest * lastRefill

BucketInv == Registers /\ Running /\ Paced

LEMMA FastestRate == Bucket!Fastest \in Nat /\ \A r \in Rates : r <= Bucket!Fastest
<1>1. Bucket!Fastest \in Rates /\ \A r \in Rates : r <= Bucket!Fastest
  BY BucketAssumption, Zenon DEF Bucket!Fastest
<1> QED
  BY <1>1, BucketAssumption

LEMMA OwesTyped ==
  ASSUME NEW p, NEW l, Sound(p, l)
  PROVE  Owes(p, l) \in Nat
  BY DEF Sound, Owes, Bucket!Locals

\* A step of one goroutine to p with locals l.
LEMMA Moved ==
  ASSUME Running, NEW i \in Goroutines, NEW p, NEW l, Sound(p, l), Bucket!Goto(i, p, l)
  PROVE  /\ Running'
         /\ credits \in [Goroutines -> Nat] /\ credits' \in [Goroutines -> Nat]
         /\ credits[i] = Owes(pc[i], loc[i]) /\ credits'[i] = Owes(p, l)
         /\ \A j \in Goroutines \ {i} : credits'[j] = credits[j]
<1>1. /\ pc' = [j \in Goroutines |-> pc'[j]] /\ pc'[i] = p
      /\ \A j \in Goroutines \ {i} : pc'[j] = pc[j]
  BY Zenon DEF Running, Bucket!Goto
<1>2. /\ loc' = [j \in Goroutines |-> loc'[j]] /\ loc'[i] = l
      /\ \A j \in Goroutines \ {i} : loc'[j] = loc[j]
  BY Zenon DEF Running, Bucket!Goto
<1>3. ASSUME NEW j \in Goroutines PROVE Sound(pc'[j], loc'[j])
  <2>1. CASE j = i
    BY <2>1, <1>1, <1>2, Zenon
  <2>2. CASE j # i
    BY <2>2, <1>1, <1>2, Zenon DEF Running
  <2> QED
    BY <2>1, <2>2
<1>4. Running'
  BY <1>1, <1>2, <1>3, Zenon DEF Running
<1>5. credits \in [Goroutines -> Nat]
  BY OwesTyped, Zenon DEF Running, credits
<1>6. credits' = [j \in Goroutines |-> Owes(pc'[j], loc'[j])]
  BY Zenon DEF credits, Owes
<1>7. credits' \in [Goroutines -> Nat]
  BY <1>6, <1>3, OwesTyped, Zenon
<1>8. credits[i] = Owes(pc[i], loc[i]) /\ credits'[i] = Owes(p, l)
  BY <1>1, <1>2, <1>6, Zenon DEF credits
<1>9. ASSUME NEW j \in Goroutines \ {i} PROVE credits'[j] = credits[j]
  BY <1>1, <1>2, <1>6, Zenon DEF credits
<1> QED
  BY <1>4, <1>5, <1>7, <1>8, <1>9

LEMMA Distributes ==
  ASSUME NEW x \in Int, NEW y \in Int, NEW s \in Int, NEW f \in Int, NEW a \in Int, NEW b \in Int,
         x * s <= f * a, y * s <= f * (b - a)
  PROVE  (x + y) * s <= f * b
<1>1. (x + y) * s = x * s + y * s /\ x * s \in Int /\ y * s \in Int
  OBVIOUS
<1>2. f * (b - a) = f * b - f * a /\ f * b \in Int /\ f * a \in Int
  OBVIOUS
<1> QED
  BY <1>1, <1>2

\* ... keeps the pace if what it adds is covered by the interval it claims.
LEMMA Keeps ==
  ASSUME BucketInv, NEW i \in Goroutines, NEW p, NEW l, Sound(p, l), Bucket!Goto(i, p, l), Registers',
         (spent' + tokens' - boost' + Owes(p, l)
            - (spent + tokens - boost + Owes(pc[i], loc[i]))) * Second
           <= Bucket!Fastest * (lastRefill' - lastRefill)
  PROVE  BucketInv'
<1>1. /\ Running'
      /\ credits \in [Goroutines -> Nat] /\ credits' \in [Goroutines -> Nat]
      /\ credits[i] = Owes(pc[i], loc[i]) /\ credits'[i] = Owes(p, l)
      /\ \A j \in Goroutines \ {i} : credits'[j] = credits[j]
  BY Moved, Zenon DEF BucketInv
<1>2. /\ IsFiniteSet(Pairs(credits'))
      /\ Cardinality(Pairs(credits)) \in Nat /\ Cardinality(Pairs(credits')) \in Nat
      /\ Cardinality(Pairs(credits')) = Cardinality(Pairs(credits)) - credits[i] + credits'[i]
  BY <1>1, SumChanges, Zenon DEF BucketInv, Paced
<1>3. owed' = Cardinality(Pairs(credits')) /\ IsFiniteSet(Pairs(credits))'
  BY <1>2, Zenon DEF owed, Pairs
<1>4. owed' = owed - Owes(pc[i], loc[i]) + Owes(p, l) /\ owed \in Nat
  BY <1>1, <1>2, <1>3, Zenon DEF owed
<1>5. Owes(p, l) \in Nat /\ Owes(pc[i], loc[i]) \in Nat
  BY OwesTyped, Zenon DEF BucketInv, Running
<1>6. /\ spent \in Nat /\ tokens \in Nat /\ boost \in Nat /\ lastRefill \in Nat
      /\ spent' \in Nat /\ tokens' \in Nat /\ boost' \in Nat /\ lastRefill' \in Nat
      /\ Bucket!Fastest \in Nat /\ Second \in Nat
  BY FastestRate, BucketAssumption DEF BucketInv, Registers
<1>7. (spent + tokens + owed - Bucket!Fastest - boost) * Second <= Bucket!Fastest * lastRefill
  BY Zenon DEF BucketInv, Paced
<1>8. (spent' + tokens' + owed' - Bucket!Fastest - boost') * Second <= Bucket!Fastest * lastRefill'
  <2> DEFINE x == spent + tokens + owed - Bucket!Fastest - boost
             y == spent' + tokens' - boost' + Owes(p, l) - (spent + tokens - boost + Owes(pc[i], loc[i]))
             z == spent' + tokens' + owed' - Bucket!Fastest - boost'
  <2>1. z = x + y /\ x \in Int /\ y \in Int
    BY ONLY <1>4, <1>5, <1>6
  <2>2. x * Second <= Bucket!Fastest * lastRefill /\ y * Second <= Bucket!Fastest * (lastRefill' - lastRefill)
    BY <1>7
  <2> HIDE DEF x, y, z
  <2>3. z * Second <= Bucket!Fastest * lastRefill'
    <3>1. lastRefill \in Int /\ lastRefill' \in Int /\ Bucket!Fastest \in Int /\ Second \in Int
      BY ONLY <1>6
    <3>2. (x + y) * Second <= Bucket!Fastest * lastRefill'
      BY ONLY <2>1, <2>2, <3>1, Distributes, Zenon
    <3> QED
      BY ONLY <2>1, <3>2, Zenon
  <2> QED
    BY <2>3, Zenon DEF z
<1>9. Bucket!Fastest' = Bucket!Fastest /\ Second' = Second
  BY DEF Bucket!Fastest
<1>10. Paced'
  BY <1>3, <1>8, <1>9, Zenon DEF Paced
<1> QED
  BY <1>1, <1>10, Zenon DEF BucketInv

\* Most steps claim no interval, and add no more to the bucket than they owe.
LEMMA KeepsStill ==
  ASSUME BucketInv, NEW i \in Goroutines, NEW p, NEW l, Sound(p, l), Bucket!Goto(i, p, l), Registers',
         lastRefill' = lastRefill,
         spent' + tokens' - boost' + Owes(p, l) <= spent + tokens - boost + Owes(pc[i], loc[i])
  PROVE  BucketInv'
<1>1. Owes(p, l) \in Nat /\ Owes(pc[i], loc[i]) \in Nat
  BY OwesTyped, Zenon DEF BucketInv, Running
<1>2. /\ spent \in Nat /\ tokens \in Nat /\ boost \in Nat /\ lastRefill \in Nat
      /\ spent' \in Nat /\ tokens' \in Nat /\ boost' \in Nat /\ lastRefill' \in Nat
      /\ Bucket!Fastest \in Nat /\ Second \in Nat
  BY FastestRate, BucketAssumption DEF BucketInv, Registers
<1>3. (spent' + tokens' - boost' + Owes(p, l)
            - (spent + tokens - boost + Owes(pc[i], loc[i]))) * Second
           <= Bucket!Fastest * (lastRefill' - lastRefill)
  <2> DEFINE y == spent' + tokens' - boost' + Owes(p, l)
                    - (spent + tokens - boost + Owes(pc[i], loc[i]))
  <2>1. y \in Int /\ y <= 0 /\ Bucket!Fastest * (lastRefill' - lastRefill) = 0
    BY <1>1, <1>2
  <2> HIDE DEF y
  <2>2. y * Second <= 0
    BY <1>2, <2>1
  <2> QED
    BY <2>1, <2>2 DEF y
<1> QED
  BY <1>3, Keeps, Zenon

\* The pointwise facts of a goroutine.
LEMMA AtOnce ==
  ASSUME BucketInv, NEW i \in Goroutines
  PROVE  /\ Sound(pc[i], loc[i]) /\ loc[i] \in Bucket!Locals /\ Registers
         /\ \A p \in Bucket!Points : pc[i] = p => Sound(p, loc[i])
  BY Zenon DEF BucketInv, Running, Sound

\* A step that touches no register and neither claims nor credits.
LEMMA Stays ==
  ASSUME BucketInv, NEW i \in Goroutines, NEW p, NEW l, Sound(p, l), Bucket!Goto(i, p, l),
         UNCHANGED <<Bucket!fields, now, Bucket!history>>, Owes(p, l) = Owes(pc[i], loc[i])
  PROVE  BucketInv'
<1>1. /\ Registers' /\ lastRefill' = lastRefill
      /\ spent' = spent /\ tokens' = tokens /\ boost' = boost
  BY Zenon DEF BucketInv, Registers, Bucket!fields, Bucket!history
<1>2. Owes(pc[i], loc[i]) \in Nat
  BY OwesTyped, Zenon DEF BucketInv, Running
<1>3. spent \in Nat /\ tokens \in Nat /\ boost \in Nat
  BY BucketAssumption DEF BucketInv, Registers
<1>4. spent' + tokens' - boost' + Owes(p, l) <= spent + tokens - boost + Owes(pc[i], loc[i])
  BY <1>1, <1>2, <1>3
<1> QED
  BY <1>1, <1>4, KeepsStill, Zenon

LEMMA BucketConsume ==
  ASSUME BucketInv, NEW i \in Goroutines, Bucket!Consume(i)
  PROVE  BucketInv'
<1>1. PICK n \in 1..MaxUnits, u \in Units :
         Bucket!Goto(i, "clock", [Bucket!NoLocals EXCEPT !.n = n, !.unit = u])
  BY Zenon DEF Bucket!Consume
<1> DEFINE l == [Bucket!NoLocals EXCEPT !.n = n, !.unit = u]
<1>2. n \in Nat /\ u \in Nat /\ u >= 1 /\ MaxNow \in Nat
  BY BucketAssumption
<1>3. l \in Bucket!Locals /\ l.t = 0 /\ l.unit = u
  BY ONLY <1>2, Zenon DEF Bucket!NoLocals, Bucket!Locals
<1>4. Bucket!Goto(i, "clock", l)
  BY <1>1
<1> HIDE DEF l
<1>5. Sound("clock", l) /\ Owes("clock", l) = 0
  BY ONLY <1>2, <1>3 DEF Sound, Owes, Bucket!Points, Sending, Crediting
<1>6. Owes(pc[i], loc[i]) = 0 /\ UNCHANGED <<Bucket!fields, now, Bucket!history>>
  BY DEF Bucket!Consume, Bucket!At, Owes, Crediting
<1> QED
  BY <1>4, <1>5, <1>6, Stays, Zenon

LEMMA BucketReadClock ==
  ASSUME BucketInv, NEW i \in Goroutines, Bucket!ReadClock(i)
  PROVE  BucketInv'
<1> DEFINE l == [loc[i] EXCEPT !.t = now]
<1>1. Sound("clock", loc[i]) /\ pc[i] = "clock" /\ Bucket!Goto(i, "last", l)
  BY AtOnce, Zenon DEF Bucket!ReadClock, Bucket!At
<1>2. now \in Nat /\ now <= MaxNow /\ MaxNow \in Nat
  BY BucketAssumption DEF BucketInv, Registers
<1>3. loc[i] \in Bucket!Locals /\ loc[i].unit >= 1
  BY ONLY <1>1 DEF Sound, Sending
<1>4. l \in Bucket!Locals /\ l.t = now /\ l.unit = loc[i].unit
  BY ONLY <1>2, <1>3 DEF Bucket!Locals
<1> HIDE DEF l
<1>5. Sound("last", l) /\ Owes("last", l) = 0
  BY ONLY <1>2, <1>3, <1>4 DEF Sound, Owes, Bucket!Points, Sending, Crediting
<1>6. Owes(pc[i], loc[i]) = 0 /\ UNCHANGED <<Bucket!fields, now, Bucket!history>>
  BY <1>1 DEF Bucket!ReadClock, Owes, Crediting
<1> QED
  BY <1>1, <1>5, <1>6, Stays, Zenon

LEMMA BucketLoadRefill ==
  ASSUME BucketInv, NEW i \in Goroutines, Bucket!LoadRefill(i)
  PROVE  BucketInv'
<1> DEFINE l == [loc[i] EXCEPT !.last = lastRefill]
<1>1. Sound("last", loc[i]) /\ pc[i] = "last" /\ Bucket!Goto(i, "add", l)
  BY AtOnce, Zenon DEF Bucket!LoadRefill, Bucket!At
<1>2. lastRefill \in Nat
  BY BucketAssumption DEF BucketInv, Registers
<1>3. loc[i] \in Bucket!Locals /\ loc[i].unit >= 1 /\ loc[i].t <= MaxNow
  BY ONLY <1>1 DEF Sound, Sending
<1>4. l \in Bucket!Locals /\ l.t = loc[i].t /\ l.unit = loc[i].unit
  BY ONLY <1>2, <1>3 DEF Bucket!Locals
<1> HIDE DEF l
<1>5. Sound("add", l) /\ Owes("add", l) = 0
  BY ONLY <1>2, <1>3, <1>4 DEF Sound, Owes, Bucket!Points, Sending, Crediting
<1>6. Owes(pc[i], loc[i]) = 0 /\ UNCHANGED <<Bucket!fields, now, Bucket!history>>
  BY <1>1 DEF Bucket!LoadRefill, Owes, Crediting
<1> QED
  BY <1>1, <1>5, <1>6, Stays, Zenon

\* The product, as far as it fits its width, is not more than it is; and the
\* division does not round up.
LEMMA WorthBound ==
  ASSUME NEW e \in Int, NEW r \in Nat
  PROVE  /\ Bucket!Worth(e, r) \in Nat
         /\ Bucket!Worth(e, r) > 0 => e > 0 /\ Bucket!Worth(e, r) * Second <= e * r
<1>1. CASE ~(e > 0 /\ Bucket!Signed(e * r) > 0)
  BY <1>1 DEF Bucket!Worth
<1>2. CASE e > 0 /\ Bucket!Signed(e * r) > 0
  <2> DEFINE x == e * r
             w == 2^Width
             m == x % w
  <2>1. x \in Nat
    BY <1>2
  <2>2. w \in Nat \ {0}
    BY BucketAssumption
  <2>3. Bucket!Signed(x) = IF m >= 2^(Width - 1) THEN m - w ELSE m
    BY DEF Bucket!Signed
  <2>4. Bucket!Signed(x) > 0
    BY <1>2
  <2> HIDE DEF x, w
  <2>5. m \in Nat /\ m < w /\ m <= x
    BY ONLY <2>1, <2>2
  <2> HIDE DEF m
  <2>6. Bucket!Signed(x) = m
    <3>1. m - w < 0
      BY ONLY <2>2, <2>5
    <3> QED
      BY ONLY <2>2, <2>3, <2>4, <2>5, <3>1
  <2>7. Bucket!Worth(e, r) = m \div Second
    BY <1>2, <2>6 DEF Bucket!Worth, x
  <2>8. m \div Second \in Nat /\ (m \div Second) * Second <= m
    <3>1. Second \in Nat \ {0}
      BY BucketAssumption
    <3> QED
      BY ONLY <3>1, <2>5
  <2>9. Bucket!Worth(e, r) \in Nat /\ Bucket!Worth(e, r) * Second <= x
    BY ONLY <2>1, <2>5, <2>7, <2>8, BucketAssumption
  <2> QED
    BY <1>2, <2>9 DEF x
<1> QED
  BY <1>1, <1>2

LEMMA BucketComputeAdd ==
  ASSUME BucketInv, NEW i \in Goroutines, Bucket!ComputeAdd(i)
  PROVE  BucketInv'
<1> DEFINE add == Bucket!Worth(loc[i].t - loc[i].last, ratePerSec)
           l == [loc[i] EXCEPT !.add = add]
           p == IF add > 0 THEN "casrefill" ELSE "load"
<1>1. Sound("add", loc[i]) /\ pc[i] = "add" /\ Bucket!Goto(i, p, l)
  BY AtOnce, Zenon DEF Bucket!ComputeAdd, Bucket!At, Bucket!Points
<1>2. loc[i] \in Bucket!Locals /\ loc[i].unit >= 1 /\ loc[i].t <= MaxNow
  BY ONLY <1>1 DEF Sound, Sending
<1>3. loc[i].t \in Nat /\ loc[i].last \in Nat /\ loc[i].unit \in Nat
  BY ONLY <1>2 DEF Bucket!Locals
<1>4. ratePerSec \in Nat /\ ratePerSec <= Bucket!Fastest /\ Bucket!Fastest \in Nat /\ Second \in Nat
  BY FastestRate, BucketAssumption DEF BucketInv, Registers
<1>5. /\ add \in Nat
      /\ add > 0 => /\ loc[i].t - loc[i].last > 0
                    /\ add * Second <= (loc[i].t - loc[i].last) * ratePerSec
  <2>1. loc[i].t - loc[i].last \in Int
    BY ONLY <1>3
  <2> QED
    BY <2>1, <1>4, WorthBound, Zenon
<1> HIDE DEF add
<1>6. add > 0 => loc[i].last < loc[i].t /\ add * Second <= (loc[i].t - loc[i].last) * Bucket!Fastest
  <2> DEFINE e == loc[i].t - loc[i].last
  <2>1. SUFFICES ASSUME add > 0 PROVE loc[i].last < loc[i].t /\ add * Second <= e * Bucket!Fastest
    BY Zenon
  <2>2. e \in Int /\ e > 0 /\ loc[i].last < loc[i].t
    BY ONLY <2>1, <1>3, <1>5
  <2>3. add * Second <= e * ratePerSec
    BY <2>1, <1>5, Zenon
  <2> HIDE DEF e
  <2>4. e * ratePerSec <= e * Bucket!Fastest
    BY ONLY <2>2, <1>4
  <2>5. add * Second \in Int /\ e * ratePerSec \in Int /\ e * Bucket!Fastest \in Int
    BY ONLY <1>4, <1>5, <2>2
  <2> QED
    BY ONLY <2>2, <2>3, <2>4, <2>5
<1>7. /\ l \in Bucket!Locals /\ l.t = loc[i].t /\ l.unit = loc[i].unit
      /\ l.last = loc[i].last /\ l.add = add
  BY ONLY <1>2, <1>5 DEF Bucket!Locals
<1> HIDE DEF l
<1>8. Sound("load", l) /\ (add > 0 => Sound("casrefill", l))
  BY ONLY <1>2, <1>6, <1>7 DEF Sound, Bucket!Points, Sending
<1>9. Owes("load", l) = 0 /\ Owes("casrefill", l) = 0 /\ Owes(pc[i], loc[i]) = 0
  BY <1>1 DEF Owes, Crediting
<1>10. UNCHANGED <<Bucket!fields, now, Bucket!history>>
  BY Zenon DEF Bucket!ComputeAdd
<1> QED
  BY <1>1, <1>8, <1>9, <1>10, Stays, Zenon

\* The claim: it moves lastRefill by the interval that the credit is worth, and
\* only if nobody else has.
LEMMA BucketCasRefill ==
  ASSUME BucketInv, NEW i \in Goroutines, Bucket!CasRefill(i)
  PROVE  BucketInv'
<1>1. Sound("casrefill", loc[i]) /\ pc[i] = "casrefill" /\ Registers
  BY AtOnce, Zenon DEF Bucket!CasRefill, Bucket!At, Bucket!Points
<1>2. /\ loc[i] \in Bucket!Locals /\ loc[i].unit >= 1 /\ loc[i].t <= MaxNow
      /\ loc[i].add * Second <= (loc[i].t - loc[i].last) * Bucket!Fastest
  BY ONLY <1>1 DEF Sound, Sending
<1>3. loc[i].t \in Nat /\ loc[i].last \in Nat /\ loc[i].add \in Nat
  BY ONLY <1>2 DEF Bucket!Locals
<1>4. Sound("rload", loc[i]) /\ Sound("load", loc[i])
  BY ONLY <1>2 DEF Sound, Bucket!Points, Sending
<1>5. Owes("load", loc[i]) = 0 /\ Owes(pc[i], loc[i]) = 0 /\ Owes("rload", loc[i]) = loc[i].add
  BY <1>1 DEF Owes, Crediting
<1>6. UNCHANGED <<ratePerSec, capacity, tokens, now, Bucket!history>>
  BY Zenon DEF Bucket!CasRefill
<1>7. CASE lastRefill = loc[i].last
  <2>1. lastRefill' = loc[i].t /\ Bucket!Goto(i, "rload", loc[i])
    BY <1>7, Zenon DEF Bucket!CasRefill
  <2>2. Registers'
    <3>1. loc[i].t \in 0..MaxNow
      BY ONLY <1>2, <1>3, BucketAssumption
    <3> QED
      BY <1>1, <1>6, <2>1, <3>1, Zenon DEF Registers, Bucket!history
  <2>3. (spent' + tokens' - boost' + Owes("rload", loc[i])
            - (spent + tokens - boost + Owes(pc[i], loc[i]))) = loc[i].add
    <3>1. spent \in Nat /\ tokens \in Nat /\ boost \in Nat
      BY BucketAssumption DEF BucketInv, Registers
    <3>2. spent + tokens - boost + loc[i].add - (spent + tokens - boost + 0) = loc[i].add
      BY ONLY <1>3, <3>1, Claims
    <3> QED
      BY <1>5, <1>6, <3>2, Zenon DEF Bucket!history
  <2>4. Bucket!Fastest * (lastRefill' - lastRefill) = (loc[i].t - loc[i].last) * Bucket!Fastest
    BY <1>3, <1>7, <2>1, FastestRate
  <2> QED
    BY <1>2, <1>4, <2>1, <2>2, <2>3, <2>4, Keeps, Zenon
<1>8. CASE lastRefill # loc[i].last
  <2>1. lastRefill' = lastRefill /\ Bucket!Goto(i, "load", loc[i])
    BY <1>8, Zenon DEF Bucket!CasRefill
  <2> QED
    BY <1>4, <1>5, <1>6, <2>1, Stays, Zenon DEF Bucket!fields
<1> QED
  BY <1>7, <1>8

LEMMA BucketCreditLoad ==
  ASSUME BucketInv, NEW i \in Goroutines, Bucket!CreditLoad(i)
  PROVE  BucketInv'
<1> DEFINE l == [loc[i] EXCEPT !.curr = tokens]
           p == IF Bucket!At(i, "rload") THEN "rcap" ELSE "acap"
<1>1. Sound(pc[i], loc[i]) /\ pc[i] \in {"rload", "aload"} /\ Bucket!Goto(i, p, l)
  BY AtOnce, Zenon DEF Bucket!CreditLoad
<1>2. loc[i] \in Bucket!Locals /\ loc[i].t <= MaxNow /\ (pc[i] = "rload" => loc[i].unit >= 1)
  BY ONLY <1>1 DEF Sound, Sending
<1>3. tokens \in Nat
  BY Zenon DEF BucketInv, Registers
<1>4. l \in Bucket!Locals /\ l.t = loc[i].t /\ l.unit = loc[i].unit /\ l.add = loc[i].add
  BY ONLY <1>2, <1>3 DEF Bucket!Locals
<1> HIDE DEF l
<1>5. pc[i] = "rload" => Sound("rcap", l)
  BY ONLY <1>2, <1>4 DEF Sound, Bucket!Points, Sending
<1>6. Sound("acap", l)
  BY ONLY <1>2, <1>4 DEF Sound, Bucket!Points, Sending
<1>7. Owes("rcap", l) = l.add /\ Owes("acap", l) = l.add /\ Owes(pc[i], loc[i]) = loc[i].add
  BY ONLY <1>1 DEF Owes, Crediting
<1>8. UNCHANGED <<Bucket!fields, now, Bucket!history>>
  BY Zenon DEF Bucket!CreditLoad
<1> QED
  BY <1>1, <1>4, <1>5, <1>6, <1>7, <1>8, Stays, Zenon DEF Bucket!At

\* The cap takes away, it never adds.
LEMMA BucketCreditCap ==
  ASSUME BucketInv, NEW i \in Goroutines, Bucket!CreditCap(i)
  PROVE  BucketInv'
<1> DEFINE l == [loc[i] EXCEPT !.new = Bucket!Capped(i)]
           p == IF Bucket!At(i, "rcap") THEN "rcas" ELSE "acas"
<1>1. Sound(pc[i], loc[i]) /\ pc[i] \in {"rcap", "acap"} /\ Bucket!Goto(i, p, l)
  BY AtOnce, Zenon DEF Bucket!CreditCap
<1>2. loc[i] \in Bucket!Locals /\ loc[i].t <= MaxNow /\ (pc[i] = "rcap" => loc[i].unit >= 1)
  BY ONLY <1>1 DEF Sound, Sending
<1>3. capacity \in Nat /\ loc[i].curr \in Nat /\ loc[i].add \in Nat
  BY <1>2 DEF BucketInv, Registers, Bucket!Locals
<1>4. Bucket!Capped(i) \in Nat /\ Bucket!Capped(i) <= loc[i].curr + loc[i].add
  BY ONLY <1>3 DEF Bucket!Capped, Bucket!Lesser
<1>5. /\ l \in Bucket!Locals /\ l.t = loc[i].t /\ l.unit = loc[i].unit /\ l.add = loc[i].add
      /\ l.new = Bucket!Capped(i) /\ l.curr = loc[i].curr
  BY ONLY <1>2, <1>4 DEF Bucket!Locals
<1> HIDE DEF l
<1>6. pc[i] = "rcap" => Sound("rcas", l)
  BY ONLY <1>2, <1>4, <1>5 DEF Sound, Bucket!Points, Sending
<1>7. Sound("acas", l)
  BY ONLY <1>2, <1>4, <1>5 DEF Sound, Bucket!Points, Sending
<1>8. Owes("rcas", l) = l.add /\ Owes("acas", l) = l.add /\ Owes(pc[i], loc[i]) = loc[i].add
  BY ONLY <1>1 DEF Owes, Crediting
<1>9. UNCHANGED <<Bucket!fields, now, Bucket!history>>
  BY Zenon DEF Bucket!CreditCap
<1> QED
  BY <1>1, <1>5, <1>6, <1>7, <1>8, <1>9, Stays, Zenon DEF Bucket!At

LEMMA AtRest ==
  \A p \in {"idle", "rcapload"} : Sound(p, Bucket!NoLocals) /\ Owes(p, Bucket!NoLocals) = 0
<1>1. Bucket!NoLocals \in Bucket!Locals /\ Bucket!NoLocals.t <= MaxNow
  BY BucketAssumption DEF Bucket!NoLocals, Bucket!Locals
<1> QED
  BY ONLY <1>1 DEF Sound, Bucket!Points, Sending, Owes, Crediting

LEMMA BucketCreditCas ==
  ASSUME BucketInv, NEW i \in Goroutines, Bucket!CreditCas(i)
  PROVE  BucketInv'
<1>1. Sound(pc[i], loc[i]) /\ pc[i] \in {"rcas", "acas"} /\ Registers
  BY AtOnce, Zenon DEF Bucket!CreditCas
<1>2. /\ loc[i] \in Bucket!Locals /\ loc[i].t <= MaxNow /\ (pc[i] = "rcas" => loc[i].unit >= 1)
      /\ loc[i].new <= loc[i].curr + loc[i].add
  BY ONLY <1>1 DEF Sound, Sending
<1>3. loc[i].new \in Nat /\ loc[i].curr \in Nat /\ loc[i].add \in Nat
  BY ONLY <1>2 DEF Bucket!Locals
<1>4. Owes(pc[i], loc[i]) = loc[i].add
  BY ONLY <1>1 DEF Owes, Crediting
<1>5. UNCHANGED <<ratePerSec, capacity, lastRefill, now, Bucket!history>>
  BY Zenon DEF Bucket!CreditCas
<1>6. CASE tokens = loc[i].curr
  <2>1. tokens' = loc[i].new
    BY <1>6, Zenon DEF Bucket!CreditCas
  <2>2. PICK p, l : Bucket!Goto(i, p, l) /\ Sound(p, l) /\ Owes(p, l) = 0
    <3>1. CASE Bucket!At(i, "rcas")
      <4>1. Bucket!Goto(i, "load", loc[i])
        BY <1>6, <3>1, Zenon DEF Bucket!CreditCas
      <4>2. Sound("load", loc[i]) /\ Owes("load", loc[i]) = 0
        BY ONLY <1>2, <3>1 DEF Bucket!At, Sound, Bucket!Points, Sending, Owes, Crediting
      <4> QED
        BY <4>1, <4>2, Zenon
    <3>2. CASE ~Bucket!At(i, "rcas")
      BY <1>6, <3>2, AtRest, Zenon DEF Bucket!CreditCas, Bucket!Return
    <3> QED
      BY <3>1, <3>2
  <2>3. Registers'
    BY <1>1, <1>3, <1>5, <2>1, Zenon DEF Registers, Bucket!history
  <2>4. spent' + tokens' - boost' + Owes(p, l) <= spent + tokens - boost + Owes(pc[i], loc[i])
    <3>1. spent \in Nat /\ boost \in Nat
      BY BucketAssumption DEF BucketInv, Registers
    <3>2. spent' = spent /\ boost' = boost
      BY <1>5, Zenon DEF Bucket!history
    <3>3. spent + loc[i].new - boost + 0 <= spent + loc[i].curr - boost + loc[i].add
      BY <1>2, <1>3, <3>1, Pays, Zenon
    <3> QED
      BY <1>4, <1>6, <2>1, <2>2, <3>2, <3>3, Zenon
  <2> QED
    BY <1>5, <2>2, <2>3, <2>4, KeepsStill, Zenon
<1>7. CASE tokens # loc[i].curr
  <2>1. tokens' = tokens /\ Bucket!Goto(i, IF Bucket!At(i, "rcas") THEN "rload" ELSE "aload", loc[i])
    BY <1>7, Zenon DEF Bucket!CreditCas
  <2>2. pc[i] = "rcas" => Sound("rload", loc[i])
    BY ONLY <1>2 DEF Sound, Bucket!Points, Sending
  <2>3. Sound("aload", loc[i])
    BY ONLY <1>2 DEF Sound, Bucket!Points, Sending
  <2>4. Owes("rload", loc[i]) = loc[i].add /\ Owes("aload", loc[i]) = loc[i].add
    BY DEF Owes, Crediting
  <2> QED
    BY <1>4, <1>5, <2>1, <2>2, <2>3, <2>4, Stays, Zenon DEF Bucket!At, Bucket!fields
<1> QED
  BY <1>6, <1>7

\* Whole packets, and no more than there is.
LEMMA AffordableBound ==
  ASSUME NEW i \in Goroutines, NEW a \in Nat, loc[i] \in Bucket!Locals, loc[i].unit >= 1
  PROVE  Bucket!Affordable(i, a) \in Nat /\ Bucket!Affordable(i, a) <= a
<1> DEFINE n == loc[i].n
           u == loc[i].unit
           q == a \div u
<1>1. n \in Nat /\ u \in Nat /\ u >= 1
  BY DEF Bucket!Locals
<1> HIDE DEF n, u
<1>2. q \in Nat /\ q * u <= a
  BY ONLY <1>1, a \in Nat
<1> HIDE DEF q
<1>3. Bucket!Lesser(n, q) \in Nat /\ Bucket!Lesser(n, q) <= q
  BY ONLY <1>1, <1>2 DEF Bucket!Lesser
<1>4. Bucket!Lesser(n, q) * u \in Nat /\ Bucket!Lesser(n, q) * u <= q * u /\ q * u \in Nat
  BY ONLY <1>1, <1>2, <1>3
<1>5. Bucket!Lesser(n, q) * u \in Nat /\ Bucket!Lesser(n, q) * u <= a
  BY ONLY <1>2, <1>4, a \in Nat
<1> QED
  BY <1>5, Zenon DEF Bucket!Affordable, n, u, q

LEMMA BucketLoadTokens ==
  ASSUME BucketInv, NEW i \in Goroutines, Bucket!LoadTokens(i)
  PROVE  BucketInv'
<1> DEFINE a == Bucket!Affordable(i, tokens)
           l == [loc[i] EXCEPT !.curr = tokens, !.new = tokens - a]
<1>1. Sound("load", loc[i]) /\ pc[i] = "load"
  BY AtOnce, Zenon DEF Bucket!LoadTokens, Bucket!At, Bucket!Points
<1>2. loc[i] \in Bucket!Locals /\ loc[i].unit >= 1 /\ loc[i].t <= MaxNow
  BY ONLY <1>1 DEF Sound, Sending
<1>3. tokens \in Nat
  BY Zenon DEF BucketInv, Registers
<1>4. a \in Nat /\ a <= tokens
  BY <1>2, <1>3, AffordableBound, Zenon
<1>5. Owes(pc[i], loc[i]) = 0 /\ UNCHANGED <<Bucket!fields, now, Bucket!history>>
  BY <1>1 DEF Bucket!LoadTokens, Owes, Crediting
<1>6. CASE a = 0
  BY <1>5, <1>6, AtRest, Stays, Zenon DEF Bucket!LoadTokens, Bucket!Return
<1>7. CASE a # 0
  <2>1. Bucket!Goto(i, "take", l)
    BY <1>7, Zenon DEF Bucket!LoadTokens
  <2> HIDE DEF a
  <2>2. tokens - a \in Nat /\ tokens - a <= tokens
    BY ONLY <1>3, <1>4
  <2>3. /\ l \in Bucket!Locals /\ l.t = loc[i].t /\ l.unit = loc[i].unit
        /\ l.curr = tokens /\ l.new = tokens - a
    BY ONLY <1>2, <1>3, <2>2, Zenon DEF Bucket!Locals
  <2> HIDE DEF l
  <2>4. Sound("take", l) /\ Owes("take", l) = 0
    BY ONLY <1>2, <2>2, <2>3 DEF Sound, Bucket!Points, Sending, Owes, Crediting
  <2> QED
    BY <1>5, <2>1, <2>4, Stays, Zenon
<1> QED
  BY <1>6, <1>7

\* What is taken out is what is spent.
LEMMA BucketTake ==
  ASSUME BucketInv, NEW i \in Goroutines, Bucket!Take(i)
  PROVE  BucketInv'
<1>1. Sound("take", loc[i]) /\ pc[i] = "take" /\ Registers
  BY AtOnce, Zenon DEF Bucket!Take, Bucket!At, Bucket!Points
<1>2. loc[i] \in Bucket!Locals /\ loc[i].unit >= 1 /\ loc[i].new <= loc[i].curr
  BY ONLY <1>1 DEF Sound, Sending
<1>3. /\ loc[i].new \in Nat /\ loc[i].curr \in Nat /\ loc[i].n \in Nat /\ loc[i].unit \in Nat
      /\ spent \in Nat /\ tokens \in Nat /\ boost \in Nat /\ MaxNow \in Nat
  BY <1>2, BucketAssumption DEF BucketInv, Registers, Bucket!Locals
<1>4. Owes(pc[i], loc[i]) = 0 /\ UNCHANGED <<ratePerSec, capacity, lastRefill, now, boost>>
  BY <1>1 DEF Bucket!Take, Owes, Crediting
<1>5. CASE tokens = loc[i].curr
  <2>1. tokens' = loc[i].new /\ spent' = spent + loc[i].curr - loc[i].new
        /\ Bucket!Goto(i, "idle", Bucket!NoLocals)
    BY <1>5, Zenon DEF Bucket!Take, Bucket!Return
  <2>2. tokens' \in Nat /\ spent' \in Nat /\ spent' + tokens' = spent + tokens
    BY ONLY <1>2, <1>3, <1>5, <2>1
  <2>3. Registers'
    BY <1>1, <1>4, <2>2, Zenon DEF Registers
  <2>4. spent' + tokens' - boost' + Owes("idle", Bucket!NoLocals)
          <= spent + tokens - boost + Owes(pc[i], loc[i])
    <3>1. Owes("idle", Bucket!NoLocals) = 0 /\ Owes(pc[i], loc[i]) = 0 /\ boost' = boost
      BY <1>4, AtRest, Zenon
    <3>2. spent' + tokens' - boost + 0 <= spent + tokens - boost + 0
      BY <1>3, <2>2, Moves, Zenon
    <3> QED
      BY <3>1, <3>2, Zenon
  <2> QED
    BY <1>4, <2>1, <2>3, <2>4, AtRest, KeepsStill, Zenon
<1>6. CASE tokens # loc[i].curr
  <2> DEFINE l == [Bucket!NoLocals EXCEPT !.n = loc[i].n, !.unit = loc[i].unit]
  <2>1. UNCHANGED <<tokens, spent>> /\ Bucket!Goto(i, "clock", l)
    BY <1>6, Zenon DEF Bucket!Take
  <2>2. l \in Bucket!Locals /\ l.t = 0 /\ l.unit = loc[i].unit
    BY ONLY <1>3, Zenon DEF Bucket!NoLocals, Bucket!Locals
  <2> HIDE DEF l
  <2>3. Sound("clock", l) /\ Owes("clock", l) = 0
    BY ONLY <1>2, <1>3, <2>2 DEF Sound, Bucket!Points, Sending, Owes, Crediting
  <2> QED
    BY <1>4, <2>1, <2>3, Stays, Zenon DEF Bucket!fields, Bucket!history
<1> QED
  BY <1>5, <1>6

LEMMA BucketAddTokens ==
  ASSUME BucketInv, NEW i \in Goroutines, Bucket!AddTokens(i)
  PROVE  BucketInv'
<1>1. PICK b \in Boosts : /\ boost + b <= MaxBoost /\ boost' = boost + b
                          /\ Bucket!Goto(i, "aload", [Bucket!NoLocals EXCEPT !.add = b])
  BY Zenon DEF Bucket!AddTokens
<1> DEFINE l == [Bucket!NoLocals EXCEPT !.add = b]
<1>2. /\ b \in Nat /\ MaxNow \in Nat /\ MaxBoost \in Nat
      /\ spent \in Nat /\ tokens \in Nat /\ boost \in Nat
  BY BucketAssumption DEF BucketInv, Registers
<1>3. l \in Bucket!Locals /\ l.t = 0 /\ l.add = b
  BY ONLY <1>2, Zenon DEF Bucket!NoLocals, Bucket!Locals
<1>4. Bucket!Goto(i, "aload", l)
  BY <1>1
<1> HIDE DEF l
<1>5. Sound("aload", l) /\ Owes("aload", l) = b
  BY ONLY <1>2, <1>3 DEF Sound, Bucket!Points, Sending, Owes, Crediting
<1>6. Owes(pc[i], loc[i]) = 0 /\ UNCHANGED <<Bucket!fields, now, spent>>
  BY DEF Bucket!AddTokens, Bucket!At, Owes, Crediting
<1>7. boost' \in 0..MaxBoost
  BY ONLY <1>1, <1>2
<1>8. Registers'
  BY <1>6, <1>7, Zenon DEF BucketInv, Registers, Bucket!fields
<1>9. spent' + tokens' - boost' + Owes("aload", l) <= spent + tokens - boost + Owes(pc[i], loc[i])
  BY <1>1, <1>2, <1>5, <1>6 DEF Bucket!fields
<1> QED
  BY <1>4, <1>5, <1>6, <1>8, <1>9, KeepsStill, Zenon DEF Bucket!fields

LEMMA BucketSetCapacity ==
  ASSUME BucketInv, NEW i \in Goroutines, Bucket!SetCapacityBytes(i)
  PROVE  BucketInv'
<1>1. PICK c \in Capacities : Bucket!Goto(i, "cstore", [Bucket!NoLocals EXCEPT !.n = c])
  BY Zenon DEF Bucket!SetCapacityBytes
<1> DEFINE l == [Bucket!NoLocals EXCEPT !.n = c]
<1>2. c \in Nat /\ MaxNow \in Nat
  BY BucketAssumption
<1>3. l \in Bucket!Locals /\ l.t = 0
  BY ONLY <1>2, Zenon DEF Bucket!NoLocals, Bucket!Locals
<1>4. Bucket!Goto(i, "cstore", l)
  BY <1>1
<1> HIDE DEF l
<1>5. Sound("cstore", l) /\ Owes("cstore", l) = 0
  BY ONLY <1>2, <1>3 DEF Sound, Bucket!Points, Sending, Owes, Crediting
<1>6. Owes(pc[i], loc[i]) = 0 /\ UNCHANGED <<Bucket!fields, now, Bucket!history>>
  BY DEF Bucket!SetCapacityBytes, Bucket!At, Owes, Crediting
<1> QED
  BY <1>4, <1>5, <1>6, Stays, Zenon

\* A step that stores a capacity or a rate, and neither claims nor credits.
LEMMA Stores ==
  ASSUME BucketInv, NEW i \in Goroutines, NEW p, NEW l, Sound(p, l), Bucket!Goto(i, p, l),
         ratePerSec' \in Rates, capacity' \in Nat,
         UNCHANGED <<tokens, lastRefill, now, Bucket!history>>, Owes(p, l) = Owes(pc[i], loc[i])
  PROVE  BucketInv'
<1>1. /\ Registers' /\ lastRefill' = lastRefill
      /\ spent' = spent /\ tokens' = tokens /\ boost' = boost
  BY Zenon DEF BucketInv, Registers, Bucket!history
<1>2. Owes(pc[i], loc[i]) \in Nat
  BY OwesTyped, Zenon DEF BucketInv, Running
<1>3. spent \in Nat /\ tokens \in Nat /\ boost \in Nat
  BY BucketAssumption DEF BucketInv, Registers
<1>4. spent' + tokens' - boost' + Owes(p, l) <= spent + tokens - boost + Owes(pc[i], loc[i])
  BY <1>1, <1>2, <1>3
<1> QED
  BY <1>1, <1>4, KeepsStill, Zenon

LEMMA BucketStoreCapacity ==
  ASSUME BucketInv, NEW i \in Goroutines, Bucket!StoreCapacity(i)
  PROVE  BucketInv'
<1>1. Sound("cstore", loc[i]) /\ pc[i] = "cstore" /\ Bucket!Goto(i, "cload", loc[i])
  BY AtOnce, Zenon DEF Bucket!StoreCapacity, Bucket!At, Bucket!Points
<1>2. loc[i] \in Bucket!Locals /\ loc[i].t <= MaxNow
  BY ONLY <1>1 DEF Sound
<1>3. loc[i].n \in Nat
  BY ONLY <1>2 DEF Bucket!Locals
<1>4. Sound("cload", loc[i]) /\ Owes("cload", loc[i]) = 0 /\ Owes(pc[i], loc[i]) = 0
  BY ONLY <1>1, <1>2 DEF Sound, Bucket!Points, Sending, Owes, Crediting
<1>5. ratePerSec' \in Rates /\ capacity' \in Nat /\ UNCHANGED <<tokens, lastRefill, now, Bucket!history>>
  BY <1>3, Zenon DEF Bucket!StoreCapacity, BucketInv, Registers
<1> QED
  BY <1>1, <1>4, <1>5, Stores, Zenon

LEMMA BucketLoadExcess ==
  ASSUME BucketInv, NEW i \in Goroutines, Bucket!LoadExcess(i)
  PROVE  BucketInv'
<1> DEFINE l == [loc[i] EXCEPT !.curr = tokens]
<1>1. Sound("cload", loc[i]) /\ pc[i] = "cload"
  BY AtOnce, Zenon DEF Bucket!LoadExcess, Bucket!At, Bucket!Points
<1>2. loc[i] \in Bucket!Locals /\ loc[i].t <= MaxNow
  BY ONLY <1>1 DEF Sound
<1>3. tokens \in Nat /\ loc[i].n \in Nat
  BY <1>2 DEF BucketInv, Registers, Bucket!Locals
<1>4. Owes(pc[i], loc[i]) = 0 /\ UNCHANGED <<Bucket!fields, now, Bucket!history>>
  BY <1>1 DEF Bucket!LoadExcess, Owes, Crediting
<1>5. CASE tokens <= loc[i].n
  BY <1>4, <1>5, AtRest, Stays, Zenon DEF Bucket!LoadExcess, Bucket!Return
<1>6. CASE ~(tokens <= loc[i].n)
  <2>1. Bucket!Goto(i, "ccas", l)
    BY <1>6, Zenon DEF Bucket!LoadExcess
  <2>2. l \in Bucket!Locals /\ l.t = loc[i].t /\ l.curr = tokens /\ l.n = loc[i].n
    BY ONLY <1>2, <1>3 DEF Bucket!Locals
  <2> HIDE DEF l
  <2>3. Sound("ccas", l) /\ Owes("ccas", l) = 0
    BY ONLY <1>2, <1>3, <1>6, <2>2 DEF Sound, Bucket!Points, Sending, Owes, Crediting
  <2> QED
    BY <1>4, <2>1, <2>3, Stays, Zenon
<1> QED
  BY <1>5, <1>6

LEMMA BucketCutExcess ==
  ASSUME BucketInv, NEW i \in Goroutines, Bucket!CutExcess(i)
  PROVE  BucketInv'
<1>1. Sound("ccas", loc[i]) /\ pc[i] = "ccas" /\ Registers
  BY AtOnce, Zenon DEF Bucket!CutExcess, Bucket!At, Bucket!Points
<1>2. loc[i] \in Bucket!Locals /\ loc[i].t <= MaxNow /\ loc[i].n <= loc[i].curr
  BY ONLY <1>1 DEF Sound
<1>3. /\ loc[i].n \in Nat /\ loc[i].curr \in Nat
      /\ spent \in Nat /\ tokens \in Nat /\ boost \in Nat
  BY <1>2, BucketAssumption DEF BucketInv, Registers, Bucket!Locals
<1>4. Owes(pc[i], loc[i]) = 0 /\ UNCHANGED <<ratePerSec, capacity, lastRefill, now, Bucket!history>>
  BY <1>1 DEF Bucket!CutExcess, Owes, Crediting
<1>5. CASE tokens = loc[i].curr
  <2>1. tokens' = loc[i].n /\ Bucket!Goto(i, "idle", Bucket!NoLocals)
    BY <1>5, Zenon DEF Bucket!CutExcess, Bucket!Return
  <2>2. Registers' /\ spent' = spent /\ boost' = boost
    BY <1>1, <1>3, <1>4, <2>1, Zenon DEF Registers, Bucket!history
  <2>3. spent' + tokens' - boost' + Owes("idle", Bucket!NoLocals)
          <= spent + tokens - boost + Owes(pc[i], loc[i])
    BY ONLY <1>2, <1>3, <1>4, <1>5, <2>1, <2>2, AtRest
  <2> QED
    BY <1>4, <2>1, <2>2, <2>3, AtRest, KeepsStill, Zenon
<1>6. CASE tokens # loc[i].curr
  <2> DEFINE l == [loc[i] EXCEPT !.curr = 0]
  <2>1. tokens' = tokens /\ Bucket!Goto(i, "cload", l)
    BY <1>6, Zenon DEF Bucket!CutExcess
  <2>2. l \in Bucket!Locals /\ l.t = loc[i].t
    BY ONLY <1>2 DEF Bucket!Locals
  <2> HIDE DEF l
  <2>3. Sound("cload", l) /\ Owes("cload", l) = 0
    BY ONLY <1>2, <2>2 DEF Sound, Bucket!Points, Sending, Owes, Crediting
  <2> QED
    BY <1>4, <2>1, <2>3, Stays, Zenon DEF Bucket!fields
<1> QED
  BY <1>5, <1>6

LEMMA BucketSetRate ==
  ASSUME BucketInv, NEW i \in Goroutines, Bucket!SetRate(i)
  PROVE  BucketInv'
<1>1. Bucket!Goto(i, "rcapload", Bucket!NoLocals) /\ ratePerSec' \in Rates /\ pc[i] = "idle"
  BY Zenon DEF Bucket!SetRate, Bucket!At
<1>2. capacity' \in Nat /\ UNCHANGED <<tokens, lastRefill, now, Bucket!history>>
  BY Zenon DEF Bucket!SetRate, BucketInv, Registers
<1>3. Sound("rcapload", Bucket!NoLocals) /\ Owes("rcapload", Bucket!NoLocals) = 0 /\ Owes(pc[i], loc[i]) = 0
  BY <1>1, AtRest, Zenon DEF Owes, Crediting
<1> QED
  BY <1>1, <1>2, <1>3, Stores, Zenon

LEMMA BucketRateSteps ==
  ASSUME BucketInv, NEW i \in Goroutines,
         Bucket!RateLoadCapacity(i) \/ Bucket!RateLoadRate(i) \/ Bucket!RateStoreCapacity(i)
  PROVE  BucketInv'
<1>1. ratePerSec \in Rates /\ ratePerSec \in Nat /\ capacity \in Nat /\ MaxNow \in Nat
  BY BucketAssumption DEF BucketInv, Registers
<1>2. CASE Bucket!RateLoadCapacity(i)
  <2> DEFINE l == [Bucket!NoLocals EXCEPT !.curr = capacity]
  <2>1. Bucket!Goto(i, "rrateload", l) /\ pc[i] = "rcapload" /\ UNCHANGED <<Bucket!fields, now, Bucket!history>>
    BY <1>2, Zenon DEF Bucket!RateLoadCapacity, Bucket!At
  <2>2. l \in Bucket!Locals /\ l.t = 0
    BY ONLY <1>1 DEF Bucket!NoLocals, Bucket!Locals
  <2> HIDE DEF l
  <2>3. Sound("rrateload", l) /\ Owes("rrateload", l) = 0 /\ Owes(pc[i], loc[i]) = 0
    BY ONLY <1>1, <2>1, <2>2 DEF Sound, Bucket!Points, Sending, Owes, Crediting
  <2> QED
    BY <2>1, <2>3, Stays, Zenon
<1>3. CASE Bucket!RateLoadRate(i)
  <2> DEFINE l == [Bucket!NoLocals EXCEPT !.new = ratePerSec]
  <2>1. /\ Bucket!Goto(i, "rcapstore", l) \/ Bucket!Goto(i, "idle", Bucket!NoLocals)
        /\ pc[i] = "rrateload" /\ UNCHANGED <<Bucket!fields, now, Bucket!history>>
    BY <1>3, Zenon DEF Bucket!RateLoadRate, Bucket!At, Bucket!Return
  <2>2. l \in Bucket!Locals /\ l.t = 0
    BY ONLY <1>1 DEF Bucket!NoLocals, Bucket!Locals
  <2> HIDE DEF l
  <2>3. Sound("rcapstore", l) /\ Owes("rcapstore", l) = 0 /\ Owes(pc[i], loc[i]) = 0
    BY ONLY <1>1, <2>1, <2>2 DEF Sound, Bucket!Points, Sending, Owes, Crediting
  <2> QED
    BY <2>1, <2>3, AtRest, Stays, Zenon
<1>4. CASE Bucket!RateStoreCapacity(i)
  <2>1. Sound("rcapstore", loc[i]) /\ pc[i] = "rcapstore" /\ Bucket!Goto(i, "idle", Bucket!NoLocals)
    BY <1>4, AtOnce, Zenon DEF Bucket!RateStoreCapacity, Bucket!At, Bucket!Points, Bucket!Return
  <2>2. loc[i].new \in Nat
    BY ONLY <2>1 DEF Sound, Bucket!Locals
  <2>3. ratePerSec' \in Rates /\ capacity' \in Nat /\ UNCHANGED <<tokens, lastRefill, now, Bucket!history>>
    BY <1>1, <1>4, <2>2, Zenon DEF Bucket!RateStoreCapacity
  <2>4. Owes(pc[i], loc[i]) = 0
    BY ONLY <2>1 DEF Owes, Crediting
  <2> QED
    BY <2>1, <2>3, <2>4, AtRest, Stores, Zenon
<1> QED
  BY <1>2, <1>3, <1>4

LEMMA BucketStart == Bucket!Init => BucketInv
<1> SUFFICES ASSUME Bucket!Init PROVE BucketInv
  OBVIOUS
<1>1. /\ ratePerSec \in Rates /\ capacity = ratePerSec /\ tokens = ratePerSec
      /\ lastRefill = 0 /\ now = 0 /\ spent = 0 /\ boost = 0
      /\ pc = [i \in Goroutines |-> "idle"] /\ loc = [i \in Goroutines |-> Bucket!NoLocals]
  BY Zenon DEF Bucket!Init
<1>2. ratePerSec \in Nat /\ ratePerSec <= Bucket!Fastest /\ Bucket!Fastest \in Nat /\ Second \in Nat
  BY <1>1, FastestRate, BucketAssumption
<1>3. Registers
  BY <1>1, <1>2, BucketAssumption DEF Registers
<1>4. Running
  BY <1>1, AtRest, Zenon DEF Running
<1>5. credits = [i \in Goroutines |-> 0]
  BY <1>1, AtRest, Zenon DEF credits
<1>6. Pairs(credits) = {}
  BY <1>5 DEF Pairs
<1>7. IsFiniteSet(Pairs(credits)) /\ owed = 0
  BY <1>6, FS_EmptySet, Zenon DEF owed
<1>8. (spent + tokens + owed - Bucket!Fastest - boost) * Second <= Bucket!Fastest * lastRefill
  <2> DEFINE x == spent + tokens + owed - Bucket!Fastest - boost
  <2>1. x \in Int /\ x <= 0 /\ Bucket!Fastest * lastRefill = 0
    BY <1>1, <1>2, <1>7
  <2> HIDE DEF x
  <2>2. x * Second <= 0
    BY ONLY <1>2, <2>1
  <2> QED
    BY <2>1, <2>2 DEF x
<1> QED
  BY <1>3, <1>4, <1>7, <1>8, Zenon DEF BucketInv, Paced

LEMMA BucketTick ==
  ASSUME BucketInv, Bucket!Tick
  PROVE  BucketInv'
<1>1. now' \in 0..MaxNow
  BY BucketAssumption DEF BucketInv, Registers, Bucket!Tick
<1>2. UNCHANGED <<ratePerSec, capacity, tokens, lastRefill, pc, loc, spent, boost>>
  BY Zenon DEF Bucket!Tick, Bucket!fields, Bucket!history
<1>3. Registers' /\ Running'
  BY <1>1, <1>2, Zenon DEF BucketInv, Registers, Running
<1>4. credits' = credits /\ owed' = owed /\ Pairs(credits)' = Pairs(credits)
  BY <1>2, Zenon DEF credits, owed, Pairs
<1>5. Paced'
  BY <1>2, <1>4, Zenon DEF BucketInv, Paced, Bucket!Fastest
<1> QED
  BY <1>3, <1>5, Zenon DEF BucketInv

LEMMA BucketSame ==
  ASSUME BucketInv, UNCHANGED Bucket!vars
  PROVE  BucketInv'
<1>1. UNCHANGED <<ratePerSec, capacity, tokens, lastRefill, now, pc, loc, spent, boost>>
  BY Zenon DEF Bucket!vars, Bucket!fields, Bucket!history
<1>2. Registers' /\ Running'
  BY <1>1, Zenon DEF BucketInv, Registers, Running
<1>3. credits' = credits /\ owed' = owed /\ Pairs(credits)' = Pairs(credits)
  BY <1>1, Zenon DEF credits, owed, Pairs
<1>4. Paced'
  BY <1>1, <1>3, Zenon DEF BucketInv, Paced, Bucket!Fastest
<1> QED
  BY <1>2, <1>4, Zenon DEF BucketInv

\* What goroutines have claimed from lastRefill in consumeUnits and not put into
\* tokens yet counts as being there: every step of consumeUnits, AddTokens, SetRate
\* and SetCapacityBytes keeps the pace with that counted.
THEOREM BucketInvariant == Bucket!Spec => []BucketInv
<1>1. ASSUME BucketInv, Bucket!Next PROVE BucketInv'
  <2>1. CASE Bucket!Tick
    BY <1>1, <2>1, BucketTick, Zenon
  <2>2. ASSUME NEW i \in Goroutines, Bucket!Sender(i) PROVE BucketInv'
    BY <1>1, <2>2, BucketConsume, BucketReadClock, BucketLoadRefill, BucketComputeAdd,
       BucketCasRefill, BucketCreditLoad, BucketCreditCap, BucketCreditCas, BucketLoadTokens,
       BucketTake, Zenon DEF Bucket!Sender
  <2>3. ASSUME NEW i \in Goroutines, Bucket!Controller(i) PROVE BucketInv'
    BY <1>1, <2>3, BucketAddTokens, BucketSetCapacity, BucketStoreCapacity, BucketLoadExcess,
       BucketCutExcess, BucketSetRate, BucketRateSteps, Zenon DEF Bucket!Controller
  <2> QED
    BY <1>1, <2>1, <2>2, <2>3, Zenon DEF Bucket!Next
<1>2. BucketInv /\ [Bucket!Next]_(Bucket!vars) => BucketInv'
  BY <1>1, BucketSame, Zenon
<1> QED
  BY BucketStart, <1>2, PTL DEF Bucket!Spec

\* consumeUnits never lets more through than the first burst, the boosts and what
\* the fastest rate is worth over the time claimed, however the goroutines
\* interleave between its atomic operations and whatever the product wraps to.
THEOREM NoIntervalIsCreditedTwice == Bucket!Spec => []PacingBound
<1>1. BucketInv => PacingBound
  <2> SUFFICES ASSUME BucketInv PROVE PacingBound
    OBVIOUS
  <2>1. /\ IsFiniteSet(Pairs(credits))
        /\ (spent + tokens + owed - Bucket!Fastest - boost) * Second <= Bucket!Fastest * lastRefill
    BY Zenon DEF BucketInv, Paced
  <2>2. owed \in Nat
    BY <2>1, FS_CardinalityType, Zenon DEF owed
  <2>3. /\ spent \in Nat /\ tokens \in Nat /\ boost \in Nat /\ lastRefill \in Nat
        /\ Bucket!Fastest \in Nat /\ Second \in Nat
    BY FastestRate, BucketAssumption DEF BucketInv, Registers
  <2> DEFINE x == spent + tokens - Bucket!Fastest - boost
             y == spent + tokens + owed - Bucket!Fastest - boost
  <2>4. x \in Int /\ y \in Int /\ x <= y
    BY ONLY <2>2, <2>3
  <2>5. y * Second <= Bucket!Fastest * lastRefill
    BY <2>1, Zenon
  <2> HIDE DEF x, y
  <2>6. x * Second <= y * Second /\ x * Second \in Int /\ y * Second \in Int /\ Bucket!Fastest * lastRefill \in Int
    BY ONLY <2>3, <2>4
  <2>7. x * Second <= Bucket!Fastest * lastRefill
    BY ONLY <2>5, <2>6
  <2> QED
    BY <2>7, Zenon DEF PacingBound, Bucket!PacingBound, x
<1> QED
  BY <1>1, BucketInvariant, PTL

\* TypeOK holds throughout: the unsigned tokens of consumeUnits and of the
\* capacity's cut never go below zero.
THEOREM BucketTypeCorrect == Bucket!Spec => []Bucket!TypeOK
<1>1. BucketInv => Bucket!TypeOK
  <2> SUFFICES ASSUME BucketInv PROVE Bucket!TypeOK
    OBVIOUS
  <2>1. ratePerSec \in Nat \ {0}
    BY BucketAssumption DEF BucketInv, Registers
  <2>2. pc \in [Goroutines -> Bucket!Points] /\ loc \in [Goroutines -> Bucket!Locals]
    BY Zenon DEF BucketInv, Running, Sound
  <2> QED
    BY <2>1, <2>2, Zenon DEF BucketInv, Registers, Bucket!TypeOK
<1> QED
  BY <1>1, BucketInvariant, PTL
=============================================================================
