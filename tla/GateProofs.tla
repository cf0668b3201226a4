----------------------------- MODULE GateProofs -----------------------------
(***************************************************************************)
(* Proofs about Gates and AccountWatch: the admission of simple broadcasts *)
(* for any goroutines and limits; a subscription and a call that waits,    *)
(* for every page size, length of the account, number of others'           *)
(* transactions and lag of the first block; the replay window for every    *)
(* size of it; the limiter of requests for any callers and limits.         *)
(***************************************************************************)
EXTENDS AccountWatch, Gates, TLAPS

-----------------------------------------------------------------------------
(* Simple broadcasts                                                       *)

\* The goroutine between beginSimpleAdmission and finishSimpleAdmission is the
\* one the table names, and the table names no other.
AdmissionOwned ==
  /\ \A h \in Handlers : stage[h] \in Simple!Owning => admitting[id[h]] = h
  /\ \A i \in Ids : admitting[i] # Nobody =>
       stage[admitting[i]] \in Simple!Owning /\ id[admitting[i]] = i

\* A broadcast being admitted is not among the delivered ones.
Undelivered == \A i \in Ids : admitting[i] # Nobody => i \notin simple

\* Who waits has been counted in an admission that is still open.
Counted ==
  \A g \in Handlers : stage[g] = "wait" =>
    /\ admitting[id[g]] # Nobody /\ standby[id[g]] > 0
    /\ \A h \in Handlers : stage[h] = "wait" /\ id[h] = id[g] => h = g

SimpleInv == Simple!TypeOK /\ AdmissionOwned /\ Undelivered /\ Counted

\* Recording a delivery adds at most that broadcast to the cache.
LEMMA DeliveryRecorded ==
  ASSUME NEW i \in Ids, simple \subseteq Ids, NEW s \in Simple!Registered(i)
  PROVE  s \subseteq Ids /\ s \subseteq simple \cup {i}
BY DEF Simple!Registered

LEMMA SimpleStart == Simple!Init => SimpleInv
BY AdmissionAssumption DEF Simple!Init, SimpleInv, Simple!TypeOK, AdmissionOwned, Undelivered, Counted, Simple!Owning, Simple!Locations, Simple!Verdicts

\* Steps that touch neither the table nor the cache and start or end no wait.
LEMMA SimpleQuiet ==
  ASSUME SimpleInv, NEW h \in Handlers, Simple!Receive(h) \/ Simple!Wake(h) \/ Simple!Check(h) \/ Simple!Deliver(h) \/ Simple!Relay(h)
  PROVE  SimpleInv'
<1> USE AdmissionAssumption DEF SimpleInv, Simple!TypeOK, Simple!Goto, Simple!Return, Simple!Locations, Simple!Owning, Simple!Verdicts
<1>1. Simple!TypeOK'
  BY DEF Simple!Receive, Simple!Wake, Simple!Check, Simple!Deliver, Simple!Relay
<1>2. /\ UNCHANGED <<admitting, standby, simple>>
      /\ \A w \in Handlers : w # h => stage'[w] = stage[w] /\ id'[w] = id[w]
      /\ stage[h] # "wait" /\ stage'[h] # "wait"
      /\ stage'[h] \in Simple!Owning <=> stage[h] \in Simple!Owning
      /\ stage[h] \in Simple!Owning => id'[h] = id[h]
  BY DEF Simple!Receive, Simple!Wake, Simple!Check, Simple!Deliver, Simple!Relay
<1>3. AdmissionOwned'
  <2>1. \A i \in Ids : admitting[i] # Nobody => admitting[i] \in Handlers
    OBVIOUS
  <2>2. AdmissionOwned
    BY Zenon
  <2> QED
    BY ONLY <2>1, <2>2, <1>2 DEF AdmissionOwned
<1>4. Undelivered'
  BY <1>2, Zenon DEF Undelivered
<1>5. Counted'
  <2>1. Counted
    BY Zenon
  <2> QED
    BY ONLY <2>1, h \in Handlers, <1>2, Zenon DEF Counted
<1> QED BY <1>1, <1>3, <1>4, <1>5

LEMMA SimpleBegin ==
  ASSUME SimpleInv, NEW h \in Handlers, Simple!Begin(h)
  PROVE  SimpleInv'
<1> DEFINE n == id[h]
<1>1. Simple!TypeOK'
  BY AdmissionAssumption DEF SimpleInv, Simple!TypeOK, Simple!Begin, Simple!BeginBut, Simple!Goto, Simple!Return, Simple!Locations, Simple!Owning, Simple!Verdicts
<1>2. n \in Ids /\ stage[h] = "begin" /\ simple' = simple
  BY DEF SimpleInv, Simple!TypeOK, Simple!Begin, Simple!BeginBut
<1>3. Counted /\ AdmissionOwned /\ \A i \in Ids : admitting[i] \in Handlers \cup {Nobody}
  BY Zenon DEF SimpleInv, Simple!TypeOK
<1>4. CASE Simple!Return(h) /\ UNCHANGED <<admitting, standby>>
  <2>1. /\ \A w \in Handlers : w # h => stage'[w] = stage[w] /\ id'[w] = id[w]
        /\ stage'[h] = "idle" /\ admitting' = admitting /\ standby' = standby
    BY <1>4 DEF SimpleInv, Simple!TypeOK, Simple!Goto, Simple!Return
  <2>2. AdmissionOwned'
    BY ONLY h \in Handlers, <1>2, <1>3, <2>1 DEF AdmissionOwned, Simple!Owning
  <2>3. Counted'
    BY ONLY h \in Handlers, <1>2, <1>3, <2>1 DEF Counted
  <2> QED
    BY <1>1, <1>2, <2>1, <2>2, <2>3, Zenon DEF SimpleInv, Undelivered
<1>5. CASE /\ admitting[n] # Nobody /\ standby[n] = 0
           /\ standby' = [standby EXCEPT ![n] = @ + 1]
           /\ Simple!Goto(h, "wait") /\ UNCHANGED <<admitting, id>>
  <2>1. /\ \A w \in Handlers : stage'[w] = IF w = h THEN "wait" ELSE stage[w]
        /\ id' = id /\ admitting' = admitting
        /\ \A m \in Ids : standby'[m] = IF m = n THEN 1 ELSE standby[m]
    BY <1>2, <1>5 DEF SimpleInv, Simple!TypeOK, Simple!Goto
  <2>2. AdmissionOwned'
    BY ONLY h \in Handlers, <1>2, <1>3, <2>1 DEF AdmissionOwned, Simple!Owning
  <2>3. Counted'
    <3>1. \A g \in Handlers : stage[g] = "wait" => id[g] \in Ids /\ id[g] # n
      BY <1>2, <1>5 DEF SimpleInv, Simple!TypeOK, Counted
    <3> QED
      BY ONLY <1>3, h \in Handlers, <1>2, <1>5, <2>1, <3>1 DEF Counted
  <2> QED
    BY <1>1, <1>2, <2>1, <2>2, <2>3, Zenon DEF SimpleInv, Undelivered
<1>6. CASE /\ n \notin simple /\ admitting[n] = Nobody
           /\ admitting' = [admitting EXCEPT ![n] = h]
           /\ standby' = [standby EXCEPT ![n] = 0]
           /\ Simple!Goto(h, "own") /\ UNCHANGED id
  <2>1. /\ \A w \in Handlers : stage'[w] = IF w = h THEN "own" ELSE stage[w]
        /\ id' = id
        /\ \A m \in Ids : admitting'[m] = IF m = n THEN h ELSE admitting[m]
        /\ \A m \in Ids : m # n => standby'[m] = standby[m]
    BY <1>2, <1>6 DEF SimpleInv, Simple!TypeOK, Simple!Goto
  <2>2. AdmissionOwned'
    BY ONLY h \in Handlers, AdmissionAssumption, <1>2, <1>3, <1>6, <2>1 DEF AdmissionOwned, Simple!Owning
  <2>3. Undelivered'
    BY <1>2, <1>6, <2>1 DEF SimpleInv, Undelivered
  <2>4. Counted'
    <3>1. \A g \in Handlers : stage[g] = "wait" => id[g] \in Ids /\ id[g] # n
      BY <1>2, <1>6 DEF SimpleInv, Simple!TypeOK, Counted
    <3> QED
      BY ONLY <1>3, h \in Handlers, <1>2, <2>1, <3>1 DEF Counted
  <2> QED
    BY <1>1, <2>2, <2>3, <2>4, Zenon DEF SimpleInv
<1> QED
  BY <1>4, <1>5, <1>6, Zenon DEF Simple!Begin, Simple!BeginBut

LEMMA SimpleFinish ==
  ASSUME SimpleInv, NEW h \in Handlers, Simple!Finish(h)
  PROVE  SimpleInv'
<1> DEFINE woken == {w \in Handlers : stage[w] = "wait" /\ id[w] = id[h]}
<1> USE AdmissionAssumption DEF SimpleInv, Simple!TypeOK, Simple!Goto, Simple!Locations, Simple!Owning, Simple!Verdicts
<1>0. id[h] \in Ids /\ admitting[id[h]] = h
  BY DEF Simple!Finish, AdmissionOwned
<1>1. /\ simple' \subseteq Ids /\ simple' \subseteq simple \cup {id[h]}
      /\ admitting' = [admitting EXCEPT ![id[h]] = Nobody]
      /\ verdict' = [w \in Handlers |-> IF w \in woken THEN verdict[h] ELSE verdict[w]]
      /\ \A w \in Handlers : stage'[w] = IF w = h THEN IF verdict[h] = "accept" THEN "relay" ELSE "idle"
                                      ELSE IF w \in woken THEN "woken" ELSE stage[w]
      /\ stage' \in [Handlers -> Simple!Locations]
      /\ id' = IF verdict[h] = "accept" THEN id ELSE [id EXCEPT ![h] = Nobody]
      /\ stage[h] = "finish" /\ UNCHANGED <<active, standby, copies>>
  <2>1. simple' = simple \/ simple' \in Simple!Registered(id[h])
    BY <1>0, Zenon DEF Simple!Finish
  <2>2. simple' \subseteq Ids /\ simple' \subseteq simple \cup {id[h]}
    BY <1>0, <2>1, DeliveryRecorded, Zenon
  <2>3. /\ admitting' = [admitting EXCEPT ![id[h]] = Nobody]
        /\ verdict' = [w \in Handlers |-> IF w \in woken THEN verdict[h] ELSE verdict[w]]
        /\ stage' = [w \in Handlers |->
                    IF w = h THEN IF verdict[h] = "accept" THEN "relay" ELSE "idle"
                    ELSE IF w \in woken THEN "woken" ELSE stage[w]]
        /\ stage[h] = "finish" /\ UNCHANGED <<active, standby, copies>>
    BY <1>0, Zenon DEF Simple!Finish
  <2>4. id' = IF verdict[h] = "accept" THEN id ELSE [id EXCEPT ![h] = Nobody]
    BY DEF Simple!Finish
  <2> HIDE DEF woken
  <2>5. stage' \in [Handlers -> Simple!Locations]
    BY <2>3
  <2> QED
    BY <2>2, <2>3, <2>4, <2>5, Zenon
<1>2. Simple!TypeOK'
  BY <1>0, <1>1
<1>3. AdmissionOwned'
  BY <1>0, <1>1 DEF AdmissionOwned
<1>4. Undelivered'
  BY <1>0, <1>1 DEF Undelivered
<1>5. Counted'
  <2>1. \A w \in Handlers : stage'[w] = "wait" =>
          stage[w] = "wait" /\ id'[w] = id[w] /\ id[w] \in Ids /\ id[w] # id[h]
    BY <1>0, <1>1
  <2>2. \A m \in Ids : m # id[h] => admitting'[m] = admitting[m] /\ standby'[m] = standby[m]
    BY <1>0, <1>1
  <2> QED
    <3>1. Counted
      BY Zenon
    <3> QED
      BY ONLY <2>1, <2>2, <3>1 DEF Counted
<1> QED BY <1>2, <1>3, <1>4, <1>5

LEMMA SimpleNext == SimpleInv /\ [Simple!Next]_(Simple!vars) => SimpleInv'
<1> SUFFICES ASSUME SimpleInv, [Simple!Next]_(Simple!vars) PROVE SimpleInv'
  OBVIOUS
<1>1. CASE UNCHANGED Simple!vars
  BY <1>1 DEF Simple!vars, SimpleInv, Simple!TypeOK, AdmissionOwned, Undelivered, Counted
<1>2. CASE Simple!SetActive
  BY <1>2 DEF Simple!SetActive, SimpleInv, Simple!TypeOK, AdmissionOwned, Undelivered, Counted
<1>3. CASE \E h \in Handlers : Simple!Receive(h) \/ Simple!Step(h)
  BY <1>3, SimpleQuiet, SimpleBegin, SimpleFinish DEF Simple!Step
<1> QED BY <1>1, <1>2, <1>3 DEF Simple!Next

LEMMA SimpleSound == SimpleInv => AskedOnce /\ Simple!OneStandby
BY AdmissionAssumption DEF SimpleInv, Simple!TypeOK, AdmissionOwned, Undelivered, Counted, AskedOnce, Simple!AskedOnce, Simple!OneStandby, Simple!Owning

\* The owner of an admission, its standby and the table of admissions agree
\* through every step of processBroadcast.
THEOREM SimpleInvariant == Simple!Spec => []SimpleInv
BY SimpleStart, SimpleNext, PTL DEF Simple!Spec

\* processBroadcast asks the application about a broadcast in one goroutine at
\* a time and never about a remembered one, however many copies arrive.
THEOREM AskedOnceHolds == Simple!Spec => []AskedOnce
BY SimpleInvariant, SimpleSound, PTL

\* At most one copy parks behind an admission, and never behind a finished one.
THEOREM OneStandbyHolds == Simple!Spec => []Simple!OneStandby
BY SimpleInvariant, SimpleSound, PTL

-----------------------------------------------------------------------------
(* A subscription, and a call that waits                                   *)

\* The last transaction the user has, or where the user started.
top == IF received = <<>> THEN start ELSE received[Len(received)]

\* A worker that is not sending has sent all it has marked as processed.
Settled == at \in {"poll", "list"} => lastProcessedLT = top

\* What has been found so far is all there is from some transaction back to
\* the next page, and new.
FoundSoFar ==
  at = "list" =>
    \E hi \in 0..length :
      /\ lastLT <= hi /\ transactions = (lastLT + 1)..hi
      /\ lastLT < hi => lastProcessedLT <= lastLT

\* What is still to be sent comes after what the user has.
StillToSend ==
  at = "send" =>
    \E lo \in 0..MaxLength :
      /\ lo < lastProcessedLT /\ transactions = (lo + 1)..lastProcessedLT
      /\ top <= lo /\ (cut \/ lo = top)

SubscriptionInv == TypeOK /\ Settled /\ FoundSoFar /\ StillToSend /\ InOrder /\ NoGap

\* A sequence that is not empty ends with one of its elements.
LEMMA LastOfSeq ==
  ASSUME NEW S, NEW s \in Seq(S), s # <<>>
  PROVE  Len(s) \in 1..Len(s) /\ s[Len(s)] \in S
OBVIOUS

\* The types, in the form the steps need them.
Typed ==
  /\ PageSize \in Nat \ {0} /\ MaxLength \in Nat /\ length \in 0..MaxLength
  /\ lastProcessedLT \in 0..MaxLength /\ lastLT \in 0..MaxLength /\ start \in 0..MaxLength
  /\ received \in Seq(1..MaxLength) /\ Len(received) \in Nat /\ top \in 0..MaxLength

LEMMA Types == SubscriptionInv => Typed
<1> SUFFICES ASSUME SubscriptionInv PROVE Typed
  OBVIOUS
<1>1. received \in Seq(1..MaxLength) /\ Len(received) \in Nat
  BY DEF SubscriptionInv, TypeOK
<1>2. received # <<>> => received[Len(received)] \in 1..MaxLength
  BY <1>1, LastOfSeq, Zenon
<1>3. top \in 0..MaxLength
  BY <1>2, SubscriptionAssumption DEF SubscriptionInv, TypeOK, top
<1> QED BY <1>1, <1>3, SubscriptionAssumption DEF SubscriptionInv, TypeOK, Typed

\* The end of a list that has found all of the transactions after lo.
LEMMA ProcessStep ==
  ASSUME SubscriptionInv, at = "list", NEW lo \in 0..MaxLength, NEW hi \in 0..length,
         lastProcessedLT <= lo, cut' \/ lo = lastProcessedLT,
         cut' \in BOOLEAN, cut => cut',
         Process((lo + 1)..hi), UNCHANGED <<length, lastLT, cancelled, received, start>>
  PROVE  SubscriptionInv'
<1>1. CASE (lo + 1)..hi = {}
  <2>1. at' = "poll" /\ transactions' = {} /\ lastProcessedLT' = lastProcessedLT
    BY <1>1 DEF Process
  <2> QED BY <2>1 DEF SubscriptionInv, TypeOK, Settled, FoundSoFar, StillToSend, InOrder, NoGap, top
<1>2. CASE (lo + 1)..hi # {}
  <2>1. /\ at' = "send" /\ transactions' = (lo + 1)..hi
        /\ lastProcessedLT' \in (lo + 1)..hi /\ \A lt \in (lo + 1)..hi : lt <= lastProcessedLT'
    BY <1>2 DEF Process
  <2>2. lastProcessedLT' = hi /\ lo < hi /\ hi \in 0..MaxLength
    <3>1. lo \in Nat /\ hi \in Nat /\ length \in Nat /\ hi <= length /\ length <= MaxLength
          /\ MaxLength \in Nat
      BY Types DEF Typed
    <3>2. lo < hi
      BY <1>2, <3>1
    <3>3. hi <= lastProcessedLT'
      BY <2>1, <3>1, <3>2
    <3> QED BY ONLY <2>1, <3>1, <3>2, <3>3
  <2>3. TypeOK'
    BY <2>1, <2>2, Types DEF Typed, SubscriptionInv, TypeOK
  <2>4. top' = lastProcessedLT
    BY DEF SubscriptionInv, Settled, top
  <2>5. StillToSend'
    BY <2>1, <2>2, <2>4 DEF StillToSend
  <2> QED BY <2>1, <2>3, <2>5, Zenon DEF SubscriptionInv, Settled, FoundSoFar, InOrder, NoGap
<1> QED BY <1>1, <1>2, Zenon

\* One page of the chain, or the end of it.
LEMMA ListStep == SubscriptionInv /\ List => SubscriptionInv'
<1> SUFFICES ASSUME SubscriptionInv, List PROVE SubscriptionInv'
  OBVIOUS
<1>1. at = "list" /\ UNCHANGED <<length, cancelled, received, start, cut>>
  BY DEF List
<1>2. PICK hi \in 0..length : /\ lastLT <= hi /\ transactions = (lastLT + 1)..hi
                              /\ lastLT < hi => lastProcessedLT <= lastLT
  BY <1>1 DEF SubscriptionInv, FoundSoFar
<1>0. Typed
  BY Types
<1> USE <1>0 DEF Typed
<1>3. CASE lastLT = 0 /\ Process(transactions) /\ UNCHANGED lastLT
  <2>1. CASE hi = 0
    <3>1. transactions = (lastProcessedLT + 1)..hi
      BY <1>2, <1>3, <2>1
    <3> QED BY <1>1, <1>3, <3>1, ProcessStep DEF SubscriptionInv, TypeOK
  <2>2. CASE hi # 0
    <3>1. transactions = (lastProcessedLT + 1)..hi
      BY <1>2, <1>3, <2>2
    <3> QED BY <1>1, <1>3, <3>1, ProcessStep DEF SubscriptionInv, TypeOK
  <2> QED BY <2>1, <2>2
<1>4. ASSUME NEW n \in 1..PageSize, n <= lastLT, Old(Page(n)) # {}, UNCHANGED lastLT,
             Process(transactions \cup (Page(n) \ Old(Page(n))))
      PROVE  SubscriptionInv'
  <2>1. lastLT - n + 1 <= lastProcessedLT
    BY <1>4 DEF Old, Page
  <2>2. Page(n) \ Old(Page(n)) = (lastProcessedLT + 1)..lastLT
    BY <1>4, <2>1 DEF Old, Page
  <2>3. transactions \cup ((lastProcessedLT + 1)..lastLT) = (lastProcessedLT + 1)..hi
    BY <1>2
  <2>4. Process((lastProcessedLT + 1)..hi)
    BY <1>4, <2>2, <2>3, Zenon
  <2> QED BY <1>1, <1>4, <2>4, ProcessStep DEF SubscriptionInv, TypeOK
<1>5. ASSUME NEW n \in 1..PageSize, n <= lastLT, Old(Page(n)) = {},
             transactions' = transactions \cup Page(n),
             lastLT' = lastLT - n, UNCHANGED <<at, lastProcessedLT>>
      PROVE  SubscriptionInv'
  <2>1. lastProcessedLT < lastLT - n + 1
    <3>1. lastLT - n + 1 \in Page(n)
      BY <1>5 DEF Page
    <3> QED BY <1>5, <3>1 DEF Old
  <2>2. transactions' = (lastLT' + 1)..hi /\ lastLT' \in 0..MaxLength /\ lastLT' <= hi
    BY <1>2, <1>5 DEF Page
  <2>3. transactions' \subseteq 1..length
    <3>1. \A a, b, c \in Int : 0 <= a /\ b <= c => (a + 1)..b \subseteq 1..c
      OBVIOUS
    <3>2. lastLT' \in Int /\ 0 <= lastLT' /\ hi \in Int /\ length \in Int /\ hi <= length
      BY <2>2
    <3> QED BY <2>2, <3>1, <3>2, Zenon
  <2>4. FoundSoFar'
    BY <1>1, <1>5, <2>1, <2>2 DEF FoundSoFar
  <2> QED BY <1>1, <1>5, <2>2, <2>3, <2>4
          DEF SubscriptionInv, TypeOK, Settled, StillToSend, InOrder, NoGap, top
<1> QED BY <1>3, <1>4, <1>5, Zenon DEF List

\* Sending the oldest of what was found.
LEMMA SendStep == SubscriptionInv /\ Send => SubscriptionInv'
<1> SUFFICES ASSUME SubscriptionInv, Send PROVE SubscriptionInv'
  OBVIOUS
<1>0. Typed
  BY Types
<1> USE <1>0 DEF Typed
<1>1. /\ at = "send" /\ UNCHANGED <<length, lastProcessedLT, lastLT, cancelled, start, cut>>
  BY Zenon DEF Send
<1>2. PICK lt \in transactions :
        /\ \A o \in transactions : lt <= o
        /\ received' = Append(received, lt) /\ transactions' = transactions \ {lt}
        /\ at' = IF transactions' = {} THEN "poll" ELSE "send"
  BY Zenon DEF Send
<1>3. PICK lo \in 0..MaxLength :
        /\ lo < lastProcessedLT /\ transactions = (lo + 1)..lastProcessedLT
        /\ top <= lo /\ (cut \/ lo = top)
  BY <1>1 DEF SubscriptionInv, StillToSend
<1>4. lt = lo + 1 /\ lt \in 1..MaxLength /\ transactions' = (lo + 2)..lastProcessedLT
  <2>1. lo + 1 \in transactions /\ lo + 1 \in 1..MaxLength
    BY <1>3
  <2>2. lt = lo + 1
    <3>1. lt <= lo + 1
      BY <1>2, <2>1
    <3>2. lt \in (lo + 1)..lastProcessedLT
      BY <1>3, Zenon
    <3> QED BY <3>1, <3>2
  <2>3. transactions' = ((lo + 1)..lastProcessedLT) \ {lo + 1}
    BY <1>2, <1>3, <2>2
  <2>4. ((lo + 1)..lastProcessedLT) \ {lo + 1} = (lo + 2)..lastProcessedLT
    OBVIOUS
  <2> QED BY <2>1, <2>2, <2>3, <2>4
<1>5. /\ received' \in Seq(1..MaxLength) /\ Len(received') = Len(received) + 1
      /\ received'[Len(received) + 1] = lt
      /\ \A i \in 1..Len(received) : received'[i] = received[i]
  BY <1>2, <1>4
<1>6. top' = lt
  BY <1>5 DEF top
<1>7. TypeOK'
  BY <1>1, <1>2, <1>5, Zenon DEF SubscriptionInv, TypeOK
<1>8. InOrder'
  <2>1. \A i \in 1..Len(received) : received[i] <= top
    <3> TAKE i \in 1..Len(received)
    <3>1. received # <<>> /\ top = received[Len(received)] /\ Len(received) \in 1..Len(received)
      BY DEF top
    <3>2. received[i] \in 1..MaxLength
      OBVIOUS
    <3>3. CASE i = Len(received)
      BY <3>1, <3>2, <3>3
    <3>4. CASE i # Len(received)
      <4>1. i < Len(received)
        BY <3>4
      <4>2. received[i] < received[Len(received)]
        BY <3>1, <4>1 DEF SubscriptionInv, InOrder
      <4> QED BY <3>1, <3>2, <4>2
    <3> QED BY <3>3, <3>4
  <2>2. \A i \in 1..Len(received) : received[i] < lt
    <3> TAKE i \in 1..Len(received)
    <3>1. received[i] \in 1..MaxLength
      OBVIOUS
    <3> QED BY <1>3, <1>4, <2>1, <3>1
  <2>3. SUFFICES ASSUME NEW i \in 1..(Len(received) + 1), NEW j \in 1..(Len(received) + 1), i < j
                 PROVE  received'[i] < received'[j]
    BY <1>5, Zenon DEF InOrder
  <2>4. i \in 1..Len(received) /\ received'[i] = received[i]
    <3>1. i \in 1..Len(received)
      <4>1. Len(received) \in Nat /\ i \in Nat /\ j \in Nat /\ 1 <= i /\ j <= Len(received) + 1
        OBVIOUS
      <4> QED BY ONLY <2>3, <4>1
    <3> QED BY <1>5, <3>1, Zenon
  <2>5. CASE j = Len(received) + 1
    BY <1>5, <2>2, <2>4, <2>5, Zenon
  <2>6. CASE j \in 1..Len(received)
    BY <1>5, <2>3, <2>4, <2>6, Zenon DEF SubscriptionInv, InOrder
  <2> QED BY <2>5, <2>6
<1>9. NoGap'
  <2>1. CASE cut
    BY <1>1, <2>1 DEF NoGap
  <2>2. CASE ~cut
    <3>1. \A i \in 1..Len(received) : received[i] = start + i
      BY <2>2 DEF SubscriptionInv, NoGap
    <3>2. top = start + Len(received)
      BY <3>1 DEF top
    <3>3. lt = start + (Len(received) + 1)
      BY <1>3, <1>4, <2>2, <3>2
    <3>4. \A i \in 1..Len(received') : i \in 1..Len(received) \/ i = Len(received) + 1
      BY <1>5
    <3> QED BY <1>1, <1>5, <3>1, <3>3, <3>4, Zenon DEF NoGap
  <2> QED BY <2>1, <2>2
<1>10. CASE transactions' = {}
  <2>1. lastProcessedLT = lo + 1
    BY <1>3, <1>4, <1>10
  <2> QED BY <1>1, <1>2, <1>4, <1>6, <1>7, <1>8, <1>9, <1>10, <2>1
          DEF SubscriptionInv, Settled, FoundSoFar, StillToSend
<1>11. CASE transactions' # {}
  <2>1. lo + 1 < lastProcessedLT /\ lo + 1 \in 0..MaxLength /\ (lo + 1) + 1 = lo + 2
    BY <1>3, <1>4, <1>11
  <2>2. at' = "send"
    BY <1>2, <1>11
  <2>3. StillToSend'
    BY <1>1, <1>4, <1>6, <2>1 DEF StillToSend
  <2> QED BY <1>7, <1>8, <1>9, <2>2, <2>3 DEF SubscriptionInv, Settled, FoundSoFar
<1> QED BY <1>10, <1>11

\* What the worker has found, marked and sent stays in step with the chain.
THEOREM SubscriptionInvariant == Spec => []SubscriptionInv
<1>1. ASSUME Init PROVE SubscriptionInv
  <2>1. TypeOK
    <3>1. 0 \in 0..MaxLength /\ start \in 0..MaxLength
      BY <1>1, SubscriptionAssumption DEF Init
    <3>2. received \in Seq(1..MaxLength)
      BY <1>1 DEF Init
    <3> QED BY <1>1, <3>1, <3>2, Zenon DEF Init, TypeOK
  <2> QED BY <1>1, <2>1 DEF Init, SubscriptionInv, Settled, FoundSoFar, StillToSend, InOrder, NoGap, top
<1>2. ASSUME SubscriptionInv, [Next]_vars PROVE SubscriptionInv'
  <2>0. Typed
    BY <1>2, Types
  <2> USE <1>2, <2>0 DEF Typed
  <2>1. CASE Grow
    <3>1. length' = length + 1 /\ length' \in 0..MaxLength
      BY <2>1 DEF Grow
    <3>2. UNCHANGED <<at, lastProcessedLT, lastLT, transactions, cancelled, received, start, cut>>
      BY <2>1 DEF Grow, worker
    <3>3. TypeOK'
      BY <3>1, <3>2 DEF SubscriptionInv, TypeOK
    <3>4. FoundSoFar'
      BY <3>1, <3>2 DEF SubscriptionInv, FoundSoFar
    <3> QED BY <3>2, <3>3, <3>4 DEF SubscriptionInv, Settled, StillToSend, InOrder, NoGap, top
  <2>2. CASE Cancel
    BY <2>2, Zenon DEF Cancel, worker, SubscriptionInv, TypeOK, Settled, FoundSoFar, StillToSend, InOrder, NoGap, top
  <2>3. CASE Poll
    <3>1. PICK last \in 1..length : at' = "list" /\ lastLT' = last /\ transactions' = {}
      BY <2>3 DEF Poll
    <3>2. at = "poll" /\ UNCHANGED <<length, lastProcessedLT, cancelled, received, start, cut>>
      BY <2>3 DEF Poll
    <3>3. last \in 0..length /\ last \in 0..MaxLength /\ {} = (last + 1)..last
      OBVIOUS
    <3>4. FoundSoFar'
      BY <3>1, <3>2, <3>3 DEF FoundSoFar
    <3> QED BY <3>1, <3>2, <3>3, <3>4 DEF SubscriptionInv, TypeOK, Settled, StillToSend, InOrder, NoGap, top
  <2>4. CASE List
    BY <2>4, ListStep
  <2>5. CASE ListNothingOlder
    <3>1. /\ at = "list" /\ transactions # {} /\ Process(transactions) /\ cut' = TRUE
          /\ UNCHANGED <<length, lastLT, cancelled, received, start>>
      BY <2>5, Zenon DEF ListNothingOlder
    <3>2. PICK hi \in 0..length : /\ lastLT <= hi /\ transactions = (lastLT + 1)..hi
                                  /\ lastLT < hi => lastProcessedLT <= lastLT
      BY <3>1, Zenon DEF SubscriptionInv, FoundSoFar
    <3>3. lastProcessedLT <= lastLT
      BY <3>1, <3>2
    <3> QED BY <3>1, <3>2, <3>3, ProcessStep
  <2>6. CASE Retry
    BY <2>6, Zenon DEF Retry, vars, worker, SubscriptionInv, TypeOK, Settled, FoundSoFar, StillToSend, InOrder, NoGap, top
  <2>7. CASE Close
    BY <2>7, Zenon DEF Close, SubscriptionInv, TypeOK, Settled, FoundSoFar, StillToSend, InOrder, NoGap
  <2>8. CASE Send
    BY <2>8, SendStep
  <2>9. CASE Resubscribe
    <3>1. /\ at' = "poll" /\ cancelled' = FALSE /\ transactions' = {} /\ lastLT' = 0
          /\ lastProcessedLT' = top /\ UNCHANGED <<length, received, start, cut>>
      BY <2>9, Zenon DEF Resubscribe, top
    <3>2. 0 \in 0..MaxLength /\ {} \subseteq 1..length
      OBVIOUS
    <3>3. TypeOK'
      BY <3>1, <3>2, Zenon DEF SubscriptionInv, TypeOK
    <3> QED BY <3>1, <3>3 DEF SubscriptionInv, Settled, FoundSoFar, StillToSend, InOrder, NoGap, top
  <2>10. CASE UNCHANGED vars
    BY <2>10, Zenon DEF vars, worker, SubscriptionInv, TypeOK, Settled, FoundSoFar, StillToSend, InOrder, NoGap, top
  <2> QED BY <2>1, <2>2, <2>3, <2>4, <2>5, <2>6, <2>7, <2>8, <2>9, <2>10 DEF Next
<1> QED BY <1>1, <1>2, PTL DEF Spec

\* The channel of SubscribeOnTransactions carries the transactions in the
\* order of the chain and none twice, new subscriptions included.
THEOREM DeliveryInOrder == Spec => []InOrder
BY SubscriptionInvariant, PTL DEF SubscriptionInv

\* ... and leaves none out, unless a node has forgotten the older ones.
THEOREM DeliveryWithoutGap == Spec => []NoGap
BY SubscriptionInvariant, PTL DEF SubscriptionInv

\* The worker's state keeps its type.
THEOREM SubscriptionTypeCorrect == Spec => []TypeOK
BY SubscriptionInvariant, PTL DEF SubscriptionInv

-----------------------------------------------------------------------------
(* The call that waits                                                     *)

\* Up to the offset nothing since the message was sent has it.
ScannedBefore ==
  where \in {"poll", "scan"} => \A lt \in (since + 1)..acc : ~chain[lt]

\* Nor has anything from the page that comes next up to where the scan began.
ScannedNow ==
  where = "scan" => /\ acc < accNew /\ lastLt <= accNew
                 /\ \A lt \in (lastLt + 1)..accNew : ~chain[lt]

WaitInv == W!TypeOK /\ ScannedBefore /\ ScannedNow

\* A transaction added to the chain changes none of those before it.
LEMMA ChainGrows ==
  ASSUME WaitInv, NEW b \in BOOLEAN, chain' = Append(chain, b),
         UNCHANGED <<where, acc, accNew, lastLt, found, since>>,
         foreign' \in 0..MaxForeign, inFlight' \in BOOLEAN, accepted' \in BOOLEAN
  PROVE  WaitInv'
<1>1. /\ chain' \in Seq(BOOLEAN) /\ Len(chain') = Len(chain) + 1
      /\ \A lt \in 1..Len(chain) : chain'[lt] = chain[lt]
      /\ Len(chain) \in Nat
  BY DEF WaitInv, W!TypeOK
<1>2. {acc, accNew, lastLt, found, since} \subseteq 0..Len(chain)
  BY Zenon DEF WaitInv, W!TypeOK, W!Lts
<1>3. W!TypeOK'
  BY <1>1, <1>2 DEF WaitInv, W!TypeOK, W!Lts
<1>4. ScannedBefore'
  BY <1>1, <1>2 DEF WaitInv, ScannedBefore
<1>5. ScannedNow'
  BY <1>1, <1>2 DEF WaitInv, ScannedNow
<1> QED BY <1>3, <1>4, <1>5 DEF WaitInv

\* A page that was asked for and has no transaction with the message.
LEMMA ScanStep == WaitInv /\ W!Scan => WaitInv'
<1> SUFFICES ASSUME WaitInv, W!Scan PROVE WaitInv'
  OBVIOUS
<1>1. PICK n \in 1..PageSize :
       /\ n <= lastLt /\ lastLt' = lastLt - n
       /\ IF W!Ours(W!Page(n)) # {}
            THEN /\ where' = "found" /\ UNCHANGED acc
                 /\ found' \in W!Ours(W!Page(n)) /\ \A lt \in W!Ours(W!Page(n)) : found' <= lt
            ELSE /\ IF W!SawLastTx(W!Page(n)) THEN where' = "poll" /\ acc' = accNew
                    ELSE UNCHANGED <<where, acc>>
                 /\ UNCHANGED found
  BY Zenon DEF W!Scan, W!Before
<1>2. where = "scan" /\ UNCHANGED <<chain, foreign, accepted, inFlight, accNew, since>>
  BY Zenon DEF W!Scan, W!account
<1>3. /\ chain \in Seq(BOOLEAN) /\ Len(chain) \in Nat /\ n \in Nat \ {0}
      /\ {acc, accNew, lastLt, found, since} \subseteq 0..Len(chain)
  BY WaitAssumption DEF WaitInv, W!TypeOK, W!Lts
<1>31. /\ lastLt' = lastLt - n /\ n <= lastLt /\ n \in Nat /\ acc \in Nat /\ accNew \in Nat
       /\ lastLt \in 0..Len(chain) /\ since \in Nat /\ Len(chain) \in Nat
  BY <1>1, <1>3
<1>4. lastLt' \in 0..Len(chain)
  BY ONLY <1>31
<1>5. CASE W!Ours(W!Page(n)) # {}
  <2>1. found' \in (lastLt - n + 1)..lastLt
    BY <1>1, <1>5, Zenon DEF W!Ours, W!Page
  <2>2. found' \in 0..Len(chain)
    BY ONLY <1>31, <2>1
  <2> QED BY <1>1, <1>2, <1>3, <1>4, <1>5, <2>2
          DEF WaitInv, W!TypeOK, W!Lts, ScannedBefore, ScannedNow
<1>6. CASE W!Ours(W!Page(n)) = {}
  <2>1. \A lt \in (lastLt - n + 1)..lastLt : ~chain[lt]
    BY <1>6 DEF W!Ours, W!Page
  <2>2. \A lt \in (lastLt - n + 1)..accNew : ~chain[lt]
    BY <1>1, <1>2, <1>3, <2>1 DEF WaitInv, ScannedNow
  <2>3. acc < accNew /\ lastLt <= accNew /\ \A lt \in (since + 1)..acc : ~chain[lt]
    BY <1>2 DEF WaitInv, ScannedNow, ScannedBefore
  <2>4. CASE W!SawLastTx(W!Page(n))
    <3>1. lastLt - n <= acc
      BY <1>1, <1>3, <2>4 DEF W!SawLastTx, W!Page
    <3>2. \A lt \in (since + 1)..accNew : ~chain[lt]
      BY ONLY <1>31, <2>2, <2>3, <3>1
    <3>3. where' = "poll" /\ acc' = accNew /\ found' = found
      BY <1>1, <1>6, <2>4, Zenon
    <3> QED BY <1>2, <1>3, <1>4, <3>2, <3>3
            DEF WaitInv, W!TypeOK, W!Lts, ScannedBefore, ScannedNow
  <2>5. CASE ~W!SawLastTx(W!Page(n))
    <3>1. UNCHANGED <<where, acc, found>> /\ lastLt' <= accNew /\ lastLt' + 1 = lastLt - n + 1
      BY <1>1, <1>3, <1>6, <2>3, <2>5
    <3> QED BY <1>2, <1>3, <1>4, <2>2, <2>3, <3>1, Zenon
            DEF WaitInv, W!TypeOK, W!Lts, ScannedBefore, ScannedNow
  <2> QED BY <2>4, <2>5
<1> QED BY <1>5, <1>6

\* What is known of the scanned part of the chain is kept by every step, of the
\* network and of the call.
THEOREM WaitInvariant == W!Spec => []WaitInv
<1>1. ASSUME W!Init PROVE WaitInv
  <2>1. chain \in Seq(BOOLEAN) /\ Len(chain) \in Nat /\ MaxForeign \in Nat
    BY <1>1, WaitAssumption DEF W!Init
  <2>2. 0 \in 0..Len(chain) /\ foreign \in 0..MaxForeign
    BY <1>1, <2>1 DEF W!Init
  <2>3. W!TypeOK
    BY <1>1, <2>1, <2>2, Zenon DEF W!Init, W!TypeOK, W!Lts
  <2> QED BY <1>1, <2>3 DEF W!Init, WaitInv, ScannedBefore, ScannedNow
<1>2. ASSUME WaitInv, [W!Next]_(W!vars) PROVE WaitInv'
  <2>0. /\ chain \in Seq(BOOLEAN) /\ Len(chain) \in Nat
        /\ foreign \in 0..MaxForeign /\ inFlight \in BOOLEAN /\ accepted \in BOOLEAN
        /\ {acc, accNew, lastLt, found, since} \subseteq 0..Len(chain)
    BY <1>2 DEF WaitInv, W!TypeOK, W!Lts
  <2>1. CASE W!Foreign
    <3>1. foreign' \in 0..MaxForeign
      BY <2>0, <2>1, WaitAssumption DEF W!Foreign
    <3> QED BY <1>2, <2>0, <2>1, <3>1, ChainGrows, Zenon DEF W!Foreign
  <2>2. CASE W!Accept
    BY <1>2, <2>0, <2>2, ChainGrows, Zenon DEF W!Accept
  <2>3. CASE W!Lose
    BY <1>2, <2>0, <2>3, Zenon DEF W!Lose, W!account, WaitInv, W!TypeOK, W!Lts, ScannedBefore, ScannedNow
  <2>4. CASE W!ReadAccount
    BY <1>2, <2>0, <2>4, Zenon DEF W!ReadAccount, W!account, WaitInv, W!TypeOK, W!Lts, ScannedBefore, ScannedNow
  <2>5. CASE W!Send
    <3>1. /\ since' = Len(chain) /\ where' \in {"poll", "error"} /\ inFlight' \in BOOLEAN
          /\ UNCHANGED <<chain, foreign, accepted, acc, accNew, lastLt, found>>
      BY <2>0, <2>5, Zenon DEF W!Send, W!account
    <3>2. \A lt \in (since' + 1)..acc : FALSE
      BY <2>0, <3>1
    <3>3. W!TypeOK'
      BY <2>0, <3>1 DEF W!TypeOK, W!Lts
    <3> QED BY <3>1, <3>2, <3>3 DEF WaitInv, ScannedBefore, ScannedNow
  <2>6. CASE W!Poll
    <3>1. PICK n \in acc..Len(chain) :
            \/ n = acc /\ W!Resend /\ UNCHANGED <<where, accNew, lastLt>>
            \/ n # acc /\ where' = "scan" /\ accNew' = n /\ lastLt' = n /\ UNCHANGED inFlight
      BY <2>6, Zenon DEF W!Poll
    <3>2. where = "poll" /\ UNCHANGED <<chain, foreign, accepted, acc, found, since>>
      BY <2>6, Zenon DEF W!Poll, W!account
    <3>3. CASE n = acc /\ W!Resend /\ UNCHANGED <<where, accNew, lastLt>>
      <4>1. inFlight' \in BOOLEAN
        BY <2>0, <3>3, Zenon DEF W!Resend
      <4> QED BY <1>2, <2>0, <3>2, <3>3, <4>1
              DEF WaitInv, W!TypeOK, W!Lts, ScannedBefore, ScannedNow
    <3>4. CASE n # acc /\ where' = "scan" /\ accNew' = n /\ lastLt' = n /\ UNCHANGED inFlight
      <4>1. n \in 0..Len(chain) /\ acc < n /\ \A lt \in (n + 1)..n : FALSE
        BY <2>0, <3>4
      <4>2. W!TypeOK'
        BY <2>0, <3>2, <3>4, <4>1, Zenon DEF W!TypeOK, W!Lts
      <4>3. ScannedBefore' /\ ScannedNow'
        BY <1>2, <3>2, <3>4, <4>1 DEF WaitInv, ScannedBefore, ScannedNow
      <4> QED BY <4>2, <4>3 DEF WaitInv
    <3> QED BY <3>1, <3>3, <3>4
  <2>7. CASE W!Scan
    BY <1>2, <2>7, ScanStep
  <2>8. CASE W!Expire
    BY <1>2, <2>0, <2>8, Zenon DEF W!Expire, W!account, WaitInv, W!TypeOK, W!Lts, ScannedBefore, ScannedNow
  <2>9. CASE UNCHANGED W!vars
    BY <1>2, <2>9, Zenon DEF W!vars, W!account, WaitInv, W!TypeOK, W!Lts, ScannedBefore, ScannedNow
  <2> QED BY <1>2, <2>1, <2>2, <2>3, <2>4, <2>5, <2>6, <2>7, <2>8, <2>9 DEF W!Next
<1> QED BY <1>1, <1>2, PTL DEF W!Spec

\* The state of the call keeps its type: in particular no page is asked for
\* that ends outside the chain.
THEOREM WaitTypeCorrect == W!Spec => []W!TypeOK
BY WaitInvariant, PTL DEF WaitInv

\* Between two scans of waitConfirmation no transaction with the message has
\* been passed over.
THEOREM NoneIsPassedOver == W!Spec => []NothingPassedOver
<1>1. WaitInv => NothingPassedOver
  BY DEF WaitInv, ScannedBefore, NothingPassedOver, W!NothingPassedOver
<1> QED BY <1>1, WaitInvariant, PTL

-----------------------------------------------------------------------------
(* The replay window                                                       *)

\* Seqnos less than a window apart have different slots.
LEMMA SlotsDiffer ==
  ASSUME NEW a \in Int, NEW b \in Int, b < a, a - b < Size
  PROVE  Window!Slot(a) # Window!Slot(b)
<1> DEFINE qa == a \div Size
           qb == b \div Size
<1>1. /\ qa \in Int /\ qb \in Int
      /\ a = Size * qa + Window!Slot(a) /\ b = Size * qb + Window!Slot(b)
  BY WindowAssumption DEF Window!Slot
<1>2. Window!Slot(a) \in Int /\ Window!Slot(b) \in Int /\ Size \in Int /\ Size > 0
  BY WindowAssumption DEF Window!Slot
<1>3. SUFFICES ASSUME Window!Slot(a) = Window!Slot(b) PROVE FALSE
  OBVIOUS
<1> HIDE DEF qa, qb
<1>4. PICK d \in Int : d = qa - qb
  BY <1>1
<1>5. a - b = Size * d
  BY <1>1, <1>2, <1>3, <1>4
<1>6. CASE d <= 0
  <2>1. Size * d <= 0
    BY <1>2, <1>6
  <2> QED BY <1>5, <2>1
<1>7. CASE d >= 1
  <2>1. Size * d >= Size
    BY <1>2, <1>7
  <2> QED BY <1>2, <1>5, <2>1
<1> QED BY <1>6, <1>7

\* A slot is an index of the window.
LEMMA SlotType == \A s \in Int : Window!Slot(s) \in Window!Slots
BY WindowAssumption DEF Window!Slot, Window!Slots

WindowInv == Window!TypeOK /\ Window!WindowExact /\ \A s \in passed : 0 < s /\ s <= confirmSeqno

\* An advance clears the slots of the seqnos that enter the window, and no slot
\* of one that stays in it.
LEMMA WindowAdvanced ==
  ASSUME WindowInv, NEW s \in Int, s > confirmSeqno,
         NEW t \in (s - Size + 1)..s
  PROVE  Window!Slot(t) \in (recvSeqnoWindow \ Window!Reused(confirmSeqno, s)) \cup {Window!Slot(s)}
           <=> t \in passed \cup {s}
<1>0. confirmSeqno \in Int /\ Size \in Int /\ Size > 0 /\ t \in Int
  BY WindowAssumption DEF WindowInv, Window!TypeOK
<1>1. CASE t = s
  BY <1>1
<1>2. CASE t # s /\ t > confirmSeqno
  <2>1. Window!Slot(t) # Window!Slot(s)
    BY <1>0, <1>2, SlotsDiffer
  <2>2. Window!Slot(t) \in Window!Reused(confirmSeqno, s)
    <3>1. t \in (confirmSeqno + 1)..s
      BY <1>0, <1>2
    <3> QED BY <1>0, <3>1, SlotType DEF Window!Reused
  <2>3. t \notin passed
    BY <1>0, <1>2 DEF WindowInv
  <2> QED BY <1>2, <2>1, <2>2, <2>3
<1>3. CASE t # s /\ t <= confirmSeqno
  <2>1. Window!Slot(t) # Window!Slot(s)
    BY <1>0, <1>3, SlotsDiffer
  <2>2. s - confirmSeqno < Size
    BY <1>0, <1>3
  <2>3. Window!Slot(t) \notin Window!Reused(confirmSeqno, s)
    <3>1. ASSUME NEW i \in (confirmSeqno + 1)..s PROVE Window!Slot(i) # Window!Slot(t)
      BY <1>0, <1>3, SlotsDiffer
    <3>2. Window!Reused(confirmSeqno, s) = {Window!Slot(i) : i \in (confirmSeqno + 1)..s}
      BY <1>0, <2>2 DEF Window!Reused
    <3> QED BY <3>1, <3>2
  <2>4. t \in (confirmSeqno - Size + 1)..confirmSeqno
    BY <1>0, <1>3
  <2>5. Window!Slot(t) \in recvSeqnoWindow <=> t \in passed
    BY <2>4 DEF WindowInv, Window!WindowExact
  <2> QED BY <1>3, <2>1, <2>3, <2>5
<1> QED BY <1>0, <1>1, <1>2, <1>3

\* A call keeps the invariant.
LEMMA WindowAccept ==
  ASSUME WindowInv, NEW s \in Seqnos, Window!AcceptPacketSeqno(s)
  PROVE  WindowInv'
<1>0. s \in Int /\ confirmSeqno \in Int /\ Size \in Int /\ Size > 0 /\ Window!Slot(s) \in Window!Slots
  BY WindowAssumption, SlotType DEF WindowInv, Window!TypeOK
<1>1. CASE Window!Refuse(s) /\ UNCHANGED <<confirmSeqno, recvSeqnoWindow>>
  BY <1>0, <1>1, Zenon DEF Window!Refuse, WindowInv, Window!TypeOK, Window!WindowExact, Window!Slots
<1>2. CASE s > confirmSeqno /\ confirmSeqno' = s /\ Window!Take(s)
           /\ recvSeqnoWindow' = (recvSeqnoWindow \ Window!Reused(confirmSeqno, s)) \cup {Window!Slot(s)}
  <2>1. Window!WindowExact'
    BY <1>2, WindowAdvanced, <1>0 DEF Window!WindowExact, Window!Take
  <2>2. Window!TypeOK'
    <3>1. confirmSeqno \in Nat
      BY DEF WindowInv, Window!TypeOK
    <3>2. confirmSeqno' \in Nat
      BY <1>0, <1>2, <3>1
    <3> QED BY <1>0, <1>2, <3>2, Zenon DEF Window!Take, WindowInv, Window!TypeOK, Window!Slots
  <2>3. \A t \in passed' : 0 < t /\ t <= confirmSeqno'
    <3>1. confirmSeqno \in Nat /\ passed \subseteq Int
      BY DEF WindowInv, Window!TypeOK
    <3> QED BY <1>0, <1>2, <3>1 DEF Window!Take, WindowInv
  <2> QED BY <2>1, <2>2, <2>3 DEF WindowInv
<1>3. CASE s > 0 /\ s <= confirmSeqno /\ confirmSeqno - s < Size /\ Window!Take(s)
           /\ recvSeqnoWindow' = recvSeqnoWindow \cup {Window!Slot(s)} /\ confirmSeqno' = confirmSeqno
  <2>1. Window!WindowExact'
    <3>1. ASSUME NEW t \in (confirmSeqno - Size + 1)..confirmSeqno
          PROVE  Window!Slot(t) \in recvSeqnoWindow' <=> t \in passed'
      <4>1. Window!Slot(t) \in recvSeqnoWindow <=> t \in passed
        BY DEF WindowInv, Window!WindowExact
      <4>2. t # s => Window!Slot(t) # Window!Slot(s)
        BY <1>0, <1>3, SlotsDiffer
      <4> QED BY <1>3, <4>1, <4>2 DEF Window!Take
    <3> QED BY <1>3, <3>1 DEF Window!WindowExact
  <2>2. Window!TypeOK'
    BY <1>0, <1>3, Zenon DEF Window!Take, WindowInv, Window!TypeOK, Window!Slots
  <2>3. \A t \in passed' : 0 < t /\ t <= confirmSeqno'
    BY <1>0, <1>3 DEF Window!Take, WindowInv
  <2> QED BY <2>1, <2>2, <2>3 DEF WindowInv
<1> QED BY <1>1, <1>2, <1>3 DEF Window!AcceptPacketSeqno

\* In every reachable state a bit of the window stands for one arrived.
THEOREM WindowInvariant == Window!Spec => []WindowInv
<1>1. Window!Init => WindowInv
  <2>1. Window!Init => Window!TypeOK
    <3>1. Window!Init => confirmSeqno \in Nat /\ arrived \in Int
      BY DEF Window!Init
    <3> QED BY <3>1, Zenon DEF Window!Init, Window!TypeOK
  <2>2. Window!Init => Window!WindowExact
    BY DEF Window!Init, Window!WindowExact
  <2> QED BY <2>1, <2>2 DEF Window!Init, WindowInv
<1>2. WindowInv /\ [Window!Next]_(Window!vars) => WindowInv'
  <2> SUFFICES ASSUME WindowInv, [Window!Next]_(Window!vars) PROVE WindowInv'
    OBVIOUS
  <2>1. CASE Window!Reinit
    <3>1. Window!TypeOK'
      <4>1. confirmSeqno' \in Nat /\ arrived' \in Int
        BY <2>1 DEF Window!Reinit
      <4> QED BY <2>1, <4>1, Zenon DEF Window!Reinit, Window!TypeOK
    <3>2. Window!WindowExact'
      BY <2>1 DEF Window!Reinit, Window!WindowExact
    <3> QED BY <2>1, <3>1, <3>2 DEF Window!Reinit, WindowInv
  <2>2. CASE UNCHANGED Window!vars
    BY <2>2 DEF Window!vars, WindowInv, Window!TypeOK, Window!WindowExact, Window!Slots
  <2> QED BY <2>1, <2>2, WindowAccept DEF Window!Next
<1> QED BY <1>1, <1>2, PTL DEF Window!Spec

\* The bits of the window and the seqnos let through agree.
THEOREM WindowIsExact == Window!Spec => []Window!WindowExact
<1>1. WindowInv => Window!WindowExact
  BY DEF WindowInv
<1> QED BY WindowInvariant, <1>1, PTL

\* acceptPacketSeqnoLocked lets no arrived through twice in an epoch.
THEOREM ReplayIsRefused == Window!Spec => NoReplay
<1>1. WindowInv /\ [Window!Next]_(Window!vars) => [ok' => arrived' \notin passed]_(Window!vars)
  <2> SUFFICES ASSUME WindowInv, Window!Next PROVE ok' => arrived' \notin passed
    OBVIOUS
  <2>1. CASE Window!Reinit
    BY <2>1 DEF Window!Reinit
  <2>2. ASSUME NEW s \in Seqnos, Window!AcceptPacketSeqno(s) PROVE ok' => arrived' \notin passed
    <3>0. s \in Int /\ confirmSeqno \in Int /\ Size \in Int
      BY WindowAssumption DEF WindowInv, Window!TypeOK
    <3>1. CASE s > confirmSeqno
      BY <2>2, <3>0, <3>1 DEF Window!AcceptPacketSeqno, Window!Refuse, Window!Take, WindowInv
    <3>2. CASE s <= confirmSeqno
      <4>1. ok' => confirmSeqno - s < Size /\ Window!Slot(s) \notin recvSeqnoWindow
        BY <2>2, <3>0, <3>2 DEF Window!AcceptPacketSeqno, Window!Refuse, Window!Take
      <4>2. confirmSeqno - s < Size => s \in (confirmSeqno - Size + 1)..confirmSeqno
        BY <3>0, <3>2
      <4>3. arrived' = s
        BY <2>2 DEF Window!AcceptPacketSeqno, Window!Refuse, Window!Take
      <4> QED BY <4>1, <4>2, <4>3 DEF WindowInv, Window!WindowExact
    <3> QED BY <3>0, <3>1, <3>2
  <2> QED BY <2>1, <2>2 DEF Window!Next
<1> QED BY WindowInvariant, <1>1, PTL DEF Window!Spec, NoReplay, Window!NoReplay

\* ... and refuses none that is new and not too old.
THEOREM NewPacketsPass == Window!Spec => NoFalseReplay
<1> DEFINE Pass == arrived' > 0 /\ arrived' \notin passed /\ confirmSeqno - arrived' < Size => ok'
<1>1. WindowInv /\ [Window!Next]_(Window!vars) => [Pass]_(Window!vars)
  <2> SUFFICES ASSUME WindowInv, Window!Next PROVE Pass
    OBVIOUS
  <2>1. CASE Window!Reinit
    BY <2>1 DEF Window!Reinit
  <2>2. ASSUME NEW s \in Seqnos, Window!AcceptPacketSeqno(s) PROVE Pass
    <3>0. s \in Int /\ confirmSeqno \in Int /\ Size \in Int
      BY WindowAssumption DEF WindowInv, Window!TypeOK
    <3>1. arrived' = s
      BY <2>2 DEF Window!AcceptPacketSeqno, Window!Refuse, Window!Take
    <3>2. SUFFICES ASSUME s > 0, s \notin passed, confirmSeqno - s < Size PROVE ok'
      BY <3>1
    <3>3. s <= confirmSeqno => Window!Slot(s) \notin recvSeqnoWindow
      <4>1. s <= confirmSeqno => s \in (confirmSeqno - Size + 1)..confirmSeqno
        BY <3>0, <3>2
      <4> QED BY <3>2, <4>1 DEF WindowInv, Window!WindowExact
    <3>4. ~(s <= 0) /\ ~(confirmSeqno - s >= Size)
      BY <3>0, <3>2
    <3> QED BY <2>2, <3>3, <3>4 DEF Window!AcceptPacketSeqno, Window!Take
  <2> QED BY <2>1, <2>2 DEF Window!Next
<1> QED BY WindowInvariant, <1>1, PTL DEF Window!Spec, NoFalseReplay, Window!NoFalseReplay

-----------------------------------------------------------------------------
(* The limiter of requests                                                 *)

\* Starts that are no longer among times.
gone == Len(starts) - Len(times)

\* The end of starts is what times remembers, each start at most MaxStall after
\* the moment that was recorded for it.
Remembered ==
  \A m \in 1..Len(times) : starts[gone + m] <= times[m] + MaxStall
\* What was dropped has left the window, for any caller from now on.
Left == \A i \in 1..gone : starts[i] + span - MaxStall < time
\* A caller at the lock has not read the clock too long ago.
Fresh == \A c \in Callers : place[c] = "lock" => seen[c] <= time /\ time <= seen[c] + MaxStall

LimiterShape ==
  /\ Limiter!TypeOK /\ gone >= 0
  /\ \A c \in Callers : place[c] \in {"idle", "lock", "again"} => seen[c] <= time

LimiterInv == LimiterShape /\ Remembered /\ Left /\ Fresh /\ RateBound

LEMMA LimiterStart == Limiter!Init => LimiterInv
<1> SUFFICES ASSUME Limiter!Init PROVE LimiterInv
  OBVIOUS
<1>1. /\ time = 0 /\ times = <<>> /\ place = [c \in Callers |-> "idle"]
      /\ seen = [c \in Callers |-> 0] /\ starts = <<>>
  BY Zenon DEF Limiter!Init
<1>2. Len(times) = 0 /\ Len(starts) = 0
  BY <1>1
<1>3. gone = 0
  BY <1>2 DEF gone
<1>4. Limiter!TypeOK
  BY <1>1, <1>2, LimiterAssumption DEF Limiter!TypeOK
<1>5. LimiterShape
  BY <1>1, <1>3, <1>4 DEF LimiterShape
<1>6. Remembered /\ Left /\ RateBound
  BY <1>2, <1>3 DEF Remembered, Left, RateBound, Limiter!RateBound
<1>7. Fresh
  BY <1>1 DEF Fresh
<1> QED
  BY <1>5, <1>6, <1>7, Zenon DEF LimiterInv

LEMMA EntryOf ==
  ASSUME NEW S, NEW s \in Seq(S)
  PROVE  \A i \in 1..Len(s) : s[i] \in S
  OBVIOUS

LEMMA RestOf ==
  ASSUME NEW S, NEW s \in Seq(S), NEW n \in 0..Len(s)
  PROVE  /\ SubSeq(s, n + 1, Len(s)) \in Seq(S)
         /\ Len(SubSeq(s, n + 1, Len(s))) = Len(s) - n
         /\ \A m \in 1..(Len(s) - n) : SubSeq(s, n + 1, Len(s))[m] = s[n + m]
  OBVIOUS

LEMMA LimiterTyped ==
  ASSUME LimiterInv
  PROVE  /\ Len(times) \in Nat /\ Len(starts) \in Nat /\ gone \in Nat /\ gone + Len(times) = Len(starts)
         /\ Len(times) <= max /\ time \in Nat /\ time <= MaxTime
         /\ \A i \in 1..Len(starts) : starts[i] \in Nat /\ starts[i] <= MaxTime
         /\ \A i \in 1..Len(times) : times[i] \in Nat /\ times[i] <= MaxTime
<1>1. /\ times \in Seq(0..MaxTime) /\ starts \in Seq(0..MaxTime) /\ Len(times) <= max
      /\ time \in 0..MaxTime /\ gone >= 0
  BY Zenon DEF LimiterInv, LimiterShape, Limiter!TypeOK
<1>2. Len(times) \in Nat /\ Len(starts) \in Nat
  BY <1>1
<1>3. gone \in Nat /\ gone + Len(times) = Len(starts)
  BY <1>1, <1>2 DEF gone
<1>4. /\ \A i \in 1..Len(starts) : starts[i] \in 0..MaxTime
      /\ \A i \in 1..Len(times) : times[i] \in 0..MaxTime
  BY <1>1, EntryOf, Zenon
<1> QED
  BY <1>1, <1>2, <1>3, <1>4, LimiterAssumption

\* A step that starts nothing and drops nothing.
LEMMA LimiterRests ==
  ASSUME LimiterInv, UNCHANGED <<times, starts>>, time' \in 0..MaxTime, time <= time',
         LimiterShape', Fresh'
  PROVE  LimiterInv'
<1>1. gone' = gone
  BY DEF gone
<1>2. Remembered' /\ RateBound'
  BY <1>1, Zenon DEF LimiterInv, Remembered, RateBound, Limiter!RateBound
<1>3. Left'
  <2> SUFFICES ASSUME NEW i \in 1..gone PROVE starts[i] + span - MaxStall < time'
    BY <1>1, Zenon DEF Left
  <2>1. starts[i] + span - MaxStall < time
    BY Zenon DEF LimiterInv, Left
  <2>2. starts[i] \in Int
    <3>1. gone \in Nat /\ Len(times) \in Nat /\ gone + Len(times) = Len(starts)
      BY LimiterTyped, Zenon
    <3>2. i \in 1..Len(starts)
      BY <3>1
    <3> QED
      BY <3>2, LimiterTyped
  <2> QED
    BY <2>1, <2>2, LimiterTyped, LimiterAssumption
<1> QED
  BY <1>2, <1>3, Zenon DEF LimiterInv

\* What a caller does outside the lock.
LEMMA LimiterMoves ==
  ASSUME LimiterInv, NEW c \in Callers, NEW p \in {"idle", "lock", "until", "sleep", "again"},
         NEW t \in 0..(MaxTime + span), Limiter!Goto(c, p, t), UNCHANGED <<time, times, starts>>,
         p \in {"idle", "lock", "again"} => t <= time, p = "lock" => t = time
  PROVE  LimiterInv'
<1>1. /\ time \in 0..MaxTime /\ place \in [Callers -> {"idle", "lock", "until", "sleep", "again"}]
      /\ seen \in [Callers -> 0..(MaxTime + span)]
  BY Zenon DEF LimiterInv, LimiterShape, Limiter!TypeOK
<1>2. /\ place' \in [Callers -> {"idle", "lock", "until", "sleep", "again"}]
      /\ seen' \in [Callers -> 0..(MaxTime + span)]
      /\ place'[c] = p /\ seen'[c] = t
      /\ \A d \in Callers \ {c} : place'[d] = place[d] /\ seen'[d] = seen[d]
  BY <1>1, Zenon DEF Limiter!Goto
<1>3. Limiter!TypeOK'
  BY <1>2, Zenon DEF LimiterInv, LimiterShape, Limiter!TypeOK
<1>4. \A d \in Callers : place'[d] \in {"idle", "lock", "again"} => seen'[d] <= time'
  BY <1>2, Zenon DEF LimiterInv, LimiterShape
<1>5. LimiterShape'
  BY <1>3, <1>4, Zenon DEF LimiterInv, LimiterShape, gone
<1>6. t = time => t <= time /\ time <= t + MaxStall
  BY <1>1, LimiterAssumption
<1>7. Fresh'
  BY <1>2, <1>6, Zenon DEF LimiterInv, Fresh
<1>8. time' \in 0..MaxTime /\ time <= time'
  BY <1>1, LimiterAssumption
<1> QED
  BY <1>5, <1>7, <1>8, LimiterRests, Zenon

LEMMA LimiterTick ==
  ASSUME LimiterInv, Limiter!Tick
  PROVE  LimiterInv'
<1>1. /\ time' = time + 1 /\ time < MaxTime /\ UNCHANGED <<times, place, seen, starts>>
      /\ \A c \in Callers : place[c] = "lock" => time' <= seen[c] + MaxStall
  BY Zenon DEF Limiter!Tick
<1>2. time \in Nat
  BY LimiterTyped, Zenon
<1>3. time' \in 0..MaxTime /\ time <= time'
  BY <1>1, <1>2, LimiterAssumption
<1>4. Limiter!TypeOK'
  BY <1>1, <1>3, Zenon DEF LimiterInv, LimiterShape, Limiter!TypeOK
<1>5. ASSUME NEW c \in Callers, place[c] \in {"idle", "lock", "again"} PROVE seen[c] <= time'
  <2>1. seen[c] <= time /\ seen[c] \in Int
    BY <1>5 DEF LimiterInv, LimiterShape, Limiter!TypeOK
  <2> QED
    BY <1>1, <1>2, <2>1
<1>6. LimiterShape'
  BY <1>1, <1>4, <1>5, Zenon DEF LimiterInv, LimiterShape, gone
<1>7. Fresh'
  BY <1>1, <1>5, Zenon DEF Fresh
<1> QED
  BY <1>1, <1>3, <1>6, <1>7, LimiterRests, Zenon

\* A time read before the window, however late it is recorded.
LEMMA Expired ==
  ASSUME NEW s \in Nat, NEW t \in Nat, NEW v \in Int, NEW w \in Nat, NEW k \in Nat,
         NEW n \in Nat, s <= t + k, t < v - w, v <= n
  PROVE  s + w - k < n
  OBVIOUS

\* What is left of times, and that what is dropped has left the window.
LEMMA LimiterKept ==
  ASSUME LimiterInv, NEW c \in Callers, place[c] = "lock", NEW kept \in Limiter!Kept(seen[c])
  PROVE  \E n \in 0..Len(times) :
           /\ kept \in Seq(0..MaxTime) /\ Len(kept) = Len(times) - n
           /\ \A m \in 1..Len(kept) : kept[m] = times[n + m]
           /\ \A i \in 1..(gone + n) : starts[i] + span - MaxStall < time
<1>1. PICK n \in 0..Len(times) : /\ kept = SubSeq(times, n + 1, Len(times))
                                 /\ \A k \in 1..n : times[k] < seen[c] - span
  BY Zenon DEF Limiter!Kept
<1>2. times \in Seq(0..MaxTime) /\ Len(times) \in Nat /\ n \in Nat /\ n <= Len(times)
  BY LimiterTyped DEF LimiterInv, LimiterShape, Limiter!TypeOK
<1>3. /\ kept \in Seq(0..MaxTime) /\ Len(kept) = Len(times) - n
      /\ \A m \in 1..Len(kept) : kept[m] = times[n + m]
  <2>1. /\ SubSeq(times, n + 1, Len(times)) \in Seq(0..MaxTime)
        /\ Len(SubSeq(times, n + 1, Len(times))) = Len(times) - n
        /\ \A m \in 1..(Len(times) - n) : SubSeq(times, n + 1, Len(times))[m] = times[n + m]
    BY <1>2, RestOf, Zenon
  <2> QED
    BY <1>1, <2>1, Zenon
<1>4. ASSUME NEW i \in 1..(gone + n) PROVE starts[i] + span - MaxStall < time
  <2>1. gone \in Nat /\ gone + Len(times) = Len(starts) /\ time \in Nat
    BY LimiterTyped, Zenon
  <2>2. CASE i <= gone
    <3>1. i \in 1..gone
      BY ONLY <1>2, <2>1, <2>2, i \in 1..(gone + n)
    <3> QED
      BY <3>1, Zenon DEF LimiterInv, Left
  <2>3. CASE ~(i <= gone)
    <3> DEFINE m == i - gone
    <3>1. m \in 1..n /\ m \in 1..Len(times) /\ i = gone + m /\ i \in 1..Len(starts)
      BY ONLY <1>2, <2>1, <2>3, i \in 1..(gone + n)
    <3> HIDE DEF m
    <3>2. starts[i] <= times[m] + MaxStall /\ times[m] < seen[c] - span
      BY <1>1, <3>1, Zenon DEF LimiterInv, Remembered
    <3>3. starts[i] \in Nat /\ times[m] \in Nat
      BY <3>1, LimiterTyped, Zenon
    <3>4. seen[c] \in Int /\ seen[c] <= time
      BY DEF LimiterInv, LimiterShape, Limiter!TypeOK
    <3> QED
      BY <2>1, <3>2, <3>3, <3>4, LimiterAssumption, Expired, Zenon
  <2> QED
    BY <2>2, <2>3
<1> QED
  BY <1>3, <1>4, Zenon

LEMMA EndOf ==
  ASSUME NEW S, NEW s \in Seq(S), NEW e \in S
  PROVE  /\ Append(s, e) \in Seq(S) /\ Len(Append(s, e)) = Len(s) + 1
         /\ Append(s, e)[Len(s) + 1] = e
         /\ \A i \in 1..Len(s) : Append(s, e)[i] = s[i]
  OBVIOUS

\* The caller and the clock in a step under the lock.
LEMMA LimiterCaller ==
  ASSUME LimiterInv, NEW c \in Callers, NEW p \in {"idle", "until"},
         NEW t \in 0..(MaxTime + span), Limiter!Goto(c, p, t), UNCHANGED time, p = "idle" => t = 0
  PROVE  /\ place' \in [Callers -> {"idle", "lock", "until", "sleep", "again"}]
         /\ seen' \in [Callers -> 0..(MaxTime + span)]
         /\ \A d \in Callers : place'[d] \in {"idle", "lock", "again"} => seen'[d] <= time'
         /\ Fresh'
<1>1. /\ time \in 0..MaxTime /\ place \in [Callers -> {"idle", "lock", "until", "sleep", "again"}]
      /\ seen \in [Callers -> 0..(MaxTime + span)]
  BY Zenon DEF LimiterInv, LimiterShape, Limiter!TypeOK
<1>2. /\ place' \in [Callers -> {"idle", "lock", "until", "sleep", "again"}]
      /\ seen' \in [Callers -> 0..(MaxTime + span)]
      /\ place'[c] = p /\ seen'[c] = t
      /\ \A d \in Callers \ {c} : place'[d] = place[d] /\ seen'[d] = seen[d]
  BY <1>1, Zenon DEF Limiter!Goto
<1>3. 0 <= time
  BY <1>1, LimiterAssumption
<1>4. \A d \in Callers : place'[d] \in {"idle", "lock", "again"} => seen'[d] <= time'
  BY <1>2, <1>3, Zenon DEF LimiterInv, LimiterShape
<1>5. Fresh'
  BY <1>2, Zenon DEF LimiterInv, Fresh
<1> QED
  BY <1>2, <1>4, <1>5, Zenon

\* A request is let through: the one max before it is no longer among times.
LEMMA LimiterLetsThrough ==
  ASSUME LimiterInv, NEW c \in Callers, place[c] = "lock", UNCHANGED time,
         NEW kept \in Limiter!Kept(seen[c]), Limiter!Start(c, kept)
  PROVE  LimiterInv'
<1>1. PICK n \in 0..Len(times) :
           /\ kept \in Seq(0..MaxTime) /\ Len(kept) = Len(times) - n
           /\ \A m \in 1..Len(kept) : kept[m] = times[n + m]
           /\ \A i \in 1..(gone + n) : starts[i] + span - MaxStall < time
  BY LimiterKept, Zenon
<1>2. /\ Len(kept) < max /\ times' = Append(kept, seen[c]) /\ starts' = Append(starts, time)
      /\ Limiter!Goto(c, "idle", 0)
  BY Zenon DEF Limiter!Start, Limiter!Free
<1>3. /\ Len(times) \in Nat /\ Len(starts) \in Nat /\ gone \in Nat
      /\ gone + Len(times) = Len(starts) /\ time \in Nat /\ time <= MaxTime
  BY LimiterTyped, Zenon
<1>4. seen[c] \in Nat /\ seen[c] <= time /\ time <= seen[c] + MaxStall
  BY DEF LimiterInv, LimiterShape, Limiter!TypeOK, Fresh
<1>5. seen[c] \in 0..MaxTime /\ time \in 0..MaxTime /\ 0 \in 0..(MaxTime + span)
  BY ONLY <1>3, <1>4, LimiterAssumption
<1>6. /\ times' \in Seq(0..MaxTime) /\ Len(times') = Len(kept) + 1
      /\ times'[Len(kept) + 1] = seen[c]
      /\ \A i \in 1..Len(kept) : times'[i] = kept[i]
  <2>1. /\ Append(kept, seen[c]) \in Seq(0..MaxTime)
        /\ Len(Append(kept, seen[c])) = Len(kept) + 1
        /\ Append(kept, seen[c])[Len(kept) + 1] = seen[c]
        /\ \A i \in 1..Len(kept) : Append(kept, seen[c])[i] = kept[i]
    <3>1. kept \in Seq(0..MaxTime) /\ seen[c] \in 0..MaxTime
      BY <1>1, <1>5, Zenon
    <3> QED
      BY ONLY <3>1, EndOf
  <2> QED
    BY ONLY <1>2, <2>1, Zenon
<1>7. /\ starts' \in Seq(0..MaxTime) /\ Len(starts') = Len(starts) + 1
      /\ starts'[Len(starts) + 1] = time
      /\ \A i \in 1..Len(starts) : starts'[i] = starts[i]
  <2>1. /\ Append(starts, time) \in Seq(0..MaxTime)
        /\ Len(Append(starts, time)) = Len(starts) + 1
        /\ Append(starts, time)[Len(starts) + 1] = time
        /\ \A i \in 1..Len(starts) : Append(starts, time)[i] = starts[i]
    <3>1. starts \in Seq(0..MaxTime) /\ time \in 0..MaxTime
      BY <1>5, Zenon DEF LimiterInv, LimiterShape, Limiter!TypeOK
    <3> QED
      BY ONLY <3>1, EndOf
  <2> QED
    BY ONLY <1>2, <2>1, Zenon
<1>8. /\ Len(kept) \in Nat /\ n \in Nat /\ n <= Len(times) /\ Len(times) = Len(kept) + n
      /\ Len(times') = Len(kept) + 1 /\ Len(starts') = Len(starts) + 1
  <2>1. Len(kept) = Len(times) - n /\ Len(times') = Len(kept) + 1 /\ Len(starts') = Len(starts) + 1
    BY <1>1, <1>6, <1>7, Zenon
  <2> QED
    BY ONLY <1>3, <2>1, n \in 0..Len(times)
<1>9. gone' = gone + n /\ gone + n = Len(starts) - Len(kept)
  <2>1. gone' = Len(starts') - Len(times')
    BY Zenon DEF gone
  <2> QED
    BY ONLY <1>3, <1>8, <2>1
<1>10. LimiterShape'
  <2>1. Len(times') <= max /\ gone' >= 0
    <3>1. Len(kept) < max
      BY <1>2, Zenon
    <3> QED
      BY ONLY <1>3, <1>8, <1>9, <3>1, LimiterAssumption
  <2>2. Limiter!TypeOK'
    BY <1>2, <1>5, <1>6, <1>7, <2>1, LimiterCaller, Zenon DEF Limiter!TypeOK
  <2> QED
    BY <1>2, <1>5, <2>1, <2>2, LimiterCaller, Zenon DEF LimiterShape
<1>11. Remembered'
  <2> SUFFICES ASSUME NEW m \in 1..Len(times') PROVE starts'[gone' + m] <= times'[m] + MaxStall
    BY Zenon DEF Remembered
  <2>1. CASE m = Len(kept) + 1
    <3>1. gone' + m = Len(starts) + 1
      BY ONLY <1>3, <1>8, <1>9, <2>1
    <3> QED
      BY <1>4, <1>6, <1>7, <2>1, <3>1, Zenon
  <2>2. CASE m # Len(kept) + 1
    <3>1. m \in 1..Len(kept) /\ n + m \in 1..Len(times)
          /\ gone' + m = gone + (n + m) /\ gone' + m \in 1..Len(starts)
      BY ONLY <1>3, <1>8, <1>9, <2>2, m \in 1..Len(times')
    <3>2. starts[gone + (n + m)] <= times[n + m] + MaxStall
      BY <3>1, Zenon DEF LimiterInv, Remembered
    <3> QED
      BY <1>1, <1>6, <1>7, <3>1, <3>2, Zenon
  <2> QED
    BY <2>1, <2>2
<1>12. Left'
  <2> SUFFICES ASSUME NEW i \in 1..(gone + n) PROVE starts'[i] + span - MaxStall < time
    BY <1>9, Zenon DEF Left
  <2>1. i \in 1..Len(starts)
    BY ONLY <1>3, <1>8, <1>9, i \in 1..(gone + n)
  <2> QED
    BY <1>1, <1>7, <2>1, Zenon
<1>13. RateBound'
  <2> SUFFICES ASSUME NEW i \in 1..Len(starts'), NEW j \in 1..Len(starts'), j >= i + max
               PROVE  starts'[j] - starts'[i] > span - MaxStall
    BY Zenon DEF RateBound, Limiter!RateBound
  <2>1. CASE j = Len(starts) + 1
    <3>1. i \in 1..(gone + n) /\ i \in 1..Len(starts)
      <4>1. Len(kept) < max
        BY <1>2, Zenon
      <4> QED
        BY ONLY <1>3, <1>8, <1>9, <2>1, <4>1, j >= i + max, i \in 1..Len(starts'),
                LimiterAssumption
    <3>2. starts[i] + span - MaxStall < time /\ starts'[i] = starts[i] /\ starts'[j] = time
      BY <1>1, <1>7, <2>1, <3>1, Zenon
    <3>3. starts[i] \in Nat
      BY <3>1, LimiterTyped, Zenon
    <3> QED
      BY ONLY <1>3, <3>2, <3>3, LimiterAssumption
  <2>2. CASE j # Len(starts) + 1
    <3>1. i \in 1..Len(starts) /\ j \in 1..Len(starts)
      BY ONLY <1>3, <1>8, <2>2, i \in 1..Len(starts'), j \in 1..Len(starts'), j >= i + max,
              LimiterAssumption
    <3>2. starts[j] - starts[i] > span - MaxStall
      BY <3>1, Zenon DEF LimiterInv, RateBound, Limiter!RateBound
    <3> QED
      BY <1>7, <3>1, <3>2, Zenon
  <2> QED
    BY <2>1, <2>2
<1> QED
  BY <1>2, <1>5, <1>10, <1>11, <1>12, <1>13, LimiterCaller, Zenon DEF LimiterInv

\* None is free: the caller is to wait until the oldest start has left.
LEMMA LimiterHoldsBack ==
  ASSUME LimiterInv, NEW c \in Callers, place[c] = "lock", UNCHANGED time,
         NEW kept \in Limiter!Kept(seen[c]), Limiter!Full(c, kept)
  PROVE  LimiterInv'
<1>1. PICK n \in 0..Len(times) :
           /\ kept \in Seq(0..MaxTime) /\ Len(kept) = Len(times) - n
           /\ \A m \in 1..Len(kept) : kept[m] = times[n + m]
           /\ \A i \in 1..(gone + n) : starts[i] + span - MaxStall < time
  BY LimiterKept, Zenon
<1>2. /\ ~(Len(kept) < max) /\ times' = kept /\ starts' = starts
      /\ Limiter!Goto(c, "until", kept[1] + span)
  BY Zenon DEF Limiter!Full, Limiter!Free
<1>3. /\ Len(times) \in Nat /\ Len(starts) \in Nat /\ gone \in Nat
      /\ gone + Len(times) = Len(starts) /\ Len(times) <= max
  BY LimiterTyped, Zenon
<1>4. Len(kept) \in Nat /\ n \in Nat /\ Len(times) = Len(kept) + n
  <2>1. Len(kept) = Len(times) - n
    BY <1>1, Zenon
  <2> QED
    BY ONLY <1>3, <2>1, n \in 0..Len(times)
<1>5. Len(kept) <= max /\ 1 \in 1..Len(kept)
  <2>1. ~(Len(kept) < max)
    BY <1>2, Zenon
  <2> QED
    BY ONLY <1>3, <1>4, <2>1, LimiterAssumption
<1>6. kept[1] + span \in 0..(MaxTime + span)
  <2>1. kept[1] \in 0..MaxTime
    BY <1>1, <1>5, EntryOf, Zenon
  <2> QED
    BY ONLY <2>1, LimiterAssumption
<1>7. gone' = gone + n
  <2>1. gone' = Len(starts) - Len(kept)
    BY <1>2, Zenon DEF gone
  <2> QED
    BY ONLY <1>3, <1>4, <2>1
<1>8. LimiterShape'
  <2>1. gone' >= 0
    BY ONLY <1>3, <1>4, <1>7
  <2>2. time' \in 0..MaxTime /\ starts' \in Seq(0..MaxTime)
    BY <1>2, Zenon DEF LimiterInv, LimiterShape, Limiter!TypeOK
  <2>3. Limiter!TypeOK'
    BY <1>1, <1>2, <1>5, <1>6, <2>2, LimiterCaller, Zenon DEF Limiter!TypeOK
  <2> QED
    BY <1>2, <1>6, <2>1, <2>3, LimiterCaller, Zenon DEF LimiterShape
<1>9. Remembered'
  <2> SUFFICES ASSUME NEW m \in 1..Len(kept) PROVE starts[gone' + m] <= kept[m] + MaxStall
    BY <1>2, Zenon DEF Remembered
  <2>1. n + m \in 1..Len(times) /\ gone' + m = gone + (n + m)
    BY ONLY <1>3, <1>4, <1>7, m \in 1..Len(kept)
  <2>2. starts[gone + (n + m)] <= times[n + m] + MaxStall
    BY <2>1, Zenon DEF LimiterInv, Remembered
  <2> QED
    BY <1>1, <2>1, <2>2, Zenon
<1>10. Left'
  BY <1>1, <1>2, <1>7, Zenon DEF Left
<1>11. RateBound'
  BY <1>2, Zenon DEF LimiterInv, RateBound, Limiter!RateBound
<1> QED
  BY <1>2, <1>6, <1>8, <1>9, <1>10, <1>11, LimiterCaller, Zenon DEF LimiterInv

\* The rest of a call.
LEMMA LimiterOutside ==
  ASSUME LimiterInv, NEW c \in Callers,
         Limiter!ReadClock(c) \/ Limiter!Until(c) \/ Limiter!Wake(c) \/ Limiter!Cancelled(c)
  PROVE  LimiterInv'
<1>1. /\ time \in 0..MaxTime /\ 0 \in 0..(MaxTime + span) /\ 0 <= time
      /\ time \in 0..(MaxTime + span) /\ time <= time
      /\ seen[c] \in 0..(MaxTime + span)
  BY LimiterAssumption DEF LimiterInv, LimiterShape, Limiter!TypeOK
<1>2. CASE Limiter!ReadClock(c)
  BY <1>1, <1>2, LimiterMoves, Zenon DEF Limiter!ReadClock
<1>3. CASE Limiter!Until(c)
  <2>1. /\ Limiter!Goto(c, "again", 0) \/ Limiter!Goto(c, "sleep", seen[c])
        /\ UNCHANGED <<time, times, starts>>
    BY <1>3, Zenon DEF Limiter!Until
  <2>2. CASE Limiter!Goto(c, "again", 0)
    BY <1>1, <2>1, <2>2, LimiterMoves, Zenon
  <2>3. CASE Limiter!Goto(c, "sleep", seen[c])
    BY <1>1, <2>1, <2>3, LimiterMoves, Zenon
  <2> QED
    BY <2>1, <2>2, <2>3
<1>4. CASE Limiter!Wake(c)
  BY <1>1, <1>4, LimiterMoves, Zenon DEF Limiter!Wake
<1>5. CASE Limiter!Cancelled(c)
  BY <1>1, <1>5, LimiterMoves, Zenon DEF Limiter!Cancelled
<1> QED
  BY <1>2, <1>3, <1>4, <1>5

LEMMA LimiterSame ==
  ASSUME LimiterInv, UNCHANGED Limiter!vars
  PROVE  LimiterInv'
  BY Zenon DEF LimiterInv, LimiterShape, Limiter!TypeOK, Remembered, Left, Fresh, RateBound, Limiter!RateBound, gone, Limiter!vars

\* slidingLimiter.wait remembers every start that may still count, up to the clock
\* a caller spends before the lock, although callers with an older time append
\* and drop entries out of order.
THEOREM LimiterInvariant == Limiter!Spec => []LimiterInv
<1>1. ASSUME LimiterInv, Limiter!Next PROVE LimiterInv'
  <2>1. CASE Limiter!Tick
    BY <1>1, <2>1, LimiterTick, Zenon
  <2>2. ASSUME NEW c \in Callers, Limiter!Lock(c) PROVE LimiterInv'
    BY <1>1, <2>2, LimiterLetsThrough, LimiterHoldsBack, Zenon DEF Limiter!Lock
  <2>3. ASSUME NEW c \in Callers, Limiter!ReadClock(c) \/ Limiter!Until(c) \/ Limiter!Wake(c) \/ Limiter!Cancelled(c)
        PROVE  LimiterInv'
    BY <1>1, <2>3, LimiterOutside, Zenon
  <2> QED
    BY <1>1, <2>1, <2>2, <2>3, Zenon DEF Limiter!Next
<1>2. LimiterInv /\ [Limiter!Next]_(Limiter!vars) => LimiterInv'
  BY <1>1, LimiterSame, Zenon
<1> QED
  BY LimiterStart, <1>2, PTL DEF Limiter!Spec

\* slidingLimiter.wait lets no more than max requests start in a span, less that
\* time, for any callers, limit and span.
THEOREM NoBurstPasses == Limiter!Spec => []RateBound
<1>1. LimiterInv => RateBound
  BY Zenon DEF LimiterInv
<1> QED
  BY <1>1, LimiterInvariant, PTL

\* TypeOK holds throughout: slidingLimiter.wait never holds more than max starts,
\* and never waits longer than a span for the first of them.
THEOREM LimiterTypeCorrect == Limiter!Spec => []Limiter!TypeOK
<1>1. LimiterInv => Limiter!TypeOK
  BY Zenon DEF LimiterInv, LimiterShape
<1> QED
  BY <1>1, LimiterInvariant, PTL
=============================================================================
