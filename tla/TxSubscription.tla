--------------------------- MODULE TxSubscription ---------------------------
(***************************************************************************)
(* SubscribeOnTransactions (ton/transactions.go): a worker polls an        *)
(* account, walks its chain of transactions back page by page to the last  *)
(* one it has processed, and sends what it found to the user, oldest       *)
(* first.  The account grows meanwhile, nodes answer with states of older  *)
(* blocks, with short pages and with errors.  When the channel is closed   *)
(* the user may subscribe again from the last transaction received.        *)
(*                                                                         *)
(* A transaction is its place in the chain, which is also its lt.          *)
(***************************************************************************)
EXTENDS AccountChain

VARIABLES
  length,           \* transactions of the account
  at,               \* where the worker is
  lastProcessedLT,
  lastLT,           \* where the next page ends
  transactions,     \* found, not yet sent; the code's list, newest first
  cancelled,        \* workerCtx is done
  received,         \* what the user has got from the channel
  start,            \* history: the lt the user started from
  cut               \* history: a node had no older transactions

worker == <<at, lastProcessedLT, lastLT, transactions>>
vars == <<length, worker, cancelled, received, start, cut>>

TypeOK ==
  /\ length \in 0..MaxLength /\ at \in {"poll", "list", "send", "closed"}
  /\ {lastProcessedLT, lastLT, start} \subseteq 0..MaxLength
  /\ transactions \subseteq 1..length
  /\ received \in Seq(1..MaxLength) /\ cancelled \in BOOLEAN /\ cut \in BOOLEAN

Init ==
  /\ length \in 0..MaxLength /\ start \in 0..length /\ lastProcessedLT = start
  /\ at = "poll" /\ lastLT = 0 /\ transactions = {}
  /\ cancelled = FALSE /\ received = <<>> /\ cut = FALSE

-----------------------------------------------------------------------------
Grow ==
  /\ length < MaxLength /\ length' = length + 1
  /\ UNCHANGED <<worker, cancelled, received, start, cut>>

Cancel ==
  /\ ~cancelled /\ cancelled' = TRUE
  /\ UNCHANGED <<length, worker, received, start, cut>>

\* Errors and a wait of three seconds leave the worker where it is.
Poll ==
  /\ at = "poll"
  /\ \E last \in 1..length :
       /\ last # lastProcessedLT
       /\ at' = "list" /\ lastLT' = last /\ transactions' = {}
  /\ UNCHANGED <<length, lastProcessedLT, cancelled, received, start, cut>>

\* Mutant: a list with nothing new is never done.
NeverBreaks(found) ==
  /\ transactions' = found
  /\ IF found = {} THEN UNCHANGED <<at, lastProcessedLT>>
     ELSE /\ at' = "send" /\ lastProcessedLT' \in found
          /\ \A lt \in found : lt <= lastProcessedLT'

\* The list is done: what was found is marked as processed and sent.
Process(found) ==
  /\ transactions' = found
  /\ IF found = {} THEN at' = "poll" /\ UNCHANGED lastProcessedLT
     ELSE /\ at' = "send" /\ lastProcessedLT' \in found
          /\ \A lt \in found : lt <= lastProcessedLT'

\* Mutant: a transaction with the last lt is found once more.
OldAgain(page) == {lt \in page : lt < lastProcessedLT}

Old(page) == {lt \in page : lt <= lastProcessedLT}

Page(n) == (lastLT - n + 1)..lastLT

List ==
  /\ at = "list"
  /\ \/ lastLT = 0 /\ Process(transactions) /\ UNCHANGED lastLT
     \/ \E n \in 1..PageSize :
          /\ n <= lastLT
          /\ IF Old(Page(n)) # {}
               THEN Process(transactions \cup (Page(n) \ Old(Page(n)))) /\ UNCHANGED lastLT
               ELSE /\ transactions' = transactions \cup Page(n)
                    /\ lastLT' = lastLT - n /\ UNCHANGED <<at, lastProcessedLT>>
  /\ UNCHANGED <<length, cancelled, received, start, cut>>

\* ErrNoTransactionsWereFound ends the list, if it has anything.
ListNothingOlder ==
  /\ at = "list" /\ lastLT > 0 /\ transactions # {} /\ Process(transactions) /\ cut' = TRUE
  /\ UNCHANGED <<length, lastLT, cancelled, received, start>>

\* Mutant: so does any other error.
RetryGivesUp ==
  /\ at = "list" /\ lastLT > 0 /\ Process(transactions)
  /\ UNCHANGED <<length, lastLT, cancelled, received, start, cut>>

\* Any other error is waited out.
Retry ==
  /\ at = "list" /\ lastLT > 0
  /\ UNCHANGED vars

\* An lt that is not in the node's database ends the subscription, and so does
\* the end of workerCtx, between two queries.
Close ==
  /\ \/ at = "list" /\ lastLT > 0
     \/ at \in {"poll", "list"} /\ cancelled
  /\ at' = "closed" /\ UNCHANGED <<length, lastProcessedLT, lastLT, transactions>>
  /\ UNCHANGED <<cancelled, received, start, cut>>

Send ==
  /\ at = "send"
  /\ \E lt \in transactions :
       /\ \A o \in transactions : lt <= o
       /\ received' = Append(received, lt) /\ transactions' = transactions \ {lt}
       /\ at' = IF transactions' = {} THEN "poll" ELSE "send"
  /\ UNCHANGED <<length, lastProcessedLT, lastLT, cancelled, start, cut>>

\* The user, with a new context, from where the last subscription got to.
Resubscribe ==
  /\ at = "closed" /\ at' = "poll" /\ cancelled' = FALSE /\ transactions' = {} /\ lastLT' = 0
  /\ lastProcessedLT' = IF received = <<>> THEN start ELSE received[Len(received)]
  /\ UNCHANGED <<length, received, start, cut>>

-----------------------------------------------------------------------------
Next ==
  \/ Grow \/ Cancel \/ Poll \/ List \/ ListNothingOlder \/ Retry \/ Close \/ Send
  \/ Resubscribe

Spec == Init /\ [][Next]_vars

\* Queries are answered now and then with a state that is new to the worker and
\* with the page asked for, and the user receives.
CloseCancelled == cancelled /\ Close
Fairness ==
  /\ SF_vars(Poll /\ lastLT' = length) /\ SF_vars(List) /\ WF_vars(Send)
  /\ WF_vars(CloseCancelled)
FairSpec == Spec /\ Fairness

-----------------------------------------------------------------------------
(* Properties                                                              *)

\* The user gets transactions in the order of the chain and none twice: neither
\* after a page that overlaps with what is known, nor after a state of an older
\* block, nor after a new subscription.
InOrder == \A i, j \in 1..Len(received) : i < j => received[i] < received[j]

\* None is left out either, unless a node has forgotten the older ones.
NoGap == cut \/ \A i \in 1..Len(received) : received[i] = start + i

\* Every transaction is received in the end, unless the subscription ends.
AllReceived ==
  \A lt \in 1..MaxLength :
    (lt > start /\ lt <= length) ~>
      (cut \/ at = "closed" \/ \E i \in 1..Len(received) : received[i] = lt)
=============================================================================
