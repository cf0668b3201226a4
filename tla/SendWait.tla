------------------------------ MODULE SendWait ------------------------------
(***************************************************************************)
(* Sending an external message and waiting for its transaction             *)
(* (ton/sendmessagewait.go).  The account is a chain of transactions that  *)
(* grows while the client polls it block by block, and scans it back page  *)
(* by page from the newest transaction it has seen to the newest it had    *)
(* seen before.  Messages get lost, and a query may fail at any moment and *)
(* is then repeated, which is a step that changes nothing.                 *)
(*                                                                         *)
(* A transaction is the place of its record in the chain: lt and hash are  *)
(* that number, and 0 stands for "no transaction before": lt 0 and a hash  *)
(* of zero bits.                                                           *)
(***************************************************************************)
EXTENDS AccountChain

VARIABLES
  chain,       \* for each transaction, whether it has our message
  foreign,     \* transactions of others so far
  inFlight,    \* the network knows our message
  accepted,    \* ... and has taken it (it is taken once)
  at,          \* where the call is
  acc,         \* LastTxLT of the account state seen before the scan
  accNew,      \* ... and of the one that started the scan
  lastLt,      \* where the next page ends
  found,       \* the transaction returned
  since        \* history: transactions before the message was sent

account == <<chain, foreign, accepted>>
vars == <<account, inFlight, at, acc, accNew, lastLt, found, since>>

Lts == 0..Len(chain)

TypeOK ==
  /\ chain \in Seq(BOOLEAN) /\ foreign \in 0..MaxForeign
  /\ inFlight \in BOOLEAN /\ accepted \in BOOLEAN
  /\ at \in {"start", "send", "poll", "scan", "found", "error", "notConfirmed"}
  /\ {acc, accNew, lastLt, found, since} \subseteq Lts

Init ==
  /\ chain \in Histories /\ foreign = 0 /\ inFlight = FALSE /\ accepted = FALSE
  /\ at = "start" /\ acc = 0 /\ accNew = 0 /\ lastLt = 0 /\ found = 0 /\ since = 0

-----------------------------------------------------------------------------
(* The network                                                             *)

Foreign ==
  /\ foreign < MaxForeign /\ foreign' = foreign + 1
  /\ chain' = Append(chain, FALSE)
  /\ UNCHANGED <<inFlight, accepted, at, acc, accNew, lastLt, found, since>>

Accept ==
  /\ inFlight /\ ~accepted /\ accepted' = TRUE
  /\ chain' = Append(chain, TRUE)
  /\ UNCHANGED <<foreign, inFlight, at, acc, accNew, lastLt, found, since>>

Lose ==
  /\ inFlight /\ inFlight' = FALSE
  /\ UNCHANGED <<account, at, acc, accNew, lastLt, found, since>>

-----------------------------------------------------------------------------
(* The call                                                                *)

\* sendExternalMessageWaitTransaction reads the account in a block that may be
\* a second old.
ReadAccount ==
  /\ at = "start"
  /\ \/ at' = "send" /\ acc' \in {n \in Lts : n + MaxLag >= Len(chain)}
     \/ at' = "error" /\ UNCHANGED acc
  /\ UNCHANGED <<account, inFlight, accNew, lastLt, found, since>>

Send ==
  /\ at = "send" /\ since' = Len(chain)
  /\ \/ at' = "poll" /\ inFlight' = TRUE
     \/ at' = "error" /\ UNCHANGED inFlight
  /\ UNCHANGED <<account, acc, accNew, lastLt, found>>

\* Mutant: a message that was lost is not sent again.
NoResend == UNCHANGED inFlight

Resend == inFlight' \in {TRUE, inFlight}

\* waitConfirmation reads the account in a later block.
Poll ==
  /\ at = "poll"
  /\ \E n \in acc..Len(chain) :
       \/ n = acc /\ Resend /\ UNCHANGED <<at, accNew, lastLt>>
       \/ n # acc /\ at' = "scan" /\ accNew' = n /\ lastLt' = n /\ UNCHANGED inFlight
  /\ UNCHANGED <<account, acc, found, since>>

\* The hash of the previous transaction, as the transaction has it and as the
\* account state has it: an account that does not exist has a nil hash.
PrevTxHash(lt) == lt - 1
LastTxHash(lt) == IF lt = 0 THEN -1 ELSE lt

\* Mutant: one page is enough.
SawAny(page) == TRUE

SawLastTx(page) == \E lt \in page : lt - 1 = acc /\ PrevTxHash(lt) = LastTxHash(acc)

\* ListTransactions: a page ends at lastLt, and the node may answer with a short
\* one.  The next page ends before it.
Page(n) == (lastLt - n + 1)..lastLt
Before(n) == lastLt - n

Ours(page) == {lt \in page : chain[lt]}

\* A page is looked through from its oldest transaction on, all of it.  There is
\* no answer when nothing is left.
Scan ==
  /\ at = "scan"
  /\ \E n \in 1..PageSize :
       /\ n <= lastLt /\ lastLt' = Before(n)
       /\ IF Ours(Page(n)) # {}
            THEN /\ at' = "found" /\ UNCHANGED acc
                 /\ found' \in Ours(Page(n)) /\ \A lt \in Ours(Page(n)) : found' <= lt
            ELSE /\ IF SawLastTx(Page(n)) THEN at' = "poll" /\ acc' = accNew
                    ELSE UNCHANGED <<at, acc>>
                 /\ UNCHANGED found
  /\ UNCHANGED <<account, inFlight, accNew, since>>

Expire ==
  /\ at \in {"poll", "scan"} /\ at' = "notConfirmed"
  /\ UNCHANGED <<account, inFlight, acc, accNew, lastLt, found, since>>

-----------------------------------------------------------------------------
Next ==
  \/ Foreign \/ Accept \/ Lose
  \/ ReadAccount \/ Send \/ Poll \/ Scan \/ Expire

Spec == Init /\ [][Next]_vars

\* Queries are answered and sends succeed now and then, a message that is sent
\* over and over is taken at last.
Answered ==
  /\ WF_vars(ReadAccount) /\ WF_vars(Send) /\ SF_vars(Accept)
  /\ SF_vars(Poll /\ inFlight' /\ at' = "poll") /\ SF_vars(Poll /\ at' = "scan")
  /\ WF_vars(Scan)
LiveSpec == Spec /\ Answered

-----------------------------------------------------------------------------
(* Properties                                                              *)

\* Between scans, no transaction since the message was sent that has it has
\* been passed over, however many transactions of others came with it and
\* however short the pages were.
NothingPassedOver ==
  at = "poll" => \A lt \in (since + 1)..acc : ~chain[lt]

\* A message that is lost, and lost again, is confirmed in the end, unless the
\* context expires first (waitConfirmation sends it again).
Confirmed == <>(at \in {"found", "error", "notConfirmed"})

\* "... we should not lose our scan offset, to prevent this we will scan till
\* we reach last seen offset": a scan that goes on has not yet reached it.
ScanEndsAtOffset == at = "scan" => lastLt > acc
=============================================================================
