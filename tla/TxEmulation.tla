---------------------------- MODULE TxEmulation -----------------------------
(* The transaction executor (tvm/transaction_emulation.go and the phases it    *)
(* calls): what happens to the money and to the state of one account while     *)
(* messages and tick-tocks arrive.  A transaction is a sequence of phases,     *)
(* storage and credit, compute, actions, bounce, commit; the virtual machine   *)
(* is any outcome its limits allow, and the list of actions it leaves is       *)
(* chosen one action at a time.                                                *)
(*                                                                             *)
(* An amount is a record: g, the nanograms, and x, one extra currency.         *)
EXTENDS TxFees

CONSTANTS
  Configs,      \* global version, special account or not, black hole account or not
  Messages,     \* inbound messages and tick-tocks
  Sends,        \* send actions a contract may ask for
  Reserves,     \* reserve actions
  StorageFees,  \* fees of a storage period
  FreezeDue, DeleteDue,
  MaxTotalCells,\* sizeLimits.maxTotalMsgCells
  BounceCells,  \* size of a bounced message
  MaxActions,   \* bound: actions of one list
  MaxBalance, MaxExtra, MaxDue   \* bounds: the account's nanograms, extra currency and debt

ASSUME InputsTyped ==
  /\ \A c \in Configs : c.version \in Nat
  /\ \A m \in Messages :
       /\ m.kind = "int" => m.g \in Nat /\ m.x \in Nat /\ m.ihr \in Nat
       /\ m.kind = "ext" => m.cells \in Nat
  /\ \A a \in Sends : a.g \in Nat /\ a.x \in Nat /\ a.cells \in Nat /\ a.fwd \in Nat
                     /\ a.ihr \in Nat
  /\ \A a \in Reserves : a.g \in Nat /\ a.x \in Nat
  /\ StorageFees \subseteq Nat /\ BounceCells \in Nat /\ MaxActions \in Nat

VARIABLES
  env,     \* the configuration
  acc,     \* the committed account
  old,     \* the account the last transaction started from
  pc, err,
  msg,     \* the inbound message
  bal,     \* prepared.balance, later finalBalance
  mb,      \* prepared.msgBalance
  st, due, orig,  \* prepared.status ("nonexist" when deleted), duePayment, originalBalance
  paid,    \* StorageFeesCollected
  fees, burned,
  gas,     \* gasFees
  rem, res, mbr,   \* remainingBalance, reservedBalance, msgBalanceRemaining
  sent,    \* what left with outbound messages, their unpaid fees included
  actionFees, fine, failFine,
  del,     \* deleteAccount
  cells,   \* totalUsage
  left,    \* bound: actions still to come
  changed, \* parts of the state that differ from the account's
  ok,      \* the action phase succeeded
  bounce,  \* the message is to be returned: no compute phase, a failed one, actionBounce
  bounced  \* the bounce phase sent a message

prepVars == <<mb, st, due, orig, paid, burned>>
actVars == <<rem, res, mbr, sent, actionFees, fine, failFine, del, cells, left, changed>>
endVars == <<ok, bounce, bounced>>
vars == <<env, acc, old, pc, err, msg, bal, fees, gas, prepVars, actVars, endVars>>

Zero == [g |-> 0, x |-> 0]
Plus(a, b) == [g |-> a.g + b.g, x |-> a.x + b.x]
Minus(a, b) == [g |-> a.g - b.g, x |-> a.x - b.x]
Covers(a, b) == a.g >= b.g /\ a.x >= b.x
Grams(n) == [g |-> n, x |-> 0]

Since(v) == env.version >= v

\* The value of an internal message; its IHR fee belongs to it before version 12.
Value(m) ==
  IF m.kind = "int"
  THEN [g |-> m.g + IF Since(12) THEN 0 ELSE m.ihr, x |-> m.x]
  ELSE Zero

Init ==
  /\ env \in Configs
  /\ acc = [status |-> "nonexist", bal |-> Zero, due |-> 0]
  /\ old = acc
  /\ pc = "idle" /\ err = "none"
  /\ msg = [kind |-> "none"]
  /\ bal = Zero /\ mb = Zero /\ st = "nonexist" /\ due = 0
  /\ orig = Zero /\ paid = 0 /\ fees = 0 /\ burned = 0 /\ gas = 0
  /\ rem = Zero /\ res = Zero /\ mbr = Zero /\ sent = Zero
  /\ actionFees = 0 /\ fine = 0 /\ failFine = 0 /\ del = FALSE
  /\ cells = 0 /\ left = 0 /\ changed = {}
  /\ ok = FALSE /\ bounce = FALSE /\ bounced = FALSE

-----------------------------------------------------------------------------
(* Storage and credit.                                                        *)

\* applyStoragePhase on a balance b and a status s, the fee includes the debt.
Storage(b, s, fee) ==
  LET debt == fee - b.g
      deletes == s # "active" /\ debt > DeleteDue /\ b.x = 0
      freezes == s = "active" /\ debt > FreezeDue
  IN IF fee <= b.g
     THEN [bal |-> Minus(b, Grams(fee)), paid |-> fee, st |-> s,
           due |-> IF fee > 0 /\ Since(7) THEN 0 ELSE acc.due]
     ELSE [bal |-> [b EXCEPT !.g = 0], paid |-> b.g,
           st |-> IF env.special THEN s
                  ELSE IF deletes THEN "nonexist" ELSE IF freezes THEN "frozen" ELSE s,
           due |-> IF ~env.special /\ Since(4) THEN debt ELSE acc.due]

\* transactionComputeStorageFee: the debt and, unless special, the period.
StorageFee(period) == acc.due + IF env.special THEN 0 ELSE period

\* What Begin leaves of a transaction that is about to run.
Prepare(m, r, b, value, import, burn) ==
  /\ msg' = m /\ old' = acc
  /\ bal' = b /\ mb' = value /\ st' = r.st /\ due' = r.due
  /\ paid' = r.paid /\ fees' = r.paid + import /\ burned' = burn
  /\ orig' = Minus(acc.bal, Grams(import + r.paid))
  /\ gas' = 0 /\ fine' = 0 /\ mbr' = value /\ sent' = Zero /\ del' = FALSE
  /\ changed' = {} /\ ok' = FALSE /\ bounce' = FALSE /\ bounced' = FALSE
  /\ rem' = Zero /\ res' = Zero /\ actionFees' = 0 /\ failFine' = 0
  /\ cells' = 0 /\ left' = 0
  /\ pc' = "compute" /\ err' = "none"
  /\ UNCHANGED <<env, acc>>

InitialStatus == IF acc.status = "nonexist" THEN "uninit" ELSE acc.status

Idle == pc \in {"idle", "done", "error"}
Bounded(period, value) ==
  /\ acc.bal.g + value.g <= MaxBalance
  /\ acc.bal.x + value.x <= MaxExtra
  /\ StorageFee(period) <= MaxDue

\* An internal message: a bounceable one is credited after the storage fee is
\* paid, another one before.
BeginInternal ==
  /\ Idle
  /\ \E m \in Messages, period \in StorageFees :
       LET burn == IF env.blackhole THEN Value(m).g ELSE 0
           value == [Value(m) EXCEPT !.g = @ - burn]
           first == Storage(Plus(acc.bal, value), InitialStatus, StorageFee(period))
           after == Storage(acc.bal, InitialStatus, StorageFee(period))
       IN /\ m.kind = "int"
          /\ Bounded(period, value)
          /\ IF m.bounce
             THEN Prepare(m, after, Plus(after.bal, value), value, 0, burn)
             ELSE Prepare(m, first, first.bal,
                          [value EXCEPT !.g = Least(@, first.bal.g)], 0, burn)

\* An external message pays for its import first.
BeginExternal ==
  /\ Idle
  /\ \E m \in Messages, period \in StorageFees :
       LET import == IF env.special THEN 0 ELSE ComputeForwardFee(m.cells)
           r == Storage(Minus(acc.bal, Grams(import)), InitialStatus, StorageFee(period))
       IN /\ m.kind = "ext"
          /\ Bounded(period, Zero)
          /\ acc.bal.g >= import
          /\ Prepare(m, r, r.bal, Zero, import, 0)

\* EmulateTickTockTransaction.
BeginTickTock ==
  /\ Idle
  /\ acc.status # "nonexist"
  /\ \E m \in Messages, period \in StorageFees :
       LET r == Storage(acc.bal, acc.status, StorageFee(period))
       IN /\ m.kind = "tick"
          /\ Bounded(period, Zero)
          /\ Prepare(m, r, r.bal, Zero, 0, 0)

-----------------------------------------------------------------------------
(* Compute.                                                                   *)

\* transactionMessageGas and transactionTickTockGas.
GasMax == IF env.special THEN SpecialGasLimit ELSE GasBoughtFor(bal.g)
GasLimited ==
  CASE msg.kind = "tick" \/ (env.special /\ Since(5)) -> GasMax
    [] msg.kind = "ext" /\ ~env.special -> 0
    [] OTHER -> Least(GasBoughtFor(mb.g), GasMax)
GasCredited == IF msg.kind = "ext" THEN Least(GasCredit, GasMax) ELSE 0

\* transactionPrepareComputeAccount: the state the code runs on is the account's
\* or the one the message carries.
StateOfAccount == st = "active" /\ ~(msg.kind = "ext" /\ msg.init = "bad")
StateOfMessage ==
  /\ st \notin {"active", "nonexist"} /\ msg.kind # "tick"
  /\ msg.init = "good"
  /\ st = "frozen" => acc.status = "frozen"
Runs == bal.g > 0 /\ GasLimited + GasCredited > 0 /\ (StateOfAccount \/ StateOfMessage)

\* No transaction: the external message is not accepted.  Code that runs without
\* credit has accepted it.
Drop ==
  /\ pc = "compute"
  /\ msg.kind = "ext"
  /\ ~Runs \/ GasCredited > 0
  /\ pc' = "idle"
  /\ UNCHANGED <<env, acc, old, err, msg, bal, fees, gas, prepVars, actVars, endVars>>

ComputeSkipped ==
  /\ pc = "compute"
  /\ ~Runs /\ msg.kind # "ext"
  /\ bounce' = TRUE
  /\ pc' = "bounce"
  /\ UNCHANGED <<env, acc, old, err, msg, bal, fees, gas, prepVars, actVars, ok, bounced>>

\* The code ran and the message is accepted.  A state taken from the message is
\* the account's from here on, whatever the phases to come say.
Computed(fee) ==
  /\ pc = "compute"
  /\ Runs
  /\ gas' = fee
  /\ fees' = fees + fee
  /\ bal' = Minus(bal, Grams(fee))
  /\ st' = IF StateOfMessage THEN "active" ELSE st
  /\ UNCHANGED <<env, acc, old, msg, mb, due, orig, paid, burned>>

GasFees(used) == IF env.special THEN 0 ELSE ComputeGasPrice(used)

ComputeFails ==
  /\ \E used \in 0..GasMax : Computed(GasFees(used))
  /\ pc' = IF bal'.g < 0 THEN "error" ELSE "bounce"
  /\ err' = IF bal'.g < 0 THEN "fees" ELSE "none"
  /\ bounce' = TRUE
  /\ UNCHANGED <<actVars, ok, bounced>>

\* The actions start from the balance after gas.  transactionApplyActions: the
\* base of a reserve is what the account had before the message since version 9.
ComputeSucceeds ==
  /\ \E used \in 0..GasMax : Computed(GasFees(used))
  /\ pc' = IF bal'.g < 0 THEN "error" ELSE "actions"
  /\ err' = IF bal'.g < 0 THEN "fees" ELSE "none"
  /\ rem' = bal' /\ res' = Zero /\ left' = MaxActions
  /\ UNCHANGED <<mbr, sent, actionFees, fine, failFine, del, cells, changed, endVars>>

-----------------------------------------------------------------------------
(* Actions.  The mode of an action is the set of its flags.                   *)

\* failAction and the state limits: the money is as it was after the gas, less
\* the fines.  Only a library that was installed may stay.
FailActions(fined, failFined, bounceOnFail, limits) ==
  LET total == IF Since(15) THEN Least(fined + failFined, bal.g) ELSE fined
  IN /\ fine' = total
     /\ fees' = fees + total
     /\ bal' = [bal EXCEPT !.g = Greatest(0, @ - total)]
     /\ mbr' = IF Since(14) THEN mb ELSE mbr
     /\ sent' = Zero /\ rem' = Zero /\ res' = Zero /\ actionFees' = 0 /\ failFine' = 0
     /\ del' = FALSE /\ cells' = 0 /\ left' = 0
     /\ changed' = IF limits THEN {} ELSE changed \cap {"libs"}
     /\ ok' = FALSE
     /\ bounce' = (bounceOnFail \/ limits)
     /\ pc' = "bounce"
     /\ UNCHANGED <<env, acc, old, err, msg, gas, prepVars, bounced>>

\* transactionLoadActions: a malformed list fails before its first action.
LoadFails ==
  /\ pc = "actions" /\ left = MaxActions
  /\ \E b \in {FALSE, Since(8)} : bounce' = b
  /\ pc' = "bounce"
  /\ rem' = Zero /\ left' = 0
  /\ UNCHANGED <<env, acc, old, err, msg, bal, fees, gas, prepVars, res, mbr, sent,
                 actionFees, fine, failFine, del, cells, changed, ok, bounced>>

\* transactionSendActionFineFunds: what can pay for a message and for a fine.
ValueFunds(a) == a.g + IF "carry" \in a.mode THEN mbr.g - gas - fine ELSE 0
FineFunds(a) ==
  IF a.mode \cap {"all", "payfees"} # {} THEN rem.g ELSE Least(ValueFunds(a), rem.g)
NoFineFunds(a) == a.mode \cap {"all", "payfees"} = {} /\ ValueFunds(a) < 0
Fined == Since(4) /\ ~env.special
FineOf(a) ==
  IF Fined THEN ActionFine(a.cells, IF NoFineFunds(a) THEN 0 ELSE FineFunds(a)) ELSE 0

\* The fees of an internal message: a suggestion counts before version 8, instant
\* routing is gone since version 11.
FwdFee(a) ==
  SelectMessageFee(IF env.special THEN 0 ELSE ComputeForwardFee(a.cells),
                   IF Since(8) THEN 0 ELSE a.fwd)
IHRFee(a) ==
  IF Since(11) \/ a.noihr THEN 0
  ELSE SelectMessageFee(IF env.special THEN 0 ELSE ComputeIHRFee(ComputeForwardFee(a.cells)),
                        IF Since(8) THEN 0 ELSE a.ihr)

\* What a send asks for, and what it takes off the balance.
Asked(a) ==
  IF "all" \in a.mode
  THEN IF Since(10) THEN [g |-> rem.g, x |-> a.x] ELSE rem
  ELSE [g |-> a.g + IF "carry" \in a.mode
                    THEN mbr.g - IF "payfees" \in a.mode THEN 0 ELSE gas + fine
                    ELSE 0,
        x |-> a.x + IF "carry" \in a.mode /\ ~Since(10) THEN mbr.x ELSE 0]
PaysFees(a) == "payfees" \in a.mode /\ "all" \notin a.mode
Debit(a) ==
  Plus(Asked(a), Grams(IF PaysFees(a) THEN FwdFee(a) + IHRFee(a) ELSE 0))

\* transactionPrepareInternalSendAction: the checks that cost no fine, the ones
\* that do, and the ones a message passes.
InternalShort(a) ==
  \/ Fined /\ NoFineFunds(a)
  \/ a.cells <= MaxMsgCells /\ Asked(a).g < 0
InternalFined(a) ==
  \/ a.cells > MaxMsgCells
  \/ Fined /\ LimitedByFunds(FineFunds(a)) /\ a.cells > FineCells(FineFunds(a))
  \/ ~PaysFees(a) /\ Asked(a).g < FwdFee(a) + IHRFee(a)
  \/ ~Covers(rem, Debit(a))
  \/ a.flaw = "nofit"

\* The case of an external message.
ExternalFee(a) == IF env.special THEN 0 ELSE ComputeForwardFee(a.cells)
ExternalFined(a) ==
  \/ a.cells > (IF Fined THEN FineCells(rem.g) ELSE MaxMsgCells)
  \/ rem.g < ExternalFee(a)
  \/ a.flaw = "nofit"
ExternalFine(a) == IF Fined THEN ActionFine(a.cells, rem.g) ELSE 0

\* transactionProcessSendAction: flaws of the message itself (at most one), and
\* the version from which the flag "ignore" forgives them.
FlawForgivenSince ==
  [value |-> 1000, relaxed |-> 8, libs |-> 13, flags |-> 0, source |-> 13, dest |-> 0]
BadMode(a) ==
  {"carry", "all"} \subseteq a.mode \/ ("bounce" \in a.mode /\ ~Since(4))
BadExternalMode(a) == a.ext /\ a.mode \cap {"carry", "all", "delete"} # {}
BadMessage(a) ==
  a.flaw \in DOMAIN FlawForgivenSince /\ (a.flaw = "flags" => Since(12))
Flawed(a) == BadMode(a) \/ BadExternalMode(a) \/ BadMessage(a)
Forgiven(a) ==
  /\ "ignore" \in a.mode
  /\ BadMode(a) => Since(13)
  /\ BadExternalMode(a) => BadMode(a)
  /\ BadMessage(a) => Since(FlawForgivenSince[a.flaw])
Overflows(a) == Since(15) /\ cells + a.cells > MaxTotalCells

\* What becomes of a send: refused or not, with a fine, and the fine it will
\* cost if a later action fails.
Outcome(a) ==
  IF Flawed(a) THEN [refused |-> TRUE, fine |-> 0]
  ELSE IF a.ext
  THEN [refused |-> ExternalFined(a) \/ Overflows(a),
        fine |-> IF ExternalFined(a) \/ Overflows(a) THEN ExternalFine(a) ELSE 0]
  ELSE [refused |-> InternalShort(a) \/ InternalFined(a) \/ Overflows(a),
        fine |-> IF ~InternalShort(a) /\ (InternalFined(a) \/ Overflows(a)) THEN FineOf(a) ELSE 0]
LaterFine(a) == IF ~Since(15) THEN 0 ELSE IF a.ext THEN ExternalFine(a) ELSE FineOf(a)
FineTaken(a) == Least(Outcome(a).fine, rem.g)

\* A refused send with the flag "ignore" is skipped, its fine is due.
SendSkipped ==
  /\ pc = "actions" /\ left > 0
  /\ \E a \in Sends :
       /\ Outcome(a).refused /\ Forgiven(a)
       /\ rem' = Minus(rem, Grams(FineTaken(a)))
       /\ fine' = fine + FineTaken(a)
       /\ actionFees' = actionFees + FineTaken(a)
  /\ left' = left - 1
  /\ UNCHANGED <<env, acc, old, pc, err, msg, bal, fees, gas, prepVars, res, mbr, sent,
                 failFine, del, cells, changed, endVars>>

SendFails ==
  /\ pc = "actions" /\ left > 0
  /\ \E a \in Sends, limits \in BOOLEAN :
       /\ Outcome(a).refused /\ ~Forgiven(a)
       /\ FailActions(fine + FineTaken(a), failFine, "bounce" \in a.mode /\ Since(4), limits)

\* What "delete" wants to be empty: extra currencies count before version 10.
Drained(b) == b.g = 0 /\ (Since(10) \/ b.x = 0)

\* An external message only pays its fee, an internal one takes the debit with
\* it but for the part of the fee collected here.
SendDone ==
  /\ pc = "actions" /\ left > 0
  /\ \E a \in Sends :
       LET debit == IF a.ext THEN Grams(ExternalFee(a)) ELSE Debit(a)
           collected == IF a.ext THEN ExternalFee(a) ELSE FirstPartForwardFee(FwdFee(a))
           rest == Minus(rem, debit)
           empties == ~a.ext /\ {"all", "delete"} \subseteq a.mode
       IN /\ ~Outcome(a).refused
          /\ Covers(rem, debit)
          /\ rem' = rest
          /\ sent' = Plus(sent, Minus(debit, Grams(collected)))
          /\ actionFees' = actionFees + collected
          /\ failFine' = failFine + LaterFine(a)
          /\ cells' = IF Since(15) THEN cells + a.cells ELSE 0
          /\ mbr' = IF ~a.ext /\ a.mode \cap {"all", "carry"} # {}
                    THEN [g |-> 0, x |-> IF Since(10) THEN mbr.x ELSE 0]
                    ELSE mbr
          /\ IF empties /\ ~Drained(rest)
             THEN pc' = "error" /\ err' = "fatal" /\ UNCHANGED del
             ELSE /\ del' = IF empties THEN Drained(res) ELSE del
                  /\ UNCHANGED <<pc, err>>
  /\ left' = left - 1
  /\ UNCHANGED <<env, acc, old, msg, bal, fees, gas, prepVars, res, fine, changed, endVars>>

\* transactionProcessReserveAction.  The base is the balance before the message,
\* or before the transaction in old versions.
OriginalBalance ==
  LET before == Plus(bal, Grams(gas))
  IN IF ~Since(9) THEN orig
     ELSE IF Covers(before, mb) THEN Minus(before, mb) ELSE bal
ReserveAsked(a) ==
  LET base == IF Since(10) THEN Grams(OriginalBalance.g) ELSE OriginalBalance
      want == [g |-> a.g, x |-> a.x]
  IN IF "orig" \notin a.mode THEN want
     ELSE IF "minus" \in a.mode THEN Minus(base, want) ELSE Plus(base, want)
Clamped(a) ==
  LET want == ReserveAsked(a)
  IN IF "cap" \notin a.mode THEN want
     ELSE [g |-> Least(want.g, rem.g), x |-> IF Since(9) THEN Least(want.x, rem.x) ELSE want.x]
ReserveRefused(a) ==
  \/ "bounce" \in a.mode /\ ~Since(4)
  \/ Since(10) /\ a.x > 0
  \/ "orig" \in a.mode /\ OriginalBalance.g < 0
  \/ "minus" \in a.mode /\ "orig" \notin a.mode
  \/ ReserveAsked(a).g < 0 \/ ReserveAsked(a).x < 0
  \/ ~Covers(rem, Clamped(a))

ReserveDone ==
  /\ pc = "actions" /\ left > 0
  /\ \E a \in Reserves :
       LET keep == Clamped(a)
           rest == Minus(rem, keep)
           swaps == "allbut" \in a.mode
       IN /\ ~ReserveRefused(a)
          /\ rem' = IF ~swaps THEN rest
                    ELSE IF Since(10) THEN [g |-> keep.g, x |-> rest.x] ELSE keep
          /\ res' = Plus(res, IF ~swaps THEN keep
                              ELSE IF Since(10) THEN [g |-> rest.g, x |-> keep.x] ELSE rest)
  /\ left' = left - 1
  /\ UNCHANGED <<env, acc, old, pc, err, msg, bal, fees, gas, prepVars, mbr, sent,
                 actionFees, fine, failFine, del, cells, changed, endVars>>

ReserveFails ==
  /\ pc = "actions" /\ left > 0
  /\ \E a \in Reserves, limits \in BOOLEAN :
       /\ ReserveRefused(a)
       /\ FailActions(fine, failFine, "bounce" \in a.mode /\ Since(4), limits)

SetCode ==
  /\ pc = "actions" /\ left > 0
  /\ changed' = changed \cup {"code"}
  /\ left' = left - 1
  /\ UNCHANGED <<env, acc, old, pc, err, msg, bal, fees, gas, prepVars, rem, res, mbr, sent,
                 actionFees, fine, failFine, del, cells, endVars>>

\* transactionProcessChangeLibraryAction: since version 15 only special accounts.
LibraryDone ==
  /\ pc = "actions" /\ left > 0
  /\ Since(15) => env.special
  /\ changed' = changed \cup {"libs"}
  /\ left' = left - 1
  /\ UNCHANGED <<env, acc, old, pc, err, msg, bal, fees, gas, prepVars, rem, res, mbr, sent,
                 actionFees, fine, failFine, del, cells, endVars>>

LibraryFails ==
  /\ pc = "actions" /\ left > 0
  /\ \E b \in {FALSE, Since(4)}, limits \in BOOLEAN : FailActions(fine, failFine, b, limits)

\* A mutation: what is reserved is left behind.
ActionsDoneForgets ==
  /\ pc = "actions"
  /\ bal' = rem
  /\ fees' = fees + actionFees
  /\ changed' = changed \cup {"data"}
  /\ ok' = TRUE
  /\ pc' = "bounce"
  /\ rem' = Zero /\ res' = Zero /\ actionFees' = 0 /\ failFine' = 0 /\ cells' = 0 /\ left' = 0
  /\ UNCHANGED <<env, acc, old, err, msg, gas, prepVars, mbr, sent, fine, del, bounce, bounced>>

\* The end of the list: what is reserved returns to the balance.
ActionsDone ==
  /\ pc = "actions"
  /\ bal' = Plus(rem, res)
  /\ fees' = fees + actionFees
  /\ changed' = changed \cup {"data"}
  /\ ok' = TRUE
  /\ pc' = "bounce"
  /\ rem' = Zero /\ res' = Zero /\ actionFees' = 0 /\ failFine' = 0 /\ cells' = 0 /\ left' = 0
  /\ UNCHANGED <<env, acc, old, err, msg, gas, prepVars, mbr, sent, fine, del, bounce, bounced>>

\* The new state is too large.  Before version 10 the fines of the list are not
\* withheld, though the bounce phase still counts them.
StateTooLarge ==
  /\ pc = "actions"
  /\ IF Since(10)
     THEN FailActions(fine, failFine, TRUE, TRUE)
     ELSE /\ mbr' = mbr /\ sent' = Zero /\ rem' = Zero /\ res' = Zero
          /\ actionFees' = 0 /\ failFine' = 0 /\ del' = FALSE /\ cells' = 0 /\ left' = 0
          /\ changed' = {} /\ ok' = FALSE /\ bounce' = TRUE
          /\ pc' = "bounce"
          /\ UNCHANGED <<env, acc, old, err, msg, bal, fees, gas, prepVars, fine, bounced>>

-----------------------------------------------------------------------------
(* Bounce and commit.                                                         *)

\* transactionShouldBounce, and a sender to return to.
Bounces == msg.kind = "int" /\ msg.bounce /\ ~ok /\ bounce /\ msg.src # "none"

\* A mutation: the fine is withheld twice.
BounceBackShort == Minus(mbr, Grams(gas + fine + fine))

\* What is left of the message pays for its way back.
BounceBack == Minus(mbr, Grams(gas + fine))
BounceFee == ComputeForwardFee(BounceCells)
NoFunds == BounceBack.g < 0 \/ BounceBack.g < BounceFee

NoBounce ==
  /\ pc = "bounce"
  /\ Bounces => msg.src = "ok" /\ NoFunds
  /\ pc' = "commit"
  /\ UNCHANGED <<env, acc, old, err, msg, bal, fees, gas, prepVars, actVars, endVars>>

Bounce ==
  /\ pc = "bounce"
  /\ Bounces /\ msg.src = "ok" /\ ~NoFunds
  /\ bal' = Minus(bal, BounceBack)
  /\ fees' = fees + FirstPartForwardFee(BounceFee)
  /\ sent' = Minus(BounceBack, Grams(FirstPartForwardFee(BounceFee)))
  /\ bounced' = TRUE
  /\ pc' = IF Covers(bal, BounceBack) THEN "commit" ELSE "error"
  /\ err' = IF Covers(bal, BounceBack) THEN "none" ELSE "debit"
  /\ UNCHANGED <<env, acc, old, msg, gas, prepVars, rem, res, mbr, actionFees, fine,
                 failFine, del, cells, left, changed, ok, bounce>>

\* The transaction is refused: its sender is nowhere a message can go.
BounceNowhere ==
  /\ pc = "bounce"
  /\ Bounces /\ msg.src = "bad"
  /\ pc' = "error" /\ err' = "dest"
  /\ UNCHANGED <<env, acc, old, msg, bal, fees, gas, prepVars, actVars, endVars>>

\* transactionFinalizeAccountStatus: an account without anything does not exist.
FinalStatus ==
  LET empty == bal = Zero
  IN IF st = "nonexist" \/ (ok /\ del)
     THEN IF empty THEN "nonexist" ELSE "uninit"
     ELSE IF st = "uninit" /\ empty THEN "nonexist" ELSE st

\* buildTransactionAccountCell: an account that does not exist has no balance.
\* A frozen account whose state is the one its address was made of is uninit.
Commit ==
  /\ pc = "commit"
  /\ \E s \in {FinalStatus} \cup (IF FinalStatus = "frozen" THEN {"uninit"} ELSE {}) :
       acc' = [status |-> s, bal |-> IF s = "nonexist" THEN Zero ELSE bal, due |-> due]
  /\ pc' = "done"
  /\ UNCHANGED <<env, old, err, msg, bal, fees, gas, prepVars, actVars, endVars>>

Next ==
  \/ BeginInternal \/ BeginExternal \/ BeginTickTock
  \/ Drop \/ ComputeSkipped \/ ComputeFails \/ ComputeSucceeds
  \/ LoadFails \/ SendSkipped \/ SendFails \/ SendDone \/ ReserveDone \/ ReserveFails
  \/ SetCode \/ LibraryDone \/ LibraryFails \/ ActionsDone \/ StateTooLarge
  \/ NoBounce \/ Bounce \/ BounceNowhere \/ Commit

Spec == Init /\ [][Next]_vars

-----------------------------------------------------------------------------
(* Properties.                                                                *)

Money == [g : Int, x : Int]
Statuses == {"nonexist", "uninit", "active", "frozen"}

\* Types of the state; the balances of the committed account, of the running
\* transaction and of its reserves are never negative.
TypeOK ==
  /\ acc \in [status : Statuses, bal : [g : Nat, x : Nat], due : Nat]
  /\ err = "none" => {bal, rem, res} \subseteq [g : Nat, x : Nat]
  /\ st \in Statuses /\ {paid, fees, burned, gas, fine} \subseteq Nat

\* Nothing is created and nothing lost: what an account had and what the message
\* brought is what the account has, what was collected, what left with messages
\* and what the black hole account burned, in both currencies, whichever actions
\* ran, were skipped or rolled back.
Conserved ==
  pc = "done" =>
    Plus(old.bal, Value(msg)) = Plus(Plus(acc.bal, sent), Grams(fees + burned))

\* The errors that say the executor contradicts itself never occur: gas that the
\* account cannot pay, a bounce larger than the balance, a balance left behind by
\* a send of everything.
NoContradiction == err \notin {"fees", "debit", "fatal"}

\* A message that bounces costs its receiver nothing but rent: gas and fines come
\* out of the value that is returned.  Since version 14 it leaves the receiver
\* nothing either; before, what a rolled back "carry" had taken is not returned.
BounceIsFree ==
  LET kept == Minus(old.bal, Grams(paid))
  IN pc = "done" /\ bounced =>
       Covers(acc.bal, kept) /\ (Since(14) => acc.bal = kept)

\* A list of actions is all or nothing: if it fails, or never runs, no message but
\* the bounce leaves and neither code nor data change; and the bounce takes nothing
\* from the receiver and, since version 14, leaves it nothing (BounceIsFree).
AllOrNothing ==
  /\ pc = "done" /\ ~ok =>
       changed \subseteq {"libs"} /\ (~bounced => sent = Zero) /\ ~del
  /\ BounceIsFree

\* An account is only destroyed by its actions when it keeps no grams: a reserve
\* before or after the send that empties it saves it.
DestroyedEmpty == pc = "done" /\ ok /\ del => acc.bal.g = 0
=============================================================================
