--------------------------- MODULE TxPhaseProofs ----------------------------
(* The inductive invariant of TxEmulation, and the steps that prepare, compute  *)
(* and fail: storage and credit, the virtual machine, and a list of actions     *)
(* that is given up.                                                            *)
EXTENDS TxEmulation, TLAPS

Phases == {"idle", "compute", "actions", "bounce", "commit", "done", "error"}

\* Amounts are integers; the ones an account holds are not negative.
Typed ==
  /\ env \in Configs
  /\ acc \in [status : Statuses, bal : [g : Nat, x : Nat], due : Int]
  /\ old \in [status : Statuses, bal : [g : Nat, x : Nat], due : Int]
  /\ pc \in Phases
  /\ msg \in Messages \/ msg = [kind |-> "none"]
  /\ bal \in Money /\ mb \in [g : Nat, x : Nat] /\ orig \in Money /\ rem \in Money
  /\ res \in Money /\ mbr \in [g : Nat, x : Nat] /\ sent \in Money
  /\ st \in Statuses
  /\ due \in Int /\ paid \in Int /\ fees \in Int /\ burned \in Int /\ gas \in Int
  /\ actionFees \in Int /\ fine \in Int /\ failFine \in Int /\ cells \in Int /\ left \in Int

\* Where the money is, phase by phase.
Ledger ==
  LET all == Plus(old.bal, Value(msg))
  IN /\ pc \in {"compute", "actions"} => all = Plus(bal, Grams(fees + burned))
     /\ pc = "actions" => bal = Plus(Plus(rem, res), Plus(sent, Grams(actionFees)))
     /\ pc \in {"bounce", "commit"} => all = Plus(Plus(bal, sent), Grams(fees + burned))
     /\ pc = "done" => all = Plus(Plus(acc.bal, sent), Grams(fees + burned))
     /\ pc \in {"compute", "actions", "bounce", "commit"} => old = acc

\* Balances that are never negative, and fines that were really taken.
Solvent ==
  /\ pc \in {"compute", "actions", "bounce", "commit"} => bal.g >= 0 /\ bal.x >= 0
  /\ pc = "actions" => /\ rem.g >= 0 /\ rem.x >= 0 /\ res.g >= 0 /\ res.x >= 0
                       /\ sent.g + actionFees >= fine /\ sent.x >= 0
  /\ pc \in {"compute", "actions", "bounce"} => fine >= 0 /\ failFine >= 0

\* Before an action has run there is nothing to undo.
Fresh ==
  /\ pc = "compute" => sent = Zero /\ fine = 0 /\ failFine = 0 /\ mbr = mb /\ gas = 0
                       /\ actionFees = 0 /\ changed = {} /\ del = FALSE
  /\ pc \in {"compute", "actions", "bounce"} => bounced = FALSE
  /\ pc \in {"compute", "actions"} => ok = FALSE
  /\ pc = "actions" /\ left = MaxActions => /\ sent = Zero /\ changed = {} /\ del = FALSE
                                            /\ fine = 0
  /\ pc = "actions" => left <= MaxActions
  /\ pc \in {"actions", "bounce", "commit", "done"} => del = TRUE \/ del = FALSE
  /\ pc \in {"bounce", "commit", "done"} =>
       (ok = TRUE \/ ok = FALSE) /\ (bounced = TRUE \/ bounced = FALSE)
  /\ pc \in {"bounce", "commit", "done"} /\ ok = FALSE =>
       /\ changed \subseteq {"libs"} /\ del = FALSE
       /\ bounced = FALSE => sent = Zero

\* What is left of a bounceable message can always be returned, and returning it
\* leaves the account what it had, but for the rent.
Returnable ==
  LET back == msg.kind = "int" /\ msg.bounce
  IN /\ pc \in {"compute", "actions"} /\ back =>
          /\ Covers(bal, Minus(mb, Grams(gas)))
          /\ mb = Minus(Value(msg), Grams(burned))
          /\ Covers(mb, mbr)
          /\ fees = paid + gas
     /\ pc = "bounce" /\ back /\ ok = FALSE =>
          /\ Covers(bal, Minus(mbr, Grams(gas + fine)))
          /\ Covers(Minus(Value(msg), Grams(burned)), mbr)
          /\ fees <= paid + gas + fine
     /\ pc = "commit" /\ bounced = TRUE => Covers(bal, Minus(old.bal, Grams(paid)))
     /\ pc = "done" /\ bounced = TRUE => Covers(acc.bal, Minus(old.bal, Grams(paid)))

\* An account its actions are to destroy has no grams, nor will it get any.
Emptied ==
  /\ pc = "actions" /\ del = TRUE => rem.g = 0 /\ res.g = 0
  /\ pc \in {"bounce", "commit"} /\ ok = TRUE /\ del = TRUE => bal.g = 0
  /\ pc = "done" /\ ok = TRUE /\ del = TRUE => acc.bal.g = 0

LEMMA Products ==
  ASSUME NEW a \in Nat, NEW b \in Nat PROVE a * b \in Nat
  OBVIOUS

LEMMA Halves ==
  ASSUME NEW a \in Nat PROVE Rsh16(a) \in Nat /\ CeilShr16(a) \in Nat
  BY DEF Rsh16, CeilShr16

LEMMA Fees ==
  ASSUME NEW c \in Nat
  PROVE  /\ ComputeForwardFee(c) \in Nat
         /\ ComputeIHRFee(c) \in Nat
         /\ FirstPartForwardFee(c) \in Nat
<1>1. CellPrice * c \in Nat /\ IHRFactor * c \in Nat /\ FirstFrac * c \in Nat
  BY Products, PricesAreNatural
<1> QED
  BY <1>1, Halves, PricesAreNatural DEF ComputeForwardFee, ComputeIHRFee, FirstPartForwardFee

LEMMA Quotient ==
  ASSUME NEW a \in Nat, NEW b \in Nat, b > 0 PROVE a \div b \in Nat
  OBVIOUS

LEMMA Fine ==
  ASSUME NEW c \in Nat, NEW f \in Nat
  PROVE  ActionFine(c, f) \in Nat
<1>1. Rsh16(CellPrice) \in Nat
  BY Halves, PricesAreNatural
<1>2. FinePerCell \in Nat
  BY <1>1 DEF FinePerCell
<1>3. FinePerCell > 0 => f \div FinePerCell \in Nat
  BY <1>2, Quotient
<1>4. FineCells(f) \in Nat
  BY <1>3, PricesAreNatural DEF FineCells
<1>5. Least(c, FineCells(f)) \in Nat
  BY <1>4 DEF Least
<1> QED
  BY <1>2, <1>5, Products DEF ActionFine

LEMMA GasPriceTyped ==
  ASSUME NEW u \in Int PROVE ComputeGasPrice(u) \in Int
<1>1. GasPrice * (u - FlatGasLimit) \in Int
  BY PricesAreNatural
<1>2. CeilShr16(GasPrice * (u - FlatGasLimit)) \in Int
  BY <1>1 DEF CeilShr16
<1> QED
  BY <1>2, PricesAreNatural DEF ComputeGasPrice

LEMMA ValueTyped ==
  ASSUME NEW m \in Messages \cup {[kind |-> "none"]}
  PROVE  Value(m) \in [g : Nat, x : Nat]
  BY InputsTyped DEF Value, Since, Zero

LEMMA StorageSound ==
  ASSUME NEW b \in [g : Nat, x : Nat], NEW s \in Statuses, NEW f \in Int, acc.due \in Int
  PROVE  /\ Storage(b, s, f).bal \in [g : Nat, x : Nat]
         /\ Storage(b, s, f).paid \in Int
         /\ Storage(b, s, f).bal = Minus(b, Grams(Storage(b, s, f).paid))
         /\ Storage(b, s, f).st \in Statuses
         /\ Storage(b, s, f).due \in Int
<1>1. CASE f <= b.g
  BY <1>1 DEF Storage, Minus, Grams, Statuses
<1>2. CASE ~(f <= b.g)
  BY <1>2 DEF Storage, Minus, Grams, Statuses
<1> QED
  BY <1>1, <1>2

\* The only error a transaction may end with is a sender no bounce can go to.
NoneWrong == err \in {"none", "dest"} /\ (pc # "error" => err = "none")

Inv == Typed /\ Ledger /\ Solvent /\ Fresh /\ Returnable /\ Emptied /\ NoneWrong

LEMMA InitInv == Init => Inv
  BY InputsTyped DEF Init, Inv, Typed, Ledger, Solvent, Fresh, Returnable, Emptied, NoneWrong, Phases, Money, Statuses, Zero

\* What the storage and credit phases hand over is accounted for.
LEMMA PrepareInv ==
  ASSUME Inv, NEW m \in Messages, NEW r, NEW b \in [g : Nat, x : Nat],
         NEW value \in [g : Nat, x : Nat], NEW import \in Int, NEW burn \in Int,
         r.paid \in Int, r.st \in Statuses, r.due \in Int,
         Prepare(m, r, b, value, import, burn),
         Plus(acc.bal, Value(m)) = Plus(b, Grams(r.paid + import + burn)),
         m.kind = "int" /\ m.bounce =>
           import = 0 /\ Covers(b, value) /\ value = Minus(Value(m), Grams(burn))
  PROVE  Inv'
<1> USE DEF Inv
<1>1. Typed'
  BY DEF Typed, Prepare, Money, Minus, Grams, Zero, Phases
<1>2. Ledger'
  BY Zenon DEF Typed, Ledger, Prepare, Plus, Grams, Value, Since
<1>3. Solvent' /\ Fresh' /\ Emptied' /\ NoneWrong'
  BY DEF Solvent, Fresh, Emptied, NoneWrong, Prepare
<1>4. Returnable'
  <2>1. Value(m)' = Value(m)
    BY Zenon DEF Prepare, Value, Since
  <2> QED
    BY <2>1 DEF Returnable, Prepare, Covers, Minus, Grams
<1> QED
  BY <1>1, <1>2, <1>3, <1>4, Zenon

LEMMA BeginInternalInv ==
  ASSUME Inv, BeginInternal PROVE Inv'
<1>0. acc.bal \in [g : Nat, x : Nat] /\ acc.due \in Int /\ acc.status \in Statuses
  BY Zenon DEF Inv, Typed
<1>1. PICK m \in Messages, period \in StorageFees :
        LET burn == IF env.blackhole THEN Value(m).g ELSE 0
            value == [Value(m) EXCEPT !.g = @ - burn]
            first == Storage(Plus(acc.bal, value), InitialStatus, StorageFee(period))
            after == Storage(acc.bal, InitialStatus, StorageFee(period))
        IN IF m.bounce
           THEN Prepare(m, after, Plus(after.bal, value), value, 0, burn)
           ELSE Prepare(m, first, first.bal,
                        [value EXCEPT !.g = Least(@, first.bal.g)], 0, burn)
  BY Zenon DEF BeginInternal
<1> DEFINE burn == IF env.blackhole THEN Value(m).g ELSE 0
           value == [Value(m) EXCEPT !.g = @ - burn]
           first == Storage(Plus(acc.bal, value), InitialStatus, StorageFee(period))
           after == Storage(acc.bal, InitialStatus, StorageFee(period))
<1>2. /\ Value(m) \in [g : Nat, x : Nat]
      /\ burn \in Nat /\ value \in [g : Nat, x : Nat]
      /\ Value(m) = Plus(value, Grams(burn))
  <2>1. Value(m) \in [g : Nat, x : Nat]
    BY ValueTyped
  <2> QED
    BY <2>1 DEF Plus, Grams
<1>3. InitialStatus \in Statuses /\ StorageFee(period) \in Int
  BY <1>0, InputsTyped DEF InitialStatus, Statuses, StorageFee
<1>4. Plus(acc.bal, value) \in [g : Nat, x : Nat]
  BY <1>0, <1>2 DEF Plus
<1> HIDE DEF burn, value
<1>5. CASE m.bounce
  <2>1. /\ after.bal \in [g : Nat, x : Nat] /\ after.paid \in Int
        /\ after.bal = Minus(acc.bal, Grams(after.paid))
        /\ after.st \in Statuses /\ after.due \in Int
    BY <1>0, <1>3, StorageSound, Zenon
  <2> HIDE DEF after
  <2>2. Prepare(m, after, Plus(after.bal, value), value, 0, burn)
    BY <1>1, <1>5 DEF burn, value, after
  <2>3. Plus(after.bal, value) \in [g : Nat, x : Nat] 
        /\ value = Minus(Value(m), Grams(burn)) /\ Covers(Plus(after.bal, value), value)
    BY <1>2, <2>1 DEF Plus, Minus, Grams, Covers
  <2>4. Plus(acc.bal, Value(m)) = Plus(Plus(after.bal, value), Grams(after.paid + 0 + burn))
    BY <1>0, <1>2, <2>1 DEF Plus, Minus, Grams
  <2> QED
    BY <1>2, <2>1, <2>2, <2>3, <2>4, PrepareInv
<1>6. CASE ~m.bounce
  <2>1. /\ first.bal \in [g : Nat, x : Nat] /\ first.paid \in Int
        /\ first.bal = Minus(Plus(acc.bal, value), Grams(first.paid))
        /\ first.st \in Statuses /\ first.due \in Int
    BY <1>0, <1>3, <1>4, StorageSound, Zenon
  <2> HIDE DEF first
  <2> DEFINE less == [value EXCEPT !.g = Least(@, first.bal.g)]
  <2>2. Prepare(m, first, first.bal, less, 0, burn)
    BY <1>1, <1>6 DEF burn, value, first
  <2>3. less \in [g : Nat, x : Nat]
    BY <1>2, <2>1 DEF Least
  <2>4. Plus(acc.bal, Value(m)) = Plus(first.bal, Grams(first.paid + 0 + burn))
    BY <1>0, <1>2, <2>1 DEF Plus, Minus, Grams
  <2> HIDE DEF less
  <2> QED
    BY <1>2, <1>6, <2>1, <2>2, <2>3, <2>4, PrepareInv
<1> QED
  BY <1>5, <1>6

LEMMA BeginExternalInv ==
  ASSUME Inv, BeginExternal PROVE Inv'
<1>0. acc.bal \in [g : Nat, x : Nat] /\ acc.due \in Int /\ acc.status \in Statuses
  BY DEF Inv, Typed
<1>1. PICK m \in Messages, period \in StorageFees :
        LET import == IF env.special THEN 0 ELSE ComputeForwardFee(m.cells)
            r == Storage(Minus(acc.bal, Grams(import)), InitialStatus, StorageFee(period))
        IN /\ m.kind = "ext"
           /\ acc.bal.g >= import
           /\ Prepare(m, r, r.bal, Zero, import, 0)
  BY Zenon DEF BeginExternal
<1> DEFINE import == IF env.special THEN 0 ELSE ComputeForwardFee(m.cells)
           r == Storage(Minus(acc.bal, Grams(import)), InitialStatus, StorageFee(period))
<1>2. import \in Nat
  BY <1>1, InputsTyped, Fees, Zenon
<1>3. InitialStatus \in Statuses /\ StorageFee(period) \in Int
  BY <1>0, InputsTyped DEF InitialStatus, Statuses, StorageFee
<1>4. acc.bal.g >= import /\ Prepare(m, r, r.bal, Zero, import, 0)
  BY <1>1, Zenon
<1> HIDE DEF import
<1>5. Minus(acc.bal, Grams(import)) \in [g : Nat, x : Nat]
  BY <1>0, <1>2, <1>4 DEF Minus, Grams
<1>6. /\ r.bal \in [g : Nat, x : Nat] /\ r.paid \in Int
      /\ r.bal = Minus(Minus(acc.bal, Grams(import)), Grams(r.paid))
      /\ r.st \in Statuses /\ r.due \in Int
  BY <1>0, <1>3, <1>5, StorageSound, Zenon
<1> HIDE DEF r
<1>7. Value(m) = Zero /\ Zero \in [g : Nat, x : Nat]
  BY <1>1, Zenon DEF Value, Zero
<1>8. Plus(acc.bal, Value(m)) = Plus(r.bal, Grams(r.paid + import + 0))
  BY <1>0, <1>2, <1>6, <1>7 DEF Plus, Minus, Grams, Zero
<1> QED
  BY <1>1, <1>2, <1>4, <1>6, <1>7, <1>8, PrepareInv

LEMMA BeginTickTockInv ==
  ASSUME Inv, BeginTickTock PROVE Inv'
<1>0. acc.bal \in [g : Nat, x : Nat] /\ acc.due \in Int /\ acc.status \in Statuses
  BY Zenon DEF Inv, Typed
<1>1. PICK m \in Messages, period \in StorageFees :
        LET r == Storage(acc.bal, acc.status, StorageFee(period))
        IN m.kind = "tick" /\ Prepare(m, r, r.bal, Zero, 0, 0)
  BY Zenon DEF BeginTickTock
<1> DEFINE r == Storage(acc.bal, acc.status, StorageFee(period))
<1>2. StorageFee(period) \in Int
  BY <1>0, InputsTyped DEF StorageFee
<1>3. Prepare(m, r, r.bal, Zero, 0, 0)
  BY <1>1, Zenon
<1>4. /\ r.bal \in [g : Nat, x : Nat] /\ r.paid \in Int
      /\ r.bal = Minus(acc.bal, Grams(r.paid))
      /\ r.st \in Statuses /\ r.due \in Int
  BY <1>0, <1>2, StorageSound, Zenon
<1> HIDE DEF r
<1>5. Value(m) = Zero /\ Zero \in [g : Nat, x : Nat]
  BY <1>1, Zenon DEF Value, Zero
<1>6. Plus(acc.bal, Value(m)) = Plus(r.bal, Grams(r.paid + 0 + 0))
  BY <1>0, <1>4, <1>5 DEF Plus, Minus, Grams, Zero
<1> QED
  BY <1>1, <1>3, <1>4, <1>5, <1>6, PrepareInv

LEMMA DropInv ==
  ASSUME Inv, Drop PROVE Inv'
  BY Zenon DEF Inv, Drop, Typed, Ledger, Solvent, Fresh, Returnable, Emptied, NoneWrong, Phases,
         prepVars, actVars, endVars

\* What the phases after the credit phase never touch.
Frame == UNCHANGED <<env, acc, old, msg, mb, due, orig, paid, burned>>

LEMMA FrameFacts ==
  ASSUME Typed, Frame
  PROVE  /\ old.bal' = old.bal /\ burned' = burned /\ paid' = paid /\ mb' = mb /\ msg' = msg
         /\ (old = acc)' <=> old = acc
         /\ Value(msg)' = Value(msg) /\ Value(msg) \in [g : Nat, x : Nat]
<1>1. msg \in Messages \cup {[kind |-> "none"]}
  BY Zenon DEF Typed
<1>2. Value(msg) \in [g : Nat, x : Nat]
  BY <1>1, ValueTyped
<1>3. Value(msg)' = Value(msg)
  BY Zenon DEF Frame, Value, Since
<1> QED
  BY <1>2, <1>3, Zenon DEF Frame

\* The types of what a step may change, the rest being framed.
LEMMA FrameTyped ==
  ASSUME Typed, Frame, pc' \in Phases, st' \in Statuses, bal' \in Money, rem' \in Money,
         res' \in Money, mbr' \in [g : Nat, x : Nat], sent' \in Money, fees' \in Int,
         gas' \in Int, actionFees' \in Int, fine' \in Int, failFine' \in Int,
         cells' \in Int, left' \in Int
  PROVE  Typed'
  BY Zenon DEF Typed, Frame

LEMMA Zeros ==
  /\ Zero \in Money /\ Zero.g = 0 /\ Zero.x = 0
  /\ 0 \in Int /\ 0 \in Nat /\ 0 >= 0 /\ 0 + 0 >= 0
  BY DEF Zero, Money

\* A phase that fails, from the compute phase or from the actions: d more is
\* collected, and the gas and the fines say so.
Failed(d) ==
  /\ Frame /\ pc \in {"compute", "actions"} /\ pc' = "bounce" /\ err' = "none"
  /\ d <= bal.g /\ bal' = Minus(bal, Grams(d)) /\ fees' = fees + d
  /\ gas' \in Int /\ fine' \in Nat /\ gas' + fine' >= gas + d /\ failFine' \in Nat
  /\ mbr' \in [g : Nat, x : Nat]
  /\ msg.kind = "int" /\ msg.bounce => Covers(mb, mbr')
  /\ sent' = Zero /\ rem' \in Money /\ res' \in Money /\ actionFees' \in Int
  /\ cells' \in Int /\ left' \in Int /\ st' \in Statuses
  /\ del' = FALSE /\ changed' \subseteq {"libs"} /\ ok' = FALSE /\ bounced' = FALSE

LEMMA FailedInv ==
  ASSUME Inv, NEW d \in Int, Failed(d)
  PROVE  Inv'
<1>0. Typed /\ Ledger /\ Solvent /\ Returnable /\ Frame
  BY Zenon DEF Inv, Failed
<1>1. /\ bal \in Money /\ fees \in Int /\ burned \in Int /\ paid \in Int
      /\ mb \in [g : Nat, x : Nat] /\ gas \in Int
  BY <1>0, Zenon DEF Typed
<1>2. /\ Value(msg)' = Value(msg) /\ Value(msg) \in [g : Nat, x : Nat]
      /\ burned' = burned /\ paid' = paid /\ msg' = msg /\ old.bal' = old.bal
      /\ (old = acc)' <=> old = acc
  BY <1>0, FrameFacts, Zenon
<1>3. bal' \in Money /\ bal'.g = bal.g - d /\ bal'.x = bal.x /\ d <= bal.g /\ fees' = fees + d
  BY <1>1 DEF Failed, Money, Minus, Grams
<1>4. Typed'
  <2>1. sent' \in Money /\ fees' \in Int /\ pc' \in Phases /\ fine' \in Int /\ failFine' \in Int
    BY <1>1 DEF Failed, Money, Zero, Phases
  <2> QED
    BY <1>0, <1>3, <2>1, FrameTyped, Zenon DEF Failed
<1>5. Solvent'
  <2>1. bal'.g >= 0 /\ bal'.x >= 0
    BY <1>0, <1>1, <1>3 DEF Failed, Solvent, Money
  <2> QED
    BY <2>1 DEF Failed, Solvent
<1>6. Fresh' /\ Emptied' /\ NoneWrong'
  BY Zenon DEF Failed, Fresh, Emptied, NoneWrong
<1>7. Ledger'
  <2>1. Plus(old.bal, Value(msg)) = Plus(bal, Grams(fees + burned)) /\ old = acc
    BY <1>0, Zenon DEF Failed, Ledger
  <2>2. Plus(Plus(bal', Zero), Grams(fees' + burned)) = Plus(bal, Grams(fees + burned))
    BY <1>1, <1>3 DEF Plus, Grams, Zero, Money
  <2>3. pc' = "bounce" /\ sent' = Zero
    BY Zenon DEF Failed
  <2> QED
    BY <1>2, <2>1, <2>2, <2>3, Zenon DEF Ledger
<1>8. Returnable'
  <2>1. /\ pc' = "bounce" /\ gas' \in Int /\ fine' \in Int /\ gas' + fine' >= gas + d
        /\ mbr' \in [g : Nat, x : Nat]
    BY DEF Failed
  <2>2. ASSUME msg.kind = "int", msg.bounce
        PROVE  /\ Covers(bal, Minus(mb, Grams(gas))) /\ Covers(mb, mbr')
               /\ mb = Minus(Value(msg), Grams(burned)) /\ fees = paid + gas
    BY <1>0, <2>2, Zenon DEF Failed, Returnable
  <2>3. ASSUME msg.kind = "int", msg.bounce
        PROVE  /\ Covers(bal', Minus(mbr', Grams(gas' + fine')))
               /\ Covers(Minus(Value(msg), Grams(burned)), mbr')
               /\ fees' <= paid + gas' + fine'
    <3>1. /\ bal.g >= mb.g - gas /\ bal.x >= mb.x /\ mb.g >= mbr'.g /\ mb.x >= mbr'.x
          /\ fees = paid + gas /\ Covers(Minus(Value(msg), Grams(burned)), mbr')
      BY <1>1, <2>2, <2>3 DEF Covers, Minus, Grams, Money
    <3> DEFINE c == gas' + fine'
    <3>2. c \in Int /\ c >= gas + d
      BY <2>1
    <3>3. /\ bal.g \in Int /\ mb.g \in Int /\ mbr'.g \in Int
          /\ bal.x \in Int /\ mb.x \in Int /\ mbr'.x \in Int
      BY <1>1, <1>3, <2>1 DEF Money
    <3>4. paid + gas' + fine' = paid + c
      BY <1>1, <2>1
    <3> HIDE DEF c
    <3>5. fees' <= paid + c
      BY <1>1, <1>3, <3>1, <3>2
    <3>6. bal'.g >= mbr'.g - c /\ bal'.x >= mbr'.x
      BY <1>1, <1>3, <3>1, <3>2, <3>3
    <3> QED
      BY <2>1, <3>1, <3>4, <3>5, <3>6 DEF c, Covers, Minus, Grams
  <2> QED
    BY <1>2, <2>1, <2>3, Zenon DEF Returnable
<1> QED
  BY <1>4, <1>5, <1>6, <1>7, <1>8, Zenon DEF Inv

\* An action that is done or skipped: it moves money between the balance, the
\* reserves, the messages and the fees, and covers its fine.
Acted ==
  /\ Frame /\ UNCHANGED <<pc, err, st, bal, fees, gas, ok, bounced>>
  /\ pc = "actions" /\ left > 0 /\ left' = left - 1
  /\ rem' \in [g : Nat, x : Nat] /\ res' \in [g : Nat, x : Nat] /\ sent' \in Money
  /\ actionFees' \in Int /\ fine' \in Nat /\ failFine' \in Nat /\ cells' \in Int
  /\ Plus(Plus(rem', res'), Plus(sent', Grams(actionFees')))
       = Plus(Plus(rem, res), Plus(sent, Grams(actionFees)))
  /\ sent'.g + actionFees' >= fine' /\ sent'.x >= 0
  /\ mbr' \in [g : Nat, x : Nat] /\ Covers(mbr, mbr')
  /\ del' = TRUE \/ del' = FALSE
  /\ del' = TRUE => rem'.g = 0 /\ res'.g = 0

LEMMA ActionInv ==
  ASSUME Inv, Acted
  PROVE  Inv'
<1>0. Typed /\ Ledger /\ Solvent /\ Fresh /\ Returnable /\ NoneWrong /\ Frame
  BY Zenon DEF Inv, Acted
<1>1. /\ bal \in Money /\ st \in Statuses /\ fees \in Int /\ gas \in Int /\ left \in Int
      /\ mb \in [g : Nat, x : Nat] /\ mbr \in [g : Nat, x : Nat]
  BY <1>0, Zenon DEF Typed
<1>2. /\ Value(msg)' = Value(msg) /\ burned' = burned /\ paid' = paid /\ msg' = msg
      /\ mb' = mb /\ old.bal' = old.bal
      /\ (old = acc)' <=> old = acc
  BY <1>0, FrameFacts, Zenon
<1>3. /\ pc = "actions" /\ pc' = "actions" /\ bal' = bal /\ st' = st /\ fees' = fees /\ gas' = gas
      /\ left > 0 /\ left' = left - 1
  BY Zenon DEF Acted
<1>4. Typed'
  <2>1. /\ rem' \in Money /\ res' \in Money /\ sent' \in Money /\ mbr' \in [g : Nat, x : Nat]
        /\ actionFees' \in Int /\ fine' \in Int /\ failFine' \in Int /\ cells' \in Int
    BY DEF Acted, Money
  <2>2. left' \in Int /\ pc' \in Phases
    BY <1>1, <1>3 DEF Phases
  <2> QED
    BY <1>0, <1>1, <1>3, <2>1, <2>2, FrameTyped, Zenon
<1>5. Solvent' /\ Emptied' /\ NoneWrong'
  BY <1>0 DEF Acted, Solvent, Emptied, NoneWrong
<1>6. Fresh'
  <2>1. MaxActions \in Nat
    BY InputsTyped
  <2>2. left' # MaxActions /\ left' <= MaxActions /\ bounced' = FALSE /\ ok' = FALSE
    BY <1>0, <1>1, <1>3, <2>1 DEF Acted, Fresh
  <2> QED
    BY <1>3, <2>2, Zenon DEF Acted, Fresh
<1>7. Ledger'
  BY <1>0, <1>2, Zenon DEF Acted, Ledger
<1>8. Returnable'
  <2>1. Covers(mb, mbr) => Covers(mb, mbr')
    BY <1>1 DEF Acted, Covers
  <2>2. ASSUME msg.kind = "int", msg.bounce
        PROVE  /\ Covers(bal, Minus(mb, Grams(gas))) /\ Covers(mb, mbr')
               /\ mb = Minus(Value(msg), Grams(burned)) /\ fees = paid + gas
    BY <1>0, <1>3, <2>1, <2>2, Zenon DEF Returnable
  <2> QED
    BY <1>2, <1>3, <2>2, Zenon DEF Returnable
<1> QED
  BY <1>4, <1>5, <1>6, <1>7, <1>8, Zenon DEF Inv

LEMMA ComputeSkippedInv ==
  ASSUME Inv, ComputeSkipped PROVE Inv'
<1>1. /\ pc = "compute" /\ pc' = "bounce"
      /\ UNCHANGED <<env, acc, old, err, msg, bal, fees, gas, prepVars, actVars, ok, bounced>>
  BY Zenon DEF ComputeSkipped
<1>2. /\ bal \in Money /\ bal.g >= 0 /\ fees \in Int /\ gas \in Int /\ st \in Statuses
      /\ rem \in Money /\ res \in Money /\ mbr \in [g : Nat, x : Nat]
      /\ cells \in Int /\ left \in Int
  BY <1>1, Zenon DEF Inv, Typed, Solvent
<1>3. /\ sent = Zero /\ fine = 0 /\ failFine = 0 /\ actionFees = 0 /\ changed = {}
      /\ del = FALSE /\ ok = FALSE /\ bounced = FALSE /\ mbr = mb /\ err = "none"
  BY <1>1, Zenon DEF Inv, Fresh, NoneWrong
<1>4. bal = Minus(bal, Grams(0)) /\ fees = fees + 0 /\ gas + fine >= gas + 0 /\ Covers(mb, mbr)
  BY <1>2, <1>3 DEF Minus, Grams, Covers, Money
<1>5. Frame /\ UNCHANGED <<bal, fees, gas, err, st, ok, bounced>> /\ UNCHANGED actVars
  BY <1>1, Zenon DEF Frame, prepVars
<1>6. Failed(0)
  BY <1>1, <1>2, <1>3, <1>4, <1>5 DEF Failed, actVars
<1> QED
  BY <1>6, FailedInv

LEMMA GasFeesTyped ==
  ASSUME NEW u \in Int PROVE GasFees(u) \in Int
  BY GasPriceTyped DEF GasFees

LEMMA Monotone ==
  ASSUME NEW a \in Nat, NEW b \in Nat, NEW c \in Nat, b <= c PROVE a * b <= a * c
<1>1. PICK d \in Nat : c = b + d
  <2>1. c - b \in Nat /\ c = b + (c - b)
    OBVIOUS
  <2> QED
    BY <2>1
<1>2. a * c = a * b + a * d
  BY <1>1
<1>3. a * d \in Nat /\ a * b \in Nat
  OBVIOUS
<1> QED
  BY <1>2, <1>3

LEMMA Divided ==
  ASSUME NEW a \in Nat, NEW b \in Nat, b > 0 PROVE b * (a \div b) <= a /\ a \div b \in Nat
  OBVIOUS

LEMMA Shifted ==
  ASSUME NEW k \in Nat, NEW m \in Nat, k <= m * 65536 PROVE CeilShr16(k) <= m
  BY DEF CeilShr16

LEMMA ShiftMonotone ==
  ASSUME NEW k \in Nat, NEW m \in Nat, k <= m
  PROVE  CeilShr16(k) <= CeilShr16(m) /\ CeilShr16(k) \in Nat /\ CeilShr16(m) \in Nat
  BY DEF CeilShr16

LEMMA GasBoughtTyped ==
  ASSUME NEW n \in Nat PROVE GasBoughtFor(n) \in Nat
<1> USE PricesAreNatural
<1>0. MaxGasThreshold \in Int
  BY GasPriceTyped DEF MaxGasThreshold, ComputeGasPrice, CeilShr16
<1>1. CASE n < FlatGasPrice \/ GasPrice = 0
  BY <1>0, <1>1 DEF GasBoughtFor
<1>2. CASE n >= FlatGasPrice /\ GasPrice > 0
  <2> DEFINE q == ((n - FlatGasPrice) * 65536) \div GasPrice
  <2>1. q \in Nat
    <3>1. (n - FlatGasPrice) * 65536 \in Nat
      BY <1>2
    <3> QED
      BY <1>2, <3>1, Divided
  <2> HIDE DEF q
  <2> QED
    BY <1>0, <1>2, <2>1 DEF GasBoughtFor, Least, q
<1> QED
  BY <1>1, <1>2

\* An amount that buys gas at all pays for all the gas it buys: the quotient of
\* transactionGasBoughtForLimit is rounded down where ComputeGasPrice rounds up.
LEMMA GasPaid ==
  ASSUME NEW n \in Nat, GasBoughtFor(n) > 0, NEW u \in 0..GasBoughtFor(n)
  PROVE  ComputeGasPrice(u) <= n
<1> USE PricesAreNatural
<1>0. u \in Nat /\ u <= GasBoughtFor(n)
  BY GasBoughtTyped
<1>1. CASE MaxGasThreshold <= n
  <2>1. u <= GasLimit
    BY <1>0, <1>1 DEF GasBoughtFor
  <2>2. CASE u <= FlatGasLimit
    <3>1. FlatGasPrice <= MaxGasThreshold
      <4>1. CASE GasLimit <= FlatGasLimit
        BY <4>1 DEF MaxGasThreshold
      <4>2. CASE GasLimit > FlatGasLimit
        <5>1. GasPrice * (GasLimit - FlatGasLimit) \in Nat
          BY <4>2, Products
        <5>2. CeilShr16(GasPrice * (GasLimit - FlatGasLimit)) \in Nat
          BY <5>1, Halves, Zenon
        <5> QED
          BY <4>2, <5>2 DEF MaxGasThreshold
      <4> QED
        BY <4>1, <4>2
    <3> QED
      BY <1>1, <2>2, <3>1 DEF ComputeGasPrice, MaxGasThreshold, CeilShr16
  <2>3. CASE u > FlatGasLimit
    <3> DEFINE k == GasPrice * (u - FlatGasLimit)
               m == GasPrice * (GasLimit - FlatGasLimit)
    <3>1. k \in Nat /\ m \in Nat /\ k <= m
      BY <1>0, <2>1, <2>3, Products, Monotone
    <3> HIDE DEF k, m
    <3>2. CeilShr16(k) <= CeilShr16(m) /\ CeilShr16(k) \in Nat /\ CeilShr16(m) \in Nat
      BY <3>1, ShiftMonotone, Zenon
    <3>3. ComputeGasPrice(u) = CeilShr16(k) + FlatGasPrice
      BY <1>0, <2>3 DEF ComputeGasPrice, k
    <3>4. MaxGasThreshold = CeilShr16(m) + FlatGasPrice
      BY <1>0, <2>1, <2>3 DEF MaxGasThreshold, m
    <3> QED
      BY <1>1, <3>2, <3>3, <3>4
  <2> QED
    BY <1>0, <2>2, <2>3
<1>2. CASE ~(MaxGasThreshold <= n)
  <2>1. MaxGasThreshold > n
    <3>1. MaxGasThreshold \in Int
      BY GasPriceTyped DEF MaxGasThreshold, ComputeGasPrice, CeilShr16
    <3> QED
      BY <1>2, <3>1
  <2>2. n >= FlatGasPrice
    BY <1>2, <2>1 DEF GasBoughtFor
  <2>3. CASE u <= FlatGasLimit
    BY <2>2, <2>3, Zenon DEF ComputeGasPrice
  <2>4. CASE u > FlatGasLimit /\ GasPrice = 0
    <3>1. CeilShr16(GasPrice * (u - FlatGasLimit)) = 0
      BY <1>0, <2>4 DEF CeilShr16
    <3> QED
      BY <1>0, <2>2, <2>4, <3>1 DEF ComputeGasPrice
  <2>5. CASE u > FlatGasLimit /\ GasPrice > 0
    <3> DEFINE most == (n - FlatGasPrice) * 65536
               q == most \div GasPrice
               k == GasPrice * (u - FlatGasLimit)
    <3>1. most \in Nat
      BY <2>2
    <3>2. q \in Nat /\ GasPrice * q <= most
      BY <2>5, <3>1, Divided
    <3>3. u <= FlatGasLimit + q
      <4>1. GasBoughtFor(n) = Least(GasLimit, FlatGasLimit + q)
        BY <1>2, <2>1, <2>2, <2>5 DEF GasBoughtFor
      <4> HIDE DEF q
      <4> QED
        BY <1>0, <3>2, <4>1 DEF Least
    <3> HIDE DEF q
    <3>4. k \in Nat /\ GasPrice * q \in Nat /\ k <= GasPrice * q
      BY <1>0, <2>5, <3>2, <3>3, Products, Monotone
    <3> HIDE DEF k
    <3>5. k <= (n - FlatGasPrice) * 65536 /\ n - FlatGasPrice \in Nat
      BY <2>2, <3>1, <3>2, <3>4
    <3>6. CeilShr16(k) <= n - FlatGasPrice /\ CeilShr16(k) \in Nat
      BY <3>4, <3>5, Shifted, Halves
    <3>7. ComputeGasPrice(u) = CeilShr16(k) + FlatGasPrice
      BY <1>0, <2>5 DEF ComputeGasPrice, k
    <3> QED
      BY <3>6, <3>7
  <2> QED
    BY <1>0, <2>3, <2>4, <2>5
<1> QED
  BY <1>1, <1>2, Zenon

\* The account can pay for whatever a compute phase uses.
LEMMA GasCovered ==
  ASSUME Inv, pc = "compute", Runs, NEW u \in 0..GasMax
  PROVE  GasFees(u) <= bal.g
<1>1. bal.g \in Nat /\ mb.g \in Nat
  BY DEF Inv, Typed, Solvent, Money
<1>2. CASE env.special
  BY <1>1, <1>2 DEF GasFees
<1>3. CASE ~env.special
  <2>1. GasMax = GasBoughtFor(bal.g) /\ GasMax \in Nat
    BY <1>1, <1>3, GasBoughtTyped, Zenon DEF GasMax
  <2>2. GasMax > 0
    <3>1. GasBoughtFor(mb.g) \in Nat /\ GasLimited + GasCredited > 0
      BY <1>1, GasBoughtTyped, Zenon DEF Runs
    <3>2. /\ GasLimited \in {GasMax, 0, Least(GasBoughtFor(mb.g), GasMax)}
          /\ GasCredited \in {Least(GasCredit, GasMax), 0}
      BY <1>3, Zenon DEF GasLimited, GasCredited
    <3> QED
      BY <2>1, <3>1, <3>2, PricesAreNatural DEF Least
  <2> QED
    BY <1>1, <1>3, <2>1, <2>2, GasPaid, Zenon DEF GasFees
<1> QED
  BY <1>2, <1>3, Zenon

\* A compute phase, whatever gas it used: the fee leaves the balance.
LEMMA ComputedFacts ==
  ASSUME Inv, NEW f \in Int, Computed(f)
  PROVE  /\ pc = "compute" /\ gas' = f /\ fees' = fees + f
         /\ bal' = Minus(bal, Grams(f)) /\ bal' \in Money
         /\ bal'.g = bal.g - f /\ bal'.x = bal.x
         /\ st' \in Statuses
         /\ UNCHANGED <<env, acc, old, msg, mb, due, orig, paid, burned>>
         /\ Value(msg)' = Value(msg)
         /\ Plus(old.bal, Value(msg)) = Plus(bal', Grams(fees' + burned))
<1>1. /\ pc = "compute" /\ gas' = f /\ fees' = fees + f
      /\ bal' = Minus(bal, Grams(f))
      /\ st' \in Statuses
      /\ UNCHANGED <<env, acc, old, msg, mb, due, orig, paid, burned>>
  BY Zenon DEF Inv, Typed, Computed, Statuses
<1>2. bal' \in Money /\ bal'.g = bal.g - f /\ bal'.x = bal.x
  BY <1>1 DEF Inv, Typed, Money, Minus, Grams
<1>3. Value(msg)' = Value(msg)
  BY <1>1, Zenon DEF Value, Since
<1>4. Plus(old.bal, Value(msg)) = Plus(bal', Grams(fees' + burned))
  <2>1. Plus(old.bal, Value(msg)) = Plus(bal, Grams(fees + burned))
    BY <1>1, Zenon DEF Inv, Ledger
  <2>2. bal \in Money /\ fees \in Int /\ burned \in Int
    BY Zenon DEF Inv, Typed
  <2>3. Plus(bal, Grams(fees + burned)) = Plus(bal', Grams(fees' + burned))
    BY <1>1, <1>2, <2>2 DEF Money, Plus, Grams
  <2> QED
    BY <2>1, <2>3
<1> QED
  BY <1>1, <1>2, <1>3, <1>4, Zenon

LEMMA ComputeFailsInv ==
  ASSUME Inv, ComputeFails PROVE Inv'
<1>1. PICK used \in 0..GasMax : Computed(GasFees(used))
  BY Zenon DEF ComputeFails
<1> DEFINE f == GasFees(used)
<1>2. f \in Int
  BY GasFeesTyped
<1>21. f <= bal.g
  BY <1>1, GasCovered, Zenon DEF Computed
<1> HIDE DEF f
<1>3. /\ pc = "compute" /\ gas' = f /\ fees' = fees + f
      /\ bal' = Minus(bal, Grams(f)) /\ bal'.g = bal.g - f
      /\ st' \in Statuses
      /\ UNCHANGED <<env, acc, old, msg, mb, due, orig, paid, burned>>
  BY <1>1, <1>2, ComputedFacts, Zenon DEF f
<1>4. ~(bal'.g < 0)
  <2>1. bal.g \in Int
    BY DEF Inv, Typed, Money
  <2> QED
    BY <1>2, <1>21, <1>3, <2>1
<1>5. pc' = "bounce" /\ err' = "none" /\ UNCHANGED actVars /\ UNCHANGED <<ok, bounced>>
  BY <1>4, Zenon DEF ComputeFails
<1>6. /\ rem \in Money /\ res \in Money /\ mbr \in [g : Nat, x : Nat]
      /\ cells \in Int /\ left \in Int
  BY Zenon DEF Inv, Typed
<1>7. /\ sent = Zero /\ fine = 0 /\ failFine = 0 /\ actionFees = 0 /\ changed = {} /\ gas = 0
      /\ del = FALSE /\ ok = FALSE /\ bounced = FALSE /\ mbr = mb
  BY <1>3, Zenon DEF Inv, Fresh
<1>8. gas' + fine >= gas + f /\ Covers(mb, mbr)
  BY <1>2, <1>3, <1>6, <1>7 DEF Covers
<1>9. Failed(f)
  BY <1>2, <1>21, <1>3, <1>5, <1>6, <1>7, <1>8 DEF Failed, Frame, actVars
<1> QED
  BY <1>2, <1>9, FailedInv, Zenon

LEMMA ComputeSucceedsInv ==
  ASSUME Inv, ComputeSucceeds PROVE Inv'
<1>1. PICK used \in 0..GasMax : Computed(GasFees(used))
  BY Zenon DEF ComputeSucceeds
<1> DEFINE f == GasFees(used)
<1>2. f \in Int
  BY GasFeesTyped
<1>21. f <= bal.g
  BY <1>1, GasCovered, Zenon DEF Computed
<1> HIDE DEF f
<1>3. /\ pc = "compute" /\ gas' = f /\ fees' = fees + f
      /\ bal' \in Money
      /\ bal'.g = bal.g - f /\ bal'.x = bal.x
      /\ st' \in Statuses
      /\ UNCHANGED <<env, acc, old, msg, mb, due, orig, paid, burned>>
      /\ Value(msg)' = Value(msg)
      /\ Plus(old.bal, Value(msg)) = Plus(bal', Grams(fees' + burned))
  BY <1>1, <1>2, ComputedFacts, Zenon DEF f
<1>31. /\ bal' \in Money /\ bal'.g = bal.g - f /\ bal'.x = bal.x /\ fees' = fees + f
  BY <1>3, Zenon
<1>4. bal'.g >= 0 /\ bal'.x >= 0 /\ ~(bal'.g < 0)
  <2>1. bal.g \in Int /\ bal.x >= 0
    BY <1>3 DEF Inv, Typed, Solvent, Money
  <2> QED
    BY <1>2, <1>21, <1>31, <2>1
<1>5. /\ pc' = "actions" /\ err' = "none" /\ rem' = bal' /\ res' = Zero /\ left' = MaxActions
      /\ UNCHANGED <<mbr, sent, actionFees, fine, failFine, del, cells, changed, ok, bounced>>
  BY <1>4, Zenon DEF ComputeSucceeds, endVars
<1>6. Typed /\ Ledger /\ Fresh /\ Returnable /\ Frame
  BY <1>3, Zenon DEF Inv, Frame
<1>7. /\ sent = Zero /\ fine = 0 /\ failFine = 0 /\ actionFees = 0 /\ changed = {} /\ gas = 0
      /\ del = FALSE /\ ok = FALSE /\ bounced = FALSE /\ mbr = mb
  BY <1>3, <1>6, Zenon DEF Fresh
<1>8. /\ mbr \in [g : Nat, x : Nat] /\ mb \in [g : Nat, x : Nat] /\ bal \in Money
      /\ fees \in Int /\ cells \in Int /\ burned \in Int /\ paid \in Int
  BY <1>6, Zenon DEF Typed
<1>9. MaxActions \in Nat
  BY InputsTyped, Zenon
<1>10. Typed'
  <2>1. fees' \in Int /\ gas' \in Int /\ MaxActions \in Int
    BY <1>2, <1>3, <1>8, <1>9
  <2>2. "actions" \in Phases
    BY Zenon DEF Phases
  <2> QED
    BY <1>3, <1>5, <1>6, <1>7, <1>8, <2>1, <2>2, Zeros, FrameTyped, Zenon
<1>11. Solvent' /\ Fresh' /\ Emptied' /\ NoneWrong'
  <2>1. MaxActions <= MaxActions
    BY <1>9
  <2> QED
    BY <1>4, <1>5, <1>7, <2>1, Zeros, Zenon DEF Solvent, Fresh, Emptied, NoneWrong
<1>12. Ledger'
  <2>1. bal' = Plus(Plus(bal', Zero), Plus(Zero, Grams(0)))
    BY <1>3 DEF Plus, Grams, Zero, Money
  <2>2. old = acc
    BY <1>3, <1>6, Zenon DEF Ledger
  <2> QED
    BY <1>3, <1>5, <1>7, <2>1, <2>2, Zenon DEF Ledger
<1>13. Returnable'
  <2>1. SUFFICES ASSUME msg.kind = "int", msg.bounce
                 PROVE  /\ Covers(bal', Minus(mb, Grams(f)))
                        /\ mb = Minus(Value(msg), Grams(burned))
                        /\ Covers(mb, mb) /\ fees' = paid + f
    BY <1>3, <1>5, <1>7, Zenon DEF Returnable
  <2>2. /\ Covers(bal, Minus(mb, Grams(gas))) /\ fees = paid + gas
        /\ mb = Minus(Value(msg), Grams(burned))
    BY <1>3, <1>6, <2>1, Zenon DEF Returnable
  <2> QED
    BY <1>2, <1>31, <1>7, <1>8, <2>2 DEF Covers, Minus, Grams, Money
<1> QED
  BY <1>10, <1>11, <1>12, <1>13, Zenon DEF Inv

\* A list of actions that fails leaves the balance the gas left, less a fine.
LEMMA FailActionsInv ==
  ASSUME Inv, pc = "actions", NEW f \in Nat, NEW ff \in Nat, NEW b, NEW limits \in BOOLEAN,
         f >= fine, f <= bal.g, FailActions(f, ff, b, limits)
  PROVE  Inv'
<1> DEFINE total == IF Since(15) THEN Least(f + ff, bal.g) ELSE f
<1>0. /\ bal \in Money /\ bal.g >= 0 /\ bal.x >= 0 /\ fees \in Int /\ gas \in Int
      /\ st \in Statuses
  BY Zenon DEF Inv, Typed, Solvent
<1>1. total \in Nat /\ total <= bal.g
  BY <1>0 DEF Least, Money
<1>2. /\ fine' = total /\ fees' = fees + total
      /\ bal' = [bal EXCEPT !.g = Greatest(0, @ - total)]
      /\ mbr' = (IF Since(14) THEN mb ELSE mbr)
      /\ sent' = Zero /\ rem' = Zero /\ res' = Zero /\ actionFees' = 0 /\ failFine' = 0
      /\ del' = FALSE /\ cells' = 0 /\ left' = 0
      /\ changed' \subseteq {"libs"}
      /\ ok' = FALSE /\ pc' = "bounce"
      /\ UNCHANGED <<env, acc, old, err, msg, gas, prepVars, bounced>>
  BY DEF FailActions
<1> HIDE DEF total
<1>3. /\ bal' = Minus(bal, Grams(total)) /\ gas + fine' >= gas + total
  BY <1>0, <1>1, <1>2 DEF Money, Greatest, Minus, Grams
<1>4. /\ Zero \in Money /\ err = "none" /\ bounced = FALSE
      /\ mbr' \in [g : Nat, x : Nat]
      /\ msg.kind = "int" /\ msg.bounce => Covers(mb, mbr')
  <2>1. mb \in [g : Nat, x : Nat] /\ mbr \in [g : Nat, x : Nat]
    BY Zenon DEF Inv, Typed
  <2>2. msg.kind = "int" /\ msg.bounce => Covers(mb, mbr)
    BY Zenon DEF Inv, Returnable
  <2>3. Covers(mb, mb) /\ Zero \in Money
    BY <2>1 DEF Covers, Zero, Money
  <2> QED
    BY <1>2, <2>1, <2>2, <2>3, Zenon DEF Inv, Fresh, NoneWrong
<1>5. Frame /\ UNCHANGED <<err, gas, st, bounced>>
  BY <1>2 DEF Frame, prepVars
<1>6. Failed(total)
  BY <1>0, <1>1, <1>2, <1>3, <1>4, <1>5 DEF Failed
<1> QED
  BY <1>1, <1>6, FailedInv

LEMMA FineTakenBound ==
  ASSUME Inv, pc = "actions", NEW a \in Sends
  PROVE  FineTaken(a) \in Nat /\ FineTaken(a) <= rem.g
<1>0. rem.g \in Nat /\ mbr.g \in Int /\ gas \in Int /\ fine \in Int
  BY DEF Inv, Typed, Solvent, Money
<1>1. a.g \in Nat /\ a.cells \in Nat
  BY InputsTyped, Zenon
<1>2. ValueFunds(a) \in Int
  BY <1>0, <1>1 DEF ValueFunds
<1>3. (IF NoFineFunds(a) THEN 0 ELSE FineFunds(a)) \in Nat
  BY <1>0, <1>2 DEF NoFineFunds, FineFunds, Least
<1>4. FineOf(a) \in Nat
  BY <1>1, <1>3, Fine, Zenon DEF FineOf
<1>5. ExternalFine(a) \in Nat
  BY <1>0, <1>1, Fine, Zenon DEF ExternalFine
<1>6. Outcome(a).fine \in Nat
  BY <1>4, <1>5, Zenon DEF Outcome
<1> QED
  BY <1>0, <1>6 DEF FineTaken, Least

LEMMA LaterFineTyped ==
  ASSUME Inv, pc = "actions", NEW a \in Sends
  PROVE  LaterFine(a) \in Nat
<1>0. rem.g \in Nat /\ mbr.g \in Int /\ gas \in Int /\ fine \in Int
  BY DEF Inv, Typed, Solvent, Money
<1>1. a.g \in Nat /\ a.cells \in Nat
  BY InputsTyped, Zenon
<1>2. ValueFunds(a) \in Int
  BY <1>0, <1>1 DEF ValueFunds
<1>3. (IF NoFineFunds(a) THEN 0 ELSE FineFunds(a)) \in Nat
  BY <1>0, <1>2 DEF NoFineFunds, FineFunds, Least
<1>4. FineOf(a) \in Nat
  BY <1>1, <1>3, Fine, Zenon DEF FineOf
<1>5. ExternalFine(a) \in Nat
  BY <1>0, <1>1, Fine, Zenon DEF ExternalFine
<1> QED
  BY <1>4, <1>5, Zenon DEF LaterFine

\* The fines of a list are covered by what its actions took off the balance.
LEMMA FinesCovered ==
  ASSUME Inv, pc = "actions", NEW t \in Nat, t <= rem.g
  PROVE  fine + t \in Nat /\ fine + t <= bal.g /\ failFine \in Nat
<1>1. /\ bal \in Money /\ rem \in Money /\ res \in Money /\ sent \in Money /\ actionFees \in Int
      /\ fine \in Int /\ failFine \in Int
  BY Zenon DEF Inv, Typed
<1>2. /\ res.g >= 0 /\ sent.g + actionFees >= fine /\ fine >= 0 /\ failFine >= 0
  BY Zenon DEF Inv, Solvent
<1>3. bal = Plus(Plus(rem, res), Plus(sent, Grams(actionFees)))
  BY Zenon DEF Inv, Ledger
<1>4. bal.g = rem.g + res.g + (sent.g + actionFees)
  BY <1>1, <1>3 DEF Plus, Grams, Money
<1> QED
  BY <1>1, <1>2, <1>4 DEF Money

LEMMA FineCovered ==
  ASSUME Inv, pc = "actions"
  PROVE  fine \in Nat /\ fine <= bal.g /\ failFine \in Nat
<1>1. rem \in Money /\ rem.g >= 0 /\ fine \in Int
  BY Zenon DEF Inv, Typed, Solvent
<1>2. fine + 0 \in Nat /\ fine + 0 <= bal.g /\ failFine \in Nat
  BY <1>1, FinesCovered DEF Money
<1> QED
  BY <1>1, <1>2

LEMMA SendSkippedInv ==
  ASSUME Inv, SendSkipped PROVE Inv'
<1>1. PICK a \in Sends :
        /\ rem' = Minus(rem, Grams(FineTaken(a)))
        /\ fine' = fine + FineTaken(a)
        /\ actionFees' = actionFees + FineTaken(a)
  BY Zenon DEF SendSkipped
<1>2. /\ pc = "actions" /\ left > 0 /\ left' = left - 1
      /\ UNCHANGED <<env, acc, old, pc, err, msg, bal, fees, gas, prepVars, res, mbr, sent,
                     failFine, del, cells, changed, endVars>>
  BY Zenon DEF SendSkipped
<1> DEFINE t == FineTaken(a)
<1>3. t \in Nat /\ t <= rem.g
  BY <1>2, FineTakenBound, Zenon
<1>4. rem' = Minus(rem, Grams(t)) /\ fine' = fine + t /\ actionFees' = actionFees + t
  BY <1>1, Zenon
<1> HIDE DEF t
<1>5. /\ Frame /\ UNCHANGED <<pc, err, st, bal, fees, gas, ok, bounced>>
      /\ UNCHANGED <<res, mbr, sent, failFine, del, cells>>
  BY <1>2, Zenon DEF Frame, prepVars, endVars
<1>6. /\ rem \in Money /\ res \in [g : Nat, x : Nat] /\ sent \in Money /\ actionFees \in Int
      /\ fine \in Nat /\ failFine \in Nat /\ cells \in Int /\ mbr \in [g : Nat, x : Nat]
      /\ rem.x >= 0 /\ sent.g + actionFees >= fine /\ sent.x >= 0
  BY <1>2 DEF Inv, Typed, Solvent, Money
<1>7. /\ rem' \in [g : Nat, x : Nat] /\ rem'.g = rem.g - t /\ fine' \in Nat /\ actionFees' \in Int
      /\ Plus(Plus(rem', res), Plus(sent, Grams(actionFees')))
           = Plus(Plus(rem, res), Plus(sent, Grams(actionFees)))
      /\ sent.g + actionFees' >= fine' /\ Covers(mbr, mbr)
  BY <1>3, <1>4, <1>6 DEF Money, Plus, Minus, Grams, Covers
<1>8. /\ del = TRUE \/ del = FALSE
      /\ del = TRUE => rem'.g = 0 /\ res.g = 0
  <2>1. del = TRUE \/ del = FALSE
    BY <1>2, Zenon DEF Inv, Fresh
  <2>2. del = TRUE => rem.g = 0 /\ res.g = 0
    BY <1>2, Zenon DEF Inv, Emptied
  <2> QED
    BY <1>3, <1>7, <2>1, <2>2
<1>9. Acted
  BY <1>2, <1>5, <1>6, <1>7, <1>8, Zenon DEF Acted
<1> QED
  BY <1>9, ActionInv, Zenon

LEMMA SendFailsInv ==
  ASSUME Inv, SendFails PROVE Inv'
<1>1. PICK a \in Sends, limits \in BOOLEAN :
        FailActions(fine + FineTaken(a), failFine, "bounce" \in a.mode /\ Since(4), limits)
  BY Zenon DEF SendFails
<1>2. pc = "actions"
  BY Zenon DEF SendFails
<1>3. FineTaken(a) \in Nat /\ FineTaken(a) <= rem.g
  BY <1>2, FineTakenBound, Zenon
<1>4. /\ fine + FineTaken(a) \in Nat /\ fine + FineTaken(a) <= bal.g
      /\ failFine \in Nat /\ fine + FineTaken(a) >= fine
  BY <1>2, <1>3, FinesCovered DEF Inv, Typed
<1> QED
  BY <1>1, <1>2, <1>4, FailActionsInv, Zenon

LEMMA ReserveFailsInv ==
  ASSUME Inv, ReserveFails PROVE Inv'
<1>1. PICK a \in Reserves, limits \in BOOLEAN :
        FailActions(fine, failFine, "bounce" \in a.mode /\ Since(4), limits)
  BY Zenon DEF ReserveFails
<1>2. pc = "actions"
  BY Zenon DEF ReserveFails
<1>4. fine \in Nat /\ fine <= bal.g /\ failFine \in Nat
  BY <1>2, FineCovered
<1> QED
  BY <1>1, <1>2, <1>4, FailActionsInv

LEMMA LibraryFailsInv ==
  ASSUME Inv, LibraryFails PROVE Inv'
<1>1. PICK b \in {FALSE, Since(4)}, limits \in BOOLEAN : FailActions(fine, failFine, b, limits)
  BY Zenon DEF LibraryFails
<1>2. pc = "actions"
  BY Zenon DEF LibraryFails
<1>4. fine \in Nat /\ fine <= bal.g /\ failFine \in Nat
  BY <1>2, FineCovered
<1> QED
  BY <1>1, <1>2, <1>4, FailActionsInv

LEMMA StateTooLargeInv ==
  ASSUME Inv, StateTooLarge PROVE Inv'
<1>1. pc = "actions"
  BY Zenon DEF StateTooLarge
<1>2. CASE Since(10)
  <2>1. FailActions(fine, failFine, TRUE, TRUE)
    BY <1>2, Zenon DEF StateTooLarge
  <2>2. fine \in Nat /\ fine <= bal.g /\ failFine \in Nat
    BY <1>1, FineCovered
  <2>3. fine >= fine /\ TRUE \in BOOLEAN
    BY <2>2
  <2> QED
    BY <1>1, <2>1, <2>2, <2>3, FailActionsInv, Zenon
<1>3. CASE ~Since(10)
  <2>1. /\ mbr' = mbr /\ sent' = Zero /\ rem' = Zero /\ res' = Zero
        /\ actionFees' = 0 /\ failFine' = 0 /\ del' = FALSE /\ cells' = 0 /\ left' = 0
        /\ changed' = {} /\ ok' = FALSE
        /\ pc' = "bounce"
        /\ UNCHANGED <<env, acc, old, err, msg, bal, fees, gas, prepVars, fine, bounced>>
    BY <1>3, Zenon DEF StateTooLarge
  <2>2. /\ bal \in Money /\ bal.g >= 0 /\ fees \in Int /\ gas \in Int /\ st \in Statuses
        /\ fine \in Nat /\ mbr \in [g : Nat, x : Nat] /\ bounced = FALSE /\ err = "none"
    BY <1>1, FineCovered, Zenon DEF Inv, Typed, Solvent, Fresh, NoneWrong
  <2>3. msg.kind = "int" /\ msg.bounce => Covers(mb, mbr)
    BY <1>1, Zenon DEF Inv, Returnable
  <2>4. /\ bal = Minus(bal, Grams(0)) /\ fees = fees + 0 /\ gas + fine >= gas + 0
        /\ Zero \in Money
    BY <2>2 DEF Minus, Grams, Money, Zero
  <2>5. Frame /\ UNCHANGED <<bal, fees, gas, err, st, fine, bounced>>
    BY <2>1, Zenon DEF Frame, prepVars
  <2>6. Failed(0)
    BY <1>1, <2>1, <2>2, <2>3, <2>4, <2>5, Zeros, Zenon DEF Failed
  <2> QED
    BY <2>6, Zeros, FailedInv, Zenon
<1> QED
  BY <1>2, <1>3, Zenon

LEMMA LoadFailsInv ==
  ASSUME Inv, LoadFails PROVE Inv'
<1>1. /\ pc = "actions" /\ left = MaxActions /\ pc' = "bounce"
      /\ rem' = Zero /\ left' = 0
      /\ UNCHANGED <<env, acc, old, err, msg, bal, fees, gas, prepVars, res, mbr, sent,
                     actionFees, fine, failFine, del, cells, changed, ok, bounced>>
  BY Zenon DEF LoadFails
<1>2. /\ bal \in Money /\ bal.g >= 0 /\ fees \in Int /\ gas \in Int /\ st \in Statuses
      /\ res \in Money /\ mbr \in [g : Nat, x : Nat] /\ failFine \in Nat
      /\ actionFees \in Int /\ cells \in Int
  BY <1>1, FineCovered, Zenon DEF Inv, Typed, Solvent
<1>3. /\ sent = Zero /\ fine = 0 /\ changed = {} /\ del = FALSE /\ ok = FALSE
      /\ bounced = FALSE /\ err = "none"
  BY <1>1, Zenon DEF Inv, Fresh, NoneWrong
<1>4. msg.kind = "int" /\ msg.bounce => Covers(mb, mbr)
  BY <1>1, Zenon DEF Inv, Returnable
<1>5. /\ bal = Minus(bal, Grams(0)) /\ fees = fees + 0 /\ gas + fine >= gas + 0
      /\ Zero \in Money
  BY <1>2, <1>3 DEF Minus, Grams, Money, Zero
<1>6. /\ Frame
      /\ UNCHANGED <<bal, fees, gas, err, st, res, mbr, sent, actionFees, fine, failFine, del,
                     cells, changed, ok, bounced>>
  BY <1>1, Zenon DEF Frame, prepVars
<1>7. Failed(0)
  BY <1>1, <1>2, <1>3, <1>4, <1>5, <1>6, Zeros, Zenon DEF Failed
<1> QED
  BY <1>7, Zeros, FailedInv, Zenon
=============================================================================
