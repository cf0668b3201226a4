------------------------- MODULE TxEmulationProofs --------------------------
(* Proofs about TxEmulation, for every price table, every set of messages and  *)
(* actions and every global version: the actions that are done, the bounce,    *)
(* the commit, and the theorems.                                               *)
EXTENDS TxPhaseProofs

LEMMA SendFeesTyped ==
  ASSUME NEW a \in Sends
  PROVE  FwdFee(a) \in Nat /\ IHRFee(a) \in Nat /\ ExternalFee(a) \in Nat
<1>1. a.cells \in Nat /\ a.fwd \in Nat /\ a.ihr \in Nat
  BY InputsTyped
<1>2. ComputeForwardFee(a.cells) \in Nat
  BY <1>1, Fees
<1>3. ComputeIHRFee(ComputeForwardFee(a.cells)) \in Nat
  BY <1>2, Fees
<1> QED
  BY <1>1, <1>2, <1>3, Zenon DEF FwdFee, IHRFee, ExternalFee, SelectMessageFee, Greatest

\* What a send takes off the balance is never negative and never more than the
\* balance, and a send of everything takes every gram.
LEMMA DebitSound ==
  ASSUME Inv, pc = "actions", NEW a \in Sends, ~a.ext, ~Outcome(a).refused
  PROVE  /\ Debit(a) \in [g : Nat, x : Nat]
         /\ Covers(rem, Debit(a))
         /\ "all" \in a.mode => Debit(a).g = rem.g /\ (Since(10) \/ Debit(a).x = rem.x)
<1>1. /\ rem \in Money /\ rem.g >= 0 /\ rem.x >= 0
      /\ mbr \in [g : Nat, x : Nat] /\ gas \in Int /\ fine \in Int
  BY Zenon DEF Inv, Typed, Solvent
<1>2. a.g \in Nat /\ a.x \in Nat /\ a.cells \in Nat
  BY InputsTyped
<1>3. ~InternalShort(a) /\ ~InternalFined(a)
  BY Zenon DEF Outcome
<1>4. Covers(rem, Debit(a)) /\ a.cells <= MaxMsgCells /\ ~(Asked(a).g < 0)
  BY <1>2, <1>3, PricesAreNatural DEF InternalShort, InternalFined
<1>5. Asked(a) \in Money /\ Asked(a).x >= 0
  BY <1>1, <1>2 DEF Asked, Money
<1>6. Asked(a).g \in Nat
  BY <1>4, <1>5 DEF Money
<1>7. "all" \in a.mode => Asked(a).g = rem.g /\ (Since(10) \/ Asked(a).x = rem.x)
  BY DEF Asked
<1>8. (IF PaysFees(a) THEN FwdFee(a) + IHRFee(a) ELSE 0) \in Nat
  BY SendFeesTyped
<1>9. "all" \in a.mode => ~PaysFees(a)
  BY DEF PaysFees
<1> QED
  BY <1>4, <1>5, <1>6, <1>7, <1>8, <1>9 DEF Debit, Plus, Grams, Money

LEMMA SendDoneInv ==
  ASSUME Inv, SendDone PROVE Inv'
<1>1. /\ pc = "actions" /\ left > 0 /\ left' = left - 1
      /\ UNCHANGED <<env, acc, old, msg, bal, fees, gas, prepVars, res, fine, changed, endVars>>
  BY Zenon DEF SendDone
<1>2. PICK a \in Sends :
       LET debit == IF a.ext THEN Grams(ExternalFee(a)) ELSE Debit(a)
           collected == IF a.ext THEN ExternalFee(a) ELSE FirstPartForwardFee(FwdFee(a))
           rest == Minus(rem, debit)
           empties == ~a.ext /\ {"all", "delete"} \subseteq a.mode
       IN /\ ~Outcome(a).refused
          /\ Covers(rem, debit)
          /\ rem' = rest
          /\ sent' = Plus(sent, Minus(debit, Grams(collected)))
          /\ actionFees' = actionFees + collected
          /\ failFine' = failFine + LaterFine(a)
          /\ cells' = IF Since(15) THEN cells + a.cells ELSE 0
          /\ mbr' = IF ~a.ext /\ a.mode \cap {"all", "carry"} # {}
                    THEN [g |-> 0, x |-> IF Since(10) THEN mbr.x ELSE 0]
                    ELSE mbr
          /\ IF empties /\ ~Drained(rest)
             THEN pc' = "error" /\ err' = "fatal" /\ UNCHANGED del
             ELSE /\ del' = IF empties THEN Drained(res) ELSE del
                  /\ UNCHANGED <<pc, err>>
  BY Zenon DEF SendDone
<1> DEFINE debit == IF a.ext THEN Grams(ExternalFee(a)) ELSE Debit(a)
           collected == IF a.ext THEN ExternalFee(a) ELSE FirstPartForwardFee(FwdFee(a))
           empties == ~a.ext /\ {"all", "delete"} \subseteq a.mode
<1>3. /\ debit \in [g : Nat, x : Nat] /\ Covers(rem, debit)
      /\ empties => debit.g = rem.g /\ (Since(10) \/ debit.x = rem.x)
  <2>1. CASE a.ext
    BY <1>2, <2>1, SendFeesTyped, Zenon DEF Grams
  <2>2. CASE ~a.ext
    BY <1>1, <1>2, <2>2, DebitSound, Zenon
  <2> QED
    BY <2>1, <2>2, Zenon
<1>4. collected \in Nat
  BY SendFeesTyped, Fees
<1>5. LaterFine(a) \in Nat /\ a.cells \in Nat
  BY <1>1, LaterFineTyped, InputsTyped, Zenon
<1>6. /\ rem' = Minus(rem, debit)
      /\ sent' = Plus(sent, Minus(debit, Grams(collected)))
      /\ actionFees' = actionFees + collected
      /\ failFine' = failFine + LaterFine(a)
      /\ cells' = (IF Since(15) THEN cells + a.cells ELSE 0)
      /\ mbr' \in [g : Nat, x : Nat] /\ Covers(mbr, mbr')
  <2>1. mbr \in [g : Nat, x : Nat]
    BY Zenon DEF Inv, Typed
  <2> QED
    BY <1>2, <2>1 DEF Covers
<1>7. /\ pc' = pc /\ err' = err
      /\ del' = TRUE => del = TRUE \/ (debit.g = rem.g /\ res.g = 0)
  <2>1. rem \in Money
    BY Zenon DEF Inv, Typed
  <2>2. empties => Minus(rem, debit).g = 0 /\ (Since(10) \/ Minus(rem, debit).x = 0)
    BY <1>3, <2>1 DEF Minus, Money
  <2> HIDE DEF debit
  <2> QED
    BY <1>2, <1>3, <2>2, Zenon DEF debit, Drained
<1>71. del' = TRUE \/ del' = FALSE
  <2>1. del = TRUE \/ del = FALSE
    BY <1>1, Zenon DEF Inv, Fresh
  <2> QED
    BY <1>2, <2>1, Zenon DEF Drained
<1> HIDE DEF debit, collected, empties
<1>8. /\ Frame /\ UNCHANGED <<pc, err, st, bal, fees, gas, ok, bounced>>
      /\ UNCHANGED <<res, fine>>
  BY <1>1, <1>7, Zenon DEF Frame, prepVars, endVars
<1>9. /\ rem \in Money /\ res \in [g : Nat, x : Nat] /\ sent \in Money /\ actionFees \in Int
      /\ fine \in Nat /\ failFine \in Nat /\ cells \in Int
      /\ sent.g + actionFees >= fine /\ sent.x >= 0
  BY <1>1 DEF Inv, Typed, Solvent, Money
<1>10. /\ rem' \in [g : Nat, x : Nat] /\ rem'.g = rem.g - debit.g
       /\ sent' \in Money /\ actionFees' \in Int
       /\ Plus(Plus(rem', res), Plus(sent', Grams(actionFees')))
            = Plus(Plus(rem, res), Plus(sent, Grams(actionFees)))
       /\ sent'.g + actionFees' >= fine /\ sent'.x >= 0
  BY <1>3, <1>4, <1>6, <1>9 DEF Money, Plus, Minus, Grams, Covers
<1>11. failFine' \in Nat /\ cells' \in Int
  BY <1>5, <1>6, <1>9
<1>12. del' = TRUE => rem'.g = 0 /\ res.g = 0
  <2>1. del = TRUE => rem.g = 0 /\ res.g = 0
    BY <1>1, Zenon DEF Inv, Emptied
  <2> QED
    BY <1>3, <1>7, <1>9, <1>10, <2>1 DEF Covers, Money
<1>13. Acted
  BY <1>1, <1>6, <1>71, <1>8, <1>9, <1>10, <1>11, <1>12, Zenon DEF Acted
<1> QED
  BY <1>13, ActionInv

\* A reserve moves money between the balance and the reserves, and no more of it
\* than there is.
LEMMA ReserveDoneInv ==
  ASSUME Inv, ReserveDone PROVE Inv'
<1>1. /\ pc = "actions" /\ left > 0 /\ left' = left - 1
      /\ UNCHANGED <<env, acc, old, pc, err, msg, bal, fees, gas, prepVars, mbr, sent,
                     actionFees, fine, failFine, del, cells, changed, endVars>>
  BY Zenon DEF ReserveDone
<1>2. PICK a \in Reserves :
        LET keep == Clamped(a)
            rest == Minus(rem, keep)
            swaps == "allbut" \in a.mode
        IN /\ ~ReserveRefused(a)
           /\ rem' = IF ~swaps THEN rest
                     ELSE IF Since(10) THEN [g |-> keep.g, x |-> rest.x] ELSE keep
           /\ res' = Plus(res, IF ~swaps THEN keep
                               ELSE IF Since(10) THEN [g |-> rest.g, x |-> keep.x] ELSE rest)
  BY Zenon DEF ReserveDone
<1> DEFINE keep == Clamped(a)
<1>3. /\ rem \in Money /\ res \in Money /\ bal \in Money /\ orig \in Money /\ gas \in Int
      /\ mb \in [g : Nat, x : Nat]
      /\ rem.g >= 0 /\ rem.x >= 0 /\ res.g >= 0 /\ res.x >= 0
  BY <1>1, Zenon DEF Inv, Typed, Solvent
<1>4. keep \in [g : Nat, x : Nat] /\ Covers(rem, keep)
  <2>1. OriginalBalance \in Money
    BY <1>3 DEF OriginalBalance, Money, Plus, Minus, Grams
  <2>2. a.g \in Nat /\ a.x \in Nat
    BY InputsTyped
  <2>3. ReserveAsked(a) \in Money
    BY <2>1, <2>2 DEF ReserveAsked, Money, Plus, Minus, Grams
  <2>4. ReserveAsked(a).g >= 0 /\ ReserveAsked(a).x >= 0 /\ Covers(rem, Clamped(a))
    BY <1>2, <2>3 DEF ReserveRefused, Money
  <2>5. ReserveAsked(a) \in [g : Nat, x : Nat]
    BY <2>3, <2>4 DEF Money
  <2> QED
    BY <1>3, <2>4, <2>5 DEF Clamped, Least, Money
<1>5. /\ rem' \in [g : Nat, x : Nat] /\ res' \in [g : Nat, x : Nat]
      /\ Plus(rem', res') = Plus(rem, res)
  <2> HIDE DEF keep
  <2> DEFINE rest == Minus(rem, keep)
  <2>1. rest \in [g : Nat, x : Nat] /\ Plus(rest, keep) = rem
    BY <1>3, <1>4 DEF Money, Minus, Plus, Covers
  <2>2. PICK p \in [g : Nat, x : Nat], q \in [g : Nat, x : Nat] :
          rem' = p /\ res' = Plus(res, q) /\ Plus(p, q) = rem
    <3>1. CASE "allbut" \notin a.mode
      BY <1>2, <1>4, <2>1, <3>1, Zenon DEF keep
    <3>2. CASE "allbut" \in a.mode /\ Since(10)
      <4> DEFINE p == [g |-> keep.g, x |-> rest.x]
                 q == [g |-> rest.g, x |-> keep.x]
      <4>1. rem' = p /\ res' = Plus(res, q)
        BY <1>2, <3>2, Zenon DEF keep
      <4>2. p \in [g : Nat, x : Nat] /\ q \in [g : Nat, x : Nat] /\ Plus(p, q) = rem
        BY <1>4, <2>1 DEF Plus
      <4> QED
        BY <4>1, <4>2, Zenon
    <3>3. CASE "allbut" \in a.mode /\ ~Since(10)
      <4>1. rem' = keep /\ res' = Plus(res, rest)
        BY <1>2, <3>3, Zenon DEF keep
      <4>2. Plus(keep, rest) = rem
        BY <1>4, <2>1 DEF Plus
      <4> QED
        BY <1>4, <2>1, <4>1, <4>2, Zenon
    <3> QED
      BY <3>1, <3>2, <3>3, Zenon
  <2> QED
    BY <1>3, <2>2 DEF Plus, Money
<1> HIDE DEF keep
<1>6. /\ Frame /\ UNCHANGED <<pc, err, st, bal, fees, gas, ok, bounced>>
      /\ UNCHANGED <<mbr, sent, actionFees, fine, failFine, del, cells>>
  BY <1>1, Zenon DEF Frame, prepVars, endVars
<1>7. /\ sent \in Money /\ actionFees \in Int /\ fine \in Nat /\ failFine \in Nat
      /\ cells \in Int /\ mbr \in [g : Nat, x : Nat]
      /\ sent.g + actionFees >= fine /\ sent.x >= 0
  BY <1>1 DEF Inv, Typed, Solvent
<1>8. /\ del = TRUE \/ del = FALSE
      /\ del = TRUE => rem'.g = 0 /\ res'.g = 0
  <2>1. del = TRUE \/ del = FALSE
    BY <1>1, Zenon DEF Inv, Fresh
  <2>2. del = TRUE => rem.g = 0 /\ res.g = 0
    BY <1>1, Zenon DEF Inv, Emptied
  <2>3. rem'.g + res'.g = rem.g + res.g
    BY <1>5, Zenon DEF Plus
  <2> QED
    BY <1>3, <1>5, <2>1, <2>2, <2>3
<1>9. Covers(mbr, mbr)
  BY <1>7 DEF Covers
<1>10. Acted
  BY <1>1, <1>5, <1>6, <1>7, <1>8, <1>9, Zenon DEF Acted
<1> QED
  BY <1>10, ActionInv

LEMMA StateChangeInv ==
  ASSUME Inv, SetCode \/ LibraryDone PROVE Inv'
<1>1. /\ pc = "actions" /\ left > 0 /\ left' = left - 1
      /\ UNCHANGED <<env, acc, old, pc, err, msg, bal, fees, gas, prepVars, rem, res, mbr, sent,
                     actionFees, fine, failFine, del, cells, endVars>>
  BY Zenon DEF SetCode, LibraryDone
<1>2. /\ Frame /\ UNCHANGED <<pc, err, st, bal, fees, gas, ok, bounced>>
      /\ UNCHANGED <<rem, res, mbr, sent, actionFees, fine, failFine, del, cells>>
  BY <1>1, Zenon DEF Frame, prepVars, endVars
<1>3. /\ rem \in [g : Nat, x : Nat] /\ res \in [g : Nat, x : Nat] /\ sent \in Money
      /\ actionFees \in Int /\ fine \in Nat /\ failFine \in Nat
      /\ cells \in Int /\ mbr \in [g : Nat, x : Nat]
      /\ sent.g + actionFees >= fine /\ sent.x >= 0
  BY <1>1 DEF Inv, Typed, Solvent, Money
<1>4. /\ del = TRUE \/ del = FALSE
      /\ del = TRUE => rem.g = 0 /\ res.g = 0
  BY <1>1, Zenon DEF Inv, Fresh, Emptied
<1>5. Covers(mbr, mbr)
  BY <1>3 DEF Covers
<1>6. Acted
  BY <1>1, <1>2, <1>3, <1>4, <1>5, Zenon DEF Acted
<1> QED
  BY <1>6, ActionInv

LEMMA ActionsDoneInv ==
  ASSUME Inv, ActionsDone PROVE Inv'
<1>1. /\ pc = "actions" /\ bal' = Plus(rem, res) /\ fees' = fees + actionFees
      /\ ok' = TRUE /\ pc' = "bounce"
      /\ rem' = Zero /\ res' = Zero /\ actionFees' = 0 /\ failFine' = 0
      /\ cells' = 0 /\ left' = 0
      /\ UNCHANGED <<err, st, gas, mbr, sent, fine, del, bounced>>
  BY Zenon DEF ActionsDone, prepVars
<1>2. Frame
  BY Zenon DEF ActionsDone, Frame, prepVars
<1>3. Typed /\ Ledger /\ Solvent /\ Fresh /\ Emptied /\ NoneWrong
  BY DEF Inv
<1>4. /\ bal \in Money /\ rem \in Money /\ res \in Money /\ sent \in Money
      /\ fees \in Int /\ actionFees \in Int /\ burned \in Int /\ gas \in Int /\ fine \in Int
      /\ st \in Statuses /\ mbr \in [g : Nat, x : Nat]
  BY <1>3, Zenon DEF Typed
<1>5. bal' \in Money /\ fees' \in Int /\ Zero \in Money /\ bal'.g = rem.g + res.g
      /\ bal'.x = rem.x + res.x
  BY <1>1, <1>4 DEF Plus, Money, Zero
<1>6. Typed'
  <2>1. "bounce" \in Phases
    BY DEF Phases
  <2> QED
    BY <1>1, <1>2, <1>3, <1>4, <1>5, <2>1, FrameTyped
<1>7. Solvent'
  <2>1. bal'.g >= 0 /\ bal'.x >= 0 /\ fine >= 0
    BY <1>1, <1>3, <1>4, <1>5 DEF Solvent, Money
  <2> QED
    BY <1>1, <2>1 DEF Solvent
<1>8. Emptied' /\ NoneWrong'
  <2>1. del = TRUE => bal'.g = 0
    BY <1>1, <1>3, <1>5 DEF Emptied
  <2> QED
    BY <1>1, <1>3, <2>1, Zenon DEF Emptied, NoneWrong
<1>9. Fresh'
  BY <1>1, <1>3, Zenon DEF Fresh
<1>10. Ledger'
  <2>1. /\ Plus(old.bal, Value(msg)) = Plus(bal, Grams(fees + burned)) /\ old = acc
        /\ bal = Plus(Plus(rem, res), Plus(sent, Grams(actionFees)))
    BY <1>1, <1>3, Zenon DEF Ledger
  <2>2. Plus(Plus(bal', sent), Grams(fees' + burned)) = Plus(bal, Grams(fees + burned))
    BY <1>1, <1>4, <2>1 DEF Plus, Grams, Money
  <2>3. /\ Value(msg)' = Value(msg) /\ burned' = burned /\ old.bal' = old.bal
        /\ (old = acc)' <=> old = acc
    BY <1>2, <1>3, FrameFacts, Zenon
  <2> QED
    BY <1>1, <2>1, <2>2, <2>3, Zenon DEF Ledger
<1>11. Returnable'
  BY <1>1, Zenon DEF Returnable
<1> QED
  BY <1>6, <1>7, <1>8, <1>9, <1>10, <1>11, Zenon DEF Inv

LEMMA NoBounceInv ==
  ASSUME Inv, NoBounce PROVE Inv'
<1>1. /\ pc = "bounce" /\ pc' = "commit"
      /\ UNCHANGED <<err, st, bal, fees, gas, sent, del, changed, ok, bounced>>
      /\ UNCHANGED <<rem, res, mbr, actionFees, fine, failFine, cells, left>>
  BY Zenon DEF NoBounce, prepVars, actVars, endVars
<1>2. Frame
  BY Zenon DEF NoBounce, Frame, prepVars
<1>3. Typed /\ Ledger /\ Solvent /\ Fresh /\ Emptied /\ NoneWrong
  BY DEF Inv
<1>4. Typed'
  <2>1. /\ st \in Statuses /\ bal \in Money /\ rem \in Money /\ res \in Money
        /\ mbr \in [g : Nat, x : Nat] /\ sent \in Money /\ fees \in Int /\ gas \in Int
        /\ actionFees \in Int /\ fine \in Int /\ failFine \in Int /\ cells \in Int /\ left \in Int
    BY <1>3, Zenon DEF Typed
  <2>2. "commit" \in Phases
    BY DEF Phases
  <2> QED
    BY <1>1, <1>2, <1>3, <2>1, <2>2, FrameTyped, Zenon
<1>5. Solvent' /\ NoneWrong' /\ Emptied'
  BY <1>1, <1>3, Zenon DEF Solvent, NoneWrong, Emptied
<1>6. Fresh'
  BY <1>1, <1>3, Zenon DEF Fresh
<1>7. Ledger'
  <2>1. /\ Value(msg)' = Value(msg) /\ burned' = burned /\ old.bal' = old.bal
        /\ (old = acc)' <=> old = acc
    BY <1>2, <1>3, FrameFacts, Zenon
  <2> QED
    BY <1>1, <1>3, <2>1, Zenon DEF Ledger
<1>8. Returnable'
  <2>1. bounced = FALSE
    BY <1>1, <1>3, Zenon DEF Fresh
  <2> QED
    BY <1>1, <2>1, Zenon DEF Returnable
<1> QED
  BY <1>4, <1>5, <1>6, <1>7, <1>8, Zenon DEF Inv

\* The bounce takes back what is left of the message, which the balance covers.
LEMMA BounceInv ==
  ASSUME Inv, Bounce PROVE Inv'
<1> DEFINE f == FirstPartForwardFee(BounceFee)
<1>1. /\ pc = "bounce" /\ Bounces
      /\ bal' = Minus(bal, BounceBack) /\ fees' = fees + f
      /\ sent' = Minus(BounceBack, Grams(f)) /\ bounced' = TRUE
      /\ pc' = (IF Covers(bal, BounceBack) THEN "commit" ELSE "error")
      /\ err' = (IF Covers(bal, BounceBack) THEN "none" ELSE "debit")
  BY Zenon DEF Bounce
<1>2. /\ Frame
      /\ UNCHANGED <<st, gas, rem, res, mbr, actionFees, fine, failFine, del, cells, left,
                     changed, ok>>
  BY Zenon DEF Bounce, Frame, prepVars
<1>3. Typed /\ Ledger /\ Solvent /\ Fresh /\ Returnable
  BY DEF Inv
<1>4. f \in Nat
  <2>1. BounceCells \in Nat
    BY InputsTyped, Zenon
  <2> QED
    BY <2>1, Fees, Zenon DEF BounceFee
<1> HIDE DEF f
<1>5. /\ msg.kind = "int" /\ msg.bounce /\ ok = FALSE /\ sent = Zero
      /\ changed \subseteq {"libs"} /\ del = FALSE
  <2>1. msg.kind = "int" /\ msg.bounce /\ ok = FALSE
    BY <1>1, <1>3, Zenon DEF Bounces, Fresh
  <2> QED
    BY <1>1, <1>3, <2>1, Zenon DEF Fresh
<1>6. /\ bal \in Money /\ mbr \in [g : Nat, x : Nat] /\ gas \in Int /\ fine \in Int
      /\ fees \in Int /\ burned \in Int /\ paid \in Int
      /\ old.bal \in [g : Nat, x : Nat]
  BY <1>3, Zenon DEF Typed
<1>7. BounceBack \in Money
  BY <1>6 DEF BounceBack, Money, Minus, Grams
<1>8. /\ Covers(bal, BounceBack)
      /\ Covers(Minus(Value(msg), Grams(burned)), mbr) /\ fees <= paid + gas + fine
  BY <1>1, <1>3, <1>5, Zenon DEF Returnable, BounceBack
<1>9. pc' = "commit" /\ err' = "none"
  BY <1>1, <1>8, Zenon
<1>10. /\ Value(msg)' = Value(msg) /\ Value(msg) \in [g : Nat, x : Nat]
       /\ burned' = burned /\ paid' = paid /\ old.bal' = old.bal
       /\ (old = acc)' <=> old = acc
  BY <1>2, <1>3, FrameFacts, Zenon
<1>11. /\ bal' \in Money /\ bal'.g >= 0 /\ bal'.x >= 0 /\ sent' \in Money /\ fees' \in Int
  BY <1>1, <1>4, <1>6, <1>7, <1>8 DEF Money, Minus, Grams, Covers
<1>12. Typed'
  <2>1. /\ st \in Statuses /\ rem \in Money /\ res \in Money /\ actionFees \in Int
        /\ failFine \in Int /\ cells \in Int /\ left \in Int
    BY <1>3, Zenon DEF Typed
  <2>2. "commit" \in Phases
    BY DEF Phases
  <2> QED
    BY <1>2, <1>3, <1>6, <1>9, <1>11, <2>1, <2>2, FrameTyped, Zenon
<1>13. Solvent' /\ NoneWrong' /\ Emptied'
  BY <1>2, <1>5, <1>9, <1>11, Zenon DEF Solvent, NoneWrong, Emptied
<1>14. Fresh'
  BY <1>1, <1>2, <1>5, <1>9, Zenon DEF Fresh
<1>15. Plus(old.bal, Value(msg)) = Plus(Plus(bal, Zero), Grams(fees + burned)) /\ old = acc
  BY <1>1, <1>3, <1>5, Zenon DEF Ledger
<1>16. Ledger'
  <2>1. Plus(Plus(bal', sent'), Grams(fees' + burned)) = Plus(Plus(bal, Zero), Grams(fees + burned))
    BY <1>1, <1>4, <1>6, <1>7 DEF Plus, Minus, Grams, Zero, Money
  <2> QED
    BY <1>9, <1>10, <1>15, <2>1, Zenon DEF Ledger
<1>17. Returnable'
  <2>1. Covers(bal', Minus(old.bal, Grams(paid)))
    <3>1. /\ bal'.g = bal.g - (mbr.g - (gas + fine)) /\ bal'.x = bal.x - mbr.x
      BY <1>1, <1>6 DEF BounceBack, Minus, Grams, Money
    <3>2. /\ old.bal.g + Value(msg).g = bal.g + (fees + burned)
          /\ old.bal.x + Value(msg).x = bal.x
      BY <1>6, <1>15 DEF Plus, Grams, Zero, Money
    <3>3. Value(msg).g - burned >= mbr.g /\ Value(msg).x >= mbr.x
      BY <1>6, <1>8, <1>10 DEF Covers, Minus, Grams
    <3>4. bal'.g >= old.bal.g - paid /\ bal'.x >= old.bal.x
      BY <1>6, <1>8, <1>10, <3>1, <3>2, <3>3 DEF Money
    <3> QED
      BY <1>6, <3>4 DEF Covers, Minus, Grams
  <2> QED
    BY <1>9, <1>10, <2>1, Zenon DEF Returnable
<1> QED
  BY <1>12, <1>13, <1>14, <1>16, <1>17, Zenon DEF Inv

LEMMA BounceNowhereInv ==
  ASSUME Inv, BounceNowhere PROVE Inv'
<1>1. /\ pc' = "error" /\ err' = "dest"
      /\ UNCHANGED <<st, bal, fees, gas, sent, rem, res, mbr, actionFees, fine, failFine, cells, left>>
  BY Zenon DEF BounceNowhere, prepVars, actVars
<1>2. Frame
  BY Zenon DEF BounceNowhere, Frame, prepVars
<1>3. Typed'
  <2>1. /\ st \in Statuses /\ bal \in Money /\ rem \in Money /\ res \in Money
        /\ mbr \in [g : Nat, x : Nat] /\ sent \in Money /\ fees \in Int /\ gas \in Int
        /\ actionFees \in Int /\ fine \in Int /\ failFine \in Int /\ cells \in Int /\ left \in Int
        /\ Typed
    BY Zenon DEF Inv, Typed
  <2>2. "error" \in Phases
    BY DEF Phases
  <2> QED
    BY <1>1, <1>2, <2>1, <2>2, FrameTyped, Zenon
<1>4. Solvent' /\ Ledger' /\ Fresh' /\ Returnable' /\ Emptied' /\ NoneWrong'
  BY <1>1, Zenon DEF Solvent, Ledger, Fresh, Returnable, Emptied, NoneWrong
<1> QED
  BY <1>3, <1>4, Zenon DEF Inv

LEMMA CommitInv ==
  ASSUME Inv, Commit PROVE Inv'
<1>1. PICK s \in {FinalStatus} \cup (IF FinalStatus = "frozen" THEN {"uninit"} ELSE {}) :
        acc' = [status |-> s, bal |-> IF s = "nonexist" THEN Zero ELSE bal, due |-> due]
  BY Zenon DEF Commit
<1>2. /\ pc = "commit" /\ pc' = "done"
      /\ UNCHANGED <<env, old, err, msg, bal, fees, burned, paid, sent, del, changed, ok, bounced>>
  BY Zenon DEF Commit, prepVars, actVars, endVars
<1>3. Typed /\ Ledger /\ Solvent /\ Fresh /\ Returnable /\ Emptied /\ NoneWrong
  BY Zenon DEF Inv
<1>4. st \in Statuses /\ bal \in [g : Nat, x : Nat] /\ due \in Int
  BY <1>2, <1>3 DEF Typed, Solvent, Money
<1>5. s \in Statuses /\ (s = "nonexist" => bal = Zero)
  BY <1>4, Zenon DEF FinalStatus, Statuses
<1>6. acc'.bal = bal /\ acc' \in [status : Statuses, bal : [g : Nat, x : Nat], due : Int]
  BY <1>1, <1>4, <1>5, Zenon
<1>7. Value(msg)' = Value(msg)
  BY <1>2, Zenon DEF Value, Since
<1>8. Typed'
  <2>1. "done" \in Phases
    BY Zenon DEF Phases
  <2>2. /\ UNCHANGED <<env, old, msg, bal, fees, gas, mb, st, due, orig, paid, burned>>
        /\ UNCHANGED <<rem, res, mbr, sent, actionFees, fine, failFine, cells, left>>
    BY Zenon DEF Commit, prepVars, actVars
  <2> QED
    BY <1>2, <1>3, <1>6, <2>1, <2>2, Zenon DEF Typed
<1>9. Solvent' /\ NoneWrong' /\ Emptied'
  BY <1>2, <1>3, <1>6, Zenon DEF Solvent, NoneWrong, Emptied
<1>10. Fresh'
  BY <1>2, <1>3, Zenon DEF Fresh
<1>11. Ledger'
  BY <1>2, <1>3, <1>6, <1>7, Zenon DEF Ledger
<1>12. Returnable'
  BY <1>2, <1>3, <1>6, Zenon DEF Returnable
<1> QED
  BY <1>8, <1>9, <1>10, <1>11, <1>12, Zenon DEF Inv

LEMMA NextInv == Inv /\ [Next]_vars => Inv'
<1>1. ASSUME Inv, Next PROVE Inv'
  BY <1>1, BeginInternalInv, BeginExternalInv, BeginTickTockInv, DropInv, ComputeSkippedInv,
     ComputeFailsInv, ComputeSucceedsInv, LoadFailsInv, SendSkippedInv, SendFailsInv,
     SendDoneInv, ReserveDoneInv, ReserveFailsInv, StateChangeInv, LibraryFailsInv,
     ActionsDoneInv, StateTooLargeInv, NoBounceInv, BounceInv, BounceNowhereInv, CommitInv, Zenon
     DEF Next
<1>2. ASSUME Inv, UNCHANGED vars PROVE Inv'
  <2>1. Typed' /\ NoneWrong'
    BY <1>2, Zenon DEF Inv, vars, Typed, NoneWrong, prepVars, actVars
  <2>2. Solvent' /\ Emptied' /\ Fresh'
    BY <1>2, Zenon DEF Inv, vars, Solvent, Fresh, Emptied, prepVars, actVars, endVars
  <2>3. Value(msg)' = Value(msg)
    BY <1>2, Zenon DEF vars, Value, Since
  <2>4. Ledger'
    BY <1>2, <2>3, Zenon DEF Inv, vars, Ledger, prepVars, actVars
  <2>5. Returnable'
    BY <1>2, <2>3, Zenon DEF Inv, vars, Returnable, prepVars, actVars, endVars
  <2> QED
    BY <2>1, <2>2, <2>4, <2>5, Zenon DEF Inv
<1> QED
  BY <1>1, <1>2

\* The strengthened invariant of the executor is inductive: types, the ledger of the
\* running transaction, solvency, and what each phase of EmulateTransaction may rely on.
THEOREM InvHolds == Spec => []Inv
  BY InitInv, NextInv, PTL DEF Spec

\* Nothing is created and nothing lost by a transaction, for every price table, all
\* messages and lists of actions of any length: the phases of EmulateTransaction and
\* of EmulateTickTockTransaction account for every nanogram and every unit of the
\* extra currency.
THEOREM ConservedHolds == Spec => []Conserved
<1>1. Inv => Conserved
  BY Zenon DEF Inv, Ledger, Conserved
<1> QED
  BY <1>1, InvHolds, PTL

\* The executor never contradicts itself: an account can pay for the gas it bought,
\* a bounce is never larger than the balance, and a send of everything leaves nothing
\* behind, for every price table.
THEOREM NoContradictionHolds == Spec => []NoContradiction
<1>1. Inv => NoContradiction
  BY Zenon DEF Inv, NoneWrong, NoContradiction
<1> QED
  BY <1>1, InvHolds, PTL

-----------------------------------------------------------------------------
(* Since version 14 a bounce returns all there is: the message's value, less gas *)
(* and fines.                                                                    *)

Exact ==
  Since(14) =>
    /\ pc = "actions" /\ left = MaxActions => mbr = mb
    /\ pc = "bounce" /\ msg.kind = "int" /\ msg.bounce /\ ok = FALSE =>
         mbr = Minus(Value(msg), Grams(burned)) /\ fees = paid + gas + fine
    /\ pc = "commit" /\ bounced = TRUE => bal = Minus(old.bal, Grams(paid))
    /\ pc = "done" /\ bounced = TRUE => acc.bal = Minus(old.bal, Grams(paid))

\* A phase that fails: all that was collected is gas and fines.
LEMMA FailedExact ==
  ASSUME Inv, pc \in {"compute", "actions"}, pc' = "bounce", Frame, NEW d \in Int,
         fees' = fees + d, gas' \in Int, fine' \in Int, gas' + fine' = gas + d, mbr' = mb
  PROVE  Exact'
<1>1. /\ Value(msg)' = Value(msg) /\ burned' = burned /\ paid' = paid /\ msg' = msg
  BY FrameFacts, Zenon DEF Inv
<1>2. fees \in Int /\ paid \in Int /\ gas \in Int
  BY Zenon DEF Inv, Typed
<1>3. ASSUME msg.kind = "int", msg.bounce
      PROVE  mbr' = Minus(Value(msg), Grams(burned)) /\ fees' = paid + gas' + fine'
  <2>1. mb = Minus(Value(msg), Grams(burned)) /\ fees = paid + gas
    BY <1>3, Zenon DEF Inv, Returnable
  <2>2. paid + gas' + fine' = paid + (gas' + fine')
    BY <1>2
  <2>3. paid + (gas + d) = (paid + gas) + d
    BY <1>2
  <2> QED
    BY <2>1, <2>2, <2>3, Zenon
<1> QED
  BY <1>1, <1>3, Zenon DEF Exact

LEMMA FailActionsExact ==
  ASSUME Inv, pc = "actions", Since(14), NEW f \in Nat, NEW ff \in Nat, NEW b, NEW limits,
         FailActions(f, ff, b, limits)
  PROVE  Exact'
<1> DEFINE total == IF Since(15) THEN Least(f + ff, bal.g) ELSE f
<1>1. bal.g \in Int /\ gas \in Int
  BY DEF Inv, Typed, Money
<1>2. total \in Int
  BY <1>1 DEF Least
<1>3. /\ fine' = total /\ fees' = fees + total /\ mbr' = mb /\ gas' = gas /\ pc' = "bounce"
      /\ UNCHANGED <<env, acc, old, msg, prepVars>>
  BY DEF FailActions
<1> HIDE DEF total
<1>4. Frame /\ gas' + fine' = gas + total
  BY <1>3 DEF Frame, prepVars
<1> QED
  BY <1>1, <1>2, <1>3, <1>4, FailedExact

LEMMA ComputeExact ==
  ASSUME Inv, ComputeSkipped \/ ComputeFails PROVE Exact'
<1>1. CASE ComputeSkipped
  <2>1. /\ pc = "compute" /\ pc' = "bounce" /\ Frame /\ fees' = fees /\ gas' = gas
        /\ fine' = fine /\ mbr' = mbr
    BY <1>1, Zenon DEF ComputeSkipped, Frame, prepVars, actVars
  <2>2. fine = 0 /\ mbr = mb /\ gas \in Int /\ fees \in Int
    BY <2>1, Zenon DEF Inv, Typed, Fresh
  <2>3. fees' = fees + 0 /\ gas' + fine' = gas + 0 /\ gas' \in Int /\ fine' \in Int
    BY <2>1, <2>2
  <2> QED
    BY <2>1, <2>2, <2>3, FailedExact
<1>2. CASE ComputeFails
  <2>1. PICK used \in 0..GasMax : Computed(GasFees(used))
    BY <1>2, Zenon DEF ComputeFails
  <2> DEFINE f == GasFees(used)
  <2>2. f \in Int
    BY GasFeesTyped
  <2>3. f <= bal.g
    BY <2>1, GasCovered, Zenon DEF Computed
  <2> HIDE DEF f
  <2>4. /\ pc = "compute" /\ gas' = f /\ fees' = fees + f /\ bal'.g = bal.g - f
        /\ UNCHANGED <<env, acc, old, msg, mb, due, orig, paid, burned>>
    BY <2>1, <2>2, ComputedFacts, Zenon DEF f
  <2>5. ~(bal'.g < 0)
    <3>1. bal.g \in Int
      BY DEF Inv, Typed, Money
    <3> QED
      BY <2>2, <2>3, <2>4, <3>1
  <2>6. pc' = "bounce" /\ fine' = fine /\ mbr' = mbr
    BY <1>2, <2>5, Zenon DEF ComputeFails, actVars
  <2>7. fine = 0 /\ mbr = mb /\ gas = 0
    BY <2>4, Zenon DEF Inv, Fresh
  <2>8. gas' + fine' = gas + f /\ gas' \in Int /\ fine' \in Int /\ Frame
    BY <2>2, <2>4, <2>6, <2>7 DEF Frame
  <2> QED
    BY <2>2, <2>4, <2>6, <2>7, <2>8, FailedExact
<1> QED
  BY <1>1, <1>2

LEMMA ComputeSucceedsExact ==
  ASSUME Inv, ComputeSucceeds PROVE Exact'
<1>1. pc = "compute" /\ mb' = mb /\ mbr' = mbr
  BY Zenon DEF ComputeSucceeds, Computed
<1>2. mbr = mb /\ pc' \in {"actions", "error"}
  BY <1>1, Zenon DEF Inv, Fresh, ComputeSucceeds
<1> QED
  BY <1>1, <1>2, Zenon DEF Exact

LEMMA ListExact ==
  ASSUME Inv, Exact, Since(14), SendFails \/ ReserveFails \/ LibraryFails \/ StateTooLarge \/ LoadFails
  PROVE  Exact'
<1>0. pc = "actions" /\ gas \in Int /\ fees \in Int
  BY Zenon DEF Inv, Typed, SendFails, ReserveFails, LibraryFails, StateTooLarge, LoadFails
<1>1. fine \in Nat /\ failFine \in Nat
  BY <1>0, FineCovered, Zenon
<1>2. CASE SendFails
  <2>1. PICK a \in Sends, limits \in BOOLEAN :
          FailActions(fine + FineTaken(a), failFine, "bounce" \in a.mode /\ Since(4), limits)
    BY <1>2, Zenon DEF SendFails
  <2>2. fine + FineTaken(a) \in Nat
    <3>1. FineTaken(a) \in Nat
      BY <1>0, FineTakenBound, Zenon
    <3> QED
      BY <1>1, <3>1
  <2> QED
    BY <1>0, <1>1, <2>1, <2>2, FailActionsExact, Zenon
<1>3. CASE ReserveFails
  BY <1>0, <1>1, <1>3, FailActionsExact, Zenon DEF ReserveFails
<1>4. CASE LibraryFails
  BY <1>0, <1>1, <1>4, FailActionsExact, Zenon DEF LibraryFails
<1>5. CASE StateTooLarge
  <2>1. Since(10)
    <3>1. env.version \in Int
      BY InputsTyped DEF Inv, Typed
    <3> QED
      BY <3>1 DEF Since
  <2> QED
    BY <1>0, <1>1, <1>5, <2>1, FailActionsExact, Zenon DEF StateTooLarge
<1>6. CASE LoadFails
  <2>1. /\ left = MaxActions /\ pc' = "bounce" /\ Frame /\ fees' = fees /\ gas' = gas
        /\ fine' = fine /\ mbr' = mbr
    BY <1>6, Zenon DEF LoadFails, Frame, prepVars
  <2>2. fine = 0 /\ mbr = mb
    BY <1>0, <2>1, Zenon DEF Inv, Fresh, Exact
  <2>3. fees' = fees + 0 /\ gas' + fine' = gas + 0 /\ gas' \in Int /\ fine' \in Int
    BY <1>0, <2>1, <2>2
  <2> QED
    BY <1>0, <2>1, <2>2, <2>3, FailedExact
<1> QED
  BY <1>2, <1>3, <1>4, <1>5, <1>6

LEMMA BounceExact ==
  ASSUME Inv, Exact, Since(14), Bounce PROVE Exact'
<1>1. /\ pc = "bounce" /\ Bounces /\ bal' = Minus(bal, BounceBack)
      /\ old' = old /\ paid' = paid /\ pc' \in {"commit", "error"}
  BY Zenon DEF Bounce, prepVars
<1>2. msg.kind = "int" /\ msg.bounce /\ ok = FALSE /\ bounced = FALSE
  BY <1>1, Zenon DEF Inv, Fresh, Bounces
<1>3. mbr = Minus(Value(msg), Grams(burned)) /\ fees = paid + gas + fine
  BY <1>1, <1>2, Zenon DEF Exact
<1>4. Plus(old.bal, Value(msg)) = Plus(Plus(bal, Zero), Grams(fees + burned))
  <2>1. sent = Zero
    BY <1>1, <1>2, Zenon DEF Inv, Fresh
  <2> QED
    BY <1>1, <2>1, Zenon DEF Inv, Ledger
<1>5. /\ bal \in Money /\ gas \in Int /\ fine \in Int /\ burned \in Int /\ paid \in Int
      /\ old.bal \in [g : Nat, x : Nat] /\ mbr \in [g : Nat, x : Nat]
      /\ msg \in Messages \cup {[kind |-> "none"]}
  BY Zenon DEF Inv, Typed
<1>6. Value(msg) \in [g : Nat, x : Nat]
  BY <1>5, ValueTyped
<1>7. bal' = Minus(old.bal, Grams(paid))
  <2>1. /\ old.bal.g + Value(msg).g = bal.g + (fees + burned)
        /\ old.bal.x + Value(msg).x = bal.x
    BY <1>4, <1>5, <1>6 DEF Plus, Grams, Zero, Money
  <2>2. /\ mbr.g = Value(msg).g - burned /\ mbr.x = Value(msg).x
    BY <1>3, <1>5, <1>6 DEF Minus, Grams
  <2>3. bal' = [g |-> bal.g - (mbr.g - (gas + fine)), x |-> bal.x - mbr.x]
    BY <1>1, <1>5 DEF BounceBack, Minus, Grams, Money
  <2>4. bal.g - (mbr.g - (gas + fine)) = old.bal.g - paid /\ bal.x - mbr.x = old.bal.x
    BY <1>3, <1>5, <1>6, <2>1, <2>2 DEF Money
  <2> QED
    BY <1>5, <2>3, <2>4 DEF Minus, Grams
<1> QED
  BY <1>1, <1>7, Zenon DEF Exact

LEMMA CommitExact ==
  ASSUME Inv, Exact, Since(14), Commit PROVE Exact'
<1>1. PICK s \in {FinalStatus} \cup (IF FinalStatus = "frozen" THEN {"uninit"} ELSE {}) :
        acc' = [status |-> s, bal |-> IF s = "nonexist" THEN Zero ELSE bal, due |-> due]
  BY Zenon DEF Commit
<1>2. s = "nonexist" => bal = Zero
  BY Zenon DEF FinalStatus
<1>3. acc'.bal = bal
  BY <1>1, <1>2, Zenon
<1>4. pc = "commit" /\ pc' = "done" /\ old' = old /\ paid' = paid /\ bounced' = bounced
  BY Zenon DEF Commit, prepVars, endVars
<1> QED
  BY <1>3, <1>4, Zenon DEF Exact

\* The steps inside a list of actions.
LEMMA ActingExact ==
  ASSUME Inv, SendSkipped \/ SendDone \/ ReserveDone \/ SetCode \/ LibraryDone PROVE Exact'
<1>1. pc = "actions" /\ left' = left - 1 /\ pc' \in {"actions", "error"}
  <2>1. CASE SendDone
    BY <2>1, Zenon DEF SendDone
  <2>2. CASE SendSkipped \/ ReserveDone \/ SetCode \/ LibraryDone
    BY <2>2, Zenon DEF SendSkipped, ReserveDone, SetCode, LibraryDone
  <2> QED
    BY <2>1, <2>2
<1>2. left \in Int /\ left <= MaxActions /\ MaxActions \in Int
  BY <1>1, InputsTyped DEF Inv, Typed, Fresh
<1>3. left' # MaxActions
  BY <1>1, <1>2
<1> QED
  BY <1>1, <1>3, Zenon DEF Exact

LEMMA BeginFacts ==
  ASSUME BeginInternal \/ BeginExternal \/ BeginTickTock
  PROVE  env' = env /\ pc' = "compute"
<1>1. ASSUME NEW m, NEW r, NEW b, NEW value, NEW import, NEW burn,
             Prepare(m, r, b, value, import, burn)
      PROVE  env' = env /\ pc' = "compute"
  BY <1>1, Zenon DEF Prepare
<1>2. CASE BeginInternal
  BY <1>1, <1>2, Zenon DEF BeginInternal
<1>3. CASE BeginExternal
  BY <1>1, <1>3, Zenon DEF BeginExternal
<1>4. CASE BeginTickTock
  BY <1>1, <1>4, Zenon DEF BeginTickTock
<1> QED
  BY <1>2, <1>3, <1>4

LEMMA NextExact == Inv /\ Exact /\ [Next]_vars => Exact'
<1>1. ASSUME Inv, Exact, Next PROVE Exact'
  <2>1. Since(14)' <=> Since(14)
    <3>1. env' = env
      <4>1. BeginInternal \/ BeginExternal \/ BeginTickTock => env' = env
        BY BeginFacts, Zenon
      <4>3. Drop \/ ComputeSkipped \/ ComputeFails \/ ComputeSucceeds => env' = env
        BY Zenon DEF Drop, ComputeSkipped, ComputeFails, ComputeSucceeds, Computed
      <4>4. LoadFails \/ SendFails \/ ReserveFails \/ LibraryFails \/ StateTooLarge => env' = env
        BY Zenon DEF LoadFails, SendFails, ReserveFails, LibraryFails, StateTooLarge, FailActions
      <4>5. SendSkipped \/ SendDone \/ ReserveDone \/ SetCode \/ LibraryDone => env' = env
        BY Zenon DEF SendSkipped, SendDone, ReserveDone, SetCode, LibraryDone
      <4>6. ActionsDone \/ NoBounce \/ Bounce \/ BounceNowhere \/ Commit => env' = env
        BY Zenon DEF ActionsDone, NoBounce, Bounce, BounceNowhere, Commit
      <4> QED
        BY <1>1, <4>1, <4>3, <4>4, <4>5, <4>6, Zenon DEF Next
    <3> QED
      BY <3>1, Zenon DEF Since
  <2>2. SUFFICES ASSUME Since(14) PROVE Exact'
    BY <2>1, Zenon DEF Exact
  <2>3. CASE BeginInternal \/ BeginExternal \/ BeginTickTock \/ Drop \/ BounceNowhere
    <3>1. pc' \in {"compute", "idle", "error"}
      <4>1. Drop \/ BounceNowhere => pc' \in {"idle", "error"}
        BY Zenon DEF Drop, BounceNowhere
      <4> QED
        BY <2>3, <4>1, BeginFacts, Zenon
    <3> QED
      BY <3>1, Zenon DEF Exact
  <2>4. CASE ActionsDone
    BY <2>4, Zenon DEF ActionsDone, Exact
  <2>5. CASE NoBounce
    <3>1. pc' = "commit" /\ bounced' = FALSE
      BY <1>1, <2>5, Zenon DEF NoBounce, endVars, Inv, Fresh
    <3> QED
      BY <3>1, Zenon DEF Exact
  <2> QED
    BY <1>1, <2>2, <2>3, <2>4, <2>5, ComputeExact, ComputeSucceedsExact, ListExact, ActingExact,
       BounceExact, CommitExact, Zenon DEF Next
<1>2. ASSUME Exact, UNCHANGED vars PROVE Exact'
  <2>1. Value(msg)' = Value(msg) /\ (Since(14)' <=> Since(14))
    BY <1>2, Zenon DEF vars, Value, Since
  <2> QED
    BY <1>2, <2>1, Zenon DEF vars, Exact, prepVars, actVars, endVars
<1> QED
  BY <1>1, <1>2

\* A bounced message costs its receiver nothing but rent, and since version 14 it
\* leaves the receiver nothing: transactionPrepareBouncePhase returns what the message
\* brought, less the gas and the fines of the phases before.
THEOREM BounceIsFreeHolds == Spec => []BounceIsFree
<1>1. Init => Exact
  BY Zenon DEF Init, Exact
<1>2. Inv /\ Exact => BounceIsFree
  BY Zenon DEF Inv, Fresh, Returnable, Exact, BounceIsFree
<1> QED
  BY <1>1, <1>2, NextExact, InvHolds, PTL DEF Spec

\* A list of actions is all or nothing, and what a bounce returns is what is left of
\* the message.
THEOREM AllOrNothingHolds == Spec => []AllOrNothing
<1>1. Inv /\ BounceIsFree => AllOrNothing
  BY Zenon DEF Inv, Fresh, AllOrNothing
<1> QED
  BY <1>1, InvHolds, BounceIsFreeHolds, PTL

\* Only an account without grams is destroyed by its actions.
THEOREM DestroyedEmptyHolds == Spec => []DestroyedEmpty
<1>1. Inv => DestroyedEmpty
  BY Zenon DEF Inv, Fresh, Emptied, DestroyedEmpty
<1> QED
  BY <1>1, InvHolds, PTL
=============================================================================
