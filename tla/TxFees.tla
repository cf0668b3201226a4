------------------------------- MODULE TxFees -------------------------------
(* The prices of the transaction executor (tvm/transaction_fees.go,            *)
(* tlb/config_prices.go).  A price counts 1/65536 of a nanogram: a product is   *)
(* shifted right by 16, rounded up where the account pays and down where the   *)
(* account buys.                                                               *)
EXTENDS Integers

CONSTANTS
  GasPrice, FlatGasLimit, FlatGasPrice, GasLimit, SpecialGasLimit, GasCredit,
  LumpPrice, CellPrice,    \* ConfigMsgForwardPrices; the price of bits is left out
  FirstFrac, IHRFactor,
  MaxMsgCells              \* sizeLimits.maxMsgCells

ASSUME PricesAreNatural ==
  /\ GasPrice \in Nat /\ FlatGasLimit \in Nat /\ FlatGasPrice \in Nat
  /\ GasLimit \in Nat /\ SpecialGasLimit \in Nat /\ GasCredit \in Nat
  /\ LumpPrice \in Nat /\ CellPrice \in Nat /\ FirstFrac \in Nat
  /\ IHRFactor \in Nat /\ MaxMsgCells \in Nat

Least(a, b) == IF a <= b THEN a ELSE b
Greatest(a, b) == IF a <= b THEN b ELSE a
Rsh16(n) == n \div 65536
CeilShr16(n) == (n + 65535) \div 65536

ComputeGasPrice(used) ==
  IF used <= FlatGasLimit
  THEN FlatGasPrice
  ELSE CeilShr16(GasPrice * (used - FlatGasLimit)) + FlatGasPrice

\* What the whole limit costs.
MaxGasThreshold ==
  IF GasLimit <= FlatGasLimit
  THEN FlatGasPrice
  ELSE CeilShr16(GasPrice * (GasLimit - FlatGasLimit)) + FlatGasPrice

\* A mutation: the quotient is rounded up.
GasBoughtUp(nanograms) ==
  CASE MaxGasThreshold <= nanograms -> GasLimit
    [] MaxGasThreshold > nanograms /\ nanograms < FlatGasPrice -> 0
    [] OTHER -> IF GasPrice = 0
                THEN GasLimit
                ELSE Least(GasLimit, FlatGasLimit
                             + ((nanograms - FlatGasPrice) * 65536 + GasPrice - 1) \div GasPrice)

\* transactionGasBoughtForLimit: the gas an amount pays for.
GasBoughtFor(nanograms) ==
  CASE MaxGasThreshold <= nanograms -> GasLimit
    [] MaxGasThreshold > nanograms /\ nanograms < FlatGasPrice -> 0
    [] OTHER -> IF GasPrice = 0
                THEN GasLimit
                ELSE Least(GasLimit, FlatGasLimit
                             + ((nanograms - FlatGasPrice) * 65536) \div GasPrice)

ComputeForwardFee(cells) == CeilShr16(CellPrice * cells) + LumpPrice
ComputeIHRFee(fwdFee) == Rsh16(IHRFactor * fwdFee)

\* The part of a forward fee this transaction collects; the rest travels with
\* the message.
FirstPartForwardFee(fwdFee) == Rsh16(FirstFrac * fwdFee)

\* transactionSelectComputedMessageFee: a suggestion only raises a fee.
SelectMessageFee(computed, suggested) == Greatest(computed, suggested)

FinePerCell == Rsh16(CellPrice) \div 4

\* The fine for a message that cannot be sent, by what funds can pay for.
FineCells(funds) ==
  IF FinePerCell > 0 /\ funds < MaxMsgCells * FinePerCell
  THEN funds \div FinePerCell
  ELSE MaxMsgCells
LimitedByFunds(funds) == FinePerCell > 0 /\ funds < MaxMsgCells * FinePerCell
ActionFine(cells, funds) == FinePerCell * Least(cells, FineCells(funds))
=============================================================================
