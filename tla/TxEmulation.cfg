SPECIFICATION Spec
CONSTANTS
  GasPrice = 98304
  FlatGasLimit = 1
  FlatGasPrice = 1
  GasLimit = 3
  SpecialGasLimit = 2
  GasCredit = 2
  LumpPrice = 1
  CellPrice = 262144
  FirstFrac = 21845
  IHRFactor = 32768
  MaxMsgCells = 2
  Configs <- ConfigSet
  Messages <- MessageSet
  Sends <- SendSet
  Reserves <- ReserveSet
  StorageFees = {0, 5}
  FreezeDue = 1
  DeleteDue = 2
  MaxTotalCells = 2
  BounceCells = 0
  MaxActions = 3
  MaxBalance = 12
  MaxExtra = 1
  MaxDue = 8
INVARIANTS Conserved NoContradiction AllOrNothing
CHECK_DEADLOCK FALSE
