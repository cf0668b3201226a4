CONSTANTS
  PageSize = 2
  MaxLength = 6
  Histories <- KnownAccounts
  MaxLag = 1
  MaxForeign = 4
  KeyBits = 3
  Values = {1, 2}
  MaxItems = 3
  Batches = 2
  BatchValues = {2}
  Loaded <- LoadedSet
SPECIFICATION AccountsSpec
INVARIANTS InOrder NoGap NothingPassedOver Represents Canonical
PROPERTIES AllReceived Confirmed DiffExact
CHECK_DEADLOCK FALSE
