CONSTANTS
  Histories <- Fresh
  PageSize = 3
  MaxLag = 0
  MaxForeign = 1
  MaxLength = 0
SPECIFICATION Spec
INVARIANTS ScanEndsAtOffset
CHECK_DEADLOCK FALSE
