SPECIFICATION LedgerSpec
CONSTANTS
  Keys = {k1, k2}
  Cap = 2
  Retention = 3
  HotSize = 2
  Fails = FALSE
  MaxDay = 1
  MaxIndex = 2
  MaxAppends = 3
INVARIANTS LatestIsDurable
