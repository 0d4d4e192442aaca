SPECIFICATION UtilSpec
CONSTANTS
  Items = {a, b, c, d, e}
  Capacity = 4
  MaxPriority = 3
  KeepRates = {2, 3}
  ForgetRate = 1
  MaxVersion = 5
  Keys = {k1, k2}
  Cap = 2
  Retention = 1
  HotSize = 2
  Fails = TRUE
  MaxDay = 3
  MaxIndex = 2
  MaxAppends = 3
SYMMETRY UtilSymmetry
INVARIANTS Sorted TotalMatches RebuildIsFaithful OrderedUntilOverflow NeverTwice ClearedIsGone
PROPERTIES RetentionIsHonoured
