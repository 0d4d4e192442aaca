SPECIFICATION Spec
CONSTANTS
  Items = {a, b, c, d, e}
  Capacity = 4
  MaxPriority = 3
  KeepRates = {2, 3}
  ForgetRate = 1
  MaxVersion = 6
SYMMETRY ItemSymmetry
INVARIANT FreshTreeIsFaithful
