SPECIFICATION SeamSpec
CONSTANTS
  Works = {"w1", "w2"}
  Concepts = {"a", "b"}
  Premise <- PremiseOf
  MaxQueued = 2
  MaxBatch = 2
  MaxDerived = 2
  MaxResults = 2
  MaxPumps = 1
  StampOf <- StampsOf
  Proposals = {"rp1", "rp2"}
  RuleOf <- RulesOf
  References <- ReferencesOf
  Builtin = {"deduction"}
  Bodied = {"rp1", "rp2"}
  Resolvable = {"rp1", "rp2"}
  MaxContent = 2
  MaxRules = 1
INVARIANT AbsentMeansRefused
\* Works and proposals are finitely many.
CHECK_DEADLOCK FALSE
