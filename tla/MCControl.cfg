SPECIFICATION AllSpec
CONSTANTS
  Keys <- Events
  Cap = 2
  Retention = 1
  HotSize = 1
  Fails = TRUE
  MaxDay = 2
  MaxIndex = 2
  MaxAppends = 3
  RingSize = 2
  DefaultMode = 3
  MaxChanges = 3
  p1 = p1
  p2 = p2
  Pages = {p1, p2}
  Kinds = {"submit", "run", "abort", "retract"}
  NoRun = NoRun
  NoAnswer = NoAnswer
  TimedOut = TimedOut
  Quota <- MCQuota
  MaxSockets = 2
  Viewers = {v1, v2}
  Terms = {a, b}
  Fields = {"contradiction"}
  MaxEdits = 4
  MaxUnderway = 2
  Works = {"w1", "w2"}
  Concepts = {"a", "b"}
  Premise <- PremiseOf
  MaxQueued = 2
  MaxBatch = 2
  MaxDerived = 2
  MaxResults = 2
  MaxPumps = 2
  StampOf <- StampsOf
  Proposals = {"rp1", "rp2"}
  RuleOf <- RulesOf
  References <- ReferencesOf
  Builtin = {"deduction"}
  Bodied = {"rp1", "rp2"}
  Resolvable = {"rp1", "rp2"}
  MaxContent = 1
  MaxRules = 1
INVARIANTS BeyondSandboxWasGranted ChangesWrittenOnce OneLiveRun RunsAnswerTheirAsker MembersFollow LogExplainsState
PROPERTIES ReplayResumesInOrder
\* Pages that have asked all they may have nothing more to do.
CHECK_DEADLOCK FALSE
