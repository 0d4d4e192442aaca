SPECIFICATION AgentSpec
CONSTANTS
  Items = {a, b, c}
  Capacity = 2
  MaxPriority = 3
  KeepRates = {1, 2}
  ForgetRate = 1
  MaxVersion = 6
  Dims <- TwoDims
  Declared <- TwoScopes
  Spends <- SpendsOf
  Ceiling <- CeilingOf
  Judged = "decision-derivations"
  Focuses = {focus}
  RootLimits <- RootLimitsOf
  CycleLimits = {0, 1}
  Costs = {1, 2}
  MaxLimit = 2
  Threads = {t1, t2}
  Dimensions <- ThreadDims
  Requests <- SomeRequests
  RootMaxima <- RootMaximaOf
  MailboxCapacity = 1
  MaxThreads = 2
  LimitBound = 3
  Drivers = {d1, d2}
  Inputs = {"belief", "operation"}
  ToolGoals = {"operation"}
  Interval = 2
  RingCap = 2
  SweepEvery = 1
  WindowMax = 1
  MaxRun = 2
  MaxBegun = 3
  MaxRestores = 2
SYMMETRY AgentSymmetry
INVARIANTS NoDuplicates IndexCoversMemory PerCycleBound HardInheritance SteppingIsStepping PauseOutlivesSteps TasksAreInOnePlace OnlyLateGoalsAreRemembered WindowHeld
