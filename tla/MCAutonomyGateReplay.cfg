SPECIFICATION GateSpec
CONSTANTS
  Keys <- Events
  Cap = 2
  Retention = 3
  HotSize = 1
  Fails = FALSE
  MaxDay = 1
  MaxIndex = 2
  MaxAppends = 3
  RingSize = 2
  DefaultMode = 3
  MaxChanges = 3
PROPERTIES ReplayResumesTheLog
