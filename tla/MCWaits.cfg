SPECIFICATION WaitSpec
CONSTANTS
  Types = {belief, tool}
  Consumers = {c1}
  MaxEvents = 3
  Replays = TRUE
  Requests = {r1, r2, r3}
  Keys <- LaneKeys
  Jobs <- LaneJobs
  LaneOf <- LaneOfJob
  NoJob = NoJob
  MaxRetries = 1
  MaxDials = 3
  MaxOrders = 3
  MaxJoins = 1
  MaxAttempts = 2
  MaxPending = 2
  MaxMessages = 4
  MaxCalls = 3
  MaxStale = 2
  Works <- FourWorks
  Concepts = {"a", "b"}
  Premise <- PremiseOf
  MaxQueued = 3
  MaxBatch = 2
  MaxDerived = 2
  MaxResults = 1
  MaxPumps = 2
INVARIANTS NothingMissed NoLostWakeup PendingIsAwaited SentInOrder DisconnectSticks PairsUntilTrimmed
PROPERTIES LogIsAFeed EventuallyHeard EventuallyDecided LanesAreSerial LanesAreForgotten DialsSettle Settles ServedBelowPressure
\* A closed in-memory log whose consumers have left has nothing more to do, nor
\* has a connection whose owner stopped calling.
CHECK_DEADLOCK FALSE
