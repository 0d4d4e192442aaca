CONSTANTS
  MaxRetries = 1
  MaxDials = 3
  MaxOrders = 3
  MaxJoins = 2
SPECIFICATION IRCSpec
INVARIANT ConnectedHasClient
CHECK_DEADLOCK FALSE
