SPECIFICATION LMSpec
CONSTANTS
  FailureThreshold = 2
  SuccessThreshold = 2
  Callers = {c1, c2, c3}
  Tasks <- OneTask
  Models <- OneModel
  Providers <- OneProvider
  Tracked = {}
  Named <- NamedOf
  Serves <- ServesOf
  Chains <- ChainsOf
  Registries <- RegistriesOf
  Idle = Idle
INVARIANTS CacheAgrees
PROPERTIES TripsAreEarned OpenHeals
CHECK_DEADLOCK FALSE
