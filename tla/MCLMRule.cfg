SPECIFICATION RuleSpec
CONSTANTS
  FailureThreshold = 2
  SuccessThreshold = 2
  Appliers = {a1, a2}
PROPERTY RuleSelfHeals
CHECK_DEADLOCK FALSE
