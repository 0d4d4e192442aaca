CONSTANTS
  p1 = p1
  p2 = p2
  Pages = {p1, p2}
  Kinds = {"submit", "run", "abort", "retract"}
  NoRun = NoRun
  NoAnswer = NoAnswer
  TimedOut = TimedOut
  Quota <- MCQuota
  MaxSockets = 2
SPECIFICATION ControlSpec
INVARIANT AnswersGoHome
CHECK_DEADLOCK FALSE
