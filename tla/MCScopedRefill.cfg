\* An early reset in the first cycle of a scope.
SPECIFICATION Spec
CONSTANTS
  Observations <- Refill
  NoPlan = NoPlan
  Tolerance = 300
  Span = 60
  StartSlack = 60
  LowPercent = 5
  PercentSlack = 1
  ResetSamples = 3
  Times = {0}
  MaxEvents = 5
  MaxLate = 1
INVARIANT EarlyResetKeepsSchedule
CHECK_DEADLOCK FALSE
