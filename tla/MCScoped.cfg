\* Resets, corrections and refills of a scope, and the months over them.
SPECIFICATION Spec
CONSTANTS
  Observations <- Spark
  NoPlan = NoPlan
  Tolerance = 1
  Span = 2
  StartSlack = 1
  LowPercent = 5
  PercentSlack = 1
  ResetSamples = 3
  Times <- Reports
  MaxEvents = 8
  MaxLate = 1
INVARIANTS
  CyclesDisjoint
  ResetsConfirmed
  MonthsAddUp
CHECK_DEADLOCK FALSE
