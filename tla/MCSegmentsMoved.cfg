\* A refill that is confirmed after its first crossing.
SPECIFICATION SegSpec
CONSTANTS
  Observations <- Refill
  NoPlan = NoPlan
  Tolerance = 300
  Span = 60
  StartSlack = 60
  SampleInterval = 300
  LowPercent = 5
  PercentSlack = 1
  ResetSamples = 3
  RegimeSamples = 2
  MaxEvents = 6
  MaxLate = 0
  Slack = 120
  Gap = 7200
  MaxRebuilds = 1
INVARIANT RowsStayInCycle
CHECK_DEADLOCK FALSE
