\* Crossings, a refill and its recovery beside a rebuild and a restart.
SPECIFICATION SegSpec
CONSTANTS
  Observations <- Stream
  NoPlan = NoPlan
  Tolerance = 1
  Span = 2
  StartSlack = 1
  SampleInterval = 3
  LowPercent = 5
  PercentSlack = 1
  ResetSamples = 3
  RegimeSamples = 2
  MaxEvents = 5
  MaxLate = 1
  Slack = 1
  Gap = 2
  MaxRebuilds = 2
PROPERTIES
  AgreementKept
  OpenedAgrees
CHECK_DEADLOCK FALSE
