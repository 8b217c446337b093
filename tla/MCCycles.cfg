\* Two stories of a year, in every order that one overtaken request allows.
SPECIFICATION YearSpec
CONSTANTS
  Observations <- Year
  NoPlan = NoPlan
  Tolerance = 1
  Span = 2
  StartSlack = 1
  SampleInterval = 3
  LowPercent = 5
  PercentSlack = 1
  ResetSamples = 3
  RegimeSamples = 2
  MaxEvents = 6
  MaxLate = 1
  Times = {5, 9, 22, 25}
INVARIANTS
  TypeOK
  OneOpenCycle
  StatsAgree
  TotalsStayInCycle
  CyclesInOrder
  OrderedResetsFollowObservations
  MonthsAddUp
PROPERTIES
  ResetsConfirmed
  RecoveriesConfirmed
CHECK_DEADLOCK FALSE
