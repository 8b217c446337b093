\* Two sessions, three cycles, events of every kind, two threads.
SPECIFICATION FairSpec
CONSTANTS
  MaxCalls = 2
  Requests <- EveryKind
  Models = {m1}
  NoModel = NoModel
  Full = 2
  Target = 1
  MaxEvents = 3
  MaxCycles = 2
  MaxSessions = 2
INVARIANTS
  SpansAreCounted
  OneCycleMeasured
  ConsumptionShared
  ClaimedOnce
PROPERTIES
  RefitEnds
CHECK_DEADLOCK FALSE
