\* A session that starts while the refit of the one before it runs.
SPECIFICATION Spec
CONSTANTS
  MaxCalls = 1
  Requests <- EveryKind
  Models = {m1, m2}
  NoModel = NoModel
  Full = 1
  Target = 1
  MaxEvents = 2
  MaxCycles = 1
  MaxSessions = 2
INVARIANTS
  AfterIsOfTarget
CHECK_DEADLOCK FALSE
