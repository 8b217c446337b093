\* Failures, crashes and quiesces between any two steps, and the restarts after them.
SPECIFICATION BoundedSpec
CONSTANTS
  Settings = {api, credits}
  Default = api
  Legacy = credits
  None = None
  Cycles <- TwoCycles
  Times <- TwoTimes
  BatchSize = 1
  MaxEvents = 3
  MaxTasks = 1
  MayFail = TRUE
  MayStop = TRUE
  MayCrash = TRUE
CHECK_DEADLOCK FALSE
INVARIANTS
  SavedIsActive
  SamplesAgree
  RollbackRestores
  SucceededTaskReprices
PROPERTIES
  TaskEnds
  MigrationCompletes
