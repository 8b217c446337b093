\* Two syncs, a fit, a request and a restart around two tasks that may fail.
SPECIFICATION Spec
CONSTANTS
  Syncers = {background}
  Fitters = {refit}
  Recorders = {host}
  Requests = {a}
  MaxSyncs = 2
  MaxFits = 1
  MaxTasks = 2
  MaxTries = 1
  MaxRestarts = 1
SYMMETRY Symmetry
INVARIANTS
  TypeOK
  StoredOnce
  RequestsAccounted
  HistoryFollowsCatalog
  PricedFitIsInHistory
  FitSurvivesRollback
CHECK_DEADLOCK FALSE
