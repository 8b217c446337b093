\* A host thread and a caller, two databases, a refit and a repricing at a time.
SPECIFICATION HostSpec
CONSTANTS
  Threads = {t1, t2}
  Jobs = {jl, jf, j1}
  Loop = jl
  Flusher = jf
  Slots <- RefitSlots
  Stores = {s1, s2}
  Paths = {p1, p2}
  DefaultPath = p1
  None = None
  MaxDrops <- OneDropFirst
  Host = t1
  MaxDetached = 1
  FlushAttempts = 1
  MigratedLoads <- OnlyFalse
  AmbiguousWrite = FALSE
PROPERTIES
  LifecycleReturns
  DropsEventuallyStored
