\* A host thread against the publication of a migrated store.
SPECIFICATION Spec
CONSTANTS
  Threads = {t1, t2}
  Jobs = {jl, jf, j1}
  Loop = jl
  Flusher = jf
  Slots <- SharedSlots
  Host = t1
  Stores = {s1, s2}
  Paths = {p1, p2}
  DefaultPath = p1
  None = None
  MaxDrops <- OneDropEach
  MaxDetached = 1
  FlushAttempts = 2
  MigratedLoads = {TRUE, FALSE}
  AmbiguousWrite = FALSE
SYMMETRY Symmetry
INVARIANTS
  ReconfigureRestartsWorkers
