\* Two host threads, two databases, three goroutines, one drop per database.
SPECIFICATION Spec
CONSTANTS
  Threads = {t1, t2}
  Jobs = {jl, jf, j1}
  Loop = jl
  Flusher = jf
  Slots <- SharedSlots
  Host = t1
  Stores = {s1, s2}
  Paths = {p1, p2}
  DefaultPath = p1
  None = None
  MaxDrops <- OneDropEach
  MaxDetached = 1
  FlushAttempts = 2
  MigratedLoads <- OnlyTrue
  AmbiguousWrite = TRUE
SYMMETRY Symmetry
INVARIANTS
  StoreSafety
  OneStorePerPath
  DrainedBeforeClose
  DropsReachTheirDatabase
PROPERTIES
  ImplementsLedger
