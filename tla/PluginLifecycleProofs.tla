------------------------ MODULE PluginLifecycleProofs ------------------------
(***************************************************************************)
(* Theorems about PluginLifecycle, for any number of host threads,         *)
(* goroutines, databases and dropped events.                               *)
(*                                                                         *)
(* The safety properties are not inductive: they speak of the moment at    *)
(* which a database is closed, and rest on what each lifecycle call knows  *)
(* at each of its steps.  IInv says it.                                    *)
(***************************************************************************)
EXTENDS PluginLifecycle, TLAPS

LifecyclePcs == ThreadPcs \ (AdmittedPcs \cup {"idle", "save"})

\* The thread inside configure or quiesce is the holder of lifecycleMu.
MutexInv ==
  \A t \in Threads : lifecycleMu = t <=> pc[t] \in LifecyclePcs

\* mu.RLock and workWG are held by exactly those that should hold them.
HoldersInv ==
  /\ readers = {t \in Threads : pc[t] \in ReaderPcs}
  /\ wg = {t \in Threads : pc[t] \in OpPcs} \cup {j \in Jobs : kind[j] # "none"}

\* Where the lifecycle call is that holds lifecycleMu, and the store in its hands.
At(labels) == lifecycleMu \in Threads /\ pc[lifecycleMu] \in labels
Mine       == mine[lifecycleMu]

\* The store whose generation of workers is alive: published, or being drained.
Alive(s) ==
  \/ store = s
  \/ At({"q_drain"}) /\ Mine = s
  \/ At({"c_drain"}) /\ old = s

\* Calls and workers use a store whose generation is alive, which is open.
GenerationInv ==
  /\ \A t \in Threads : pc[t] \in ReaderPcs => mine[t] = store /\ store # None
  /\ \A t \in Threads : pc[t] = "save" => mine[t] \in Stores
  /\ \A t \in Threads : pc[t] \in OpPcs => mine[t] \in Stores /\ Alive(mine[t])
  /\ \A j \in Jobs : kind[j] # "none" => jobStore[j] \in Stores /\ Alive(jobStore[j])
  /\ \A s \in Stores : Alive(s) => opened[s] = cfgPath

SealedPcs == {"q_drain", "q_close", "c_drain", "c_close", "c_publish"}
ChosenPcs == {"c_recover", "c_load", "c_seal", "c_drain", "c_close", "c_publish"}

\* What a lifecycle call knows of the stores it has in hand.
LifecycleInv ==
  /\ At(SealedPcs) => store = None
  /\ At({"q_close", "c_close", "c_publish"}) => wg = {}
  /\ At({"q_drain", "q_close"}) => Mine \in Stores /\ opened[Mine] = cfgPath
  /\ At({"c_open", "c_recover", "c_load", "c_seal"}) => old = store
  /\ At(ChosenPcs \cup {"c_open"}) => target \in Paths
  /\ At(ChosenPcs) =>
       /\ Mine \in Stores /\ opened[Mine] = target
       /\ Mine # old => detached[Mine] = 0
  /\ At(ChosenPcs \ {"c_publish"}) /\ old # None =>
       /\ opened[old] = cfgPath
       /\ Mine # old => target # cfgPath
  /\ At({"c_close"}) => old # None /\ Mine # old
  /\ At({"c_migrate", "c_spawn"}) =>
       /\ store # None /\ Mine = store
       /\ \A j \in Jobs : kind[j] # "background"

\* Every open database is in the hands of the app or of a lifecycle call.
OpenInv ==
  \A s \in Stores : opened[s] # None =>
    \/ store = s
    \/ At({"q_drain", "q_close"}) /\ Mine = s
    \/ At({"c_drain", "c_close"}) /\ old = s
    \/ At(ChosenPcs) /\ Mine = s

DetachedInv == \A s \in Stores : detached[s] > 0 => opened[s] # None

\* The goroutines of one store: at most one background loop and one flusher,
\* and only the flusher has a count in hand.
WorkersInv ==
  /\ \A j \in Jobs :
       /\ kind[j] = "none" => at[j] = "run"
       /\ at[j] \in {"check", "write"} => kind[j] = "flush"
       /\ kind[j] = "flush" => flushing
  /\ \A j, k \in Jobs : kind[j] = "background" /\ kind[k] = "background" => j = k
  /\ \A j, k \in Jobs : kind[j] = "flush" /\ kind[k] = "flush" => j = k
  /\ flushing => \E j \in Jobs : kind[j] = "flush"
  /\ held > 0 => \E j \in Jobs : at[j] \in {"check", "write"}

\* A failed cleanup leaves no store published, keeps its path, and is over
\* when the retained count has been written.
CleanupInv ==
  cleanupErr =>
    /\ store = None
    /\ ~At({"q_drain", "q_close", "c_close"})
    /\ At(ChosenPcs \cup {"c_open"}) => target = cfgPath /\ old = None
    /\ At(ChosenPcs \ {"c_recover"}) => pending = 0

\* No count is left in memory when its database has been closed without error.
PendingInv ==
  /\ ~cleanupErr /\ store = None /\ (At(SealedPcs) => At({"c_drain"}) /\ old = None)
       => pending = 0
  /\ At({"q_close", "c_close"}) /\ ~failed => pending = 0
  /\ At({"c_publish"}) /\ target # cfgPath => pending = 0

IInv ==
  /\ TypeOK
  /\ MutexInv
  /\ HoldersInv
  /\ GenerationInv
  /\ LifecycleInv
  /\ OpenInv
  /\ DetachedInv
  /\ WorkersInv
  /\ CleanupInv
  /\ PendingInv

-----------------------------------------------------------------------------
USE ConstantsAssumption
  DEF locks, app, handles, drops, call, jobs, vars, CanWrite, JobGoto, Go, Spawn,
      EndJob, StartDropFlush, AddDropped, FlushDropped, Return, Goto, CancelAll, Close,
      Opened, CloseOpened, Enter, Leave, EndServing, StartPricingTask, SpawnDetached,
      ReaderPcs, OpPcs, AdmittedPcs, ThreadPcs, JobKinds, JobPcs, LifecyclePcs, SealedPcs, ChosenPcs, Alive, At, Mine

\* The slots that are taken for a goroutine and for a database are free ones.
LEMMA IdleJobIsFree ==
  \A j \in Jobs : \A what : IdleJob(j, what) => kind[j] = "none"
BY DEF IdleJob, FreeJobs

LEMMA IdleStoreIsClosed == \A s \in Stores : IdleStore(s) => opened[s] = None
BY DEF IdleStore, FreeStores

\* A thread takes lifecycleMu to quiesce.
LEMMA QuiesceBeginInv ==
  ASSUME IInv, NEW t \in Threads, QuiesceBegin(t)
  PROVE  IInv'
<1> USE DEF IInv
<1>1. TypeOK'
  BY DEF QuiesceBegin, TypeOK, MutexInv, GenerationInv, LifecycleInv
<1>2. MutexInv'
  BY DEF QuiesceBegin, TypeOK, MutexInv
<1>3. HoldersInv'
  BY DEF QuiesceBegin, TypeOK, HoldersInv
<1>4. GenerationInv'
  BY DEF QuiesceBegin, TypeOK, MutexInv, HoldersInv, GenerationInv, LifecycleInv
<1>5. LifecycleInv'
  BY DEF QuiesceBegin, TypeOK, MutexInv, HoldersInv, GenerationInv, LifecycleInv,
    DetachedInv
<1>6. OpenInv'
  BY DEF QuiesceBegin, TypeOK, MutexInv, LifecycleInv, OpenInv
<1>7. DetachedInv'
  BY DEF QuiesceBegin, TypeOK, MutexInv, DetachedInv, GenerationInv, LifecycleInv
<1>8. WorkersInv'
  BY DEF QuiesceBegin, TypeOK, MutexInv, WorkersInv, HoldersInv, LifecycleInv
<1>9. CleanupInv'
  BY DEF QuiesceBegin, TypeOK, MutexInv, GenerationInv, LifecycleInv, CleanupInv,
    HoldersInv
<1>10. PendingInv'
  BY DEF QuiesceBegin, TypeOK, MutexInv, GenerationInv, LifecycleInv, CleanupInv,
    HoldersInv, WorkersInv, PendingInv
<1> QED BY <1>1, <1>2, <1>3, <1>4, <1>5, <1>6, <1>7, <1>8, <1>9, <1>10

\* detachStore and cancel; with no store, the answer of quiesce.
LEMMA QuiesceDetachInv ==
  ASSUME IInv, NEW t \in Threads, QuiesceDetach(t)
  PROVE  IInv'
<1> USE DEF IInv
<1>1. TypeOK'
  <2>1. (/\ lifecycleMu \in Threads \cup {None} /\ readers \subseteq Threads
       /\ store \in Stores \cup {None} /\ cfgPath \in Paths /\ cleanupErr \in BOOLEAN
       /\ opened \in [Stores -> Paths \cup {None}] /\ detached \in [Stores -> Nat]
       /\ wg \subseteq Threads \cup Jobs)'
    BY DEF QuiesceDetach, TypeOK, MutexInv, GenerationInv, LifecycleInv
  <2>2. (pending \in Nat /\ held \in Nat)'
    BY DEF QuiesceDetach, TypeOK, MutexInv, GenerationInv, LifecycleInv
  <2>3. (flushing \in BOOLEAN)'
    BY DEF QuiesceDetach, TypeOK, MutexInv, GenerationInv, LifecycleInv
  <2>4. (/\ stored \in [Paths -> Nat] /\ dropped \in [Paths -> Nat]
        /\ repeated \in [Paths -> Nat])'
    BY DEF QuiesceDetach, TypeOK, MutexInv, GenerationInv, LifecycleInv
  <2>5. (pc \in [Threads -> ThreadPcs] /\ mine \in [Threads -> Stores \cup {None}])'
    BY DEF QuiesceDetach, TypeOK, MutexInv, GenerationInv, LifecycleInv
  <2>6. (target \in Paths \cup {None} /\ old \in Stores \cup {None})'
    BY DEF QuiesceDetach, TypeOK, MutexInv, GenerationInv, LifecycleInv
  <2>7. (migrated \in BOOLEAN /\ failed \in BOOLEAN)'
    BY DEF QuiesceDetach, TypeOK, MutexInv, GenerationInv, LifecycleInv
  <2>8. (/\ kind \in [Jobs -> JobKinds] /\ at \in [Jobs -> JobPcs]
       /\ jobStore \in [Jobs -> Stores \cup {None}]
       /\ live \subseteq Jobs /\ tries \in [Jobs -> Nat])'
    BY DEF QuiesceDetach, TypeOK, MutexInv, GenerationInv, LifecycleInv
  <2> QED BY <2>1, <2>2, <2>3, <2>4, <2>5, <2>6, <2>7, <2>8 DEF TypeOK
<1>2. MutexInv'
  BY DEF QuiesceDetach, TypeOK, MutexInv
<1>3. HoldersInv'
  BY DEF QuiesceDetach, TypeOK, HoldersInv
<1>4. GenerationInv'
  BY DEF QuiesceDetach, TypeOK, MutexInv, HoldersInv, GenerationInv, LifecycleInv
<1>5. LifecycleInv'
  BY DEF QuiesceDetach, TypeOK, MutexInv, HoldersInv, GenerationInv, LifecycleInv,
    DetachedInv
<1>6. OpenInv'
  BY DEF QuiesceDetach, TypeOK, MutexInv, LifecycleInv, OpenInv
<1>7. DetachedInv'
  BY DEF QuiesceDetach, TypeOK, MutexInv, DetachedInv, GenerationInv, LifecycleInv
<1>8. WorkersInv'
  BY DEF QuiesceDetach, TypeOK, MutexInv, WorkersInv, HoldersInv, LifecycleInv
<1>9. CleanupInv'
  BY DEF QuiesceDetach, TypeOK, MutexInv, GenerationInv, LifecycleInv, CleanupInv,
    HoldersInv
<1>10. PendingInv'
  BY DEF QuiesceDetach, TypeOK, MutexInv, GenerationInv, LifecycleInv, CleanupInv,
    HoldersInv, WorkersInv, PendingInv
<1> QED BY <1>1, <1>2, <1>3, <1>4, <1>5, <1>6, <1>7, <1>8, <1>9, <1>10

\* The drain of quiesce and its flush.
LEMMA QuiesceDrainInv ==
  ASSUME IInv, NEW t \in Threads, QuiesceDrain(t)
  PROVE  IInv'
<1> USE DEF IInv
<1>1. TypeOK'
  BY DEF QuiesceDrain, TypeOK, MutexInv, GenerationInv, LifecycleInv
<1>2. MutexInv'
  BY DEF QuiesceDrain, TypeOK, MutexInv
<1>3. HoldersInv'
  BY DEF QuiesceDrain, TypeOK, HoldersInv
<1>4. GenerationInv'
  BY DEF QuiesceDrain, TypeOK, MutexInv, HoldersInv, GenerationInv, LifecycleInv
<1>5. LifecycleInv'
  BY DEF QuiesceDrain, TypeOK, MutexInv, HoldersInv, GenerationInv, LifecycleInv,
    DetachedInv
<1>6. OpenInv'
  BY DEF QuiesceDrain, TypeOK, MutexInv, LifecycleInv, OpenInv
<1>7. DetachedInv'
  BY DEF QuiesceDrain, TypeOK, MutexInv, DetachedInv, GenerationInv, LifecycleInv
<1>8. WorkersInv'
  BY DEF QuiesceDrain, TypeOK, MutexInv, WorkersInv, HoldersInv, LifecycleInv
<1>9. CleanupInv'
  BY DEF QuiesceDrain, TypeOK, MutexInv, GenerationInv, LifecycleInv, CleanupInv,
    HoldersInv
<1>10. PendingInv'
  <2>1. PICK ok \in BOOLEAN : FlushDropped(mine[t], ok) /\ failed' = ~ok
    BY DEF QuiesceDrain
  <2>2. ~failed' => pending' = 0
    BY <2>1
  <2> QED
    BY <2>2 DEF QuiesceDrain, TypeOK, MutexInv, CleanupInv, PendingInv
<1> QED BY <1>1, <1>2, <1>3, <1>4, <1>5, <1>6, <1>7, <1>8, <1>9, <1>10

\* The end of quiesce: the database is closed.
LEMMA QuiesceCloseInv ==
  ASSUME IInv, NEW t \in Threads, QuiesceClose(t)
  PROVE  IInv'
<1> USE DEF IInv
<1>1. TypeOK'
  BY DEF QuiesceClose, TypeOK, MutexInv, GenerationInv, LifecycleInv
<1>2. MutexInv'
  BY DEF QuiesceClose, TypeOK, MutexInv
<1>3. HoldersInv'
  BY DEF QuiesceClose, TypeOK, HoldersInv
<1>4. GenerationInv'
  BY DEF QuiesceClose, TypeOK, MutexInv, HoldersInv, GenerationInv, LifecycleInv
<1>5. LifecycleInv'
  BY DEF QuiesceClose, TypeOK, MutexInv, HoldersInv, GenerationInv, LifecycleInv,
    DetachedInv
<1>6. OpenInv'
  BY DEF QuiesceClose, TypeOK, MutexInv, LifecycleInv, OpenInv
<1>7. DetachedInv'
  BY DEF QuiesceClose, TypeOK, MutexInv, DetachedInv, GenerationInv, LifecycleInv
<1>8. WorkersInv'
  BY DEF QuiesceClose, TypeOK, MutexInv, WorkersInv, HoldersInv, LifecycleInv
<1>9. CleanupInv'
  BY DEF QuiesceClose, TypeOK, MutexInv, GenerationInv, LifecycleInv, CleanupInv,
    HoldersInv
<1>10. PendingInv'
  BY DEF QuiesceClose, TypeOK, MutexInv, GenerationInv, LifecycleInv, CleanupInv,
    HoldersInv, WorkersInv, PendingInv
<1> QED BY <1>1, <1>2, <1>3, <1>4, <1>5, <1>6, <1>7, <1>8, <1>9, <1>10

\* A thread takes lifecycleMu to configure.
LEMMA ConfigureBeginInv ==
  ASSUME IInv, NEW t \in Threads, ConfigureBegin(t)
  PROVE  IInv'
<1> USE DEF IInv
<1>1. TypeOK'
  BY DEF ConfigureBegin, TypeOK, MutexInv, GenerationInv, LifecycleInv
<1>2. MutexInv'
  BY DEF ConfigureBegin, TypeOK, MutexInv
<1>3. HoldersInv'
  BY DEF ConfigureBegin, TypeOK, HoldersInv
<1>4. GenerationInv'
  BY DEF ConfigureBegin, TypeOK, MutexInv, HoldersInv, GenerationInv, LifecycleInv
<1>5. LifecycleInv'
  BY DEF ConfigureBegin, TypeOK, MutexInv, HoldersInv, GenerationInv, LifecycleInv,
    DetachedInv
<1>6. OpenInv'
  BY DEF ConfigureBegin, TypeOK, MutexInv, LifecycleInv, OpenInv
<1>7. DetachedInv'
  BY DEF ConfigureBegin, TypeOK, MutexInv, DetachedInv, GenerationInv, LifecycleInv
<1>8. WorkersInv'
  BY DEF ConfigureBegin, TypeOK, MutexInv, WorkersInv, HoldersInv, LifecycleInv
<1>9. CleanupInv'
  BY DEF ConfigureBegin, TypeOK, MutexInv, GenerationInv, LifecycleInv, CleanupInv,
    HoldersInv
<1>10. PendingInv'
  BY DEF ConfigureBegin, TypeOK, MutexInv, GenerationInv, LifecycleInv, CleanupInv,
    HoldersInv, WorkersInv, PendingInv
<1> QED BY <1>1, <1>2, <1>3, <1>4, <1>5, <1>6, <1>7, <1>8, <1>9, <1>10

\* The refusals of configure, and the configuration that is already active.
LEMMA ConfigureCheckInv ==
  ASSUME IInv, NEW t \in Threads, NEW p \in Paths, NEW same \in BOOLEAN, ConfigureCheck(t, p, same)
  PROVE  IInv'
<1> USE DEF IInv
<1>1. TypeOK'
  <2>1. (/\ lifecycleMu \in Threads \cup {None} /\ readers \subseteq Threads
       /\ store \in Stores \cup {None} /\ cfgPath \in Paths /\ cleanupErr \in BOOLEAN
       /\ opened \in [Stores -> Paths \cup {None}] /\ detached \in [Stores -> Nat]
       /\ wg \subseteq Threads \cup Jobs)'
    BY DEF ConfigureCheck, TypeOK, MutexInv, GenerationInv, LifecycleInv
  <2>2. (pending \in Nat /\ held \in Nat)'
    BY DEF ConfigureCheck, TypeOK, MutexInv, GenerationInv, LifecycleInv
  <2>3. (flushing \in BOOLEAN)'
    BY DEF ConfigureCheck, TypeOK, MutexInv, GenerationInv, LifecycleInv
  <2>4. (/\ stored \in [Paths -> Nat] /\ dropped \in [Paths -> Nat]
        /\ repeated \in [Paths -> Nat])'
    BY DEF ConfigureCheck, TypeOK, MutexInv, GenerationInv, LifecycleInv
  <2>5. (pc \in [Threads -> ThreadPcs] /\ mine \in [Threads -> Stores \cup {None}])'
    BY DEF ConfigureCheck, TypeOK, MutexInv, GenerationInv, LifecycleInv
  <2>6. (target \in Paths \cup {None} /\ old \in Stores \cup {None})'
    BY DEF ConfigureCheck, TypeOK, MutexInv, GenerationInv, LifecycleInv
  <2>7. (migrated \in BOOLEAN /\ failed \in BOOLEAN)'
    BY DEF ConfigureCheck, TypeOK, MutexInv, GenerationInv, LifecycleInv
  <2>8. (/\ kind \in [Jobs -> JobKinds] /\ at \in [Jobs -> JobPcs]
       /\ jobStore \in [Jobs -> Stores \cup {None}]
       /\ live \subseteq Jobs /\ tries \in [Jobs -> Nat])'
    BY DEF ConfigureCheck, TypeOK, MutexInv, GenerationInv, LifecycleInv
  <2> QED BY <2>1, <2>2, <2>3, <2>4, <2>5, <2>6, <2>7, <2>8 DEF TypeOK
<1>2. MutexInv'
  BY DEF ConfigureCheck, TypeOK, MutexInv
<1>3. HoldersInv'
  BY DEF ConfigureCheck, TypeOK, HoldersInv
<1>4. GenerationInv'
  BY DEF ConfigureCheck, TypeOK, MutexInv, HoldersInv, GenerationInv, LifecycleInv
<1>5. LifecycleInv'
  BY DEF ConfigureCheck, TypeOK, MutexInv, HoldersInv, GenerationInv, LifecycleInv,
    DetachedInv
<1>6. OpenInv'
  BY DEF ConfigureCheck, TypeOK, MutexInv, LifecycleInv, OpenInv
<1>7. DetachedInv'
  BY DEF ConfigureCheck, TypeOK, MutexInv, DetachedInv, GenerationInv, LifecycleInv
<1>8. WorkersInv'
  BY DEF ConfigureCheck, TypeOK, MutexInv, WorkersInv, HoldersInv, LifecycleInv
<1>9. CleanupInv'
  BY DEF ConfigureCheck, TypeOK, MutexInv, GenerationInv, LifecycleInv, CleanupInv,
    HoldersInv
<1>10. PendingInv'
  BY DEF ConfigureCheck, TypeOK, MutexInv, GenerationInv, LifecycleInv, CleanupInv,
    HoldersInv, WorkersInv, PendingInv
<1> QED BY <1>1, <1>2, <1>3, <1>4, <1>5, <1>6, <1>7, <1>8, <1>9, <1>10

\* configure opens a database, or goes on with the active one.
LEMMA ConfigureOpenInv ==
  ASSUME IInv, NEW t \in Threads, ConfigureOpen(t)
  PROVE  IInv'
<1> USE DEF IInv
<1>1. TypeOK'
  <2>1. (/\ lifecycleMu \in Threads \cup {None} /\ readers \subseteq Threads
       /\ store \in Stores \cup {None} /\ cfgPath \in Paths /\ cleanupErr \in BOOLEAN
       /\ opened \in [Stores -> Paths \cup {None}] /\ detached \in [Stores -> Nat]
       /\ wg \subseteq Threads \cup Jobs)'
    BY DEF ConfigureOpen, TypeOK, MutexInv, GenerationInv, LifecycleInv
  <2>2. (pending \in Nat /\ held \in Nat)'
    BY DEF ConfigureOpen, TypeOK, MutexInv, GenerationInv, LifecycleInv
  <2>3. (flushing \in BOOLEAN)'
    BY DEF ConfigureOpen, TypeOK, MutexInv, GenerationInv, LifecycleInv
  <2>4. (/\ stored \in [Paths -> Nat] /\ dropped \in [Paths -> Nat]
        /\ repeated \in [Paths -> Nat])'
    BY DEF ConfigureOpen, TypeOK, MutexInv, GenerationInv, LifecycleInv
  <2>5. (pc \in [Threads -> ThreadPcs] /\ mine \in [Threads -> Stores \cup {None}])'
    BY DEF ConfigureOpen, TypeOK, MutexInv, GenerationInv, LifecycleInv
  <2>6. (target \in Paths \cup {None} /\ old \in Stores \cup {None})'
    BY DEF ConfigureOpen, TypeOK, MutexInv, GenerationInv, LifecycleInv
  <2>7. (migrated \in BOOLEAN /\ failed \in BOOLEAN)'
    BY DEF ConfigureOpen, TypeOK, MutexInv, GenerationInv, LifecycleInv
  <2>8. (/\ kind \in [Jobs -> JobKinds] /\ at \in [Jobs -> JobPcs]
       /\ jobStore \in [Jobs -> Stores \cup {None}]
       /\ live \subseteq Jobs /\ tries \in [Jobs -> Nat])'
    BY DEF ConfigureOpen, TypeOK, MutexInv, GenerationInv, LifecycleInv
  <2> QED BY <2>1, <2>2, <2>3, <2>4, <2>5, <2>6, <2>7, <2>8 DEF TypeOK
<1>2. MutexInv'
  BY DEF ConfigureOpen, TypeOK, MutexInv
<1>3. HoldersInv'
  BY DEF ConfigureOpen, TypeOK, HoldersInv
<1>4. GenerationInv'
  BY IdleStoreIsClosed DEF ConfigureOpen, TypeOK, MutexInv, HoldersInv, GenerationInv, LifecycleInv
<1>5. LifecycleInv'
  BY IdleStoreIsClosed DEF ConfigureOpen, TypeOK, MutexInv, HoldersInv, GenerationInv, LifecycleInv,
    DetachedInv
<1>6. OpenInv'
  BY DEF ConfigureOpen, TypeOK, MutexInv, LifecycleInv, OpenInv
<1>7. DetachedInv'
  BY DEF ConfigureOpen, TypeOK, MutexInv, DetachedInv, GenerationInv, LifecycleInv
<1>8. WorkersInv'
  BY DEF ConfigureOpen, TypeOK, MutexInv, WorkersInv, HoldersInv, LifecycleInv
<1>9. CleanupInv'
  BY DEF ConfigureOpen, TypeOK, MutexInv, GenerationInv, LifecycleInv, CleanupInv,
    HoldersInv
<1>10. PendingInv'
  BY DEF ConfigureOpen, TypeOK, MutexInv, GenerationInv, LifecycleInv, CleanupInv,
    HoldersInv, WorkersInv, PendingInv
<1> QED BY <1>1, <1>2, <1>3, <1>4, <1>5, <1>6, <1>7, <1>8, <1>9, <1>10

\* The count of a failed quiesce is written before anything else.
LEMMA ConfigureRecoverInv ==
  ASSUME IInv, NEW t \in Threads, ConfigureRecover(t)
  PROVE  IInv'
<1> USE DEF IInv
<1>1. TypeOK'
  <2>1. (/\ lifecycleMu \in Threads \cup {None} /\ readers \subseteq Threads
       /\ store \in Stores \cup {None} /\ cfgPath \in Paths /\ cleanupErr \in BOOLEAN
       /\ opened \in [Stores -> Paths \cup {None}] /\ detached \in [Stores -> Nat]
       /\ wg \subseteq Threads \cup Jobs)'
    BY DEF ConfigureRecover, TypeOK, MutexInv, GenerationInv, LifecycleInv
  <2>2. (pending \in Nat /\ held \in Nat)'
    BY DEF ConfigureRecover, TypeOK, MutexInv, GenerationInv, LifecycleInv
  <2>3. (flushing \in BOOLEAN)'
    BY DEF ConfigureRecover, TypeOK, MutexInv, GenerationInv, LifecycleInv
  <2>4. (/\ stored \in [Paths -> Nat] /\ dropped \in [Paths -> Nat]
        /\ repeated \in [Paths -> Nat])'
    BY DEF ConfigureRecover, TypeOK, MutexInv, GenerationInv, LifecycleInv
  <2>5. (pc \in [Threads -> ThreadPcs] /\ mine \in [Threads -> Stores \cup {None}])'
    BY DEF ConfigureRecover, TypeOK, MutexInv, GenerationInv, LifecycleInv
  <2>6. (target \in Paths \cup {None} /\ old \in Stores \cup {None})'
    BY DEF ConfigureRecover, TypeOK, MutexInv, GenerationInv, LifecycleInv
  <2>7. (migrated \in BOOLEAN /\ failed \in BOOLEAN)'
    BY DEF ConfigureRecover, TypeOK, MutexInv, GenerationInv, LifecycleInv
  <2>8. (/\ kind \in [Jobs -> JobKinds] /\ at \in [Jobs -> JobPcs]
       /\ jobStore \in [Jobs -> Stores \cup {None}]
       /\ live \subseteq Jobs /\ tries \in [Jobs -> Nat])'
    BY DEF ConfigureRecover, TypeOK, MutexInv, GenerationInv, LifecycleInv
  <2> QED BY <2>1, <2>2, <2>3, <2>4, <2>5, <2>6, <2>7, <2>8 DEF TypeOK
<1>2. MutexInv'
  BY DEF ConfigureRecover, TypeOK, MutexInv
<1>3. HoldersInv'
  BY DEF ConfigureRecover, TypeOK, HoldersInv
<1>4. GenerationInv'
  BY DEF ConfigureRecover, CleanupInv, TypeOK, MutexInv, HoldersInv, GenerationInv,
    LifecycleInv
<1>5. LifecycleInv'
  BY DEF ConfigureRecover, TypeOK, MutexInv, HoldersInv, GenerationInv, LifecycleInv,
    DetachedInv
<1>6. OpenInv'
  BY DEF ConfigureRecover, TypeOK, MutexInv, LifecycleInv, OpenInv
<1>7. DetachedInv'
  BY DEF ConfigureRecover, TypeOK, MutexInv, DetachedInv, GenerationInv, LifecycleInv
<1>8. WorkersInv'
  BY DEF ConfigureRecover, TypeOK, MutexInv, WorkersInv, HoldersInv, LifecycleInv
<1>9. CleanupInv'
  BY DEF ConfigureRecover, TypeOK, MutexInv, GenerationInv, LifecycleInv, CleanupInv,
    HoldersInv
<1>10. PendingInv'
  BY DEF ConfigureRecover, TypeOK, MutexInv, GenerationInv, LifecycleInv, CleanupInv,
    HoldersInv, WorkersInv, PendingInv
<1> QED BY <1>1, <1>2, <1>3, <1>4, <1>5, <1>6, <1>7, <1>8, <1>9, <1>10

\* configure loads the catalog and the settings, or closes what it opened.
LEMMA ConfigureLoadInv ==
  ASSUME IInv, NEW t \in Threads, ConfigureLoad(t)
  PROVE  IInv'
<1> USE DEF IInv
<1>1. TypeOK'
  <2>1. (/\ lifecycleMu \in Threads \cup {None} /\ readers \subseteq Threads
       /\ store \in Stores \cup {None} /\ cfgPath \in Paths /\ cleanupErr \in BOOLEAN
       /\ opened \in [Stores -> Paths \cup {None}] /\ detached \in [Stores -> Nat]
       /\ wg \subseteq Threads \cup Jobs)'
    BY DEF ConfigureLoad, TypeOK, MutexInv, GenerationInv, LifecycleInv
  <2>2. (pending \in Nat /\ held \in Nat)'
    BY DEF ConfigureLoad, TypeOK, MutexInv, GenerationInv, LifecycleInv
  <2>3. (flushing \in BOOLEAN)'
    BY DEF ConfigureLoad, TypeOK, MutexInv, GenerationInv, LifecycleInv
  <2>4. (/\ stored \in [Paths -> Nat] /\ dropped \in [Paths -> Nat]
        /\ repeated \in [Paths -> Nat])'
    BY DEF ConfigureLoad, TypeOK, MutexInv, GenerationInv, LifecycleInv
  <2>5. (pc \in [Threads -> ThreadPcs] /\ mine \in [Threads -> Stores \cup {None}])'
    BY DEF ConfigureLoad, TypeOK, MutexInv, GenerationInv, LifecycleInv
  <2>6. (target \in Paths \cup {None} /\ old \in Stores \cup {None})'
    BY DEF ConfigureLoad, TypeOK, MutexInv, GenerationInv, LifecycleInv
  <2>7. (migrated \in BOOLEAN /\ failed \in BOOLEAN)'
    BY DEF ConfigureLoad, TypeOK, MutexInv, GenerationInv, LifecycleInv
  <2>8. (/\ kind \in [Jobs -> JobKinds] /\ at \in [Jobs -> JobPcs]
       /\ jobStore \in [Jobs -> Stores \cup {None}]
       /\ live \subseteq Jobs /\ tries \in [Jobs -> Nat])'
    BY DEF ConfigureLoad, TypeOK, MutexInv, GenerationInv, LifecycleInv
  <2> QED BY <2>1, <2>2, <2>3, <2>4, <2>5, <2>6, <2>7, <2>8 DEF TypeOK
<1>2. MutexInv'
  BY DEF ConfigureLoad, TypeOK, MutexInv
<1>3. HoldersInv'
  BY DEF ConfigureLoad, TypeOK, HoldersInv
<1>4. GenerationInv'
  BY DEF ConfigureLoad, TypeOK, MutexInv, HoldersInv, GenerationInv, LifecycleInv
<1>5. LifecycleInv'
  BY DEF ConfigureLoad, TypeOK, MutexInv, HoldersInv, GenerationInv, LifecycleInv,
    DetachedInv
<1>6. OpenInv'
  BY DEF ConfigureLoad, TypeOK, MutexInv, LifecycleInv, OpenInv
<1>7. DetachedInv'
  BY DEF ConfigureLoad, TypeOK, MutexInv, DetachedInv, GenerationInv, LifecycleInv
<1>8. WorkersInv'
  BY DEF ConfigureLoad, TypeOK, MutexInv, WorkersInv, HoldersInv, LifecycleInv
<1>9. CleanupInv'
  BY DEF ConfigureLoad, TypeOK, MutexInv, GenerationInv, LifecycleInv, CleanupInv,
    HoldersInv
<1>10. PendingInv'
  BY DEF ConfigureLoad, TypeOK, MutexInv, GenerationInv, LifecycleInv, CleanupInv,
    HoldersInv, WorkersInv, PendingInv
<1> QED BY <1>1, <1>2, <1>3, <1>4, <1>5, <1>6, <1>7, <1>8, <1>9, <1>10

\* configure seals admission and cancels the old generation.
LEMMA ConfigureSealInv ==
  ASSUME IInv, NEW t \in Threads, ConfigureSeal(t)
  PROVE  IInv'
<1> USE DEF IInv
<1>1. TypeOK'
  BY DEF ConfigureSeal, TypeOK, MutexInv, GenerationInv, LifecycleInv
<1>2. MutexInv'
  BY DEF ConfigureSeal, TypeOK, MutexInv
<1>3. HoldersInv'
  BY DEF ConfigureSeal, TypeOK, HoldersInv
<1>4. GenerationInv'
  BY DEF ConfigureSeal, TypeOK, MutexInv, HoldersInv, GenerationInv, LifecycleInv
<1>5. LifecycleInv'
  BY DEF ConfigureSeal, TypeOK, MutexInv, HoldersInv, GenerationInv, LifecycleInv,
    DetachedInv
<1>6. OpenInv'
  BY DEF ConfigureSeal, TypeOK, MutexInv, LifecycleInv, OpenInv
<1>7. DetachedInv'
  BY DEF ConfigureSeal, TypeOK, MutexInv, DetachedInv, GenerationInv, LifecycleInv
<1>8. WorkersInv'
  BY DEF ConfigureSeal, TypeOK, MutexInv, WorkersInv, HoldersInv, LifecycleInv
<1>9. CleanupInv'
  BY DEF ConfigureSeal, TypeOK, MutexInv, GenerationInv, LifecycleInv, CleanupInv,
    HoldersInv
<1>10. PendingInv'
  BY DEF ConfigureSeal, TypeOK, MutexInv, GenerationInv, LifecycleInv, CleanupInv,
    HoldersInv, WorkersInv, PendingInv
<1> QED BY <1>1, <1>2, <1>3, <1>4, <1>5, <1>6, <1>7, <1>8, <1>9, <1>10

\* The drain of configure, and the flush of the store it replaces.
LEMMA ConfigureDrainInv ==
  ASSUME IInv, NEW t \in Threads, ConfigureDrain(t)
  PROVE  IInv'
<1> USE DEF IInv
<1>1. TypeOK'
  <2>1. (/\ lifecycleMu \in Threads \cup {None} /\ readers \subseteq Threads
       /\ store \in Stores \cup {None} /\ cfgPath \in Paths /\ cleanupErr \in BOOLEAN
       /\ opened \in [Stores -> Paths \cup {None}] /\ detached \in [Stores -> Nat]
       /\ wg \subseteq Threads \cup Jobs)'
    BY DEF ConfigureDrain, TypeOK, MutexInv, GenerationInv, LifecycleInv
  <2>2. (pending \in Nat /\ held \in Nat)'
    BY DEF ConfigureDrain, TypeOK, MutexInv, GenerationInv, LifecycleInv
  <2>3. (flushing \in BOOLEAN)'
    BY DEF ConfigureDrain, TypeOK, MutexInv, GenerationInv, LifecycleInv
  <2>4. (/\ stored \in [Paths -> Nat] /\ dropped \in [Paths -> Nat]
        /\ repeated \in [Paths -> Nat])'
    BY DEF ConfigureDrain, TypeOK, MutexInv, GenerationInv, LifecycleInv
  <2>5. (pc \in [Threads -> ThreadPcs] /\ mine \in [Threads -> Stores \cup {None}])'
    BY DEF ConfigureDrain, TypeOK, MutexInv, GenerationInv, LifecycleInv
  <2>6. (target \in Paths \cup {None} /\ old \in Stores \cup {None})'
    BY DEF ConfigureDrain, TypeOK, MutexInv, GenerationInv, LifecycleInv
  <2>7. (migrated \in BOOLEAN /\ failed \in BOOLEAN)'
    BY DEF ConfigureDrain, TypeOK, MutexInv, GenerationInv, LifecycleInv
  <2>8. (/\ kind \in [Jobs -> JobKinds] /\ at \in [Jobs -> JobPcs]
       /\ jobStore \in [Jobs -> Stores \cup {None}]
       /\ live \subseteq Jobs /\ tries \in [Jobs -> Nat])'
    BY DEF ConfigureDrain, TypeOK, MutexInv, GenerationInv, LifecycleInv
  <2> QED BY <2>1, <2>2, <2>3, <2>4, <2>5, <2>6, <2>7, <2>8 DEF TypeOK
<1>2. MutexInv'
  BY DEF ConfigureDrain, TypeOK, MutexInv
<1>3. HoldersInv'
  BY DEF ConfigureDrain, TypeOK, HoldersInv
<1>4. GenerationInv'
  BY DEF ConfigureDrain, TypeOK, MutexInv, HoldersInv, GenerationInv, LifecycleInv
<1>5. LifecycleInv'
  BY DEF ConfigureDrain, TypeOK, MutexInv, HoldersInv, GenerationInv, LifecycleInv,
    DetachedInv
<1>6. OpenInv'
  BY DEF ConfigureDrain, TypeOK, MutexInv, LifecycleInv, OpenInv
<1>7. DetachedInv'
  BY DEF ConfigureDrain, TypeOK, MutexInv, DetachedInv, GenerationInv, LifecycleInv
<1>8. WorkersInv'
  BY DEF ConfigureDrain, TypeOK, MutexInv, WorkersInv, HoldersInv, LifecycleInv
<1>9. CleanupInv'
  BY DEF ConfigureDrain, TypeOK, MutexInv, GenerationInv, LifecycleInv, CleanupInv,
    HoldersInv
<1>10. PendingInv'
  <2>1. CASE old # None /\ Opened(t)
    <3>1. PICK ok \in BOOLEAN : FlushDropped(old, ok) /\ failed' = ~ok
      BY <2>1 DEF ConfigureDrain
    <3>2. ~failed' => pending' = 0
      BY <3>1
    <3> QED
      BY <2>1, <3>2 DEF ConfigureDrain, TypeOK, MutexInv, LifecycleInv, PendingInv
  <2>2. CASE old = None \/ ~Opened(t)
    BY <2>2 DEF ConfigureDrain, TypeOK, MutexInv, LifecycleInv, CleanupInv, PendingInv
  <2> QED BY <2>1, <2>2
<1> QED BY <1>1, <1>2, <1>3, <1>4, <1>5, <1>6, <1>7, <1>8, <1>9, <1>10

\* The old database is closed, or both are.
LEMMA ConfigureCloseInv ==
  ASSUME IInv, NEW t \in Threads, ConfigureClose(t)
  PROVE  IInv'
<1> USE DEF IInv
<1>1. TypeOK'
  <2>0. (opened \in [Stores -> Paths \cup {None}])'
    BY DEF ConfigureClose, TypeOK
  <2>1. (/\ lifecycleMu \in Threads \cup {None} /\ readers \subseteq Threads
       /\ store \in Stores \cup {None} /\ cfgPath \in Paths /\ cleanupErr \in BOOLEAN
       /\ detached \in [Stores -> Nat]
       /\ wg \subseteq Threads \cup Jobs)'
    BY DEF ConfigureClose, TypeOK
  <2>2. (pending \in Nat /\ held \in Nat)'
    BY DEF ConfigureClose, TypeOK
  <2>3. (flushing \in BOOLEAN)'
    BY DEF ConfigureClose, TypeOK
  <2>4. (/\ stored \in [Paths -> Nat] /\ dropped \in [Paths -> Nat]
        /\ repeated \in [Paths -> Nat])'
    BY DEF ConfigureClose, TypeOK
  <2>5. (pc \in [Threads -> ThreadPcs] /\ mine \in [Threads -> Stores \cup {None}])'
    BY DEF ConfigureClose, TypeOK
  <2>6. (target \in Paths \cup {None} /\ old \in Stores \cup {None})'
    BY DEF ConfigureClose, TypeOK
  <2>7. (migrated \in BOOLEAN /\ failed \in BOOLEAN)'
    BY DEF ConfigureClose, TypeOK
  <2>8. (/\ kind \in [Jobs -> JobKinds] /\ at \in [Jobs -> JobPcs]
       /\ jobStore \in [Jobs -> Stores \cup {None}]
       /\ live \subseteq Jobs /\ tries \in [Jobs -> Nat])'
    BY DEF ConfigureClose, TypeOK
  <2> QED BY <2>0, <2>1, <2>2, <2>3, <2>4, <2>5, <2>6, <2>7, <2>8 DEF TypeOK
<1>2. MutexInv'
  BY DEF ConfigureClose, TypeOK, MutexInv
<1>3. HoldersInv'
  BY DEF ConfigureClose, TypeOK, HoldersInv
<1>4. GenerationInv'
  BY DEF ConfigureClose, TypeOK, MutexInv, HoldersInv, GenerationInv, LifecycleInv
<1>5. LifecycleInv'
  BY DEF ConfigureClose, TypeOK, MutexInv, HoldersInv, GenerationInv, LifecycleInv,
    DetachedInv
<1>6. OpenInv'
  BY DEF ConfigureClose, TypeOK, MutexInv, LifecycleInv, OpenInv
<1>7. DetachedInv'
  BY DEF ConfigureClose, TypeOK, MutexInv, DetachedInv, GenerationInv, LifecycleInv
<1>8. WorkersInv'
  BY DEF ConfigureClose, TypeOK, MutexInv, WorkersInv, HoldersInv, LifecycleInv
<1>9. CleanupInv'
  <2>1. ~cleanupErr /\ store = None
    BY DEF ConfigureClose, TypeOK, MutexInv, LifecycleInv, CleanupInv
  <2>2. cleanupErr' => lifecycleMu' = None
    BY <2>1 DEF ConfigureClose
  <2> QED
    BY <2>1, <2>2 DEF ConfigureClose, CleanupInv
<1>10. PendingInv'
  BY DEF ConfigureClose, TypeOK, MutexInv, GenerationInv, LifecycleInv, CleanupInv,
    HoldersInv, WorkersInv, PendingInv
<1> QED BY <1>1, <1>2, <1>3, <1>4, <1>5, <1>6, <1>7, <1>8, <1>9, <1>10

\* configure publishes its store.
LEMMA ConfigurePublishInv ==
  ASSUME IInv, NEW t \in Threads, ConfigurePublish(t)
  PROVE  IInv'
<1> USE DEF IInv
<1>1. TypeOK'
  <2>1. (/\ lifecycleMu \in Threads \cup {None} /\ readers \subseteq Threads
       /\ store \in Stores \cup {None} /\ cfgPath \in Paths /\ cleanupErr \in BOOLEAN
       /\ opened \in [Stores -> Paths \cup {None}] /\ detached \in [Stores -> Nat]
       /\ wg \subseteq Threads \cup Jobs)'
    BY DEF ConfigurePublish, TypeOK, MutexInv, GenerationInv, LifecycleInv
  <2>2. (pending \in Nat /\ held \in Nat)'
    BY DEF ConfigurePublish, TypeOK, MutexInv, GenerationInv, LifecycleInv
  <2>3. (flushing \in BOOLEAN)'
    BY DEF ConfigurePublish, TypeOK, MutexInv, GenerationInv, LifecycleInv
  <2>4. (/\ stored \in [Paths -> Nat] /\ dropped \in [Paths -> Nat]
        /\ repeated \in [Paths -> Nat])'
    BY DEF ConfigurePublish, TypeOK, MutexInv, GenerationInv, LifecycleInv
  <2>5. (pc \in [Threads -> ThreadPcs] /\ mine \in [Threads -> Stores \cup {None}])'
    BY DEF ConfigurePublish, TypeOK, MutexInv, GenerationInv, LifecycleInv
  <2>6. (target \in Paths \cup {None} /\ old \in Stores \cup {None})'
    BY DEF ConfigurePublish, TypeOK, MutexInv, GenerationInv, LifecycleInv
  <2>7. (migrated \in BOOLEAN /\ failed \in BOOLEAN)'
    BY DEF ConfigurePublish, TypeOK, MutexInv, GenerationInv, LifecycleInv
  <2>8. (/\ kind \in [Jobs -> JobKinds] /\ at \in [Jobs -> JobPcs]
       /\ jobStore \in [Jobs -> Stores \cup {None}]
       /\ live \subseteq Jobs /\ tries \in [Jobs -> Nat])'
    BY DEF ConfigurePublish, TypeOK, MutexInv, GenerationInv, LifecycleInv
  <2> QED BY <2>1, <2>2, <2>3, <2>4, <2>5, <2>6, <2>7, <2>8 DEF TypeOK
<1>2. MutexInv'
  BY DEF ConfigurePublish, TypeOK, MutexInv
<1>3. HoldersInv'
  BY DEF ConfigurePublish, TypeOK, HoldersInv
<1>4. GenerationInv'
  BY DEF ConfigurePublish, TypeOK, MutexInv, HoldersInv, GenerationInv, LifecycleInv
<1>5. LifecycleInv'
  BY DEF ConfigurePublish, TypeOK, MutexInv, HoldersInv, GenerationInv, LifecycleInv,
    DetachedInv
<1>6. OpenInv'
  BY DEF ConfigurePublish, TypeOK, MutexInv, LifecycleInv, OpenInv
<1>7. DetachedInv'
  BY DEF ConfigurePublish, TypeOK, MutexInv, DetachedInv, GenerationInv, LifecycleInv
<1>8. WorkersInv'
  BY DEF ConfigurePublish, TypeOK, MutexInv, WorkersInv, HoldersInv, LifecycleInv
<1>9. CleanupInv'
  BY DEF ConfigurePublish, TypeOK, MutexInv, GenerationInv, LifecycleInv, CleanupInv,
    HoldersInv
<1>10. PendingInv'
  BY DEF ConfigurePublish, TypeOK, MutexInv, GenerationInv, LifecycleInv, CleanupInv,
    HoldersInv, WorkersInv, PendingInv
<1> QED BY <1>1, <1>2, <1>3, <1>4, <1>5, <1>6, <1>7, <1>8, <1>9, <1>10

\* configure starts the pricing task of a migrated store, or fails.
LEMMA ConfigureMigrateInv ==
  ASSUME IInv, NEW t \in Threads, ConfigureMigrate(t)
  PROVE  IInv'
<1> USE DEF IInv
<1>1. TypeOK'
  <2>1. (/\ lifecycleMu \in Threads \cup {None} /\ readers \subseteq Threads
       /\ store \in Stores \cup {None} /\ cfgPath \in Paths /\ cleanupErr \in BOOLEAN
       /\ opened \in [Stores -> Paths \cup {None}] /\ detached \in [Stores -> Nat]
       /\ wg \subseteq Threads \cup Jobs)'
    BY DEF ConfigureMigrate, TypeOK, MutexInv, GenerationInv, LifecycleInv
  <2>2. (pending \in Nat /\ held \in Nat)'
    BY DEF ConfigureMigrate, TypeOK, MutexInv, GenerationInv, LifecycleInv
  <2>3. (flushing \in BOOLEAN)'
    BY DEF ConfigureMigrate, TypeOK, MutexInv, GenerationInv, LifecycleInv
  <2>4. (/\ stored \in [Paths -> Nat] /\ dropped \in [Paths -> Nat]
        /\ repeated \in [Paths -> Nat])'
    BY DEF ConfigureMigrate, TypeOK, MutexInv, GenerationInv, LifecycleInv
  <2>5. (pc \in [Threads -> ThreadPcs] /\ mine \in [Threads -> Stores \cup {None}])'
    BY DEF ConfigureMigrate, TypeOK, MutexInv, GenerationInv, LifecycleInv
  <2>6. (target \in Paths \cup {None} /\ old \in Stores \cup {None})'
    BY DEF ConfigureMigrate, TypeOK, MutexInv, GenerationInv, LifecycleInv
  <2>7. (migrated \in BOOLEAN /\ failed \in BOOLEAN)'
    BY DEF ConfigureMigrate, TypeOK, MutexInv, GenerationInv, LifecycleInv
  <2>8. (/\ kind \in [Jobs -> JobKinds] /\ at \in [Jobs -> JobPcs]
       /\ jobStore \in [Jobs -> Stores \cup {None}]
       /\ live \subseteq Jobs /\ tries \in [Jobs -> Nat])'
    BY DEF ConfigureMigrate, TypeOK, MutexInv, GenerationInv, LifecycleInv
  <2> QED BY <2>1, <2>2, <2>3, <2>4, <2>5, <2>6, <2>7, <2>8 DEF TypeOK
<1>2. MutexInv'
  BY DEF ConfigureMigrate, TypeOK, MutexInv
<1>3. HoldersInv'
  BY DEF ConfigureMigrate, TypeOK, HoldersInv
<1>4. GenerationInv'
  BY DEF ConfigureMigrate, TypeOK, MutexInv, HoldersInv, GenerationInv, LifecycleInv
<1>5. LifecycleInv'
  BY DEF ConfigureMigrate, TypeOK, MutexInv, HoldersInv, GenerationInv, LifecycleInv,
    DetachedInv
<1>6. OpenInv'
  BY DEF ConfigureMigrate, TypeOK, MutexInv, LifecycleInv, OpenInv
<1>7. DetachedInv'
  BY DEF ConfigureMigrate, TypeOK, MutexInv, DetachedInv, GenerationInv, LifecycleInv
<1>8. WorkersInv'
  BY IdleJobIsFree DEF ConfigureMigrate, TypeOK, MutexInv, WorkersInv, HoldersInv, LifecycleInv
<1>9. CleanupInv'
  BY DEF ConfigureMigrate, TypeOK, MutexInv, GenerationInv, LifecycleInv, CleanupInv,
    HoldersInv
<1>10. PendingInv'
  BY DEF ConfigureMigrate, TypeOK, MutexInv, GenerationInv, LifecycleInv, CleanupInv,
    HoldersInv, WorkersInv, PendingInv
<1> QED BY <1>1, <1>2, <1>3, <1>4, <1>5, <1>6, <1>7, <1>8, <1>9, <1>10

\* configure starts the background loop and returns.
LEMMA ConfigureSpawnInv ==
  ASSUME IInv, NEW t \in Threads, ConfigureSpawn(t)
  PROVE  IInv'
<1> USE DEF IInv
<1>1. TypeOK'
  <2>1. (/\ lifecycleMu \in Threads \cup {None} /\ readers \subseteq Threads
       /\ store \in Stores \cup {None} /\ cfgPath \in Paths /\ cleanupErr \in BOOLEAN
       /\ opened \in [Stores -> Paths \cup {None}] /\ detached \in [Stores -> Nat]
       /\ wg \subseteq Threads \cup Jobs)'
    BY DEF ConfigureSpawn, TypeOK, MutexInv, GenerationInv, LifecycleInv
  <2>2. (pending \in Nat /\ held \in Nat)'
    BY DEF ConfigureSpawn, TypeOK, MutexInv, GenerationInv, LifecycleInv
  <2>3. (flushing \in BOOLEAN)'
    BY DEF ConfigureSpawn, TypeOK, MutexInv, GenerationInv, LifecycleInv
  <2>4. (/\ stored \in [Paths -> Nat] /\ dropped \in [Paths -> Nat]
        /\ repeated \in [Paths -> Nat])'
    BY DEF ConfigureSpawn, TypeOK, MutexInv, GenerationInv, LifecycleInv
  <2>5. (pc \in [Threads -> ThreadPcs] /\ mine \in [Threads -> Stores \cup {None}])'
    BY DEF ConfigureSpawn, TypeOK, MutexInv, GenerationInv, LifecycleInv
  <2>6. (target \in Paths \cup {None} /\ old \in Stores \cup {None})'
    BY DEF ConfigureSpawn, TypeOK, MutexInv, GenerationInv, LifecycleInv
  <2>7. (migrated \in BOOLEAN /\ failed \in BOOLEAN)'
    BY DEF ConfigureSpawn, TypeOK, MutexInv, GenerationInv, LifecycleInv
  <2>8. (/\ kind \in [Jobs -> JobKinds] /\ at \in [Jobs -> JobPcs]
       /\ jobStore \in [Jobs -> Stores \cup {None}]
       /\ live \subseteq Jobs /\ tries \in [Jobs -> Nat])'
    BY DEF ConfigureSpawn, TypeOK, MutexInv, GenerationInv, LifecycleInv
  <2> QED BY <2>1, <2>2, <2>3, <2>4, <2>5, <2>6, <2>7, <2>8 DEF TypeOK
<1>2. MutexInv'
  BY DEF ConfigureSpawn, TypeOK, MutexInv
<1>3. HoldersInv'
  BY DEF ConfigureSpawn, TypeOK, HoldersInv
<1>4. GenerationInv'
  BY DEF ConfigureSpawn, TypeOK, MutexInv, HoldersInv, GenerationInv, LifecycleInv
<1>5. LifecycleInv'
  BY DEF ConfigureSpawn, TypeOK, MutexInv, HoldersInv, GenerationInv, LifecycleInv,
    DetachedInv
<1>6. OpenInv'
  BY DEF ConfigureSpawn, TypeOK, MutexInv, LifecycleInv, OpenInv
<1>7. DetachedInv'
  BY DEF ConfigureSpawn, TypeOK, MutexInv, DetachedInv, GenerationInv, LifecycleInv
<1>8. WorkersInv'
  BY IdleJobIsFree DEF ConfigureSpawn, TypeOK, MutexInv, WorkersInv, HoldersInv, LifecycleInv
<1>9. CleanupInv'
  BY DEF ConfigureSpawn, TypeOK, MutexInv, GenerationInv, LifecycleInv, CleanupInv,
    HoldersInv
<1>10. PendingInv'
  BY DEF ConfigureSpawn, TypeOK, MutexInv, GenerationInv, LifecycleInv, CleanupInv,
    HoldersInv, WorkersInv, PendingInv
<1> QED BY <1>1, <1>2, <1>3, <1>4, <1>5, <1>6, <1>7, <1>8, <1>9, <1>10

\* A call takes mu.RLock and keeps it.
LEMMA ServeBeginInv ==
  ASSUME IInv, NEW t \in Threads, ServeBegin(t)
  PROVE  IInv'
<1> USE DEF IInv
<1>1. TypeOK'
  BY DEF ServeBegin, TypeOK, MutexInv, GenerationInv, LifecycleInv
<1>2. MutexInv'
  BY DEF ServeBegin, TypeOK, MutexInv
<1>3. HoldersInv'
  BY DEF ServeBegin, TypeOK, HoldersInv
<1>4. GenerationInv'
  BY DEF ServeBegin, TypeOK, MutexInv, HoldersInv, GenerationInv, LifecycleInv
<1>5. LifecycleInv'
  BY DEF ServeBegin, TypeOK, MutexInv, HoldersInv, GenerationInv, LifecycleInv,
    DetachedInv
<1>6. OpenInv'
  BY DEF ServeBegin, TypeOK, MutexInv, LifecycleInv, OpenInv
<1>7. DetachedInv'
  BY DEF ServeBegin, TypeOK, MutexInv, DetachedInv, GenerationInv, LifecycleInv
<1>8. WorkersInv'
  BY DEF ServeBegin, TypeOK, MutexInv, WorkersInv, HoldersInv, LifecycleInv
<1>9. CleanupInv'
  BY DEF ServeBegin, TypeOK, MutexInv, GenerationInv, LifecycleInv, CleanupInv,
    HoldersInv
<1>10. PendingInv'
  BY DEF ServeBegin, TypeOK, MutexInv, GenerationInv, LifecycleInv, CleanupInv,
    HoldersInv, WorkersInv, PendingInv
<1> QED BY <1>1, <1>2, <1>3, <1>4, <1>5, <1>6, <1>7, <1>8, <1>9, <1>10

\* A usage event was stored, and a flush of drops may start.
LEMMA ServeStoredInv ==
  ASSUME IInv, NEW t \in Threads, ServeStored(t)
  PROVE  IInv'
<1> USE DEF IInv
<1>1. TypeOK'
  <2>1. (/\ lifecycleMu \in Threads \cup {None} /\ readers \subseteq Threads
       /\ store \in Stores \cup {None} /\ cfgPath \in Paths /\ cleanupErr \in BOOLEAN
       /\ opened \in [Stores -> Paths \cup {None}] /\ detached \in [Stores -> Nat]
       /\ wg \subseteq Threads \cup Jobs)'
    BY DEF ServeStored, TypeOK, MutexInv, GenerationInv, LifecycleInv
  <2>2. (pending \in Nat /\ held \in Nat)'
    BY DEF ServeStored, TypeOK, MutexInv, GenerationInv, LifecycleInv
  <2>3. (flushing \in BOOLEAN)'
    BY DEF ServeStored, TypeOK, MutexInv, GenerationInv, LifecycleInv
  <2>4. (/\ stored \in [Paths -> Nat] /\ dropped \in [Paths -> Nat]
        /\ repeated \in [Paths -> Nat])'
    BY DEF ServeStored, TypeOK, MutexInv, GenerationInv, LifecycleInv
  <2>5. (pc \in [Threads -> ThreadPcs] /\ mine \in [Threads -> Stores \cup {None}])'
    BY DEF ServeStored, TypeOK, MutexInv, GenerationInv, LifecycleInv
  <2>6. (target \in Paths \cup {None} /\ old \in Stores \cup {None})'
    BY DEF ServeStored, TypeOK, MutexInv, GenerationInv, LifecycleInv
  <2>7. (migrated \in BOOLEAN /\ failed \in BOOLEAN)'
    BY DEF ServeStored, TypeOK, MutexInv, GenerationInv, LifecycleInv
  <2>8. (/\ kind \in [Jobs -> JobKinds] /\ at \in [Jobs -> JobPcs]
       /\ jobStore \in [Jobs -> Stores \cup {None}]
       /\ live \subseteq Jobs /\ tries \in [Jobs -> Nat])'
    BY DEF ServeStored, TypeOK, MutexInv, GenerationInv, LifecycleInv
  <2> QED BY <2>1, <2>2, <2>3, <2>4, <2>5, <2>6, <2>7, <2>8 DEF TypeOK
<1>2. MutexInv'
  BY DEF ServeStored, TypeOK, MutexInv
<1>3. HoldersInv'
  BY DEF ServeStored, TypeOK, HoldersInv
<1>4. GenerationInv'
  BY DEF ServeStored, TypeOK, MutexInv, HoldersInv, GenerationInv, LifecycleInv
<1>5. LifecycleInv'
  BY DEF ServeStored, TypeOK, MutexInv, HoldersInv, GenerationInv, LifecycleInv,
    DetachedInv
<1>6. OpenInv'
  BY DEF ServeStored, TypeOK, MutexInv, LifecycleInv, OpenInv
<1>7. DetachedInv'
  BY DEF ServeStored, TypeOK, MutexInv, DetachedInv, GenerationInv, LifecycleInv
<1>8. WorkersInv'
  BY DEF ServeStored, TypeOK, MutexInv, WorkersInv, HoldersInv, LifecycleInv
<1>9. CleanupInv'
  BY DEF ServeStored, TypeOK, MutexInv, GenerationInv, LifecycleInv, CleanupInv,
    HoldersInv
<1>10. PendingInv'
  BY DEF ServeStored, TypeOK, MutexInv, GenerationInv, LifecycleInv, CleanupInv,
    HoldersInv, WorkersInv, PendingInv
<1> QED BY <1>1, <1>2, <1>3, <1>4, <1>5, <1>6, <1>7, <1>8, <1>9, <1>10

\* A usage event is dropped, and a flush of drops may start.
LEMMA ServeDroppedInv ==
  ASSUME IInv, NEW t \in Threads, ServeDropped(t)
  PROVE  IInv'
<1> USE DEF IInv
<1>1. TypeOK'
  <2>1. (/\ lifecycleMu \in Threads \cup {None} /\ readers \subseteq Threads
       /\ store \in Stores \cup {None} /\ cfgPath \in Paths /\ cleanupErr \in BOOLEAN
       /\ opened \in [Stores -> Paths \cup {None}] /\ detached \in [Stores -> Nat]
       /\ wg \subseteq Threads \cup Jobs)'
    BY DEF ServeDropped, TypeOK, MutexInv, GenerationInv, LifecycleInv
  <2>2. (pending \in Nat /\ held \in Nat)'
    BY DEF ServeDropped, TypeOK, MutexInv, GenerationInv, LifecycleInv
  <2>3. (flushing \in BOOLEAN)'
    BY DEF ServeDropped, TypeOK, MutexInv, GenerationInv, LifecycleInv
  <2>4. (/\ stored \in [Paths -> Nat] /\ dropped \in [Paths -> Nat]
        /\ repeated \in [Paths -> Nat])'
    BY DEF ServeDropped, TypeOK, MutexInv, GenerationInv, LifecycleInv
  <2>5. (pc \in [Threads -> ThreadPcs] /\ mine \in [Threads -> Stores \cup {None}])'
    BY DEF ServeDropped, TypeOK, MutexInv, GenerationInv, LifecycleInv
  <2>6. (target \in Paths \cup {None} /\ old \in Stores \cup {None})'
    BY DEF ServeDropped, TypeOK, MutexInv, GenerationInv, LifecycleInv
  <2>7. (migrated \in BOOLEAN /\ failed \in BOOLEAN)'
    BY DEF ServeDropped, TypeOK, MutexInv, GenerationInv, LifecycleInv
  <2>8. (/\ kind \in [Jobs -> JobKinds] /\ at \in [Jobs -> JobPcs]
       /\ jobStore \in [Jobs -> Stores \cup {None}]
       /\ live \subseteq Jobs /\ tries \in [Jobs -> Nat])'
    BY DEF ServeDropped, TypeOK, MutexInv, GenerationInv, LifecycleInv
  <2> QED BY <2>1, <2>2, <2>3, <2>4, <2>5, <2>6, <2>7, <2>8 DEF TypeOK
<1>2. MutexInv'
  BY DEF ServeDropped, TypeOK, MutexInv
<1>3. HoldersInv'
  BY DEF ServeDropped, TypeOK, HoldersInv
<1>4. GenerationInv'
  BY DEF ServeDropped, TypeOK, MutexInv, HoldersInv, GenerationInv, LifecycleInv
<1>5. LifecycleInv'
  BY DEF ServeDropped, TypeOK, MutexInv, HoldersInv, GenerationInv, LifecycleInv,
    DetachedInv
<1>6. OpenInv'
  BY DEF ServeDropped, TypeOK, MutexInv, LifecycleInv, OpenInv
<1>7. DetachedInv'
  BY DEF ServeDropped, TypeOK, MutexInv, DetachedInv, GenerationInv, LifecycleInv
<1>8. WorkersInv'
  BY DEF ServeDropped, TypeOK, MutexInv, WorkersInv, HoldersInv, LifecycleInv
<1>9. CleanupInv'
  BY DEF ServeDropped, TypeOK, MutexInv, GenerationInv, LifecycleInv, CleanupInv,
    HoldersInv
<1>10. PendingInv'
  BY DEF ServeDropped, TypeOK, MutexInv, GenerationInv, LifecycleInv, CleanupInv,
    HoldersInv, WorkersInv, PendingInv
<1> QED BY <1>1, <1>2, <1>3, <1>4, <1>5, <1>6, <1>7, <1>8, <1>9, <1>10

\* A usage event starts a calibration refit.
LEMMA ServeRefitInv ==
  ASSUME IInv, NEW t \in Threads, ServeRefit(t)
  PROVE  IInv'
<1> USE DEF IInv
<1>1. TypeOK'
  BY DEF ServeRefit, TypeOK, MutexInv, GenerationInv, LifecycleInv
<1>2. MutexInv'
  BY DEF ServeRefit, TypeOK, MutexInv
<1>3. HoldersInv'
  BY DEF ServeRefit, TypeOK, HoldersInv
<1>4. GenerationInv'
  BY DEF ServeRefit, TypeOK, MutexInv, HoldersInv, GenerationInv, LifecycleInv
<1>5. LifecycleInv'
  BY DEF ServeRefit, TypeOK, MutexInv, HoldersInv, GenerationInv, LifecycleInv,
    DetachedInv
<1>6. OpenInv'
  BY DEF ServeRefit, TypeOK, MutexInv, LifecycleInv, OpenInv
<1>7. DetachedInv'
  BY DEF ServeRefit, TypeOK, MutexInv, DetachedInv, GenerationInv, LifecycleInv
<1>8. WorkersInv'
  BY IdleJobIsFree DEF ServeRefit, TypeOK, MutexInv, WorkersInv, HoldersInv, LifecycleInv
<1>9. CleanupInv'
  BY DEF ServeRefit, TypeOK, MutexInv, GenerationInv, LifecycleInv, CleanupInv,
    HoldersInv
<1>10. PendingInv'
  BY DEF ServeRefit, TypeOK, MutexInv, GenerationInv, LifecycleInv, CleanupInv,
    HoldersInv, WorkersInv, PendingInv
<1> QED BY <1>1, <1>2, <1>3, <1>4, <1>5, <1>6, <1>7, <1>8, <1>9, <1>10

\* A call that holds the read lock returns.
LEMMA ServeEndInv ==
  ASSUME IInv, NEW t \in Threads, ServeEnd(t)
  PROVE  IInv'
<1> USE DEF IInv
<1>1. TypeOK'
  BY DEF ServeEnd, TypeOK, MutexInv, GenerationInv, LifecycleInv
<1>2. MutexInv'
  BY DEF ServeEnd, TypeOK, MutexInv
<1>3. HoldersInv'
  BY DEF ServeEnd, TypeOK, HoldersInv
<1>4. GenerationInv'
  BY DEF ServeEnd, TypeOK, MutexInv, HoldersInv, GenerationInv, LifecycleInv
<1>5. LifecycleInv'
  BY DEF ServeEnd, TypeOK, MutexInv, HoldersInv, GenerationInv, LifecycleInv,
    DetachedInv
<1>6. OpenInv'
  BY DEF ServeEnd, TypeOK, MutexInv, LifecycleInv, OpenInv
<1>7. DetachedInv'
  BY DEF ServeEnd, TypeOK, MutexInv, DetachedInv, GenerationInv, LifecycleInv
<1>8. WorkersInv'
  BY DEF ServeEnd, TypeOK, MutexInv, WorkersInv, HoldersInv, LifecycleInv
<1>9. CleanupInv'
  BY DEF ServeEnd, TypeOK, MutexInv, GenerationInv, LifecycleInv, CleanupInv,
    HoldersInv
<1>10. PendingInv'
  BY DEF ServeEnd, TypeOK, MutexInv, GenerationInv, LifecycleInv, CleanupInv,
    HoldersInv, WorkersInv, PendingInv
<1> QED BY <1>1, <1>2, <1>3, <1>4, <1>5, <1>6, <1>7, <1>8, <1>9, <1>10

\* A management call registers with beginStoreOp.
LEMMA OpBeginInv ==
  ASSUME IInv, NEW t \in Threads, OpBegin(t)
  PROVE  IInv'
<1> USE DEF IInv
<1>1. TypeOK'
  BY DEF OpBegin, TypeOK, MutexInv, GenerationInv, LifecycleInv
<1>2. MutexInv'
  BY DEF OpBegin, TypeOK, MutexInv
<1>3. HoldersInv'
  BY DEF OpBegin, TypeOK, HoldersInv
<1>4. GenerationInv'
  BY DEF OpBegin, TypeOK, MutexInv, HoldersInv, GenerationInv, LifecycleInv
<1>5. LifecycleInv'
  BY DEF OpBegin, TypeOK, MutexInv, HoldersInv, GenerationInv, LifecycleInv, DetachedInv
<1>6. OpenInv'
  BY DEF OpBegin, TypeOK, MutexInv, LifecycleInv, OpenInv
<1>7. DetachedInv'
  BY DEF OpBegin, TypeOK, MutexInv, DetachedInv, GenerationInv, LifecycleInv
<1>8. WorkersInv'
  BY DEF OpBegin, TypeOK, MutexInv, WorkersInv, HoldersInv, LifecycleInv
<1>9. CleanupInv'
  BY DEF OpBegin, TypeOK, MutexInv, GenerationInv, LifecycleInv, CleanupInv, HoldersInv
<1>10. PendingInv'
  BY DEF OpBegin, TypeOK, MutexInv, GenerationInv, LifecycleInv, CleanupInv, HoldersInv,
    WorkersInv, PendingInv
<1> QED BY <1>1, <1>2, <1>3, <1>4, <1>5, <1>6, <1>7, <1>8, <1>9, <1>10

\* A price sync publishes its catalog.
LEMMA OpApplyInv ==
  ASSUME IInv, NEW t \in Threads, OpApply(t)
  PROVE  IInv'
<1> USE DEF IInv
<1>1. TypeOK'
  BY DEF OpApply, TypeOK, MutexInv, GenerationInv, LifecycleInv
<1>2. MutexInv'
  BY DEF OpApply, TypeOK, MutexInv
<1>3. HoldersInv'
  BY DEF OpApply, TypeOK, HoldersInv
<1>4. GenerationInv'
  BY DEF OpApply, TypeOK, MutexInv, HoldersInv, GenerationInv, LifecycleInv
<1>5. LifecycleInv'
  BY DEF OpApply, TypeOK, MutexInv, HoldersInv, GenerationInv, LifecycleInv, DetachedInv
<1>6. OpenInv'
  BY DEF OpApply, TypeOK, MutexInv, LifecycleInv, OpenInv
<1>7. DetachedInv'
  BY DEF OpApply, TypeOK, MutexInv, DetachedInv, GenerationInv, LifecycleInv
<1>8. WorkersInv'
  BY DEF OpApply, TypeOK, MutexInv, WorkersInv, HoldersInv, LifecycleInv
<1>9. CleanupInv'
  BY DEF OpApply, TypeOK, MutexInv, GenerationInv, LifecycleInv, CleanupInv, HoldersInv
<1>10. PendingInv'
  BY DEF OpApply, TypeOK, MutexInv, GenerationInv, LifecycleInv, CleanupInv, HoldersInv,
    WorkersInv, PendingInv
<1> QED BY <1>1, <1>2, <1>3, <1>4, <1>5, <1>6, <1>7, <1>8, <1>9, <1>10

\* A price sync queues a repricing and ends.
LEMMA OpQueueInv ==
  ASSUME IInv, NEW t \in Threads, OpQueue(t)
  PROVE  IInv'
<1> USE DEF IInv
<1>1. TypeOK'
  BY DEF OpQueue, TypeOK, MutexInv, GenerationInv, LifecycleInv
<1>2. MutexInv'
  BY DEF OpQueue, TypeOK, MutexInv
<1>3. HoldersInv'
  BY DEF OpQueue, TypeOK, HoldersInv
<1>4. GenerationInv'
  BY DEF OpQueue, TypeOK, MutexInv, HoldersInv, GenerationInv, LifecycleInv
<1>5. LifecycleInv'
  BY DEF OpQueue, TypeOK, MutexInv, HoldersInv, GenerationInv, LifecycleInv, DetachedInv
<1>6. OpenInv'
  BY DEF OpQueue, TypeOK, MutexInv, LifecycleInv, OpenInv
<1>7. DetachedInv'
  BY DEF OpQueue, TypeOK, MutexInv, DetachedInv, GenerationInv, LifecycleInv
<1>8. WorkersInv'
  BY IdleJobIsFree DEF OpQueue, TypeOK, MutexInv, WorkersInv, HoldersInv, LifecycleInv
<1>9. CleanupInv'
  BY DEF OpQueue, TypeOK, MutexInv, GenerationInv, LifecycleInv, CleanupInv, HoldersInv
<1>10. PendingInv'
  BY DEF OpQueue, TypeOK, MutexInv, GenerationInv, LifecycleInv, CleanupInv, HoldersInv,
    WorkersInv, PendingInv
<1> QED BY <1>1, <1>2, <1>3, <1>4, <1>5, <1>6, <1>7, <1>8, <1>9, <1>10

\* A registered management call ends.
LEMMA OpEndInv ==
  ASSUME IInv, NEW t \in Threads, OpEnd(t)
  PROVE  IInv'
<1> USE DEF IInv
<1>1. TypeOK'
  BY DEF OpEnd, TypeOK, MutexInv, GenerationInv, LifecycleInv
<1>2. MutexInv'
  BY DEF OpEnd, TypeOK, MutexInv
<1>3. HoldersInv'
  BY DEF OpEnd, TypeOK, HoldersInv
<1>4. GenerationInv'
  BY DEF OpEnd, TypeOK, MutexInv, HoldersInv, GenerationInv, LifecycleInv
<1>5. LifecycleInv'
  BY DEF OpEnd, TypeOK, MutexInv, HoldersInv, GenerationInv, LifecycleInv, DetachedInv
<1>6. OpenInv'
  BY DEF OpEnd, TypeOK, MutexInv, LifecycleInv, OpenInv
<1>7. DetachedInv'
  BY DEF OpEnd, TypeOK, MutexInv, DetachedInv, GenerationInv, LifecycleInv
<1>8. WorkersInv'
  BY DEF OpEnd, TypeOK, MutexInv, WorkersInv, HoldersInv, LifecycleInv
<1>9. CleanupInv'
  BY DEF OpEnd, TypeOK, MutexInv, GenerationInv, LifecycleInv, CleanupInv, HoldersInv
<1>10. PendingInv'
  BY DEF OpEnd, TypeOK, MutexInv, GenerationInv, LifecycleInv, CleanupInv, HoldersInv,
    WorkersInv, PendingInv
<1> QED BY <1>1, <1>2, <1>3, <1>4, <1>5, <1>6, <1>7, <1>8, <1>9, <1>10

\* A call captures the store to save pricing settings.
LEMMA SaveBeginInv ==
  ASSUME IInv, NEW t \in Threads, SaveBegin(t)
  PROVE  IInv'
<1> USE DEF IInv
<1>1. TypeOK'
  BY DEF SaveBegin, TypeOK, MutexInv, GenerationInv, LifecycleInv
<1>2. MutexInv'
  BY DEF SaveBegin, TypeOK, MutexInv
<1>3. HoldersInv'
  BY DEF SaveBegin, TypeOK, HoldersInv
<1>4. GenerationInv'
  BY DEF SaveBegin, TypeOK, MutexInv, HoldersInv, GenerationInv, LifecycleInv
<1>5. LifecycleInv'
  BY DEF SaveBegin, TypeOK, MutexInv, HoldersInv, GenerationInv, LifecycleInv,
    DetachedInv
<1>6. OpenInv'
  BY DEF SaveBegin, TypeOK, MutexInv, LifecycleInv, OpenInv
<1>7. DetachedInv'
  BY DEF SaveBegin, TypeOK, MutexInv, DetachedInv, GenerationInv, LifecycleInv
<1>8. WorkersInv'
  BY DEF SaveBegin, TypeOK, MutexInv, WorkersInv, HoldersInv, LifecycleInv
<1>9. CleanupInv'
  BY DEF SaveBegin, TypeOK, MutexInv, GenerationInv, LifecycleInv, CleanupInv,
    HoldersInv
<1>10. PendingInv'
  BY DEF SaveBegin, TypeOK, MutexInv, GenerationInv, LifecycleInv, CleanupInv,
    HoldersInv, WorkersInv, PendingInv
<1> QED BY <1>1, <1>2, <1>3, <1>4, <1>5, <1>6, <1>7, <1>8, <1>9, <1>10

\* The pricing task of a save is started, or refused.
LEMMA SaveStartInv ==
  ASSUME IInv, NEW t \in Threads, SaveStart(t)
  PROVE  IInv'
<1> USE DEF IInv
<1>1. TypeOK'
  BY DEF SaveStart, TypeOK, MutexInv, GenerationInv, LifecycleInv
<1>2. MutexInv'
  BY DEF SaveStart, TypeOK, MutexInv
<1>3. HoldersInv'
  BY DEF SaveStart, TypeOK, HoldersInv
<1>4. GenerationInv'
  BY DEF SaveStart, TypeOK, MutexInv, HoldersInv, GenerationInv, LifecycleInv
<1>5. LifecycleInv'
  BY DEF SaveStart, TypeOK, MutexInv, HoldersInv, GenerationInv, LifecycleInv,
    DetachedInv
<1>6. OpenInv'
  BY DEF SaveStart, TypeOK, MutexInv, LifecycleInv, OpenInv
<1>7. DetachedInv'
  BY DEF SaveStart, TypeOK, MutexInv, DetachedInv, GenerationInv, LifecycleInv
<1>8. WorkersInv'
  BY IdleJobIsFree DEF SaveStart, TypeOK, MutexInv, WorkersInv, HoldersInv, LifecycleInv
<1>9. CleanupInv'
  BY DEF SaveStart, TypeOK, MutexInv, GenerationInv, LifecycleInv, CleanupInv,
    HoldersInv
<1>10. PendingInv'
  BY DEF SaveStart, TypeOK, MutexInv, GenerationInv, LifecycleInv, CleanupInv,
    HoldersInv, WorkersInv, PendingInv
<1> QED BY <1>1, <1>2, <1>3, <1>4, <1>5, <1>6, <1>7, <1>8, <1>9, <1>10

\* A worker applies what it fitted or fetched to its own store.
LEMMA JobApplyInv ==
  ASSUME IInv, NEW j \in Jobs, JobApply(j)
  PROVE  IInv'
<1> USE DEF IInv
<1>1. TypeOK'
  BY DEF JobApply, TypeOK, MutexInv, GenerationInv, LifecycleInv
<1>2. MutexInv'
  BY DEF JobApply, TypeOK, MutexInv
<1>3. HoldersInv'
  BY DEF JobApply, TypeOK, HoldersInv
<1>4. GenerationInv'
  BY DEF JobApply, TypeOK, MutexInv, HoldersInv, GenerationInv, LifecycleInv
<1>5. LifecycleInv'
  BY DEF JobApply, TypeOK, MutexInv, HoldersInv, GenerationInv, LifecycleInv,
    DetachedInv
<1>6. OpenInv'
  BY DEF JobApply, TypeOK, MutexInv, LifecycleInv, OpenInv
<1>7. DetachedInv'
  BY DEF JobApply, TypeOK, MutexInv, DetachedInv, GenerationInv, LifecycleInv
<1>8. WorkersInv'
  BY DEF JobApply, TypeOK, MutexInv, WorkersInv, HoldersInv, LifecycleInv
<1>9. CleanupInv'
  BY DEF JobApply, TypeOK, MutexInv, GenerationInv, LifecycleInv, CleanupInv, HoldersInv
<1>10. PendingInv'
  BY DEF JobApply, TypeOK, MutexInv, GenerationInv, LifecycleInv, CleanupInv,
    HoldersInv, WorkersInv, PendingInv
<1> QED BY <1>1, <1>2, <1>3, <1>4, <1>5, <1>6, <1>7, <1>8, <1>9, <1>10

\* A worker starts a pricing task, or is refused.
LEMMA JobStartInv ==
  ASSUME IInv, NEW j \in Jobs, JobStart(j)
  PROVE  IInv'
<1> USE DEF IInv
<1>1. TypeOK'
  BY DEF JobStart, TypeOK, MutexInv, GenerationInv, LifecycleInv
<1>2. MutexInv'
  BY DEF JobStart, TypeOK, MutexInv
<1>3. HoldersInv'
  BY DEF JobStart, TypeOK, HoldersInv
<1>4. GenerationInv'
  BY DEF JobStart, WorkersInv, TypeOK, MutexInv, HoldersInv, GenerationInv, LifecycleInv
<1>5. LifecycleInv'
  BY DEF JobStart, WorkersInv, TypeOK, MutexInv, HoldersInv, GenerationInv,
    LifecycleInv, DetachedInv
<1>6. OpenInv'
  BY DEF JobStart, TypeOK, MutexInv, LifecycleInv, OpenInv
<1>7. DetachedInv'
  BY DEF JobStart, TypeOK, MutexInv, DetachedInv, GenerationInv, LifecycleInv
<1>8. WorkersInv'
  BY IdleJobIsFree DEF JobStart, TypeOK, MutexInv, WorkersInv, HoldersInv, LifecycleInv
<1>9. CleanupInv'
  BY DEF JobStart, TypeOK, MutexInv, GenerationInv, LifecycleInv, CleanupInv, HoldersInv
<1>10. PendingInv'
  BY DEF JobStart, TypeOK, MutexInv, GenerationInv, LifecycleInv, CleanupInv,
    HoldersInv, WorkersInv, PendingInv
<1> QED BY <1>1, <1>2, <1>3, <1>4, <1>5, <1>6, <1>7, <1>8, <1>9, <1>10

\* A pricing task reports its end and leaves a checkpoint behind.
LEMMA PricingFinishInv ==
  ASSUME IInv, NEW j \in Jobs, PricingFinish(j)
  PROVE  IInv'
<1> USE DEF IInv
<1>1. TypeOK'
  BY DEF PricingFinish, TypeOK, MutexInv, GenerationInv, LifecycleInv
<1>2. MutexInv'
  BY DEF PricingFinish, TypeOK, MutexInv
<1>3. HoldersInv'
  BY DEF PricingFinish, TypeOK, HoldersInv
<1>4. GenerationInv'
  BY DEF PricingFinish, TypeOK, MutexInv, HoldersInv, GenerationInv, LifecycleInv
<1>5. LifecycleInv'
  BY DEF PricingFinish, TypeOK, MutexInv, HoldersInv, GenerationInv, LifecycleInv,
    DetachedInv
<1>6. OpenInv'
  BY DEF PricingFinish, TypeOK, MutexInv, LifecycleInv, OpenInv
<1>7. DetachedInv'
  BY DEF PricingFinish, TypeOK, MutexInv, DetachedInv, GenerationInv, LifecycleInv
<1>8. WorkersInv'
  BY DEF PricingFinish, TypeOK, MutexInv, WorkersInv, HoldersInv, LifecycleInv
<1>9. CleanupInv'
  BY DEF PricingFinish, TypeOK, MutexInv, GenerationInv, LifecycleInv, CleanupInv,
    HoldersInv
<1>10. PendingInv'
  BY DEF PricingFinish, TypeOK, MutexInv, GenerationInv, LifecycleInv, CleanupInv,
    HoldersInv, WorkersInv, PendingInv
<1> QED BY <1>1, <1>2, <1>3, <1>4, <1>5, <1>6, <1>7, <1>8, <1>9, <1>10

\* The tail of a pricing task queues a pending repricing.
LEMMA PricingRequeueInv ==
  ASSUME IInv, NEW j \in Jobs, PricingRequeue(j)
  PROVE  IInv'
<1> USE DEF IInv
<1>1. TypeOK'
  BY DEF PricingRequeue, TypeOK, MutexInv, GenerationInv, LifecycleInv
<1>2. MutexInv'
  BY DEF PricingRequeue, TypeOK, MutexInv
<1>3. HoldersInv'
  BY DEF PricingRequeue, TypeOK, HoldersInv
<1>4. GenerationInv'
  BY DEF PricingRequeue, TypeOK, MutexInv, HoldersInv, GenerationInv, LifecycleInv
<1>5. LifecycleInv'
  BY DEF PricingRequeue, TypeOK, MutexInv, HoldersInv, GenerationInv, LifecycleInv,
    DetachedInv
<1>6. OpenInv'
  BY DEF PricingRequeue, TypeOK, MutexInv, LifecycleInv, OpenInv
<1>7. DetachedInv'
  BY DEF PricingRequeue, TypeOK, MutexInv, DetachedInv, GenerationInv, LifecycleInv
<1>8. WorkersInv'
  BY DEF PricingRequeue, TypeOK, MutexInv, WorkersInv, HoldersInv, LifecycleInv
<1>9. CleanupInv'
  BY DEF PricingRequeue, TypeOK, MutexInv, GenerationInv, LifecycleInv, CleanupInv,
    HoldersInv
<1>10. PendingInv'
  BY DEF PricingRequeue, TypeOK, MutexInv, GenerationInv, LifecycleInv, CleanupInv,
    HoldersInv, WorkersInv, PendingInv
<1> QED BY <1>1, <1>2, <1>3, <1>4, <1>5, <1>6, <1>7, <1>8, <1>9, <1>10

\* A refit or a pricing task ends.
LEMMA JobEndInv ==
  ASSUME IInv, NEW j \in Jobs, JobEnd(j)
  PROVE  IInv'
<1> USE DEF IInv
<1>1. TypeOK'
  BY DEF JobEnd, TypeOK, MutexInv, GenerationInv, LifecycleInv
<1>2. MutexInv'
  BY DEF JobEnd, TypeOK, MutexInv
<1>3. HoldersInv'
  BY DEF JobEnd, TypeOK, HoldersInv
<1>4. GenerationInv'
  BY DEF JobEnd, TypeOK, MutexInv, HoldersInv, GenerationInv, LifecycleInv
<1>5. LifecycleInv'
  BY DEF JobEnd, TypeOK, MutexInv, HoldersInv, GenerationInv, LifecycleInv, DetachedInv
<1>6. OpenInv'
  BY DEF JobEnd, TypeOK, MutexInv, LifecycleInv, OpenInv
<1>7. DetachedInv'
  BY DEF JobEnd, TypeOK, MutexInv, DetachedInv, GenerationInv, LifecycleInv
<1>8. WorkersInv'
  BY DEF JobEnd, TypeOK, MutexInv, WorkersInv, HoldersInv, LifecycleInv
<1>9. CleanupInv'
  BY DEF JobEnd, TypeOK, MutexInv, GenerationInv, LifecycleInv, CleanupInv, HoldersInv
<1>10. PendingInv'
  BY DEF JobEnd, TypeOK, MutexInv, GenerationInv, LifecycleInv, CleanupInv, HoldersInv,
    WorkersInv, PendingInv
<1> QED BY <1>1, <1>2, <1>3, <1>4, <1>5, <1>6, <1>7, <1>8, <1>9, <1>10

\* A tick of the background loop starts a flush of drops.
LEMMA BackgroundTickInv ==
  ASSUME IInv, NEW j \in Jobs, BackgroundTick(j)
  PROVE  IInv'
<1> USE DEF IInv
<1>1. TypeOK'
  BY DEF BackgroundTick, TypeOK, MutexInv, GenerationInv, LifecycleInv
<1>2. MutexInv'
  BY DEF BackgroundTick, TypeOK, MutexInv
<1>3. HoldersInv'
  BY DEF BackgroundTick, TypeOK, HoldersInv
<1>4. GenerationInv'
  BY DEF BackgroundTick, TypeOK, MutexInv, HoldersInv, GenerationInv, LifecycleInv
<1>5. LifecycleInv'
  BY DEF BackgroundTick, TypeOK, MutexInv, HoldersInv, GenerationInv, LifecycleInv,
    DetachedInv
<1>6. OpenInv'
  BY DEF BackgroundTick, TypeOK, MutexInv, LifecycleInv, OpenInv
<1>7. DetachedInv'
  BY DEF BackgroundTick, TypeOK, MutexInv, DetachedInv, GenerationInv, LifecycleInv
<1>8. WorkersInv'
  BY DEF BackgroundTick, TypeOK, MutexInv, WorkersInv, HoldersInv, LifecycleInv
<1>9. CleanupInv'
  BY DEF BackgroundTick, TypeOK, MutexInv, GenerationInv, LifecycleInv, CleanupInv,
    HoldersInv
<1>10. PendingInv'
  BY DEF BackgroundTick, TypeOK, MutexInv, GenerationInv, LifecycleInv, CleanupInv,
    HoldersInv, WorkersInv, PendingInv
<1> QED BY <1>1, <1>2, <1>3, <1>4, <1>5, <1>6, <1>7, <1>8, <1>9, <1>10

\* The background loop sees its cancellation.
LEMMA BackgroundExitInv ==
  ASSUME IInv, NEW j \in Jobs, BackgroundExit(j)
  PROVE  IInv'
<1> USE DEF IInv
<1>1. TypeOK'
  BY DEF BackgroundExit, TypeOK, MutexInv, GenerationInv, LifecycleInv
<1>2. MutexInv'
  BY DEF BackgroundExit, TypeOK, MutexInv
<1>3. HoldersInv'
  BY DEF BackgroundExit, TypeOK, HoldersInv
<1>4. GenerationInv'
  BY DEF BackgroundExit, TypeOK, MutexInv, HoldersInv, GenerationInv, LifecycleInv
<1>5. LifecycleInv'
  BY DEF BackgroundExit, TypeOK, MutexInv, HoldersInv, GenerationInv, LifecycleInv,
    DetachedInv
<1>6. OpenInv'
  BY DEF BackgroundExit, TypeOK, MutexInv, LifecycleInv, OpenInv
<1>7. DetachedInv'
  BY DEF BackgroundExit, TypeOK, MutexInv, DetachedInv, GenerationInv, LifecycleInv
<1>8. WorkersInv'
  BY DEF BackgroundExit, TypeOK, MutexInv, WorkersInv, HoldersInv, LifecycleInv
<1>9. CleanupInv'
  BY DEF BackgroundExit, TypeOK, MutexInv, GenerationInv, LifecycleInv, CleanupInv,
    HoldersInv
<1>10. PendingInv'
  BY DEF BackgroundExit, TypeOK, MutexInv, GenerationInv, LifecycleInv, CleanupInv,
    HoldersInv, WorkersInv, PendingInv
<1> QED BY <1>1, <1>2, <1>3, <1>4, <1>5, <1>6, <1>7, <1>8, <1>9, <1>10

\* The drop flusher takes the pending count, or ends.
LEMMA FlushTakeInv ==
  ASSUME IInv, NEW j \in Jobs, FlushTake(j)
  PROVE  IInv'
<1> USE DEF IInv
<1>1. TypeOK'
  <2>1. (/\ lifecycleMu \in Threads \cup {None} /\ readers \subseteq Threads
       /\ store \in Stores \cup {None} /\ cfgPath \in Paths /\ cleanupErr \in BOOLEAN
       /\ opened \in [Stores -> Paths \cup {None}] /\ detached \in [Stores -> Nat]
       /\ wg \subseteq Threads \cup Jobs)'
    BY DEF FlushTake, TypeOK, MutexInv, GenerationInv, LifecycleInv
  <2>2. (pending \in Nat /\ held \in Nat)'
    BY DEF FlushTake, TypeOK, MutexInv, GenerationInv, LifecycleInv
  <2>3. (flushing \in BOOLEAN)'
    BY DEF FlushTake, TypeOK, MutexInv, GenerationInv, LifecycleInv
  <2>4. (/\ stored \in [Paths -> Nat] /\ dropped \in [Paths -> Nat]
        /\ repeated \in [Paths -> Nat])'
    BY DEF FlushTake, TypeOK, MutexInv, GenerationInv, LifecycleInv
  <2>5. (pc \in [Threads -> ThreadPcs] /\ mine \in [Threads -> Stores \cup {None}])'
    BY DEF FlushTake, TypeOK, MutexInv, GenerationInv, LifecycleInv
  <2>6. (target \in Paths \cup {None} /\ old \in Stores \cup {None})'
    BY DEF FlushTake, TypeOK, MutexInv, GenerationInv, LifecycleInv
  <2>7. (migrated \in BOOLEAN /\ failed \in BOOLEAN)'
    BY DEF FlushTake, TypeOK, MutexInv, GenerationInv, LifecycleInv
  <2>8. (/\ kind \in [Jobs -> JobKinds] /\ at \in [Jobs -> JobPcs]
       /\ jobStore \in [Jobs -> Stores \cup {None}]
       /\ live \subseteq Jobs /\ tries \in [Jobs -> Nat])'
    BY DEF FlushTake, TypeOK, MutexInv, GenerationInv, LifecycleInv
  <2> QED BY <2>1, <2>2, <2>3, <2>4, <2>5, <2>6, <2>7, <2>8 DEF TypeOK
<1>2. MutexInv'
  BY DEF FlushTake, TypeOK, MutexInv
<1>3. HoldersInv'
  BY DEF FlushTake, TypeOK, HoldersInv
<1>4. GenerationInv'
  BY DEF FlushTake, TypeOK, MutexInv, HoldersInv, GenerationInv, LifecycleInv
<1>5. LifecycleInv'
  BY DEF FlushTake, TypeOK, MutexInv, HoldersInv, GenerationInv, LifecycleInv,
    DetachedInv
<1>6. OpenInv'
  BY DEF FlushTake, TypeOK, MutexInv, LifecycleInv, OpenInv
<1>7. DetachedInv'
  BY DEF FlushTake, TypeOK, MutexInv, DetachedInv, GenerationInv, LifecycleInv
<1>8. WorkersInv'
  BY DEF FlushTake, TypeOK, MutexInv, WorkersInv, HoldersInv, LifecycleInv
<1>9. CleanupInv'
  BY DEF FlushTake, TypeOK, MutexInv, GenerationInv, LifecycleInv, CleanupInv,
    HoldersInv
<1>10. PendingInv'
  BY DEF FlushTake, TypeOK, MutexInv, GenerationInv, LifecycleInv, CleanupInv,
    HoldersInv, WorkersInv, PendingInv
<1> QED BY <1>1, <1>2, <1>3, <1>4, <1>5, <1>6, <1>7, <1>8, <1>9, <1>10

\* The drop flusher gives the count back when its store is gone.
LEMMA FlushCheckInv ==
  ASSUME IInv, NEW j \in Jobs, FlushCheck(j)
  PROVE  IInv'
<1> USE DEF IInv
<1>1. TypeOK'
  <2>1. (/\ lifecycleMu \in Threads \cup {None} /\ readers \subseteq Threads
       /\ store \in Stores \cup {None} /\ cfgPath \in Paths /\ cleanupErr \in BOOLEAN
       /\ opened \in [Stores -> Paths \cup {None}] /\ detached \in [Stores -> Nat]
       /\ wg \subseteq Threads \cup Jobs)'
    BY DEF FlushCheck, TypeOK, MutexInv, GenerationInv, LifecycleInv
  <2>2. (pending \in Nat /\ held \in Nat)'
    BY DEF FlushCheck, TypeOK, MutexInv, GenerationInv, LifecycleInv
  <2>3. (flushing \in BOOLEAN)'
    BY DEF FlushCheck, TypeOK, MutexInv, GenerationInv, LifecycleInv
  <2>4. (/\ stored \in [Paths -> Nat] /\ dropped \in [Paths -> Nat]
        /\ repeated \in [Paths -> Nat])'
    BY DEF FlushCheck, TypeOK, MutexInv, GenerationInv, LifecycleInv
  <2>5. (pc \in [Threads -> ThreadPcs] /\ mine \in [Threads -> Stores \cup {None}])'
    BY DEF FlushCheck, TypeOK, MutexInv, GenerationInv, LifecycleInv
  <2>6. (target \in Paths \cup {None} /\ old \in Stores \cup {None})'
    BY DEF FlushCheck, TypeOK, MutexInv, GenerationInv, LifecycleInv
  <2>7. (migrated \in BOOLEAN /\ failed \in BOOLEAN)'
    BY DEF FlushCheck, TypeOK, MutexInv, GenerationInv, LifecycleInv
  <2>8. (/\ kind \in [Jobs -> JobKinds] /\ at \in [Jobs -> JobPcs]
       /\ jobStore \in [Jobs -> Stores \cup {None}]
       /\ live \subseteq Jobs /\ tries \in [Jobs -> Nat])'
    BY DEF FlushCheck, TypeOK, MutexInv, GenerationInv, LifecycleInv
  <2> QED BY <2>1, <2>2, <2>3, <2>4, <2>5, <2>6, <2>7, <2>8 DEF TypeOK
<1>2. MutexInv'
  BY DEF FlushCheck, TypeOK, MutexInv
<1>3. HoldersInv'
  BY DEF FlushCheck, TypeOK, HoldersInv
<1>4. GenerationInv'
  BY DEF FlushCheck, TypeOK, MutexInv, HoldersInv, GenerationInv, LifecycleInv
<1>5. LifecycleInv'
  BY DEF FlushCheck, TypeOK, MutexInv, HoldersInv, GenerationInv, LifecycleInv,
    DetachedInv
<1>6. OpenInv'
  BY DEF FlushCheck, TypeOK, MutexInv, LifecycleInv, OpenInv
<1>7. DetachedInv'
  BY DEF FlushCheck, TypeOK, MutexInv, DetachedInv, GenerationInv, LifecycleInv
<1>8. WorkersInv'
  BY DEF FlushCheck, TypeOK, MutexInv, WorkersInv, HoldersInv, LifecycleInv
<1>9. CleanupInv'
  BY DEF FlushCheck, TypeOK, MutexInv, GenerationInv, LifecycleInv, CleanupInv,
    HoldersInv
<1>10. PendingInv'
  BY DEF FlushCheck, TypeOK, MutexInv, GenerationInv, LifecycleInv, CleanupInv,
    HoldersInv, WorkersInv, PendingInv
<1> QED BY <1>1, <1>2, <1>3, <1>4, <1>5, <1>6, <1>7, <1>8, <1>9, <1>10

\* The drop flusher writes the count, or keeps it.
LEMMA FlushWriteInv ==
  ASSUME IInv, NEW j \in Jobs, NEW ok \in BOOLEAN, FlushWrite(j, ok)
  PROVE  IInv'
<1> USE DEF IInv
<1>1. TypeOK'
  BY DEF FlushWrite, TypeOK, MutexInv, GenerationInv, LifecycleInv
<1>2. MutexInv'
  BY DEF FlushWrite, TypeOK, MutexInv
<1>3. HoldersInv'
  BY DEF FlushWrite, TypeOK, HoldersInv
<1>4. GenerationInv'
  BY DEF FlushWrite, TypeOK, MutexInv, HoldersInv, GenerationInv, LifecycleInv
<1>5. LifecycleInv'
  BY DEF FlushWrite, TypeOK, MutexInv, HoldersInv, GenerationInv, LifecycleInv,
    DetachedInv
<1>6. OpenInv'
  BY DEF FlushWrite, TypeOK, MutexInv, LifecycleInv, OpenInv
<1>7. DetachedInv'
  BY DEF FlushWrite, TypeOK, MutexInv, DetachedInv, GenerationInv, LifecycleInv
<1>8. WorkersInv'
  BY DEF FlushWrite, TypeOK, MutexInv, WorkersInv, HoldersInv, LifecycleInv
<1>9. CleanupInv'
  BY DEF FlushWrite, TypeOK, MutexInv, GenerationInv, LifecycleInv, CleanupInv,
    HoldersInv
<1>10. PendingInv'
  BY DEF FlushWrite, TypeOK, MutexInv, GenerationInv, LifecycleInv, CleanupInv,
    HoldersInv, WorkersInv, PendingInv
<1> QED BY <1>1, <1>2, <1>3, <1>4, <1>5, <1>6, <1>7, <1>8, <1>9, <1>10

\* A detached checkpoint ends.
LEMMA CheckpointDoneInv ==
  ASSUME IInv, NEW s \in Stores, CheckpointDone(s)
  PROVE  IInv'
<1> USE DEF IInv
<1>1. TypeOK'
  BY DEF CheckpointDone, TypeOK, MutexInv, GenerationInv, LifecycleInv
<1>2. MutexInv'
  BY DEF CheckpointDone, TypeOK, MutexInv
<1>3. HoldersInv'
  BY DEF CheckpointDone, TypeOK, HoldersInv
<1>4. GenerationInv'
  BY DEF CheckpointDone, TypeOK, MutexInv, HoldersInv, GenerationInv, LifecycleInv
<1>5. LifecycleInv'
  BY DEF CheckpointDone, TypeOK, MutexInv, HoldersInv, GenerationInv, LifecycleInv,
    DetachedInv
<1>6. OpenInv'
  BY DEF CheckpointDone, TypeOK, MutexInv, LifecycleInv, OpenInv
<1>7. DetachedInv'
  BY DEF CheckpointDone, TypeOK, MutexInv, DetachedInv, GenerationInv, LifecycleInv
<1>8. WorkersInv'
  BY DEF CheckpointDone, TypeOK, MutexInv, WorkersInv, HoldersInv, LifecycleInv
<1>9. CleanupInv'
  BY DEF CheckpointDone, TypeOK, MutexInv, GenerationInv, LifecycleInv, CleanupInv,
    HoldersInv
<1>10. PendingInv'
  BY DEF CheckpointDone, TypeOK, MutexInv, GenerationInv, LifecycleInv, CleanupInv,
    HoldersInv, WorkersInv, PendingInv
<1> QED BY <1>1, <1>2, <1>3, <1>4, <1>5, <1>6, <1>7, <1>8, <1>9, <1>10

-----------------------------------------------------------------------------
\* The initial state: no store, and nothing in flight.
LEMMA InitInv == Init => IInv
<1> SUFFICES ASSUME Init PROVE IInv
  OBVIOUS
<1> USE DEF Init
<1>1. TypeOK /\ MutexInv /\ HoldersInv
  BY DEF TypeOK, MutexInv, HoldersInv
<1>2. GenerationInv /\ LifecycleInv /\ OpenInv /\ DetachedInv
  BY DEF GenerationInv, LifecycleInv, OpenInv, DetachedInv
<1>3. WorkersInv /\ CleanupInv /\ PendingInv
  BY DEF WorkersInv, CleanupInv, PendingInv
<1> QED BY <1>1, <1>2, <1>3 DEF IInv

\* A step that changes nothing.
LEMMA StutterInv == IInv /\ UNCHANGED vars => IInv'
<1> SUFFICES ASSUME IInv, UNCHANGED vars PROVE IInv'
  OBVIOUS
<1> QED
  BY DEF IInv, TypeOK, MutexInv, HoldersInv, GenerationInv, LifecycleInv, OpenInv,
    DetachedInv, WorkersInv, CleanupInv, PendingInv

\* Every step keeps the inductive invariant.
LEMMA NextInv == IInv /\ [Next]_vars => IInv'
<1> SUFFICES ASSUME IInv, [Next]_vars PROVE IInv'
  OBVIOUS
<1>1. ASSUME NEW t \in Threads, Quiesce(t) PROVE IInv'
  BY ONLY IInv, <1>1, QuiesceBeginInv, QuiesceDetachInv, QuiesceDrainInv, QuiesceCloseInv DEF Quiesce
<1>2. ASSUME NEW t \in Threads, Configure(t) PROVE IInv'
  BY ONLY IInv, <1>2, ConfigureBeginInv, ConfigureCheckInv, ConfigureOpenInv, ConfigureRecoverInv, ConfigureLoadInv,
     ConfigureSealInv, ConfigureDrainInv, ConfigureCloseInv, ConfigurePublishInv,
     ConfigureMigrateInv, ConfigureSpawnInv DEF Configure
<1>3. ASSUME NEW t \in Threads, Call(t) PROVE IInv'
  BY ONLY IInv, <1>3, ServeBeginInv, ServeStoredInv, ServeDroppedInv, ServeRefitInv, ServeEndInv,
     OpBeginInv, OpApplyInv, OpQueueInv, OpEndInv, SaveBeginInv, SaveStartInv DEF Call
<1>4. ASSUME NEW j \in Jobs, Worker(j) PROVE IInv'
  BY ONLY IInv, <1>4, JobApplyInv, JobStartInv, PricingFinishInv, PricingRequeueInv, JobEndInv,
     BackgroundTickInv, BackgroundExitInv, FlushTakeInv, FlushCheckInv, FlushWriteInv DEF Worker, FlushStep
<1>5. ASSUME NEW s \in Stores, CheckpointDone(s) PROVE IInv'
  BY ONLY IInv, <1>5, CheckpointDoneInv
<1> QED
  BY <1>1, <1>2, <1>3, <1>4, <1>5, StutterInv DEF Next

\* The inductive invariant holds of every reachable state.
THEOREM Inductive == Spec => []IInv
BY InitInv, NextInv, PTL DEF Spec

\* The types of the variables.
THEOREM TypeCorrect == Spec => []TypeOK
<1>1. IInv => TypeOK
  BY DEF IInv
<1> QED BY <1>1, Inductive, PTL

\* No call, worker or detached checkpoint ever holds a closed store.
THEOREM StoreIsSafe == Spec => []StoreSafety
<1>1. IInv => StoreSafety
  BY DEF IInv, TypeOK, GenerationInv, DetachedInv, StoreSafety
<1> QED BY <1>1, Inductive, PTL

\* Two *store values are never open on one data_path at the same time.
THEOREM OneStore == Spec => []OneStorePerPath
<1>1. IInv => OneStorePerPath
  BY DEF IInv, TypeOK, MutexInv, GenerationInv, LifecycleInv, OpenInv, OneStorePerPath
<1> QED BY <1>1, Inductive, PTL

\* Generations of workers never overlap.
THEOREM OneGeneration == Spec => []GenerationsNeverOverlap
<1>1. IInv => GenerationsNeverOverlap
  BY DEF IInv, TypeOK, GenerationInv, LifecycleInv, WorkersInv, GenerationsNeverOverlap
<1> QED BY <1>1, Inductive, PTL

\* A store is closed, and the next one published, after the drain only.
THEOREM Drained == Spec => []DrainedBeforeClose
<1>1. IInv => DrainedBeforeClose
  BY DEF IInv, TypeOK, MutexInv, HoldersInv, GenerationInv, LifecycleInv, WorkersInv, DrainedBeforeClose
<1> QED BY <1>1, Inductive, PTL

\* "store changed while configuring" is never answered.
THEOREM SealSees == Spec => []SealSeesItsStore
<1>1. IInv => SealSeesItsStore
  BY DEF IInv, MutexInv, LifecycleInv, SealSeesItsStore
<1> QED BY <1>1, Inductive, PTL

-----------------------------------------------------------------------------
(***************************************************************************)
(* The accounting of dropped usage events: PluginLifecycle implements      *)
(* DroppedUsageLedger, and quiesce and configure leave no count behind.    *)
(*                                                                         *)
(* The argument goes through the history: the counts of a database always  *)
(* add up to the drops of its stores and what failed writes repeated, so   *)
(* the total of the ledger changes exactly where one of them does.         *)
(***************************************************************************)

\* The flusher that takes the pending count has none in its hands.
LEMMA TakesWithEmptyHands ==
  ASSUME IInv, NEW j \in Jobs, FlushTake(j)
  PROVE  held = 0
BY DEF IInv, TypeOK, WorkersInv, FlushTake

\* Whoever flushes does it to the current data_path.
LEMMA FlushesTheCurrentPath ==
  ASSUME IInv
  PROVE  /\ \A t \in Threads : QuiesceDrain(t) => opened[mine[t]] = cfgPath
         /\ \A t \in Threads : ConfigureRecover(t) /\ cleanupErr => opened[mine[t]] = cfgPath
         /\ \A t \in Threads : ConfigureDrain(t) /\ old # None => opened[old] = cfgPath
         /\ \A t \in Threads : ServeDropped(t) => opened[mine[t]] = cfgPath
         /\ \A j \in Jobs : FlushWrite(j, TRUE) \/ FlushWrite(j, FALSE) =>
              opened[jobStore[j]] = cfgPath
<1> USE DEF IInv, TypeOK, MutexInv, LifecyclePcs, ThreadPcs
<1>1. \A t \in Threads : QuiesceDrain(t) => opened[mine[t]] = cfgPath
  BY DEF QuiesceDrain, LifecycleInv, At, Mine
<1>2. \A t \in Threads : ConfigureRecover(t) /\ cleanupErr => opened[mine[t]] = cfgPath
  BY DEF ConfigureRecover, LifecycleInv, CleanupInv, At, Mine, ChosenPcs
<1>3. \A t \in Threads : ConfigureDrain(t) /\ old # None => opened[old] = cfgPath
  BY DEF ConfigureDrain, LifecycleInv, At, Mine, ChosenPcs
<1>4. \A t \in Threads : ServeDropped(t) => opened[mine[t]] = cfgPath
  BY DEF ServeDropped, GenerationInv, Alive
<1>5. \A j \in Jobs : FlushWrite(j, TRUE) \/ FlushWrite(j, FALSE) =>
        opened[jobStore[j]] = cfgPath
  BY DEF FlushWrite, GenerationInv
<1> QED BY <1>1, <1>2, <1>3, <1>4, <1>5

\* What a database has been told, and will be.
Counted(p) == stored[p] + InMemory(p)

\* What was dropped, and what failed writes counted once more.
Owed(p) == dropped[p] + repeated[p]

\* A step keeps the books of a database right.
Books(p) == Owed(p) = Counted(p) => Owed(p)' = Counted(p)'

\* A step that leaves the counters and the path alone.
LEMMA BooksUnchanged ==
  ASSUME UNCHANGED <<pending, held, stored, dropped, repeated, cfgPath>>, NEW p \in Paths
  PROVE  Books(p)
BY DEF Books, Owed, Counted, InMemory

\* An addition to the database of the current path.
LEMMA BooksAdded ==
  ASSUME IInv, NEW n \in Nat, NEW left \in Nat, NEW ok \in BOOLEAN,
         AddDropped(cfgPath, n, left, ok), n + left = pending + held, held' = 0,
         UNCHANGED <<dropped, cfgPath>>, NEW p \in Paths
  PROVE  Books(p)
<1>1. /\ cfgPath \in Paths /\ stored \in [Paths -> Nat] /\ dropped \in [Paths -> Nat]
      /\ pending \in Nat /\ held \in Nat /\ repeated \in [Paths -> Nat]
  BY DEF IInv, TypeOK
<1>2. CASE /\ ok /\ stored' = [stored EXCEPT ![cfgPath] = @ + n] /\ pending' = left
           /\ UNCHANGED repeated
  BY <1>1, <1>2 DEF Books, Owed, Counted, InMemory
<1>3. CASE ~ok /\ UNCHANGED <<stored, repeated>> /\ pending' = left + n
  BY <1>1, <1>3 DEF Books, Owed, Counted, InMemory
<1>4. CASE /\ ~ok /\ AmbiguousWrite /\ n > 0 /\ stored[cfgPath] + n <= MaxStored(cfgPath)
           /\ stored' = [stored EXCEPT ![cfgPath] = @ + n] /\ pending' = left + n
           /\ repeated' = [repeated EXCEPT ![cfgPath] = @ + n]
  BY <1>1, <1>4 DEF Books, Owed, Counted, InMemory
<1> QED BY <1>2, <1>3, <1>4 DEF AddDropped

\* The flush at the end of a drain: the flusher has left, so held is 0.
LEMMA BooksFlushed ==
  ASSUME IInv, NEW s \in Stores, opened[s] = cfgPath, held = 0, NEW ok \in BOOLEAN,
         FlushDropped(s, ok), UNCHANGED cfgPath, NEW p \in Paths
  PROVE  Books(p)
<1>1. pending \in Nat
  BY DEF IInv, TypeOK
<1> QED BY <1>1, BooksAdded DEF FlushDropped

\* Nobody works, so nobody has a count in hand.
LEMMA NothingHeld ==
  ASSUME IInv, store = None, ~At({"q_drain", "c_drain"}) \/ wg = {}
  PROVE  held = 0
BY DEF IInv, TypeOK, HoldersInv, GenerationInv, WorkersInv, Alive, At

\* No lifecycle step does more to the books than flush them; the path changes
\* when nothing is left in memory.
LEMMA LifecycleBooks ==
  ASSUME IInv, NEW t \in Threads, Quiesce(t) \/ Configure(t), NEW p \in Paths
  PROVE  Books(p)
<1> USE DEF drops, app
<1>t. TypeOK /\ MutexInv
  BY DEF IInv
<1>1. CASE QuiesceDrain(t)
  <2>1. PICK ok \in BOOLEAN : FlushDropped(mine[t], ok)
    BY <1>1 DEF QuiesceDrain
  <2>2. held = 0
    BY <1>1 DEF QuiesceDrain, IInv, TypeOK, HoldersInv, WorkersInv
  <2>3. mine[t] \in Stores /\ opened[mine[t]] = cfgPath
    BY <1>1, <1>t, FlushesTheCurrentPath DEF QuiesceDrain, IInv, LifecycleInv, MutexInv,
       LifecyclePcs, ThreadPcs, At, Mine
  <2> QED BY <1>1, <2>1, <2>2, <2>3, BooksFlushed DEF QuiesceDrain
<1>2. CASE ConfigureRecover(t)
  <2>1. CASE cleanupErr
    <3>1. PICK ok \in BOOLEAN : FlushDropped(mine[t], ok)
      BY <1>2, <2>1 DEF ConfigureRecover
    <3>2. held = 0
      BY <1>2, <1>t, <2>1, NothingHeld DEF ConfigureRecover, IInv, CleanupInv, At, MutexInv,
         LifecyclePcs, ThreadPcs
    <3>3. mine[t] \in Stores /\ opened[mine[t]] = cfgPath
      BY <1>2, <1>t, <2>1, FlushesTheCurrentPath DEF ConfigureRecover, IInv, LifecycleInv,
         MutexInv, LifecyclePcs, ThreadPcs, At, Mine, ChosenPcs
    <3> QED BY <1>2, <3>1, <3>2, <3>3, BooksFlushed DEF ConfigureRecover
  <2> QED BY <1>2, <2>1, BooksUnchanged DEF ConfigureRecover
<1>3. CASE ConfigureDrain(t)
  <2>1. CASE old # None /\ Opened(t)
    <3>1. PICK ok \in BOOLEAN : FlushDropped(old, ok)
      BY <1>3, <2>1 DEF ConfigureDrain
    <3>2. held = 0
      BY <1>3 DEF ConfigureDrain, IInv, TypeOK, HoldersInv, WorkersInv
    <3>3. old \in Stores /\ opened[old] = cfgPath
      BY <1>3, <1>t, <2>1, FlushesTheCurrentPath DEF TypeOK
    <3> QED BY <1>3, <3>1, <3>2, <3>3, BooksFlushed DEF ConfigureDrain
  <2> QED BY <1>3, <2>1, BooksUnchanged DEF ConfigureDrain
<1>4. CASE ConfigurePublish(t)
  <2>1. UNCHANGED <<pending, held, stored, dropped, repeated>> /\ cfgPath' = target
    BY <1>4 DEF ConfigurePublish
  <2>2. held = 0
    BY <1>4, <1>t, NothingHeld DEF ConfigurePublish, IInv, LifecycleInv, MutexInv,
       LifecyclePcs, ThreadPcs, At, SealedPcs
  <2>3. target # cfgPath => pending = 0
    BY <1>4, <1>t DEF ConfigurePublish, IInv, PendingInv, MutexInv, LifecyclePcs,
       ThreadPcs, At
  <2> QED BY <1>t, <2>1, <2>2, <2>3 DEF Books, Owed, Counted, InMemory, TypeOK
<1>5. CASE UNCHANGED <<pending, held, stored, dropped, repeated, cfgPath>>
  BY <1>5, BooksUnchanged
<1> QED
  BY <1>1, <1>2, <1>3, <1>4, <1>5 DEF Quiesce, Configure, QuiesceBegin, QuiesceDetach,
     QuiesceClose, ConfigureBegin, ConfigureCheck, ConfigureOpen, ConfigureLoad,
     ConfigureSeal, ConfigureClose, ConfigureMigrate, ConfigureSpawn

\* A call adds at most the drop that it counts.
LEMMA CallBooks ==
  ASSUME IInv, NEW t \in Threads, Call(t), NEW p \in Paths
  PROVE  Books(p)
<1> USE DEF drops, app
<1>1. CASE ServeDropped(t)
  <2>1. /\ pending' = pending + 1 /\ UNCHANGED <<held, stored, repeated, cfgPath>>
        /\ dropped' = [dropped EXCEPT ![cfgPath] = @ + 1]
    BY <1>1, FlushesTheCurrentPath DEF ServeDropped, EndServing
  <2> QED BY <2>1 DEF Books, Owed, Counted, InMemory, IInv, TypeOK
<1>2. CASE UNCHANGED <<pending, held, stored, dropped, repeated, cfgPath>>
  BY <1>2, BooksUnchanged
<1> QED
  BY <1>1, <1>2 DEF Call, ServeBegin, ServeStored, ServeRefit, ServeEnd, EndServing,
     OpBegin, OpApply, OpQueue, OpEnd, SaveBegin, SaveStart

\* The flusher moves counts from memory to the database and back.
LEMMA WorkerBooks ==
  ASSUME IInv, NEW j \in Jobs, Worker(j), NEW p \in Paths
  PROVE  Books(p)
<1> USE DEF drops, app
<1>t. TypeOK
  BY DEF IInv
<1>1. CASE FlushTake(j)
  <2>1. UNCHANGED <<stored, dropped, repeated, cfgPath>>
    BY <1>1 DEF FlushTake
  <2>2. \/ held' = pending /\ pending' = 0
        \/ UNCHANGED <<held, pending>>
    BY <1>1 DEF FlushTake
  <2>3. held = 0
    BY <1>1, TakesWithEmptyHands
  <2> QED BY <1>t, <2>1, <2>2, <2>3 DEF Books, Owed, Counted, InMemory, TypeOK
<1>2. CASE FlushCheck(j)
  BY <1>2, <1>t DEF FlushCheck, Books, Owed, Counted, InMemory, TypeOK
<1>3. ASSUME NEW ok \in BOOLEAN, FlushWrite(j, ok) PROVE Books(p)
  <2>1. opened[jobStore[j]] = cfgPath
    BY <1>3, FlushesTheCurrentPath
  <2>2. /\ AddDropped(cfgPath, held, pending, ok) /\ held' = 0
        /\ UNCHANGED <<dropped, cfgPath>>
    BY <1>3, <2>1 DEF FlushWrite
  <2>3. held \in Nat /\ pending \in Nat /\ held + pending = pending + held
    BY <1>t DEF TypeOK
  <2> QED BY <2>2, <2>3, BooksAdded
<1>4. CASE UNCHANGED <<pending, held, stored, dropped, repeated, cfgPath>>
  BY <1>4, BooksUnchanged
<1> QED
  BY <1>1, <1>2, <1>3, <1>4 DEF Worker, FlushStep, JobApply, JobStart, PricingFinish,
     PricingRequeue, JobEnd, BackgroundTick, BackgroundExit

\* No step of the system cooks the books.
LEMMA NextBooks ==
  ASSUME IInv, [Next]_vars, NEW p \in Paths
  PROVE  Books(p)
<1>1. CASE \E s \in Stores : CheckpointDone(s)
  BY <1>1, BooksUnchanged DEF CheckpointDone, app, drops
<1>2. CASE UNCHANGED vars
  BY <1>2, BooksUnchanged DEF vars, app, drops
<1> QED BY <1>1, <1>2, LifecycleBooks, CallBooks, WorkerBooks DEF Next

\* Every dropped event is counted for the database of the store that dropped
\* it: once, and once more by each write that committed and reported an error.
THEOREM ReachTheirDatabase == Spec => []DropsReachTheirDatabase
<1>1. Init => DropsReachTheirDatabase
  BY DEF Init, DropsReachTheirDatabase, InMemory
<1>2. IInv /\ DropsReachTheirDatabase /\ [Next]_vars => DropsReachTheirDatabase'
  BY NextBooks DEF DropsReachTheirDatabase, Books, Owed, Counted
<1> QED BY <1>1, <1>2, Inductive, PTL DEF Spec

-----------------------------------------------------------------------------
\* What a step may do to what the ledger shows: only ServeDropped counts, and
\* only for the database that is served; only a failing write counts again.
LedgerStep ==
  \/ UNCHANGED <<dropped, repeated, cfgPath, LedgerServing>>
  \/ UNCHANGED <<dropped, repeated, cfgPath>> /\ LedgerServing' = None
  \/ /\ UNCHANGED <<dropped, repeated>>
     /\ LedgerServing = None /\ LedgerServing' \in Paths /\ cfgPath' = LedgerServing'
  \/ /\ UNCHANGED <<repeated, cfgPath, LedgerServing>> /\ LedgerServing \in Paths
     /\ dropped' = [dropped EXCEPT ![LedgerServing] = @ + 1]
  \/ /\ UNCHANGED <<dropped, cfgPath, LedgerServing>> /\ AmbiguousWrite
     /\ \E n \in 1..(pending + held) : repeated' = [repeated EXCEPT ![cfgPath] = @ + n]

\* A step that leaves the store, its path and the history alone.
LEMMA NoLedgerStep ==
  ASSUME UNCHANGED <<store, cfgPath, dropped, repeated>>
  PROVE  LedgerStep
BY DEF LedgerStep, LedgerServing

\* A write of what is in memory, or of a part of it.
LEMMA WriteLedgerStep ==
  ASSUME TypeOK, UNCHANGED <<store, cfgPath, dropped>>, NEW n \in Nat, n <= pending + held,
         NEW left \in Nat, NEW ok \in BOOLEAN, AddDropped(cfgPath, n, left, ok)
  PROVE  LedgerStep
<1>1. CASE UNCHANGED repeated
  BY <1>1, NoLedgerStep
<1>2. CASE /\ AmbiguousWrite /\ n > 0
           /\ repeated' = [repeated EXCEPT ![cfgPath] = @ + n]
  <2>1. n \in 1..(pending + held)
    BY <1>2 DEF TypeOK
  <2> QED BY <1>2, <2>1 DEF LedgerStep, LedgerServing
<1> QED BY <1>1, <1>2 DEF AddDropped

\* Every step is a step of the ledger, or invisible.
LEMMA NextLedgerStep ==
  ASSUME IInv, [Next]_vars
  PROVE  LedgerStep
<1> USE DEF drops, app
<1>t. TypeOK /\ MutexInv
  BY DEF IInv
<1>1. ASSUME NEW t \in Threads, Quiesce(t) PROVE LedgerStep
  <2>1. CASE QuiesceDetach(t)
    BY <2>1 DEF QuiesceDetach, LedgerStep, LedgerServing
  <2>2. CASE QuiesceDrain(t)
    <3>1. PICK ok \in BOOLEAN : FlushDropped(mine[t], ok)
      BY <2>2 DEF QuiesceDrain
    <3>2. opened[mine[t]] = cfgPath /\ pending \in Nat /\ pending <= pending + held
      BY <2>2, <1>t, FlushesTheCurrentPath DEF TypeOK
    <3> QED BY <1>t, <2>2, <3>1, <3>2, WriteLedgerStep DEF QuiesceDrain, FlushDropped
  <2> QED BY <1>1, <2>1, <2>2, NoLedgerStep DEF Quiesce, QuiesceBegin, QuiesceClose
<1>2. ASSUME NEW t \in Threads, Configure(t) PROVE LedgerStep
  <2>1. CASE ConfigureSeal(t)
    BY <2>1 DEF ConfigureSeal, LedgerStep, LedgerServing
  <2>2. CASE ConfigurePublish(t)
    <3>1. store = None /\ target \in Paths /\ mine[t] # None
      BY <2>2, <1>t DEF ConfigurePublish, IInv, LifecycleInv, MutexInv, LifecyclePcs,
         ThreadPcs, SealedPcs, ChosenPcs, At, Mine
    <3>2. UNCHANGED <<dropped, repeated>> /\ store' = mine[t] /\ cfgPath' = target
      BY <2>2 DEF ConfigurePublish
    <3> QED BY <3>1, <3>2 DEF LedgerStep, LedgerServing
  <2>3. ASSUME NEW s \in Stores, opened[s] = cfgPath, NEW ok \in BOOLEAN,
               FlushDropped(s, ok), UNCHANGED <<store, cfgPath>>
        PROVE  LedgerStep
    <3>1. pending \in Nat /\ pending <= pending + held
      BY <1>t DEF TypeOK
    <3> QED BY <1>t, <2>3, <3>1, WriteLedgerStep DEF FlushDropped
  <2>4. CASE ConfigureRecover(t)
    <3>1. CASE cleanupErr
      <4>1. mine[t] \in Stores /\ opened[mine[t]] = cfgPath
        BY <2>4, <3>1, <1>t, FlushesTheCurrentPath DEF ConfigureRecover, IInv, LifecycleInv,
           MutexInv, LifecyclePcs, ThreadPcs, At, Mine, ChosenPcs
      <4> QED BY <2>3, <2>4, <3>1, <4>1 DEF ConfigureRecover
    <3> QED BY <2>4, <3>1, NoLedgerStep DEF ConfigureRecover
  <2>5. CASE ConfigureDrain(t)
    <3>1. CASE old # None /\ Opened(t)
      <4>1. old \in Stores /\ opened[old] = cfgPath
        BY <2>5, <3>1, <1>t, FlushesTheCurrentPath DEF TypeOK
      <4> QED BY <2>3, <2>5, <3>1, <4>1 DEF ConfigureDrain
    <3> QED BY <2>5, <3>1, NoLedgerStep DEF ConfigureDrain
  <2> QED
    BY <1>2, <2>1, <2>2, <2>4, <2>5, NoLedgerStep DEF Configure, ConfigureBegin, ConfigureCheck,
       ConfigureOpen, ConfigureLoad, ConfigureClose, ConfigureMigrate, ConfigureSpawn
<1>3. ASSUME NEW t \in Threads, Call(t) PROVE LedgerStep
  <2>1. CASE ServeDropped(t)
    <3>1. store # None /\ cfgPath \in Paths
      BY <2>1, <1>t DEF ServeDropped, IInv, GenerationInv, TypeOK
    <3>2. /\ UNCHANGED <<store, cfgPath, repeated>>
          /\ dropped' = [dropped EXCEPT ![cfgPath] = @ + 1]
      BY <2>1, FlushesTheCurrentPath DEF ServeDropped, EndServing
    <3> QED BY <3>1, <3>2 DEF LedgerStep, LedgerServing
  <2> QED
    BY <1>3, <2>1, NoLedgerStep DEF Call, ServeBegin, ServeStored, ServeRefit, ServeEnd, EndServing,
       OpBegin, OpApply, OpQueue, OpEnd, SaveBegin, SaveStart
<1>4. ASSUME NEW j \in Jobs, Worker(j) PROVE LedgerStep
  <2>1. ASSUME NEW ok \in BOOLEAN, FlushWrite(j, ok) PROVE LedgerStep
    <3>1. opened[jobStore[j]] = cfgPath
      BY <2>1, FlushesTheCurrentPath
    <3>2. held \in Nat /\ pending \in Nat /\ held <= pending + held
      BY <1>t DEF TypeOK
    <3> QED BY <1>t, <2>1, <3>1, <3>2, WriteLedgerStep DEF FlushWrite
  <2> QED
    BY <1>4, <2>1, NoLedgerStep DEF Worker, FlushStep, JobApply, JobStart, PricingFinish,
       PricingRequeue, JobEnd, BackgroundTick, BackgroundExit, FlushTake, FlushCheck
<1>5. ASSUME NEW s \in Stores, CheckpointDone(s) PROVE LedgerStep
  BY <1>5, NoLedgerStep DEF CheckpointDone
<1>6. CASE UNCHANGED vars
  BY <1>6, NoLedgerStep DEF vars
<1> QED BY <1>1, <1>2, <1>3, <1>4, <1>5, <1>6 DEF Next

\* The books are right, so the total of the ledger is the history.
LEMMA TotalIsHistory ==
  ASSUME TypeOK, DropsReachTheirDatabase
  PROVE  LedgerTotal = [p \in Paths |-> Owed(p)]
BY DEF TypeOK, DropsReachTheirDatabase, LedgerTotal, Owed

\* A step of the history is a step of the ledger.
LEMMA HistoryIsLedger ==
  ASSUME TypeOK, TypeOK', DropsReachTheirDatabase, LedgerStep,
         LedgerTotal' = [p \in Paths |-> Owed(p)']
  PROVE  [Ledger!Next]_<<LedgerServing, cfgPath, LedgerTotal>>
<1>1. LedgerTotal = [p \in Paths |-> Owed(p)]
  BY TotalIsHistory
<1>t. /\ cfgPath \in Paths /\ dropped \in [Paths -> Nat] /\ repeated \in [Paths -> Nat]
      /\ pending \in Nat /\ held \in Nat
  BY DEF TypeOK
<1>2. CASE UNCHANGED <<dropped, repeated>>
  <2>1. LedgerTotal' = LedgerTotal
    BY <1>1, <1>2 DEF Owed
  <2>2. CASE UNCHANGED <<cfgPath, LedgerServing>>
    BY <2>1, <2>2
  <2>3. CASE UNCHANGED cfgPath /\ LedgerServing' = None
    BY <2>1, <2>3 DEF Ledger!Next, Ledger!Withdraw
  <2>4. CASE LedgerServing = None /\ LedgerServing' \in Paths /\ cfgPath' = LedgerServing'
    BY <2>1, <2>4 DEF Ledger!Next, Ledger!Publish
  <2>5. CASE dropped' = [dropped EXCEPT ![LedgerServing] = @ + 1] /\ LedgerServing \in Paths
    BY <1>2, <1>t, <2>5
  <2>6. CASE \E n \in 1..(pending + held) : repeated' = [repeated EXCEPT ![cfgPath] = @ + n]
    BY <1>2, <1>t, <2>6
  <2> QED BY <1>2, <2>2, <2>3, <2>4, <2>5, <2>6 DEF LedgerStep
<1>3. CASE /\ UNCHANGED <<repeated, cfgPath, LedgerServing>> /\ LedgerServing \in Paths
           /\ dropped' = [dropped EXCEPT ![LedgerServing] = @ + 1]
  <2>1. LedgerTotal' = [LedgerTotal EXCEPT ![LedgerServing] = @ + 1]
    BY <1>1, <1>3, <1>t DEF Owed
  <2>2. LedgerServing # None
    BY <1>3, ConstantsAssumption
  <2> QED BY <1>3, <2>1, <2>2 DEF Ledger!Next, Ledger!Drop
<1>4. CASE /\ UNCHANGED <<dropped, cfgPath, LedgerServing>> /\ AmbiguousWrite
           /\ \E n \in 1..(pending + held) : repeated' = [repeated EXCEPT ![cfgPath] = @ + n]
  <2>1. PICK n \in 1..(pending + held) : repeated' = [repeated EXCEPT ![cfgPath] = @ + n]
    BY <1>4
  <2>2. LedgerTotal' = [LedgerTotal EXCEPT ![cfgPath] = @ + n]
    BY <1>1, <1>4, <1>t, <2>1 DEF Owed
  <2>3. n \in 1..LedgerTotal[cfgPath]
    <3>1. LedgerTotal[cfgPath] = stored[cfgPath] + (pending + held) /\ stored[cfgPath] \in Nat
      BY <1>t DEF LedgerTotal, InMemory, TypeOK
    <3> QED BY <1>t, <2>1, <3>1
  <2> QED BY <1>4, <2>2, <2>3 DEF Ledger!Next, Ledger!Recount
<1> QED BY <1>2, <1>3, <1>4 DEF LedgerStep

\* Seen through the ledger, quiesce, configure, the flushers and failing
\* writes are invisible, but for a write that commits and reports an error:
\* the detailed system implements the ledger.
THEOREM Implementation == Spec => ImplementsLedger
<1> DEFINE GoodBooks == TypeOK /\ DropsReachTheirDatabase
<1>1. Init => Ledger!Init
  BY ConstantsAssumption DEF Init, Ledger!Init, LedgerServing, LedgerTotal, InMemory
<1>2. IInv /\ [Next]_vars /\ GoodBooks /\ GoodBooks'
        => [Ledger!Next]_<<LedgerServing, cfgPath, LedgerTotal>>
  <2> SUFFICES ASSUME IInv, [Next]_vars, GoodBooks, GoodBooks'
               PROVE  [Ledger!Next]_<<LedgerServing, cfgPath, LedgerTotal>>
    OBVIOUS
  <2>1. LedgerTotal' = [p \in Paths |-> Owed(p)']
    BY DEF TypeOK, DropsReachTheirDatabase, LedgerTotal, Owed
  <2>2. LedgerStep
    BY NextLedgerStep
  <2> QED BY <2>1, <2>2, HistoryIsLedger
<1>3. Spec => []GoodBooks
  BY TypeCorrect, ReachTheirDatabase, PTL
<1> HIDE DEF GoodBooks
<1> QED BY <1>1, <1>2, <1>3, Inductive, PTL DEF Spec, ImplementsLedger, Ledger!Spec

-----------------------------------------------------------------------------
\* Only the thread inside a lifecycle call takes it further.
LEMMA LifecycleIsItsOwn ==
  ASSUME IInv, [Next]_vars, NEW t \in Threads, pc[t] \in {"q_detach", "q_close"},
         pc'[t] = "idle"
  PROVE  QuiesceDetach(t) \/ QuiesceClose(t)
<1> USE DEF Goto, Return, Enter, Leave, EndServing
<1>t. TypeOK
  BY DEF IInv
<1>1. ASSUME NEW u \in Threads, Quiesce(u) PROVE QuiesceDetach(t) \/ QuiesceClose(t)
  BY <1>1, <1>t DEF TypeOK, Quiesce, QuiesceBegin, QuiesceDetach, QuiesceDrain, QuiesceClose
<1>2. ASSUME NEW u \in Threads, Configure(u) PROVE FALSE
  BY <1>2, <1>t DEF TypeOK, Configure, ConfigureBegin, ConfigureCheck, ConfigureOpen,
     ConfigureRecover, ConfigureLoad, ConfigureSeal, ConfigureDrain, ConfigureClose,
     ConfigurePublish, ConfigureMigrate, ConfigureSpawn
<1>3. ASSUME NEW u \in Threads, Call(u) PROVE FALSE
  BY <1>3, <1>t DEF TypeOK, Call, ServeBegin, ServeStored, ServeDropped, ServeRefit, ServeEnd,
     OpBegin, OpApply, OpQueue, OpEnd, SaveBegin, SaveStart
<1>4. UNCHANGED pc => FALSE
  OBVIOUS
<1>5. ASSUME NEW j \in Jobs, Worker(j) PROVE FALSE
  BY <1>4, <1>5 DEF Worker, FlushStep, JobApply, JobStart, PricingFinish, PricingRequeue,
     JobEnd, BackgroundTick, BackgroundExit, FlushTake, FlushCheck, FlushWrite
<1>6. ASSUME NEW s \in Stores, CheckpointDone(s) PROVE FALSE
  BY <1>4, <1>6 DEF CheckpointDone
<1> QED BY <1>1, <1>2, <1>3, <1>4, <1>5, <1>6 DEF Next, vars

\* A quiesce that answers success leaves no open database and no count in
\* memory.
THEOREM QuiesceIsClean == Spec => QuiesceReleases
<1> DEFINE Clean == pending' = 0 /\ held' = 0 /\ \A s \in Stores : opened'[s] = None
<1>1. ASSUME IInv, [Next]_vars, NEW t \in Threads, pc[t] \in {"q_detach", "q_close"},
             pc'[t] = "idle", ~cleanupErr'
      PROVE  Clean
  <2>t. TypeOK /\ MutexInv
    BY <1>1 DEF IInv
  <2>1. CASE QuiesceDetach(t)
    <3>1. /\ store = None /\ ~cleanupErr /\ lifecycleMu = t /\ pc[t] = "q_detach"
          /\ UNCHANGED <<pending, held, opened>>
      BY <2>1, <2>t, <1>1 DEF QuiesceDetach, Goto, app, drops, handles, MutexInv,
         LifecyclePcs, ThreadPcs, TypeOK
    <3>2. pending = 0
      BY <3>1, <1>1 DEF IInv, PendingInv, At, SealedPcs
    <3>3. held = 0
      BY <3>1, <1>1, NothingHeld DEF At
    <3>4. \A s \in Stores : opened[s] = None
      BY <3>1, <1>1 DEF IInv, OpenInv, At, ChosenPcs, TypeOK
    <3> QED BY <3>1, <3>2, <3>3, <3>4
  <2>2. CASE QuiesceClose(t)
    <3>1. /\ lifecycleMu = t /\ pc[t] = "q_close" /\ ~failed
          /\ UNCHANGED <<pending, held>>
          /\ opened' = [opened EXCEPT ![mine[t]] = None]
      BY <2>2, <2>t, <1>1 DEF QuiesceClose, Close, drops, MutexInv, LifecyclePcs,
         ThreadPcs
    <3>2. store = None
      BY <3>1, <1>1 DEF IInv, LifecycleInv, At, SealedPcs
    <3>3. pending = 0
      BY <3>1, <1>1 DEF IInv, PendingInv, At
    <3>4. held = 0
      BY <3>1, <3>2, <1>1, NothingHeld DEF At
    <3>5. \A s \in Stores : s = mine[t] \/ opened[s] = None
      BY <3>1, <3>2, <1>1 DEF IInv, OpenInv, At, Mine, ChosenPcs, TypeOK
    <3> QED BY <2>t, <3>1, <3>3, <3>4, <3>5 DEF TypeOK
  <2> QED BY <1>1, <2>1, <2>2, LifecycleIsItsOwn
<1>2. IInv /\ [Next]_vars =>
        [\A t \in Threads :
           pc[t] \in {"q_detach", "q_close"} /\ pc'[t] = "idle" /\ ~cleanupErr' =>
             /\ pending' = 0 /\ held' = 0
             /\ \A s \in Stores : opened'[s] = None]_vars
  BY <1>1
<1> QED BY <1>2, Inductive, PTL DEF Spec, QuiesceReleases

\* Only configure publishes a store.
LEMMA OnlyPublish ==
  ASSUME [Next]_vars, store = None, store' # None
  PROVE  \E t \in Threads : ConfigurePublish(t)
<1> USE DEF app, vars
<1>1. ASSUME NEW t \in Threads, Quiesce(t) PROVE FALSE
  BY <1>1 DEF Quiesce, QuiesceBegin, QuiesceDetach, QuiesceDrain, QuiesceClose
<1>2. ASSUME NEW t \in Threads, Configure(t) PROVE ConfigurePublish(t)
  BY <1>2 DEF Configure, ConfigureBegin, ConfigureCheck, ConfigureOpen, ConfigureRecover,
     ConfigureLoad, ConfigureSeal, ConfigureDrain, ConfigureClose, ConfigureMigrate,
     ConfigureSpawn
<1>3. ASSUME NEW t \in Threads, Call(t) PROVE FALSE
  BY <1>3 DEF Call, ServeBegin, ServeStored, ServeDropped, ServeRefit, ServeEnd, EndServing,
     OpBegin, OpApply, OpQueue, OpEnd, SaveBegin, SaveStart
<1>4. ASSUME NEW j \in Jobs, Worker(j) PROVE FALSE
  BY <1>4 DEF Worker, FlushStep, JobApply, JobStart, PricingFinish, PricingRequeue, JobEnd,
     BackgroundTick, BackgroundExit, FlushTake, FlushCheck, FlushWrite
<1> QED BY <1>1, <1>2, <1>3, <1>4 DEF Next, CheckpointDone

\* After a failed cleanup only the same data_path is published, with nothing
\* left to write to it.
THEOREM RecoverySafe == Spec => RecoveryKeepsPath
<1>1. ASSUME IInv, [Next]_vars, cleanupErr, store' # None
      PROVE  cfgPath' = cfgPath /\ pending' = 0
  <2>1. store = None
    BY <1>1 DEF IInv, CleanupInv
  <2>2. PICK t \in Threads : ConfigurePublish(t)
    BY <1>1, <2>1, OnlyPublish
  <2>3. lifecycleMu = t /\ cfgPath' = target /\ pending' = pending /\ pc[t] = "c_publish"
    BY <1>1, <2>2 DEF ConfigurePublish, drops, IInv, MutexInv, LifecyclePcs, ThreadPcs
  <2> QED BY <1>1, <2>3 DEF IInv, CleanupInv, At, ChosenPcs
<1>2. IInv /\ [Next]_vars =>
        [cleanupErr /\ store' # None => cfgPath' = cfgPath /\ pending' = 0]_vars
  BY <1>1
<1> QED BY <1>2, Inductive, PTL DEF Spec, RecoveryKeepsPath

=============================================================================
