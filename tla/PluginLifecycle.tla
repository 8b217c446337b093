--------------------------- MODULE PluginLifecycle ---------------------------
(***************************************************************************)
(* The life of the plugin's SQLite store (app.go, usage_retry.go, api.go): *)
(* configure opens and publishes a store, quiesce drains and closes it,    *)
(* and between the two usage.handle, management.handle and the detached    *)
(* workers use it.  Four things keep a worker from touching a closed       *)
(* database: lifecycleMu, the read/write lock mu, the wait group workWG    *)
(* and the store's own wait group bg.  A usage event that cannot be stored *)
(* is counted in droppedUsagePending, and the count must reach the         *)
(* database of the store that dropped it.                                  *)
(*                                                                         *)
(* workWG is the set of its holders: Add inserts the holder, Done removes  *)
(* it, Wait is wg = {}.  Every section under mu.Lock is short and blocks   *)
(* on nothing, so it is one step, taken when no call holds mu.RLock; only  *)
(* the calls that hold mu.RLock until they return are in `readers'.        *)
(* A call that finds no store, or that writes under mu.Lock and leaves     *)
(* this state alone (coverage settings), is no step of this module.        *)
(***************************************************************************)
EXTENDS Naturals, FiniteSets

CONSTANTS
  Threads,       (* host threads that call the plugin                          *)
  Jobs,          (* slots for goroutines                                       *)
  Slots,         (* kind of goroutine -> its slots: bounds those alive at once *)
  Stores,        (* slots for *store values: bounds those open or in use       *)
  Paths,         (* values of data_path                                        *)
  DefaultPath,   (* data_path of defaultConfig                                 *)
  None,          (* no thread, no store, no path                               *)
  MaxDrops,      (* path -> bounds the usage events dropped by its stores      *)
  MaxDetached,   (* bounds the detached checkpoints of one store               *)
  FlushAttempts, (* iterations of the drop flusher, 5 in the code              *)
  MigratedLoads, (* what loadPricingSettings may say of settings.Migrated      *)
  AmbiguousWrite (* whether a write may commit and still report a timeout      *)

SpawnKinds == {"background", "refit", "pricing", "flush"}

ASSUME ConstantsAssumption ==
  /\ None \notin Threads \cup Jobs \cup Stores \cup Paths
  /\ Threads \cap Jobs = {}
  /\ DefaultPath \in Paths
  /\ Slots \in [SpawnKinds -> SUBSET Jobs]
  /\ MaxDrops \in [Paths -> Nat] /\ MaxDetached \in Nat /\ FlushAttempts \in Nat
  /\ MigratedLoads \subseteq BOOLEAN
  /\ AmbiguousWrite \in BOOLEAN

VARIABLES
  lifecycleMu,  (* the thread inside configure or quiesce                      *)
  readers,      (* threads that hold mu.RLock across calls                     *)
  store,        (* a.store                                                     *)
  cfgPath,      (* a.cfg.DataPath                                              *)
  cleanupErr,   (* a.cleanupErr # nil                                          *)
  opened,       (* store -> the path of its open database, None when closed    *)
  detached,     (* store -> goroutines of spawnDetached (s.bg)                 *)
  wg,           (* holders of workWG                                           *)
  pending,      (* droppedUsagePending                                         *)
  held,         (* local `count' of the drop flusher                           *)
  flushing,     (* dropFlushRunning                                            *)
  stored,       (* path -> metadata.dropped_usage_events of that database      *)
  dropped,      (* path -> events really dropped by a store of it (history)    *)
  repeated,     (* path -> what a write stored though it failed (history)      *)
  pc, mine,     (* thread -> where it is, and the store it works on            *)
  target, old, migrated, failed,   (* locals of the call inside lifecycleMu    *)
  kind, at,     (* goroutine -> what it runs, and where it is                  *)
  jobStore,     (* goroutine -> the store it was started on                    *)
  live,         (* goroutines whose context is not cancelled                   *)
  tries         (* goroutine -> attempts it has made                           *)

locks   == <<lifecycleMu, readers>>
app     == <<store, cfgPath, cleanupErr>>
handles == <<opened, detached>>
drops   == <<pending, held, flushing, stored, dropped, repeated>>
call    == <<target, old, migrated, failed>>
jobs    == <<kind, at, jobStore, live, tries>>
vars    == <<locks, app, handles, wg, drops, pc, mine, call, jobs>>

Init ==
  /\ lifecycleMu = None /\ readers = {}
  /\ store = None /\ cfgPath = DefaultPath /\ cleanupErr = FALSE
  /\ opened = [s \in Stores |-> None]
  /\ detached = [s \in Stores |-> 0]
  /\ wg = {}
  /\ pending = 0 /\ held = 0 /\ flushing = FALSE
  /\ stored = [p \in Paths |-> 0] /\ dropped = [p \in Paths |-> 0]
  /\ repeated = [p \in Paths |-> 0]
  /\ pc = [t \in Threads |-> "idle"]
  /\ mine = [t \in Threads |-> None]
  /\ target = None /\ old = None /\ migrated = FALSE /\ failed = FALSE
  /\ kind = [j \in Jobs |-> "none"]
  /\ at = [j \in Jobs |-> "run"]
  /\ jobStore = [j \in Jobs |-> None]
  /\ live = {}
  /\ tries = [j \in Jobs |-> 0]

\* mu.Lock is granted when no call holds mu.RLock.
CanWrite == readers = {}

(***************************************************************************)
(* Goroutines.  Spawn(j, what, s) is workWG.Add(1) and the go statement,   *)
(* EndJob(j) is the deferred workWG.Done.  Slots that are free differ in   *)
(* nothing but their names: which one is taken is no choice.               *)
(***************************************************************************)
FreeJobs(what) == {j \in Slots[what] : kind[j] = "none"}
IdleJob(j, what) == j \in FreeJobs(what) /\ j = CHOOSE k \in FreeJobs(what) : TRUE

FreeStores   == {s \in Stores : opened[s] = None}
IdleStore(s) == s \in FreeStores /\ s = CHOOSE r \in FreeStores : TRUE

PricingActive == \E j \in Jobs : kind[j] = "pricing"

Go(j, what, s) ==
  /\ IdleJob(j, what)
  /\ kind' = [kind EXCEPT ![j] = what]
  /\ jobStore' = [jobStore EXCEPT ![j] = s]
  /\ live' = live \cup {j}

Spawn(j, what, s) ==
  /\ Go(j, what, s)
  /\ wg' = wg \cup {j}
  /\ UNCHANGED <<at, tries>>

EndJob(j) ==
  /\ kind' = [kind EXCEPT ![j] = "none"]
  /\ at' = [at EXCEPT ![j] = "run"]
  /\ jobStore' = [jobStore EXCEPT ![j] = None]
  /\ live' = live \ {j}
  /\ tries' = [tries EXCEPT ![j] = 0]
  /\ wg' = wg \ {j}

\* The goroutine goes on to another place.
JobGoto(j, label) ==
  /\ at' = [at EXCEPT ![j] = label]
  /\ UNCHANGED <<kind, jobStore, live>>

\* A refit or a repricing that finds no slot, a bound of the model, is not
\* started.
Room(what) == FreeJobs(what) # {}

\* startDropFlush(s), called when `count' drops are pending.
StartDropFlush(s, count) ==
  IF count > 0 /\ ~flushing
  THEN flushing' = TRUE /\ \E j \in Jobs : Spawn(j, "flush", s)
  ELSE UNCHANGED <<flushing, jobs, wg>>

MaxStored(p) == 2 * MaxDrops[p]   \* bounds the ambiguous writes

\* addDroppedUsageCount(n) on the database at p, and the count back to the
\* pending counter when the write reported an error.  `left' is what is
\* pending while the write is in flight.
AddDropped(p, n, left, ok) ==
  \/ /\ ok /\ stored' = [stored EXCEPT ![p] = @ + n] /\ pending' = left
     /\ UNCHANGED repeated
  \/ ~ok /\ UNCHANGED <<stored, repeated>> /\ pending' = left + n
  \/ /\ ~ok /\ AmbiguousWrite /\ n > 0 /\ stored[p] + n <= MaxStored(p)
     /\ stored' = [stored EXCEPT ![p] = @ + n] /\ pending' = left + n
     /\ repeated' = [repeated EXCEPT ![p] = @ + n]

\* flushDroppedUsage(s): nothing pending is no write, and no error.
FlushDropped(s, ok) ==
  /\ pending = 0 => ok
  /\ AddDropped(opened[s], pending, 0, ok)
  /\ UNCHANGED <<held, flushing, dropped>>

(***************************************************************************)
(* plugin.quiesce and shutdown.                                            *)
(***************************************************************************)
QuiesceBegin(t) ==
  /\ pc[t] = "idle" /\ lifecycleMu = None
  /\ lifecycleMu' = t
  /\ pc' = [pc EXCEPT ![t] = "q_detach"]
  /\ UNCHANGED <<readers, app, handles, wg, drops, mine, call, jobs>>

\* The end of a lifecycle call: the deferred lifecycleMu.Unlock.
Return(t) ==
  /\ lifecycleMu' = None
  /\ pc' = [pc EXCEPT ![t] = "idle"]
  /\ mine' = [mine EXCEPT ![t] = None]
  /\ target' = None /\ old' = None /\ migrated' = FALSE /\ failed' = FALSE

Goto(t, label) ==
  /\ pc' = [pc EXCEPT ![t] = label]
  /\ UNCHANGED lifecycleMu

\* cancel() reaches every goroutine of the generation.
CancelAll == live' = {} /\ UNCHANGED <<kind, at, jobStore, tries>>

\* detachStore, and the cancel() that follows it.  With no store quiesce
\* answers with the error of the last cleanup.
QuiesceDetach(t) ==
  /\ pc[t] = "q_detach" /\ CanWrite
  /\ \/ store = None /\ Return(t) /\ UNCHANGED <<store, jobs>>
     \/ /\ store # None
        /\ store' = None
        /\ CancelAll
        /\ mine' = [mine EXCEPT ![t] = store]
        /\ Goto(t, "q_drain")
        /\ UNCHANGED call
  /\ UNCHANGED <<readers, cfgPath, cleanupErr, handles, wg, drops>>

\* Mutant: quiesce does not wait for workWG.
QuiesceDrainNoWait(t) ==
  /\ pc[t] = "q_drain"
  /\ \E ok \in BOOLEAN : FlushDropped(mine[t], ok) /\ failed' = ~ok
  /\ Goto(t, "q_close")
  /\ UNCHANGED <<readers, app, handles, wg, mine, target, old, migrated, jobs>>

\* workWG.Wait returns; the flush of flushAndClose.
QuiesceDrain(t) ==
  /\ pc[t] = "q_drain" /\ wg = {}
  /\ \E ok \in BOOLEAN : FlushDropped(mine[t], ok) /\ failed' = ~ok
  /\ Goto(t, "q_close")
  /\ UNCHANGED <<readers, app, handles, wg, mine, target, old, migrated, jobs>>

\* s.close waits for s.bg, then closes SQLite; closing may report an error.
Close(s) ==
  /\ detached[s] = 0
  /\ opened' = [opened EXCEPT ![s] = None]
  /\ UNCHANGED detached

QuiesceClose(t) ==
  /\ pc[t] = "q_close"
  /\ Close(mine[t])
  /\ \E closeFailed \in BOOLEAN : cleanupErr' = (closeFailed \/ failed)
  /\ Return(t)
  /\ UNCHANGED <<readers, store, cfgPath, wg, drops, jobs>>

(***************************************************************************)
(* plugin.register and plugin.reconfigure.                                 *)
(***************************************************************************)
ConfigureBegin(t) ==
  /\ pc[t] = "idle" /\ lifecycleMu = None
  /\ lifecycleMu' = t
  /\ pc' = [pc EXCEPT ![t] = "c_check"]
  /\ UNCHANGED <<readers, app, handles, wg, drops, mine, call, jobs>>

\* Mutant: configure forgets the failed cleanup of another data_path.
ConfigureCheckElsewhere(t, p, same) ==
  /\ pc[t] = "c_check"
  /\ ~(store # None /\ same /\ p = cfgPath) /\ ~PricingActive
  /\ target' = p /\ old' = store
  /\ Goto(t, "c_open")
  /\ UNCHANGED <<readers, app, handles, wg, drops, mine, migrated, failed, jobs>>

\* The configuration asks for path p; `same' says that the rest of it equals
\* a.requestedConfig, whose path is cfgPath once a store is published.  The
\* call ends here when it is refused, and when the configuration is already
\* active.  a.store and a.cfg.DataPath cannot change while lifecycleMu is
\* held, so the short read sections are this step.
ConfigureCheck(t, p, same) ==
  LET elsewhere == cleanupErr /\ p # cfgPath
      unchanged == store # None /\ same /\ p = cfgPath
  IN
  /\ pc[t] = "c_check"
  /\ \/ (elsewhere \/ unchanged \/ PricingActive) /\ Return(t)
     \/ /\ ~(elsewhere \/ unchanged \/ PricingActive)
        /\ target' = p /\ old' = store
        /\ Goto(t, "c_open")
        /\ UNCHANGED <<mine, migrated, failed>>
  /\ UNCHANGED <<readers, app, handles, wg, drops, jobs>>

\* Mutant: configure opens the database again that it already has open.
ConfigureOpenAlways(t) ==
  /\ pc[t] = "c_open"
  /\ \E s \in Stores :
       /\ opened[s] = None
       /\ opened' = [opened EXCEPT ![s] = target]
       /\ mine' = [mine EXCEPT ![t] = s]
  /\ Goto(t, "c_recover")
  /\ UNCHANGED <<readers, app, detached, wg, drops, call, jobs>>

\* openStore and seedPrices, unless the active store has the same path.  A
\* store that cannot be opened or seeded is closed again, and configure fails.
ConfigureOpen(t) ==
  LET samePath == old # None /\ cfgPath = target
  IN
  /\ pc[t] = "c_open"
  /\ \/ /\ samePath
        /\ mine' = [mine EXCEPT ![t] = store]
        /\ Goto(t, "c_recover")
        /\ UNCHANGED <<opened, call>>
     \/ /\ ~samePath
        /\ \E s \in Stores :
             /\ IdleStore(s)
             /\ opened' = [opened EXCEPT ![s] = target]
             /\ mine' = [mine EXCEPT ![t] = s]
        /\ Goto(t, "c_recover")
        /\ UNCHANGED call
     \/ ~samePath /\ Return(t) /\ UNCHANGED opened
  /\ UNCHANGED <<readers, app, detached, wg, drops, jobs>>

\* The store was opened by this call and not inherited from the last one.
Opened(t) == mine[t] # old

CloseOpened(t) ==
  IF Opened(t) THEN Close(mine[t]) ELSE UNCHANGED handles

\* The pending count of a failed quiesce goes to the reopened database first.
ConfigureRecover(t) ==
  /\ pc[t] = "c_recover"
  /\ \/ ~cleanupErr /\ Goto(t, "c_load") /\ UNCHANGED <<mine, call, handles, drops>>
     \/ /\ cleanupErr /\ FlushDropped(mine[t], TRUE)
        /\ Goto(t, "c_load") /\ UNCHANGED <<mine, call, handles>>
     \/ cleanupErr /\ FlushDropped(mine[t], FALSE) /\ Close(mine[t]) /\ Return(t)
  /\ UNCHANGED <<readers, app, wg, jobs>>

\* loadPriceCatalog, loadPricingSettings, the fit and its last repricing time.
ConfigureLoad(t) ==
  /\ pc[t] = "c_load"
  /\ \/ /\ migrated' \in MigratedLoads
        /\ Goto(t, "c_seal")
        /\ UNCHANGED <<handles, mine, target, old, failed>>
     \/ CloseOpened(t) /\ Return(t)
  /\ UNCHANGED <<readers, app, wg, drops, jobs>>

\* Mutant: configure cancels the old generation and goes on admitting calls.
ConfigureSealOpen(t) ==
  /\ pc[t] = "c_seal" /\ CanWrite
  /\ CancelAll
  /\ Goto(t, "c_drain")
  /\ UNCHANGED <<readers, app, handles, wg, drops, mine, call>>

\* Seal admission and cancel the old generation.  The branch for a store that
\* changed meanwhile is not modelled: SealSeesItsStore says it is never taken.
ConfigureSeal(t) ==
  /\ pc[t] = "c_seal" /\ CanWrite
  /\ store' = None
  /\ CancelAll
  /\ Goto(t, "c_drain")
  /\ UNCHANGED <<readers, cfgPath, cleanupErr, handles, wg, drops, mine, call>>

\* workWG.Wait returns; a store that is being replaced is flushed and closed.
ConfigureDrain(t) ==
  /\ pc[t] = "c_drain" /\ wg = {}
  /\ \/ /\ old # None /\ Opened(t)
        /\ \E ok \in BOOLEAN : FlushDropped(old, ok) /\ failed' = ~ok
        /\ Goto(t, "c_close")
     \/ /\ old = None \/ ~Opened(t)
        /\ Goto(t, "c_publish")
        /\ UNCHANGED <<drops, failed>>
  /\ UNCHANGED <<readers, app, handles, wg, mine, target, old, migrated, jobs>>

\* When the old store does not flush or close, the new one is closed as well.
ConfigureClose(t) ==
  /\ pc[t] = "c_close"
  /\ detached[old] = 0
  /\ \E closeFailed \in BOOLEAN :
       \/ /\ closeFailed \/ failed
          /\ opened' = [s \in Stores |-> IF s \in {old, mine[t]} THEN None ELSE opened[s]]
          /\ cleanupErr' = TRUE
          /\ Return(t)
       \/ /\ ~(closeFailed \/ failed)
          /\ opened' = [opened EXCEPT ![old] = None]
          /\ Goto(t, "c_publish")
          /\ UNCHANGED <<cleanupErr, mine, call>>
  /\ UNCHANGED <<readers, store, cfgPath, detached, wg, drops, jobs>>

ConfigurePublish(t) ==
  /\ pc[t] = "c_publish" /\ CanWrite
  /\ store' = mine[t]
  /\ cfgPath' = target
  /\ cleanupErr' = FALSE
  /\ Goto(t, IF migrated THEN "c_migrate" ELSE "c_spawn")
  /\ UNCHANGED <<readers, handles, wg, drops, mine, call, jobs>>

\* startPricingTask for a migrated store; its error ends configure.
ConfigureMigrate(t) ==
  /\ pc[t] = "c_migrate" /\ CanWrite
  /\ \/ PricingActive /\ Return(t) /\ UNCHANGED <<wg, jobs>>
     \/ /\ ~PricingActive /\ Room("pricing")
        /\ \E j \in Jobs : Spawn(j, "pricing", mine[t])
        /\ Goto(t, "c_spawn")
        /\ UNCHANGED <<mine, call>>
  /\ UNCHANGED <<readers, app, handles, drops>>

ConfigureSpawn(t) ==
  /\ pc[t] = "c_spawn"
  /\ \E j \in Jobs : Spawn(j, "background", mine[t])
  /\ Return(t)
  /\ UNCHANGED <<readers, app, handles, drops>>

(***************************************************************************)
(* usage.handle and the management calls.                                  *)
(***************************************************************************)
\* The thread takes a.store under mu.RLock, goes on, and forgets it at the end.
Enter(t, label) ==
  /\ pc[t] = "idle" /\ store # None
  /\ mine' = [mine EXCEPT ![t] = store]
  /\ pc' = [pc EXCEPT ![t] = label]

Leave(t) ==
  /\ mine' = [mine EXCEPT ![t] = None]
  /\ pc' = [pc EXCEPT ![t] = "idle"]

\* A call that holds mu.RLock until it returns.
ServeBegin(t) ==
  /\ Enter(t, "serving")
  /\ readers' = readers \cup {t}
  /\ UNCHANGED <<lifecycleMu, app, handles, wg, drops, call, jobs>>

EndServing(t) ==
  /\ Leave(t)
  /\ readers' = readers \ {t}
  /\ UNCHANGED <<lifecycleMu, app, handles, call>>

\* The event was stored; insertUsageWithRetry starts a drop flush if one is due.
ServeStored(t) ==
  /\ pc[t] = "serving"
  /\ StartDropFlush(mine[t], pending)
  /\ pc' = [pc EXCEPT ![t] = "claim"]
  /\ UNCHANGED <<pending, held, stored, dropped, repeated, locks, app, handles, mine, call>>

\* The retries are exhausted: the event is counted as dropped.
ServeDropped(t) ==
  LET p == opened[mine[t]] IN
  /\ pc[t] = "serving"
  /\ dropped[p] < MaxDrops[p]
  /\ pending' = pending + 1
  /\ dropped' = [dropped EXCEPT ![p] = @ + 1]
  /\ StartDropFlush(mine[t], pending + 1)
  /\ UNCHANGED <<held, stored, repeated>>
  /\ EndServing(t)

\* A calibration refit was claimed: spawnGuidedCalibrationRefit under RLock.
ServeRefit(t) ==
  /\ pc[t] = "claim"
  /\ Room("refit")
  /\ \E j \in Jobs : Spawn(j, "refit", mine[t])
  /\ UNCHANGED drops
  /\ EndServing(t)

\* No refit was claimed, or the call had no event to store.
ServeEnd(t) ==
  /\ pc[t] \in {"serving", "claim"}
  /\ UNCHANGED <<drops, wg, jobs>>
  /\ EndServing(t)

\* /prices/sync and the early-reset repair: register with beginStoreOp under
\* the read lock, release it, and work on the captured store.
OpBegin(t) ==
  /\ Enter(t, "op")
  /\ wg' = wg \cup {t}
  /\ UNCHANGED <<locks, app, handles, drops, call, jobs>>

\* /prices/sync stored other prices: refreshPriceCatalog takes mu.Lock and
\* publishes them if the store is still the active one ...
OpApply(t) ==
  /\ pc[t] = "op" /\ CanWrite /\ store = mine[t]
  /\ pc' = [pc EXCEPT ![t] = "op_queue"]
  /\ UNCHANGED <<locks, app, handles, drops, wg, mine, call, jobs>>

StartPricingTask(s) ==
  \/ /\ ~PricingActive /\ store = s /\ Room("pricing")
     /\ \E k \in Jobs : Spawn(k, "pricing", s)
  \/ /\ PricingActive \/ store # s \/ ~Room("pricing")
     /\ UNCHANGED <<wg, jobs>>

\* ... and queuePricingReprice takes it again, in startPricingTask; the call
\* leaves workWG when the task has been added.
OpQueue(t) ==
  /\ pc[t] = "op_queue" /\ CanWrite
  /\ \/ /\ ~PricingActive /\ store = mine[t] /\ Room("pricing")
        /\ \E k \in Jobs : Go(k, "pricing", store) /\ wg' = (wg \cup {k}) \ {t}
        /\ UNCHANGED <<at, tries>>
     \/ /\ PricingActive \/ store # mine[t] \/ ~Room("pricing")
        /\ wg' = wg \ {t}
        /\ UNCHANGED jobs
  /\ Leave(t)
  /\ UNCHANGED <<locks, app, handles, drops, call>>

OpEnd(t) ==
  /\ pc[t] = "op"
  /\ Leave(t)
  /\ wg' = wg \ {t}
  /\ UNCHANGED <<locks, app, handles, drops, call, jobs>>

\* POST /pricing-settings reads a.store, releases the lock, and calls
\* startPricingTask, which takes mu.Lock: the store may have gone meanwhile.
SaveBegin(t) ==
  /\ Enter(t, "save")
  /\ UNCHANGED <<locks, app, handles, wg, drops, call, jobs>>

SaveStart(t) ==
  /\ pc[t] = "save" /\ CanWrite
  /\ StartPricingTask(mine[t])
  /\ Leave(t)
  /\ UNCHANGED <<locks, app, handles, drops, call>>

(***************************************************************************)
(* The goroutines.                                                         *)
(***************************************************************************)
\* s.spawnDetached: a WAL checkpoint outlives the worker that asked for it.
SpawnDetached(s) ==
  /\ detached[s] < MaxDetached
  /\ detached' = [detached EXCEPT ![s] = @ + 1]
  /\ UNCHANGED opened

CheckpointDone(s) ==
  /\ detached[s] > 0
  /\ detached' = [detached EXCEPT ![s] = @ - 1]
  /\ UNCHANGED <<locks, app, opened, wg, drops, pc, mine, call, jobs>>

\* applyFittedWeights and refreshPriceCatalog: under mu.Lock the worker looks
\* at a.store again.  On its own store a new fit or catalog is applied, its
\* attributions are rewritten, and repricing is queued.
JobApply(j) ==
  /\ kind[j] \in {"background", "refit"} /\ at[j] = "run"
  /\ kind[j] = "refit" => tries[j] = 0
  /\ CanWrite /\ store = jobStore[j]
  /\ SpawnDetached(jobStore[j])
  /\ JobGoto(j, "start")
  /\ tries' = [tries EXCEPT ![j] = IF kind[j] = "refit" THEN 1 ELSE @]
  /\ UNCHANGED <<locks, app, wg, drops, pc, mine, call>>

\* queuePricingReprice and queueFitRepricing: startPricingTask takes mu.Lock.
JobStart(j) ==
  /\ at[j] = "start" /\ CanWrite
  /\ \/ /\ ~PricingActive /\ store = jobStore[j] /\ Room("pricing")
        /\ \E k \in Jobs :
             /\ Go(k, "pricing", store)
             /\ wg' = wg \cup {k}
     \/ /\ PricingActive \/ store # jobStore[j] \/ ~Room("pricing")
        /\ UNCHANGED <<kind, jobStore, live, wg>>
  /\ at' = [at EXCEPT ![j] = "run"]
  /\ UNCHANGED <<locks, app, handles, drops, pc, mine, call, tries>>

\* A pricing task leaves a detached checkpoint and reports its end; from then
\* on another task may start, while this goroutine still holds workWG.
PricingFinish(j) ==
  /\ kind[j] = "pricing"
  /\ SpawnDetached(jobStore[j])
  /\ kind' = [kind EXCEPT ![j] = "tail"]
  /\ UNCHANGED <<locks, app, wg, drops, pc, mine, call, at, jobStore, live, tries>>

\* The tail of runPricingTask: queue the pending repricings, one of the prices
\* and one of the fit, on the same store.
PricingRequeue(j) ==
  /\ kind[j] = "tail" /\ at[j] = "run"
  /\ tries[j] < 2
  /\ store = jobStore[j]
  /\ JobGoto(j, "start")
  /\ tries' = [tries EXCEPT ![j] = @ + 1]
  /\ UNCHANGED <<locks, app, handles, wg, drops, pc, mine, call>>

JobEnd(j) ==
  /\ kind[j] \in {"refit", "tail"} /\ at[j] = "run"
  /\ EndJob(j)
  /\ UNCHANGED <<locks, app, handles, drops, pc, mine, call>>

\* background: a tick may start a drop flush; ctx.Done ends the loop.  The
\* select may take ticks before it sees ctx.Done, so a tick needs no live
\* context.
BackgroundTick(j) ==
  /\ kind[j] = "background" /\ at[j] = "run"
  /\ pending > 0 /\ ~flushing
  /\ StartDropFlush(jobStore[j], pending)
  /\ UNCHANGED <<locks, app, handles, pending, held, stored, dropped, repeated, pc, mine, call>>

\* Mutant: the loop is not left while a count is pending.
BackgroundExitWhenFlushed(j) ==
  /\ kind[j] = "background" /\ at[j] = "run" /\ j \notin live /\ pending = 0
  /\ EndJob(j)
  /\ UNCHANGED <<locks, app, handles, drops, pc, mine, call>>

BackgroundExit(j) ==
  /\ kind[j] = "background" /\ at[j] = "run" /\ j \notin live
  /\ EndJob(j)
  /\ UNCHANGED <<locks, app, handles, drops, pc, mine, call>>

\* Mutant: the flusher leaves dropFlushRunning set when it ends.
FlushTakeStays(j) ==
  /\ kind[j] = "flush" /\ at[j] = "run"
  /\ \/ /\ tries[j] < FlushAttempts /\ pending > 0
        /\ held' = pending /\ pending' = 0
        /\ JobGoto(j, "check")
        /\ UNCHANGED <<wg, tries>>
     \/ /\ tries[j] >= FlushAttempts \/ pending = 0
        /\ EndJob(j)
        /\ UNCHANGED <<held, pending>>
  /\ UNCHANGED <<locks, app, handles, flushing, stored, dropped, repeated, pc, mine, call>>

\* The drop flusher takes the pending count ...
FlushTake(j) ==
  /\ kind[j] = "flush" /\ at[j] = "run"
  /\ \/ /\ tries[j] < FlushAttempts /\ pending > 0
        /\ held' = pending /\ pending' = 0
        /\ JobGoto(j, "check")
        /\ UNCHANGED <<flushing, wg, tries>>
     \/ /\ tries[j] >= FlushAttempts \/ pending = 0
        /\ flushing' = FALSE
        /\ EndJob(j)
        /\ UNCHANGED <<held, pending>>
  /\ UNCHANGED <<locks, app, handles, stored, dropped, repeated, pc, mine, call>>

\* Mutant: the flusher of a detached store does not give the count back.
FlushCheckForgets(j) ==
  /\ kind[j] = "flush" /\ at[j] = "check"
  /\ \/ /\ store = jobStore[j]
        /\ JobGoto(j, "write")
        /\ UNCHANGED <<held, flushing, wg, tries>>
     \/ /\ store # jobStore[j]
        /\ held' = 0
        /\ flushing' = FALSE
        /\ EndJob(j)
  /\ UNCHANGED <<locks, app, handles, pending, stored, dropped, repeated, pc, mine, call>>

\* ... gives it back when the store was detached meanwhile ...
FlushCheck(j) ==
  /\ kind[j] = "flush" /\ at[j] = "check"
  /\ \/ /\ store = jobStore[j]
        /\ JobGoto(j, "write")
        /\ UNCHANGED <<pending, held, flushing, wg, tries>>
     \/ /\ store # jobStore[j]
        /\ pending' = pending + held /\ held' = 0
        /\ flushing' = FALSE
        /\ EndJob(j)
  /\ UNCHANGED <<locks, app, handles, stored, dropped, repeated, pc, mine, call>>

\* ... and adds it to the database, or keeps it when the write fails.
FlushWrite(j, ok) ==
  /\ kind[j] = "flush" /\ at[j] = "write"
  /\ AddDropped(opened[jobStore[j]], held, pending, ok)
  /\ held' = 0
  /\ JobGoto(j, "run")
  /\ tries' = [tries EXCEPT ![j] = @ + 1]
  /\ UNCHANGED <<locks, app, handles, flushing, dropped, wg, pc, mine, call>>

FlushStep(j) == FlushTake(j) \/ FlushCheck(j) \/ \E ok \in BOOLEAN : FlushWrite(j, ok)

\* The steps that bring a goroutine to its end; they exclude each other.
JobProgress(j) ==
  PricingFinish(j) \/ JobEnd(j) \/ BackgroundExit(j) \/ FlushStep(j)

-----------------------------------------------------------------------------
Quiesce(t) ==
  QuiesceBegin(t) \/ QuiesceDetach(t) \/ QuiesceDrain(t) \/ QuiesceClose(t)

Configure(t) ==
  \/ ConfigureBegin(t)
  \/ \E p \in Paths, same \in BOOLEAN : ConfigureCheck(t, p, same)
  \/ ConfigureOpen(t) \/ ConfigureRecover(t) \/ ConfigureLoad(t)
  \/ ConfigureSeal(t) \/ ConfigureDrain(t) \/ ConfigureClose(t)
  \/ ConfigurePublish(t) \/ ConfigureMigrate(t) \/ ConfigureSpawn(t)

Call(t) ==
  \/ ServeBegin(t) \/ ServeStored(t) \/ ServeDropped(t) \/ ServeRefit(t) \/ ServeEnd(t)
  \/ OpBegin(t) \/ OpApply(t) \/ OpQueue(t) \/ OpEnd(t)
  \/ SaveBegin(t) \/ SaveStart(t)

Worker(j) ==
  \/ JobApply(j) \/ JobStart(j) \/ PricingFinish(j) \/ PricingRequeue(j)
  \/ JobEnd(j) \/ BackgroundTick(j) \/ BackgroundExit(j)
  \/ FlushStep(j)

Next ==
  \/ \E t \in Threads : Quiesce(t) \/ Configure(t) \/ Call(t)
  \/ \E j \in Jobs : Worker(j)
  \/ \E s \in Stores : CheckpointDone(s)

Spec == Init /\ [][Next]_vars

\* The scheduler runs every goroutine and every call of the host returns.
\* sync.RWMutex admits no new reader while a writer waits: the readers leave
\* again and again, and the lock is granted to a lifecycle call and to the
\* background loop.  A ticker of the loop is served in the end, and a drop
\* count that is written again and again is stored in the end.
WriterWaits ==
  \/ \E t \in Threads : pc[t] \in {"q_detach", "c_seal", "c_publish", "c_migrate",
                               "save", "op_queue"}
  \/ \E j \in Jobs : at[j] = "start"

LifecycleStep == \E t \in Threads : lifecycleMu = t /\ (Quiesce(t) \/ Configure(t))

Fairness ==
  /\ []<>(WriterWaits => CanWrite)
  /\ SF_vars(LifecycleStep)
  /\ \A j \in Jobs : SF_vars(JobStart(j))
  /\ SF_vars(\E j \in Jobs : BackgroundTick(j))
  /\ SF_vars(\E j \in Jobs : FlushWrite(j, TRUE))
  /\ \A t \in Threads : WF_vars(ServeEnd(t) \/ OpQueue(t) \/ OpEnd(t))
  /\ \A j \in Jobs : WF_vars(JobProgress(j))
  /\ \A s \in Stores : WF_vars(CheckpointDone(s))

FairSpec == Spec /\ Fairness

(***************************************************************************)
(* Properties.                                                             *)
(***************************************************************************)
ThreadPcs ==
  {"idle", "serving", "claim", "op", "op_queue", "save", "q_detach", "q_drain", "q_close",
   "c_check", "c_open", "c_recover", "c_load", "c_seal", "c_drain", "c_close",
   "c_publish", "c_migrate", "c_spawn"}

ReaderPcs   == {"serving", "claim"}             \* under mu.RLock
OpPcs       == {"op", "op_queue"}    \* registered with workWG
AdmittedPcs == ReaderPcs \cup OpPcs

JobKinds == {"none", "background", "refit", "pricing", "tail", "flush"}
JobPcs   == {"run", "start", "check", "write"}

\* The types of the variables.
TypeOK ==
  /\ lifecycleMu \in Threads \cup {None}
  /\ readers \subseteq Threads
  /\ store \in Stores \cup {None}
  /\ cfgPath \in Paths
  /\ cleanupErr \in BOOLEAN
  /\ opened \in [Stores -> Paths \cup {None}]
  /\ detached \in [Stores -> Nat]
  /\ wg \subseteq Threads \cup Jobs
  /\ pending \in Nat /\ held \in Nat /\ flushing \in BOOLEAN
  /\ stored \in [Paths -> Nat] /\ dropped \in [Paths -> Nat]
  /\ repeated \in [Paths -> Nat]
  /\ pc \in [Threads -> ThreadPcs]
  /\ mine \in [Threads -> Stores \cup {None}]
  /\ target \in Paths \cup {None} /\ old \in Stores \cup {None}
  /\ migrated \in BOOLEAN /\ failed \in BOOLEAN
  /\ kind \in [Jobs -> JobKinds] /\ at \in [Jobs -> JobPcs]
  /\ jobStore \in [Jobs -> Stores \cup {None}]
  /\ live \subseteq Jobs
  /\ tries \in [Jobs -> Nat]

\* No call, worker or detached checkpoint ever holds a closed store: the
\* drain of quiesce and configure waits for everything that was admitted.
StoreSafety ==
  /\ store # None => opened[store] = cfgPath
  /\ \A t \in Threads : pc[t] \in AdmittedPcs => opened[mine[t]] = cfgPath
  /\ \A j \in Jobs : kind[j] # "none" => opened[jobStore[j]] = cfgPath
  /\ \A s \in Stores : detached[s] > 0 => opened[s] # None

\* Two *store values, each with a main connection of its own, are never open
\* on one data_path at the same time, also not while configure replaces one
\* store by another.  The short-lived handles of checkpointWAL (store.go:242)
\* and openReadOnly (pricing_batch.go:46) are opened within a checkpoint, a
\* task or a rebuild of an open store, which StoreSafety is about.
OneStorePerPath ==
  \A r, s \in Stores : opened[r] # None /\ opened[r] = opened[s] => r = s

\* Whatever holds workWG works on one and the same store, and there is at most
\* one background loop: generations of workers never overlap.
GenerationsNeverOverlap ==
  /\ \A j, k \in Jobs :
       /\ kind[j] # "none" /\ kind[k] # "none" => jobStore[j] = jobStore[k]
       /\ kind[j] = "background" /\ kind[k] = "background" => j = k
  /\ \A j \in Jobs, t \in Threads :
       kind[j] # "none" /\ pc[t] \in OpPcs => jobStore[j] = mine[t]

\* A store is closed, and the next one published, only when admission is
\* sealed and every admitted call and worker has left.
DrainedBeforeClose ==
  \A t \in Threads :
    pc[t] \in {"q_close", "c_close", "c_publish"} =>
      store = None /\ readers = {} /\ wg = {} /\ ~flushing

\* The store that configure looked at is still the active one when it seals
\* admission, so "store changed while configuring" (app.go:292) never happens:
\* the reason why ConfigureSeal has no such branch.
SealSeesItsStore ==
  \A t \in Threads : pc[t] = "c_seal" => store = old

\* What the counters in memory add to the database at p.
InMemory(p) == IF p = cfgPath THEN pending + held ELSE 0

\* Every dropped usage event is accounted to the database of the store that
\* dropped it: the counts in memory belong to the current data_path, everything
\* else has been written.  It is counted once, and once more only by a write
\* that committed and still reported an error, after which it is written again.
DropsReachTheirDatabase ==
  \A p \in Paths : dropped[p] + repeated[p] = stored[p] + InMemory(p)

\* When quiesce answers success, no database is open and no drop count is left
\* in memory.
QuiesceReleases ==
  [][\A t \in Threads :
       pc[t] \in {"q_detach", "q_close"} /\ pc'[t] = "idle" /\ ~cleanupErr' =>
         /\ pending' = 0 /\ held' = 0
         /\ \A s \in Stores : opened'[s] = None]_vars

\* After a failed cleanup a store is published again only for the same
\* data_path, and only when the retained count has been written to it.
RecoveryKeepsPath ==
  [][cleanupErr /\ store' # None => cfgPath' = cfgPath /\ pending' = 0]_vars

\* The ledger of dropped events that this module implements.
LedgerServing == IF store # None THEN cfgPath ELSE None
LedgerTotal   == [p \in Paths |-> stored[p] + InMemory(p)]
Ledger == INSTANCE DroppedUsageLedger
            WITH serving <- LedgerServing, last <- cfgPath, total <- LedgerTotal

\* Seen from outside, a database only ever gains a drop while it is served,
\* one at a time, whatever quiesce, configure, flushers and failing writes do
\* with the counters in between; only a write that commits and reports an
\* error counts again, and never for another database than the last served.
ImplementsLedger == Ledger!Spec

\* Every quiesce and configure returns, and gives lifecycleMu back.
LifecycleReturns == []<>(lifecycleMu = None)

BackgroundRuns == \E j \in Jobs : kind[j] = "background" /\ j \in live

\* While a store with its background loop stays published, every drop of its
\* database is stored by a write that succeeds, whatever start of a flush got
\* lost in between: it stays neither in the counter nor in a flusher's hand.
\* What failed writes stored is not counted for it.
DropsEventuallyStored ==
  \A p \in Paths : \A n \in 1..MaxDrops[p] :
    (dropped[p] >= n /\ p = cfgPath /\ BackgroundRuns)
      ~> (stored[p] >= n + repeated[p] \/ ~(p = cfgPath /\ BackgroundRuns))

\* When configure looks at the active store, and so may answer success for an
\* identical configuration, that store has its background loop: "a later
\* plugin.reconfigure ... restarts workers" (app.go:479).
ReconfigureRestartsWorkers ==
  \A t \in Threads : pc[t] = "c_check" /\ store # None => BackgroundRuns
=============================================================================
