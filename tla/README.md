# Verification of cpa-quota-estimator

cpa-quota-estimator is a plugin of a proxy for AI accounts.  The host loads it as a shared
library, configures it, hands it a record of every request that was served, and routes
management calls to it.  From the usage records and the quota headers of the responses it
keeps a history in SQLite: events, quota samples, quota cycles, segments, weight fits.

This directory holds TLA+ models of its stateful parts, translated from the Go source,
TLC configurations that check them on small instances, and TLAPS proofs of what the plugin
lifecycle, the accounting of dropped usage, the pricing tasks and the requests for them, the
ledger of quota cycles, the segments and months derived from it, the cycles and months of the
separate scopes, and the sessions of calibrations promise for every instance.

- [Inventory](#inventory) of the system
- [Plan](#plan) of the project
- [Modules](#modules): what stands for what
- [Runs](#runs): bounds, fairness and results
- [Proofs](#proofs)
- [Findings](#findings): where the code and its documentation disagree
- [What is not modelled](#what-is-not-modelled)

## Inventory

| Component | State | Operations | Interacts with | What is hard | What makes it correct |
|---|---|---|---|---|---|
| plugin lifecycle (`app.go`, `store.go`) | `app.mu`, `lifecycleMu`, `opMu`, `admissionSealed`, `workWG`, `workCtx`, `store`, `failedCleanup` | configure, quiesce, shutdown, background loop, admission of calls | everything | host threads and goroutines around a store that is replaced; drains that wait | no use of a closed store, one `*store` per database, one generation at a time, every drain ends |
| dropped usage (`usage_retry.go`) | `droppedPending`, `dropFlushRunning`, the metadata row | retry, count a drop, flush | lifecycle | the count is between memory and two databases; a write that reports an error may have been applied | no drop is lost or counted for another database, none twice but by a write that reports an error; it is stored in the end |
| usage ingest (`app.go` 547-658, `store.go` 252-332) | `usage_events` | price, insert with retry, claim | cycles, samples, segments, calibration, pricing | one transaction with five consequences; retries with the same ingest id | an event is stored once and its consequences agree with it |
| quota cycles (`cycles.go`, `advanced_reset.go`) | `quota_cycles`, `quota_samples`, `cycle_id` of events | detect scheduled, early and advanced resets, undo a false one | ingest, calibration, reports | responses are recorded in another order than they were observed; readings lie | one open cycle; a reset only on the evidence that is asked for; totals belong to one cycle |
| reset repair (`repair.go`, `image_quota_repair.go`) | the same tables | move events and samples between cycles, after the fact | cycles, management | a second detector over a history that the first one wrote | the repaired ledger is one that the detector could have written |
| quota anomalies (`quota_anomalies.go`) | regime statistics of cycles | mark and reconcile regimes | cycles | schedules that switch back and forth | statistics are those of the regime's samples |
| quota segments (`quota_segments.go`) | `quota_segments`, `quota_segment_progress` | refresh per event, rebuild in the background | ingest, learner | incremental refresh beside a full rebuild | the segments of a key are those its events imply |
| pricing task (`pricing_task.go`, `pricing_batch.go`, `pricing_settings.go`) | the active task, `cfg` (pricing basis), event and sample costs, the settings row | start, fit, reprice in batches, catch up, persist, restore | lifecycle, ingest | usage between batches; failure, quiesce or crash at any of them | samples sum what their events cost; a failed task restores, a successful one reprices all |
| price catalog (`pricing.go`) | `model_prices`, `cfg.PriceCatalog` | download, upsert, publish, ask for a repricing | pricing task, ingest | publishers in the wrong order, requests that meet a running task | the history follows the stored prices |
| guided calibration (`calibration.go`) | one metadata record per account | start, advance, end, cancel, claim, refit, finish | ingest, cycles, learner | usage, management calls and refits of minutes on one record | spans and percents are those measured; one refit per completion, for its session |
| weight learner (`weight_*.go`) | fits | regression, validation | segments | numerics | statistics |
| online scales (`weight_online.go`, `online_capacity.go`) | per-cycle capacity | update per segment | learner, ingest | basis changes under way | scales belong to the active basis |
| scoped series (`scope_series.go`, `quota_scope.go`) | none, derived on every read | cycles of the 5 hour, weekly and Spark scopes | reports | the same detector without a ledger | agree with the events |
| coverage (`coverage_settings.go`) | one row per account | set, read | reports | | |
| estimator and reports (`estimator.go`, `allowances.go`, `monthly.go`, `usage_breakdown.go`) | none | forecasts, sums | cycles, samples | floating point | |
| management API, web page (`api.go`, `web/`) | none of its own | routes | everything | | |
| plugin ABI (`main.go`, `types.go`), schema (`store.go` 56-216) | none | conversion; idempotent DDL | | | |

The calls of the host arrive on any thread.  `recordUsage` and management calls hold
`app.mu` for reading from admission to return; quiesce and configure hold `lifecycleMu`,
take `app.mu` for writing when they seal, detach and publish, and wait for `workWG` in
between.  Goroutines (background loop, refits, pricing tasks, drop flushers, detached
checkpoints) are counted in `workWG` or in the store's own wait group.  The components
below the lifecycle meet in SQLite, which has one connection: a transaction is atomic,
and everything that is hard happens between two of them.

## Plan

The order is that of importance: what every other component stands on comes first.

| | Module | States | Status |
|---|---|---|---|
| 1 | `PluginLifecycle` with the drop accounting | lifecycle | checked and proved |
| 2 | `DroppedUsageLedger`, the abstract promise of the accounting, implemented by 1 | | checked and proved |
| 3 | `PricingTask` | basis, costs, settings | checked and proved |
| 4 | `QuotaCycles` | ledger of cycles and samples | checked and proved |
| 5 | `Calibration` | session and its refits | checked and proved |
| 6 | `QuotaSegments`: refresh and rebuild of the segments of a key; the abstract specification is the function from events to segments | segments | checked and proved |
| 7 | `CatalogRepricing`: retry and deduplication of usage, the price catalog, the queued repricings and their limit, around the tasks of 3 | prices, fits, events, tasks | checked and proved |
| 8 | `ScopedSeries`: the cycles and months of a separate scope, a function of its events, around the order of time in `TimeOrder` | events | checked and proved |
| 9 | `MonthlyReport`: the months over the ledger of 4 | none of its own | checked, that they add up proved |
| 10 | `ResetRepair` and anomalies over the ledger of 4 | ledger | planned |
| 11 | online scales | | planned |

Theorems still worth proving: `CyclesInOrder` under an assumption about the headers that is as
weak as a server justifies.  Instances still worth running: cycles with two overtaken requests,
two tasks of users in `PricingTask`, and drops with ambiguous writes under fairness.

## Modules

### PluginLifecycle (`app.go`, `usage_retry.go`, `store.go`)

Threads of the host (`Threads`) run one call each, goroutines (`Jobs`) are slots that
`Spawn` fills.  `pc`, `at` and the records `l` and `job` are the program counters and
locals; the locks, the wait group, the handles and the drop counters are variables.  An
action runs from one blocking point of the code to the next: acquiring a lock, `Wait`, a
SQL call or a spawn whose effect another thread can see.  `Quiesce*` is quiesce (480-500),
`Configure*` configure (202-337), `Serve*` recordUsage's locking (547-658) with the drop
flush that insertUsageWithRetry starts before the claim of a refit (`ServeStored`), `Op*` the
management calls that register with `workWG` (a price sync takes `a.mu` for writing twice,
to publish the catalog in `OpApply` and to start a task in `OpQueue`), `Save*` the
pricing-settings call, `Job*`, `Pricing*`, `Background*`, `Flush*` the goroutines.  `Slots`
gives each kind of goroutine the slots it may take; a refit or a repricing that finds none,
which is a bound of the model, is not started.  Two defers of the drop flusher that no lock
separates (`dropFlushRunning.Store(false)` and `workWG.Done`) are one step.

`opened` counts `*store` values, each with its main connection.  A checkpoint
(`store.go:242`) and the readers of a task or a rebuild (`pricing_batch.go:46-60`) open
short-lived handles of their own on the same path; they live within a goroutine of an open
store, so that `StoreSafety` covers them, and `OneStorePerPath` does not speak of them.

`AmbiguousWrite` lets a metadata write report an error although it was applied, as a timeout
may; `repeated` keeps what such writes stored, and the write that follows stores again.

### DroppedUsageLedger

The promise of the accounting: a drop belongs to the database that was served when it
happened, and the total of a database never falls.  A write that commits and reports an
error is written again, and then counts twice (`Recount`): only where `AmbiguousWrite`
allows it, and only for the database that was served last.  `PluginLifecycle` implements it
with `serving` mapped to the path of the published store, `last` to `a.cfg.DataPath`, and
`total` to what each database has stored plus what the counters in memory hold for it.

### PricingTask (`pricing_task.go`, `pricing_batch.go`, `pricing_settings.go`, `app.go`)

A cost is represented by the settings it was computed with, a sample by the costs of the
events it sums.  `TaskSnapshot`, `TaskEvents`, `TaskReadCycle`, `TaskSamples`,
`TaskCatchUp`, `TaskPersist` are the transactions of runPricingTask, `Restore*` those of
the rollback, where the late events are read in one transaction (`RestoreReadLate`), written
in batches (`RestoreLate`) and added to the samples (`RestoreValues`).  Usage,
`SavePricingSettings`, `Quiesce`, `Configure*` and `Crash` may come between any two.  The
values of a fit are not represented: `TaskFit` succeeds or fails.

Usage may move rows while a task runs: `RecordReset` gives the events since a reset to a new
cycle, and `RecordRecovery` gives a cycle's events and samples back to the one before it and
computes all its totals again (`advanced_reset.go:115-129`).  Which readings confirm that is
the matter of `QuotaCycles`; here it may happen at any moment.

The host configures a plugin that was stopped or one that serves.  In both cases
`ConfigureLoad` reads the settings, and `ConfigurePublish` publishes them after the drain,
also when a task was started and succeeded in between.  `behind` remembers that something
loaded, active or in the history was overtaken in this way, and is what `SavedIsActive` and
`SucceededTaskReprices` except.

Left out: a statement that commits and reports an error, the deletion of a carried-over
sample (`cycles.go:407-429`) during a task, and the price catalog, which is a part of a
basis here and a component of its own in `CatalogRepricing`.

### CatalogRepricing (`app.go`, `pricing_task.go`, `pricing_limit.go`, `usage_retry.go`, `store.go`)

How prices and fits reach the costs of the history.  A price list and a fit are numbers, a
cost is the pair it was computed with.  `SyncStore`, `SyncLoad`, `SyncPublish` are the steps
of syncPrices and refreshPriceCatalog, `FitSave` and `FitApply` those of a fit; `SyncQueue`,
`FitQueue` and `TaskQueue` call startPricingTask, which needs `a.mu` for writing
(`NoReader`), and `*Refused` set the flag afterwards, in a lock section of their own, as the
code does.  A fit that was computed is dropped when a task is active, when the store or the
reference has changed, and when its scales cannot be written (`FitApply`).  A task takes its
snapshot, writes and reports in one step each (`PricingTask` has their parts).  When it
fails it takes the configuration back twice: before the restoration (`TaskRollBack`) and
after it (`TaskFail`); what is published in between is lost a second time.  Then it sets
`lastPricedFit` and takes the flags (`TaskTake`); for each of them it reads `a.cfg`
(`TaskRead`) and asks for a task in another lock section (`TaskQueue`).
`RecordUsage`, `Attempt*` and `GiveUp` are recordUsage and insertUsageWithRetry: they hold
`a.mu.RLock` from the price to the last attempt, and an attempt that fails may have
committed.  `Restart` is the end of the process with the configure that follows.

Left out: a price list that changes and changes back between two loads (it looks like no
change to refreshPriceCatalog, and what was priced in between keeps its costs), fits of
another version, fits that differ by less than two percent, and the pricing mode of the
`a.cfg` that a task's end has read, which settings saved before `TaskQueue` may have changed.

### ScopedSeries (`scope_series.go`)

The quotas beside the main one: weekly beside a 5 hour window, and Spark.  The state is the
log of their events.  `Readings` are the rows of quotaScopeObservations: those of the events
that show the quota, in the order of observation (`InOrder` of `TimeOrder`, which the segments
use as well).  `Definitions` is quotaScopeCycleDefinitions: `Scan` gives the locals of its loop
after each reading, with `Step` its body, and the last of them the cycles.  `seen` of a cycle is
the observation that bounds it when nothing else does.  `Advanced`, `Growth` and `Month` are
advanceExpiredScopedSchedule, quotaScopeCycleGrowth and monthlyQuotaScopeAt.  The properties
look at every log that can arise, and at reports asked for at several times.

### QuotaCycles (`cycles.go`, `advanced_reset.go`, `store.go`)

The main quota scope of one account.  An observation is a request with what its headers
said; the order in which observations are recorded is free, as far as `MaxLate` lets later
ones overtake.  Each early return of ensureEventCycle is an action (`RecordPlain`,
`RecordPending`, `RepairCarryover`, `StartAdvanced`, `ScheduledReset`,
`AwaitScheduledReset`, `EarlyReset`, `AwaitEarlyReset`, `Recover`, ...), and each of them
contains the insertion of the event, the decision about a sample, and the sample with its
totals.  A total is the set of the events it sums.  Deleted cycles leave no trace: nothing
refers to their ids.

### MonthlyReport (`monthly.go`)

The months of the main scope, evaluated over every ledger that `QuotaCycles` reaches and for
every pair of `Times` as a month.  Requests stand for their tokens and costs.  `MonthsAddUp`
excepts cycles that are not `Settled`: a report takes an open cycle to be over at its deadline,
and an early reset ends one at its first low request, and in both cases samples may have been
made later.

No property says that a month shows the cycle of every request that it counts.  It does not:
the requests of a month are those made in it (60-63), its cycles those that start before its
end (79).  A request may belong to a cycle that starts later: one that declares its start up to
a minute after the request, an exhausted window that slides on, or the next cycle, to which a
reset has moved a request in flight.  What is left without these is the definition of a cycle.

### Calibration (`calibration.go`, `app.go`, `api.go`)

The session of one account.  `Ignored`, `Invalidated` and `InPhase` are the outcomes of
advanceCalibrationForEvent inside the transaction of `RecordUsage`; the calls between that
transaction and their claim are counted in `calls`.  What ensureEventCycle returns is left
open: the open cycle, the next, or an earlier one that is open again.  The summed values
are represented by the set of events a phase received; contamination and crossings follow
from that set and from the percents.  The refusals of `calibration/start` while a pricing
task runs are left out: they only delay it.

### QuotaSegments (`quota_segments.go`, `store.go` 252-332, `app.go` 375-377)

The segments of the main scope, composed with the cycle ledger: `Insert` is one action of
`QuotaCycles` and, in the same transaction, the refresh of the key of the new event
(`Refresh`: refreshSegmentsForEvent, 727-769).  `Prepared` is the function from the events of
a key to its rows, its peak and its last time (buildQuotaSegments, 594-724, for each lag).
rebuildAllQuotaSegments has one action per transaction or statement: `ReadKeys` (in
`DailyRebuild` and `Open`), `ReadStale`, `ClearMarker`, then `Prepare` and `Write` for each
key, `RemoveStale`, `SetMarker`; `Abort` is any error or cancelled context on the way, `Stop`
the end of the process or the replacement of the store, after which a rebuild that had
cleared the marker is taken up by `Open` (migrateSegments).  An event whose headers name the
window without a percent is a source too (374-382) and changes no row, but is the last of its
key; a percent without a window is left out.  A row is represented by its end
points, the percents between them, the set of events charged to it, and the flags that
depend on percents, times, failures and resets.  The sums of tokens, and the flags that
depend on models, tokens and recorded anomalies, are functions of that set and left out, as
are the weekly and Spark keys and the deletion of old events before a daily rebuild.

`MC*` modules hold the definitions that configurations refer to.

## Runs

All runs finish within five minutes with two workers.

| Run | Question | Bounds, and why they are enough |
|---|---|---|
| `lifecycle` | does anything admitted meet a closed or a second store; does the accounting implement its ledger | 2 threads, 2 databases and stores, slots for the loop, the flusher and one other goroutine (a refit, a repricing or its tail), 1 drop for each database, 2 attempts of a flusher, ambiguous writes: a replaced store, its replacement and a failed cleanup fit, with a worker of each kind beside a quiesce and a configure; a third database is never distinguishable from the first |
| `lifecycle_live` | does every quiesce and configure return; are drops stored in the end | one thread that configures and quiesces and one that makes all other calls (`HostSpec`: lifecycle calls exclude each other), 2 databases and stores, slots for the loop, for the flusher or a refit, and for a repricing, so that a store is replaced while the loop, a refit, a task or a price sync starts a repricing; drops on the first database, no ambiguous writes, which `lifecycle` has; fairness below |
| `lifecycle_restart` | does a reconfigure restart the workers (app.go:479) | violated: a finding |
| `pricing` | do samples, settings, rollback and success agree over failure, quiesce, crash; does every task end; is an old database migrated | 3 events in two cycles at two times, batches of 1, one task of a user and any number of migrations: usage before a batch, between two and after the last, where the catch-up pass finds it.  `BoundedSpec` narrows the usage: the first event is the earliest, further ones come while nobody stops or configures the plugin, and the third takes the second cycle back |
| `repricing` | is an event stored once or counted as dropped; does the history follow the stored prices, and `lastPricedFit` the history; is a fit lost by a rollback | one syncer with 2 syncs, 1 fitter with 1 fit, 2 tasks (of a user, of a request, or of a flag), a request written in 2 attempts, a restart: the second sync meets the first one's task, and the task that serves it meets the fit.  A second syncer adds orders in which an older catalog is published last, which the properties except |
| `cycles` | ledger invariants, the evidence for every reset, and the months over the ledger | 6 recorded out of one of two stories, one overtaken; three low readings are evidence, so six reach a cycle, its reset, and a recovery or a second reset.  `Refilled` has 15 readings, `Overlapping` 7: one made just before the deadline, and a refill that a request from before the deadline shows first.  Reports and months begin at four times: in the first window, behind the refill, and twice after the deadline |
| `scoped` | are the cycles of a scope disjoint and confirmed; do its months add up | 8 recorded out of 13 readings, one overtaken: a window and the next, a corrected schedule, a low reading alone in its regime, a refill, a failed request; reports at 4 times, one after the last window |
| `scoped_refill` | is a cycle that an early reset closed reported with the time of its readings | the real constants (60 s); violated: a finding |
| `calibration` | are sessions measured right and refitted once | 3 events of each kind, 2 cycles, 2 sessions, 2 calls at once, crashes: two events end both phases, the third comes late or from another cycle |
| `calibration_target` | is the multiplier shown that of the target | violated: a finding |
| `segments` | do stored segments agree with the events, whatever comes between the steps of a rebuild | 5 out of 8 readings, one overtaken: three crossings, a refill that is confirmed and taken back, jitter of the reset, a header without a percent; 2 rebuilds or starts, so that one may be interrupted and taken up |
| `segments_moved` | are segments kept in the cycle of their events | the real constants (120 s, 2 h); violated: a finding |

The time units of `cycles`, `scoped` and `segments` are scaled: only comparisons and sums of
times matter, and the instance keeps the order of the code's constants (tolerance and slack
below the span of a confirmation, that below the sample interval, all below the window).
`scoped_refill` and `segments_moved` use the constants of the code.  `CyclesInOrder` is a
property of streams whose readings move with the clock, as those of the instance do; it
excepts, in its formula, a cycle that ends before it starts (`EndedBeforeStart`), which the
story `Overlapping` has.

Deadlock is checked where the system must always be able to go on (`lifecycle`,
`lifecycle_live`).  It is not checked in the instances of `PricingTask`, `QuotaCycles`,
`ScopedSeries`, `CatalogRepricing`, `Calibration` and `QuotaSegments`, where the bounds on
events, syncs and tasks end every behaviour.

**Fairness.**  Host calls never have to arrive.  Calls and goroutines that are under way
take their next step (the Go scheduler is fair to runnable goroutines).  Go's RWMutex
prefers a waiting writer: readers that arrive later wait behind it, hence
`[]<>(WriterWaits => CanWrite)`, and each writer gets the lock in the end (strong fairness of
the lifecycle call and of each goroutine's `JobStart`); the readers inside finish, because
SQL calls and retries have timeouts.  The background loop ticks for ever, so a pending drop is
flushed even if nobody calls again; with a database that refuses every write nothing can be
stored, and the fairness of `DropsEventuallyStored` is that a count which is written again and
again is stored in the end.  The property asks for the drop in `stored`, beyond what failed
writes have stored: that the counter or the flusher's local is empty is not enough.
`RefitEnds` needs only weak fairness of a refit that runs (it has a timeout of five minutes)
and that the write of its end succeeds; a crash is excepted.

**Properties.**  Each is stated in words beside its definition, with the line of the code
or the documentation it is about, and for each there is a mutated definition, an
operator with a comment "Mutant: ...", with which its run fails.

## Proofs

`PluginLifecycleProofs` proves for any finite or infinite sets of threads, goroutines,
stores and databases, from `ConstantsAssumption` (the sets and `None` are distinct, the
bounds are numbers), that

- `Inductive`: `IInv` is an invariant.  The safety properties are not inductive: that no
  one works on a closed store rests on who may hold what at which program counter.  `IInv`
  says, for every program counter, which locks are held, whether admission is sealed, what
  the locals refer to, and that whoever is counted in `workWG` works on the published or
  the detached store.  Each action has a lemma of its own (`QuiesceDrainInv`, ...), with a
  step for each part it can disturb;
- `StoreIsSafe`, `OneStore`, `Drained`: the invariants of the run `lifecycle` that follow
  from `IInv`;
- `TypeCorrect`, `OneGeneration` and `SealSees` (why "store changed while configuring" is
  never answered), which hold for every instance and have no run.

Its second half adds the books: for each database, what is stored, what is in the counters
and what a flusher holds adds up to what was dropped and what failed writes have stored
besides.  From them follow `ReachTheirDatabase`, `Implementation` (the refinement of
`DroppedUsageLedger`: the initial state maps to an initial state, each step to a drop, a
recount, a switch or a stutter), both whether or not a failed write may have committed, and
the action properties `QuiesceIsClean` and `RecoverySafe`, which have no run of their own.

`CalibrationProofs` proves about the sessions, from `ConstantsAssumption` (the requests are
of the kinds that exist, `Target` lies in `1..Full`, the bounds are numbers), for any
number of events, cycles, sessions and concurrent calls:

- `Inductive`: `IInv`, the conjunction of five parts.  `Typing` bounds every id of a phase
  by those of the events.  `Claims` adds to `ClaimedOnce` that the refits of the present
  session exist only when it has completed and is no longer pending, which is why a second
  claim finds nothing.  `Shape` says what a phase has counted while it is to come (nothing),
  under way (what the account received since its first id) and over (what its span holds);
  `SpansAreCounted` alone says nothing of a phase under way and so is not inductive.
  `LastExists` is what the end of a phase by the management API chooses from.  With
  `OneCycleMeasured` they are kept by each action (a lemma each; the three outcomes of an
  event share `Advanced`);
- `SpansCounted`, `OneCycle` and `ClaimedOnceAlways`: the invariants of the run
  `calibration` that follow from `IInv`; `TypeCorrect` and the action property `EndedStay`,
  which have no run.

`CatalogRepricingProofs` proves about the requests for repricings, from
`RepricingAssumption` (the bounds are numbers), for any number of syncers, fitters,
recorders, requests, tasks and restarts:

- `Inductive`: `IInv`, the types with two facts that `TypeOK` and `FitSurvivesRollback` say
  less strongly.  `Sound` is about the history and knows its length, which an insertion
  needs; `Exclusive` is about the list of tasks and the fit, and is kept by each of the ways
  a list of tasks changes: a task is appended when none runs (`ExclusiveAppend`), or one goes
  on without beginning to run again (`ExclusiveExcept`);
- `TypeCorrect`, `StoredOnceAlways`, `Accounted`, `FitSurvives`: the invariants of the run
  `repricing` that follow from it.

Its second half shows why the history follows the prices (`HistoryFollows`).
`HistoryFollowsCatalog` speaks of states where everything has come to rest, and says nothing
of the way there.  `HInv` does: a list that is stored and not published is on its way
(`Carried`); a request priced before the newest list is written before that list is published,
because publishing waits for the recorders (`RecordsCurrent`); a task whose costs will be old
when it has written them is followed by another one (`Covered`); and as long as costs do not
follow the prices, somebody is going to start a task, or one runs (`Promised`).  `Covered`
does not depend on `behind`: a task that succeeds after one that failed makes up for it.
`FInv` does the same for the fits (`PricedFitInHistory`), where no fit is applied while a
task is active or a request is being written.

`PricingTaskProofs` proves about the batches of a task, from the assumption of `PricingTask`
(times and cycles are numbers, a batch is not empty), for any number of events, cycles,
samples and tasks, and whatever usage, moved rows, failures, quiesces, reconfigurations and
crashes come in between:

- `Inductive`: `IInv`, four parts.  `SettingsOK` ties the active, the saved and the previous
  settings to the steps that the task and configure are at, as long as `behind` does not except
  them.  `History` says which events have the new cost, which
  the old one and which the restored one, as `next` moves on; `Sums` says the same of the
  samples, where a sample agrees with its events or is about to be brought to them: its
  cycle is still to be read, or has been read and is still to be written (`Coming`).  Both
  are stated about the list of the events' costs, so that a lemma about one batch serves the
  task and its restoration alike.  `SamplesAgree` is not inductive: it says nothing while a
  task is active;
- `ActiveSettingsAreSaved`, `SamplesFollowEvents`, `FailedTaskRestores`,
  `SuccessfulTaskReprices`: the invariants of the run `pricing`.

`QuotaCyclesProofs` proves about the ledger, from the assumption of `QuotaCycles` (an
observation has the types of a header and is not observed before it is requested; the
constants are numbers, a regime has two samples), for any set of observations, any contents of the
headers and any order in which requests are recorded:

- `Inductive`: `IInv`.  A database is `Fresh`, without cycles, or `Good`: rows refer to rows that exist
  and cycles have ended for a reason (`Sound`), one cycle is open and its samples sum its own
  requests, none of them later than the sample (`OneOpen`), and its baseline is what its
  samples of the current schedule give, where a cycle without a baseline has no samples of
  another schedule either (`Stated`; without that addition it is not inductive, because
  the next sample may follow another schedule).  The lemmas are about the operators that the
  transactions are built from: what `WithStats`, a change of schedule, `Close`, the
  move of requests to the next cycle, a deleted cycle and an inserted sample keep of these
  parts.  Each return of ensureEventCycle is a composition of them.  First and last rows are
  CHOSEN: `LeastNatural`, from the well-foundedness of the natural numbers, shows that they
  exist;
- `TypeCorrect`, `OneCycle`, `BaselineOfSamples`, `NothingCountedTwice`: invariants of the
  run `cycles` that follow from it.  `OneCycle` also says that a closed cycle holds no request
  made after its end (`EndsRespected`), which needs to know how a request comes into a cycle:
  each return of ensureEventCycle prepares a ledger with the requests there were, in which
  nobody is left behind (`Ready`), and then records the new one in its open cycle (`Records`,
  `RecordedStep`).  Moving the requests from an end on keeps it (`ClosedInTime`), and so does
  taking all of the next cycle back (`RejoinedFollows`);
- `ResetsRestOnEvidence` and `RecoveriesRestOnEvidence`: its action properties.  For each
  return of ensureEventCycle that closes no cycle, no end is set; for the two that do, the
  evidence that the code looked at before the transaction is found again in the ledger after
  it, where the requests of the run have moved to the new cycle; a recovery leaves neither a
  request nor a sample of the cycle it deletes.

`LedgerViewsProofs` proves about what is derived from the ledger, from the assumptions of
`QuotaCycles`, `QuotaSegments` and `MonthlyReport`, for any events.  The ledger invariant
carries over to the composition with segments (`LedgerInv`: an insertion is one of
`QuotaCycles`, every other step leaves the ledger).

- `StartLeavesImplied`, the property `OpenedAgrees`, for any number of interrupted rebuilds.
  `Rebuilding` says what a rebuild has done so far: the keys that are no longer to do hold what
  their events imply, the table has no key but those and the stale ones, and what was prepared
  is of the first key to do.  While a store is opened nothing is inserted, so the implied rows
  do not change under it (`OpeningInv`).  The clusters of keys are CHOSEN; `ClusteringExists`
  shows that there are some, from a least counterexample among the bounds of the resets.
- `SegmentsGoOnAgreeing`, the property `AgreementKept`.  What has to be shown is that an event
  that does not refresh a key has changed nothing of it.  Such an event takes a place in the
  list of the key behind every crossing of a percent (`NewPlace`): it was observed no earlier
  than the stored segments go, and shows no more than the peak, which was first shown at a
  crossing (`PeakIsCrossing`); or it shows the whole quota and is the latest.  It is then no
  crossing, nothing behind it becomes or ceases to be one, and a row is made of what lies
  before its second crossing (`RowOfPrefix`, `SegmentsKept`).  `Agrees` therefore says of
  stored segments that their last time is no earlier than any crossing.  For a rebuild,
  `SegmentsTyped` knows that what was prepared knows no later event than there is, so that an
  event of the key makes it differ from the latest id, and it is dropped.
- `ReportedMonthsAddUp`, the property `MonthsAddUp`: a cycle that both months know completely
  adds to each the difference of two peaks (`GrowthComplete`), and these add up (`PartsAdd`); so
  does the sum over the cycles.

`ScopedSeriesProofs` proves about the separate scopes, from `SeriesAssumption` (readings have
the types of a header), for any readings recorded in any order, all three invariants of the
run `scoped`.

- `ScanInv` is the invariant of the loop of quotaScopeCycleDefinitions, for the locals after
  each reading.  The cycles closed so far and the open one share the readings among them, in
  order, and each cycle is linked to the next by the evidence for its reset (`Chained`,
  `Link`); the peak is one that was read in the open cycle before the low readings under way
  (`PeakRead`); a waiting candidate shows the next window (`Waiting`); and the low readings
  counted so far are a run of one regime that does not fall, with nothing in between but
  readings of the next window (`LowRun`).  The recursive function `Scan` exists and is that of the
  loop (`ScanExists`, `ScanRecursive`); `ScanAlways` takes the least reading after which the
  invariant would not hold.
- `ResetsAreConfirmed` follows from the links.  `CyclesAreDisjoint` follows from the starts: a
  cycle ends where the next one starts, unless one of them collapsed (`Ordered`), also with
  the window that a report adds (`AdvancedOrdered`).
- `ScopedMonthsAddUp` goes the way of `ReportedMonthsAddUp`.

`CommonLemmas` holds what these share.  First and last numbers are CHOSEN, and exist by
well-foundedness (`LeastNatural`, `GreatestNatural`).  `InOrderFacts`: a list in the order of
time has every event once, because the ranks of N events are the numbers below N;
`InOrderInserted`: one more event leaves the others in their order.  `SumAdds`: the sum of a function
is that of two whose values add up to its own.  `SumFunction` is a fold, defined by recursion over
subsets; its function is shown to exist for sets of each size, again from a least
counterexample, so that no induction theorem is needed.

In `CalibrationProofs`, `ConsumptionSharedAlways` adds `ConsumptionShared` with a second
invariant beside `IInv`, `Peaks`: the end of each phase is its start or the highest percent
of what it has counted, and the second phase starts at the end of the first.  The maximum in
the property is then the end of the second phase.

Only model-checked:

- the liveness properties `LifecycleReturns`, `DropsEventuallyStored`, `TaskEnds`,
  `MigrationCompletes` and `RefitEnds`, which need fairness and ENABLED;
- `CyclesInOrder` and `OrderedResetsFollowObservations`, which are not true for arbitrary
  contents of the headers and so rest on the observations of the instance.  Take a first
  cycle that an early reset ended at 25, and a stale header that gives the second one the
  deadline 25: the scheduled reset of the second cycle starts a third at the very time the
  first one ended, and a recovery may then open the first one again, with the second, closed
  one behind it.  (That an early reset may end a cycle before it starts is no such case:
  `CyclesInOrder` excepts it.)  And readings that fall by one percent at a time confirm an early reset
  without any fall that exceeds the slack.

## Findings

1. `lifecycle_restart`: a pricing-settings save between publish and the migration task of
   configure makes configure fail after the store was published; no background loop runs,
   and an identical retry answers success without starting one.
2. `calibration_target`: a refit finishes into the session that followed its own, with the
   multiplier of the earlier target, and the later session's own refit is discarded.
3. `segments_moved`: an early reset or its recovery moves events to another cycle, and only
   the segments of the last event's key are refreshed; a crossing stays under the cycle it
   left and is kept in the other one too, until the next daily rebuild.
4. `scoped_refill`: the low readings of a refill move the start of the first cycle of a
   scope before they confirm the early reset; the cycle is then closed where it starts, and
   its usage is missing from the series and from the cycles of the month.

PROJECT.json quotes the lines on both sides of each.

Others were met in modelling and have no run; the properties except them, and say so:

- a process that ends between two batches of a pricing task leaves costs of two bases, and
  the next start finds the old settings and no reason to go on (`pricing_batch.go:595`,
  against `src/README.md:76`); `SamplesAgree` speaks of histories without such a cut;
- configure of a plugin that serves reads the settings (`app.go:260`) after it looked for a
  task (224) and publishes them after the drain (311), also when a task was started and has
  saved others meanwhile: the active basis is then that of neither the history nor the
  database, and usage is priced with it until a task succeeds or settings are published
  again.  `SavedIsActive` and `SucceededTaskReprices` except it (`behind`);
- a task that fails before its first batch, because of its fit, its snapshot or the first
  write, restores nothing (`pricing_batch.go:597-601`): usage recorded since the basis was
  switched (`pricing_task.go:55`) keeps the cost of the settings that failed, against "On
  failure, the old basis and historical values are restored in batches" (`src/README.md:76`)
  and "Failed tasks restore the old settings and values" (231).  `RollbackRestores` asks for the late events only when a batch
  was written, and for those before the task always;
- a recovery during a restoration moves samples to the cycle before, while the totals that the
  snapshot remembers were those of the cycle they came from (`pricing_batch.go:437-449`): each
  event of such a total has its right cost again, but which events it sums is out of date;
- readings of the next window count from five minutes before the old boundary on
  (`cycles.go:443-444`, `scope_series.go:424`); `src/README.md:124` asks for two "at or after
  the old boundary".  The two `ResetsConfirmed` state what the code asks for;
- an early reset ends a cycle at the first request of its low run, which is not compared with
  the start of the cycle (`cycles.go:489-491`, 281): a request in flight during the reset
  before it may make the cycle end before it starts.  `CyclesInOrder` excepts those cycles;
- a month counts a request whose cycle it does not show, when the cycle starts after the month
  has ended (`monthly.go:79`, 60-63; see `MonthlyReport` above);
- an event without a percent, or at the full quota, never refreshes the segments of its key
  (`quota_segments.go:747`): one that was overtaken belongs to a row that is stored, and is
  missing from it until the next refresh; `AgreementKept` excepts it (`OvertakenSilent`);
- a response observed before a reset and recorded after its confirmation raises the new
  cycle's baseline, and the same reset is reported twice (`store.go:293`);
  `OrderedResetsFollowObservations` is about the other orders;
- a request for a repricing that is refused sets its flag in a second lock section
  (`pricing_task.go:189`): when the task it met has taken the flags in between, nobody reads
  it until the next task ends; `HistoryFollowsCatalog` asks for `pending = {}`;
- two refreshers may publish their catalogs in the wrong order (`app.go:445`), and a rollback
  takes a catalog back that was published during the task (`pricing_task.go:85`): memory and
  `model_prices` then disagree until the next sync (`overtaken`);
- a restart takes the newest fit for the one the history was priced with (`app.go:316`), also
  when the limit of six hours had held it back: its change is then never repriced (`behind`);
- a reset in the first second of a month is counted in neither month: the month it begins
  leaves out the cycle (`monthly.go:79`), the month before ends ahead of it; `MonthsAddUp`
  excepts it;
- a sample made after the deadline of an open cycle whose reset is not confirmed, or before an
  early reset and behind its end, is in neither of two months and in their union
  (`monthly.go:79`, 110); `Settled` excepts it.  So with a cycle of a scope that is closed where it
  starts (`Collapsed`).

Usage that is recorded between the switch of the basis and the snapshot is remembered in the
new basis, and stays there also when a task restores after its first batch; `RollbackRestores`
is about the events before that switch and after the snapshot.  And the stale keys of a segment
rebuild are not read before a concurrent request can create one, as `quota_segments.go:267`
intends: a key that is created between the two SELECTs is in the second and not in the first,
and is removed with what it holds until its next refresh.

## What is not modelled

- The numbers: regression, covariances, cross validation, forecasts and online scales are
  floating point statistics; models represent their results by what they were computed
  from, or leave them out.
- Decoding of headers, JSON, SQL text, routing, the web page and the C entry points.
- The schema and its backfills, the pruning of old rows, and backfillCycles, which run
  before a store is published or delete what nothing else reads.
- Weekly and Spark segments, reset repair, anomalies, coverage and online scales: see the plan.
