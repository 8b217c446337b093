----------------------------- MODULE PricingTask -----------------------------
(***************************************************************************)
(* The repricing of the history (pricing_task.go, pricing_batch.go): a     *)
(* task switches the pricing basis in memory, takes a read-only snapshot,  *)
(* rewrites events and samples in short batches between which usage goes   *)
(* on, and persists the settings; when it fails it switches back and       *)
(* restores what the snapshot remembers.  Usage may move events and        *)
(* samples to another cycle, the process may crash, and the plugin may be  *)
(* quiesced or configured again, between any two steps.                    *)
(*                                                                         *)
(* A cost is represented by the basis it was computed with, and the cost   *)
(* of a sample by the bases of the events it sums.  A price catalog is     *)
(* part of a basis: its synchronisation is not modelled here.  A write     *)
(* that fails is one that has not committed.                               *)
(***************************************************************************)
EXTENDS Naturals, Sequences, FiniteSets

CONSTANTS
  Settings,      (* pricing settings, each with its fit: the bases             *)
  Default,       (* the settings of the configuration file                     *)
  Legacy,        (* the basis of the events of an older version                *)
  None,          (* no saved settings                                          *)
  Cycles,        (* quota cycles, in their order                               *)
  Times,         (* request times                                              *)
  BatchSize,     (* pricingEventBatchSize and pricingSampleBatchSize, 500      *)
  MaxEvents,     (* bounds the usage events                                    *)
  MaxTasks,      (* bounds the settings saved by a user                          *)
  MayFail,       (* whether a statement on the database may fail               *)
  MayStop,       (* whether the host may quiesce the plugin                    *)
  MayCrash       (* whether the process may crash                              *)

ASSUME ConstantsAssumption ==
  /\ Default \in Settings /\ Legacy \in Settings /\ None \notin Settings
  /\ Cycles \subseteq Nat \ {0} /\ Times \subseteq Nat
  /\ BatchSize \in Nat \ {0} /\ MaxEvents \in Nat /\ MaxTasks \in Nat
  /\ {MayFail, MayStop, MayCrash} \subseteq BOOLEAN

VARIABLES
  up,          (* a.store is published                                         *)
  cfg,         (* a.cfg: the settings that price new events                    *)
  saved,       (* metadata.pricing_settings, None when absent                  *)
  mark,        (* whether they are of this version: no formula, an old mode    *)
  events,      (* usage_events by id: basis of the cost, request time, cycle   *)
  samples,     (* quota_samples by id: time, cycle, the bases of the cost      *)
  conf,        (* where configure is: it holds lifecycleMu unless "none"       *)
  confCfg,     (* the settings it has loaded                                   *)
  migrated,    (* and its settings.Migrated                                    *)
  task,        (* where runPricingTask is, "none" when no task is active       *)
  live,        (* the context of the task is not cancelled                     *)
  target,      (* settings and cfg of the task                                 *)
  previous,    (* previousCfg                                                  *)
  plan,        (* the snapshot: bases of the events, costs of the samples      *)
  next,        (* start of the next batch                                      *)
  todo,        (* cycles whose samples are still to be written                 *)
  values,      (* costs computed and not yet written: sample -> cost           *)
  late,        (* the events after the snapshot, as the restoration read them  *)
  wrote,       (* a batch was written                                          *)
  outcome,     (* the end of the last task                                     *)
  tasks,       (* settings saved by a user                                     *)
  before,      (* history: bases of the events when the task was started       *)
  intact,      (* history: no task was cut off after it had written            *)
  behind       (* history: what was loaded, is active, or has priced events,   *)
               (* though a task had saved others since it was loaded           *)

config == <<up, cfg, conf, confCfg, migrated>>
db     == <<saved, mark, events, samples>>
locals == <<target, previous, plan, next, todo, values, late, wrote, before>>
ends   == <<outcome, tasks, intact, behind>>
vars   == <<config, db, task, live, locals, ends>>

Empty == [basis |-> <<>>, samples |-> <<>>]

\* SUM(cost_usd) over the events of cycle c that were requested until t.
CostUntil(evs, c, t) ==
  [i \in {i \in DOMAIN evs : evs[i].cycle = c /\ evs[i].at <= t} |-> evs[i].basis]

\* An empty database, or one of an older version; settings that it has saved
\* lack the formula, or have a mode of that version.
Init ==
  /\ up = FALSE /\ cfg = Default
  /\ saved \in Settings \cup {None} /\ mark \in {"no_formula", "old_mode"}
  /\ saved = None => mark = "no_formula"
  /\ conf = "none" /\ confCfg = Default /\ migrated = FALSE
  /\ \E n \in 0 .. MaxEvents : \E at \in [1 .. n -> Times], cycle \in [1 .. n -> Cycles] :
       /\ events = [i \in 1 .. n |-> [basis |-> Legacy, at |-> at[i], cycle |-> cycle[i]]]
       /\ samples = [i \in 1 .. n |-> [at |-> at[i], cycle |-> cycle[i],
                                      value |-> CostUntil(events, cycle[i], at[i])]]
  /\ task = "none" /\ live = FALSE
  /\ target = Default /\ previous = Default /\ plan = Empty /\ next = 1
  /\ todo = {} /\ values = <<>> /\ late = <<>> /\ wrote = FALSE /\ before = <<>>
  /\ outcome = "none" /\ tasks = 0 /\ intact = TRUE /\ behind = {}

Active == task # "none"

Bases(evs) == [i \in DOMAIN evs |-> evs[i].basis]

\* The statements of one transaction, which may fail for reasons of the
\* database and does fail once its context is cancelled.
CanFail == MayFail \/ ~live
CanWork == live

(***************************************************************************)
(* usage.handle: recordUsage prices the event with a.cfg and stores it     *)
(* while it holds mu.RLock; a.cfg cannot change before the commit.  A      *)
(* sample sums the costs of its cycle as they are at that moment.          *)
(***************************************************************************)
Recorded(evs, smps, t, c, sampled) ==
  LET new == Append(evs, [basis |-> cfg, at |-> t, cycle |-> c]) IN
  /\ up /\ Len(events) < MaxEvents
  /\ events' = new
  /\ samples' = IF sampled
                THEN Append(smps, [at |-> t, cycle |-> c, value |-> CostUntil(new, c, t)])
                ELSE smps
  /\ UNCHANGED <<config, saved, mark, task, live, locals, ends>>

RecordUsage(t, c, sampled) == Recorded(events, samples, t, c, sampled)

\* The samples of a cycle, as SamplesOf of a sequence of samples.
In(smps, c) == {k \in DOMAIN smps : smps[k].cycle = c}

\* A reset (cycles.go): the events of a cycle since the reset go to a new one.
\* The samples that have counted them keep their totals.
RecordReset(t, from, to, since) ==
  LET moved == [i \in DOMAIN events |->
                  IF events[i].cycle = from /\ events[i].at >= since
                  THEN [events[i] EXCEPT !.cycle = to] ELSE events[i]]
  IN /\ In(samples, from) # {} /\ from < to
     /\ \A i \in DOMAIN events : events[i].cycle < to
     /\ Recorded(moved, samples, t, to, TRUE)

\* Mutant: the samples that are taken back keep their totals.
RecordRecoveryOldTotals(t, from, to) ==
  LET evs == [i \in DOMAIN events |->
                IF events[i].cycle = from THEN [events[i] EXCEPT !.cycle = to] ELSE events[i]]
      back == [k \in DOMAIN samples |->
                 IF samples[k].cycle = from THEN [samples[k] EXCEPT !.cycle = to] ELSE samples[k]]
  IN /\ to < from /\ In(samples, from) # {} /\ In(samples, to) # {}
     /\ Recorded(evs, back, t, to, TRUE)

\* An early reset that is taken back (advanced_reset.go): the cycle before takes
\* the events and the samples of the last one, and all its totals are computed
\* again.  Both have samples: the one has a peak, the other a first sample.
RecordRecovery(t, from, to) ==
  LET evs == [i \in DOMAIN events |->
                IF events[i].cycle = from THEN [events[i] EXCEPT !.cycle = to] ELSE events[i]]
      back == [k \in DOMAIN samples |->
                 IF samples[k].cycle \in {from, to}
                 THEN [samples[k] EXCEPT !.cycle = to, !.value = CostUntil(evs, to, samples[k].at)]
                 ELSE samples[k]]
  IN /\ to < from /\ In(samples, from) # {} /\ In(samples, to) # {}
     /\ Recorded(evs, back, t, to, TRUE)

(***************************************************************************)
(* startPricingTask: refused while a task is active.                       *)
(***************************************************************************)
StartTask(settings) ==
  /\ up /\ ~Active
  /\ task' = "queued" /\ live' = TRUE
  /\ target' = settings /\ previous' = cfg /\ cfg' = settings
  /\ before' = Bases(events)
  /\ outcome' = "none"
  /\ UNCHANGED <<plan, next, todo, values, late, wrote, intact, behind>>

SavePricingSettings(settings) ==
  /\ tasks < MaxTasks /\ tasks' = tasks + 1
  /\ StartTask(settings)
  /\ UNCHANGED <<up, conf, confCfg, migrated, db>>

(***************************************************************************)
(* runPricingTask and recalculatePricingBatches.                           *)
(***************************************************************************)
TaskGoto(label) ==
  /\ task' = label
  /\ UNCHANGED <<config, live, target, previous, before, outcome, tasks, intact>>

\* Mutant: the settings stay switched.
RollbackCfgNever == UNCHANGED cfg

\* rollbackCfg: only while the store is the published one.
RollbackCfg == cfg' = IF up THEN previous ELSE cfg

\* Mutant: the settings are switched back after the restoration only.
RollBackLate ==
  /\ task' = IF wrote THEN "restore_events" ELSE "abort"
  /\ next' = 1
  /\ UNCHANGED <<config, db, live, target, previous, plan, todo, values, late, wrote, before, ends>>

\* The error path of recalculatePricingBatches: back to the old basis first,
\* then the restoration, if a batch was written.
RollBack ==
  /\ RollbackCfg
  /\ task' = IF wrote THEN "restore_events" ELSE "abort"
  /\ next' = 1
  /\ UNCHANGED <<up, conf, confCfg, migrated, db, live, target, previous, plan, todo,
                 values, late, wrote, before, ends>>

\* The fit of another reference, when one is needed.
TaskFit ==
  /\ task = "queued"
  /\ \/ TaskGoto("snapshot")
     \/ CanFail /\ TaskGoto("abort")
  /\ UNCHANGED <<db, plan, next, todo, values, late, wrote, behind>>

\* preparePricingSnapshot, in one read transaction.
TaskSnapshot ==
  /\ task = "snapshot"
  /\ \/ /\ CanWork
        /\ plan' = [basis |-> Bases(events), samples |-> samples]
        /\ next' = 1 /\ todo' = {samples[k].cycle : k \in DOMAIN samples}
        /\ values' = <<>>
        /\ wrote' = FALSE
        /\ TaskGoto("events")
     \/ CanFail /\ TaskGoto("abort") /\ UNCHANGED <<plan, next, todo, values, wrote>>
  /\ UNCHANGED <<db, late, behind>>

Batch(from, to) == from .. (IF from + BatchSize - 1 < to THEN from + BatchSize - 1 ELSE to)

\* writeEventBatch over the events of the snapshot, with their new cost.
TaskEvents ==
  /\ task = "events" /\ next <= Len(plan.basis) /\ CanWork
  /\ events' = [i \in DOMAIN events |->
                  IF i \in Batch(next, Len(plan.basis))
                  THEN [events[i] EXCEPT !.basis = target] ELSE events[i]]
  /\ next' = next + BatchSize /\ wrote' = TRUE
  /\ TaskGoto("events")
  /\ UNCHANGED <<saved, mark, samples, plan, todo, values, late, behind>>

TaskEventsDone ==
  /\ task = "events" /\ next > Len(plan.basis)
  /\ TaskGoto("samples")
  /\ UNCHANGED <<db, plan, next, todo, values, late, wrote, behind>>

\* The cycles are written in their order.
FirstTodo == CHOOSE c \in todo : \A d \in todo : c <= d

SamplesOf(c) == {k \in DOMAIN samples : samples[k].cycle = c}

\* cycleSampleValues reads a cycle in one transaction ...
ReadCycle ==
  /\ todo # {} /\ values = <<>>
  /\ values' = [k \in SamplesOf(FirstTodo) |-> CostUntil(events, samples[k].cycle, samples[k].at)]
  /\ todo' = todo \ {FirstTodo}

\* ... and writeSampleBatch writes the first of its samples in another one:
\* the oldest first, and in a restoration of the snapshot by their ids.
Precedes(j, k) ==
  IF task = "restore_samples" \/ samples[j].at = samples[k].at
  THEN j < k ELSE samples[j].at < samples[k].at

FirstValues ==
  {k \in DOMAIN values : Cardinality({j \in DOMAIN values : Precedes(j, k)}) < BatchSize}

WriteSamples ==
  /\ values # <<>>
  /\ samples' = [k \in DOMAIN samples |->
                   IF k \in FirstValues
                   THEN [samples[k] EXCEPT !.value = values[k]] ELSE samples[k]]
  /\ values' = [k \in DOMAIN values \ FirstValues |-> values[k]]

\* Once for the cycles of the snapshot, and once for those touched since.
TaskReadCycle ==
  /\ task \in {"samples", "catch_up"} /\ CanWork
  /\ ReadCycle
  /\ TaskGoto(task)
  /\ UNCHANGED <<db, plan, next, late, wrote, behind>>

TaskSamples ==
  /\ task \in {"samples", "catch_up"} /\ CanWork
  /\ WriteSamples
  /\ wrote' = TRUE
  /\ TaskGoto(task)
  /\ UNCHANGED <<saved, mark, events, plan, next, todo, late, behind>>

\* Mutant: no catch-up pass.
TaskCatchUpNone ==
  /\ task = "samples" /\ todo = {} /\ values = <<>> /\ CanWork
  /\ TaskGoto("catch_up")
  /\ UNCHANGED <<db, plan, next, todo, values, late, wrote, behind>>

\* newCycleIDsSince: the cycles of events and samples after the snapshot.
TaskCatchUp ==
  /\ task = "samples" /\ todo = {} /\ values = <<>> /\ CanWork
  /\ todo' = {events[i].cycle : i \in (Len(plan.basis) + 1) .. Len(events)}
       \cup {samples[k].cycle : k \in (Len(plan.samples) + 1) .. Len(samples)}
  /\ TaskGoto("catch_up")
  /\ UNCHANGED <<db, plan, next, values, late, wrote, behind>>

\* The settings and the formula.  Those that configure may have loaded before
\* are no longer the saved ones.
TaskPersist ==
  /\ task = "catch_up" /\ todo = {} /\ values = <<>> /\ CanWork
  /\ saved' = target /\ mark' = "applied"
  /\ behind' = IF conf \in {"loaded", "sealed"} THEN {"loaded"} ELSE {}
  /\ TaskGoto("succeeded")
  /\ UNCHANGED <<events, samples, plan, next, todo, values, late, wrote>>

\* Any of these statements may fail.
TaskFails ==
  /\ task \in {"events", "samples", "catch_up"} /\ CanFail
  /\ RollBack

(***************************************************************************)
(* restorePricingSnapshot has a context of its own; if it fails, the task  *)
(* ends with the history half restored.                                    *)
(***************************************************************************)
RestoreEvents ==
  /\ task = "restore_events" /\ next <= Len(plan.basis)
  /\ events' = [i \in DOMAIN events |->
                  IF i \in Batch(next, Len(plan.basis))
                  THEN [events[i] EXCEPT !.basis = plan.basis[i]] ELSE events[i]]
  /\ next' = next + BatchSize
  /\ TaskGoto("restore_events")
  /\ UNCHANGED <<saved, mark, samples, plan, todo, values, late, wrote, behind>>

\* The late events, those after the snapshot, are read in one transaction ...
RestoreReadLate ==
  /\ task = "restore_events" /\ next > Len(plan.basis)
  /\ late' = [i \in 1 .. Len(events) - Len(plan.basis) |->
                LET e == events[Len(plan.basis) + i] IN [at |-> e.at, cycle |-> e.cycle]]
  /\ next' = Len(plan.basis) + 1
  /\ TaskGoto("restore_late")
  /\ UNCHANGED <<db, plan, todo, values, wrote, behind>>

LastLate == Len(plan.basis) + Len(late)

\* ... and get the old basis in batches.  Those that come now have it already.
RestoreLate ==
  /\ task = "restore_late" /\ next <= LastLate
  /\ events' = [i \in DOMAIN events |->
                  IF i \in Batch(next, LastLate)
                  THEN [events[i] EXCEPT !.basis = previous] ELSE events[i]]
  /\ next' = next + BatchSize
  /\ TaskGoto("restore_late")
  /\ UNCHANGED <<saved, mark, samples, plan, todo, values, late, wrote, behind>>

\* The samples of the snapshot get their old cost and that of the late events
\* they include.
RestoreValues ==
  LET cost(k) == LET old == plan.samples[k]
                     joined == {i \in (Len(plan.basis) + 1) .. LastLate :
                                  LET e == late[i - Len(plan.basis)] IN
                                  e.cycle = old.cycle /\ e.at <= old.at}
                 IN  [i \in DOMAIN old.value \cup joined |->
                        IF i \in joined THEN previous ELSE old.value[i]]
  IN
  /\ task = "restore_late" /\ next > LastLate
  /\ values' = [k \in DOMAIN plan.samples |-> cost(k)]
  /\ TaskGoto("restore_samples")
  /\ UNCHANGED <<db, plan, next, todo, late, wrote, behind>>

RestoreSamples ==
  /\ task \in {"restore_samples", "restore_fresh"}
  /\ WriteSamples
  /\ TaskGoto(task)
  /\ UNCHANGED <<saved, mark, events, plan, next, todo, late, wrote, behind>>

\* The samples after the snapshot are computed again from their cycles.
RestoreFreshCycles ==
  /\ task = "restore_samples" /\ values = <<>>
  /\ todo' = {samples[k].cycle : k \in (Len(plan.samples) + 1) .. Len(samples)}
  /\ TaskGoto("restore_fresh")
  /\ UNCHANGED <<db, plan, next, values, late, wrote, behind>>

\* Mutant: the cycle is read again and again.
RestoreFreshReadAgain ==
  /\ task = "restore_fresh" /\ todo # {} /\ values = <<>>
  /\ values' = [k \in {k \in SamplesOf(FirstTodo) : k > Len(plan.samples)} |->
                  CostUntil(events, samples[k].cycle, samples[k].at)]
  /\ TaskGoto("restore_fresh")
  /\ UNCHANGED <<db, plan, next, todo, late, wrote, behind>>

RestoreFreshRead ==
  /\ task = "restore_fresh" /\ todo # {} /\ values = <<>>
  /\ values' = [k \in {k \in SamplesOf(FirstTodo) : k > Len(plan.samples)} |->
                  CostUntil(events, samples[k].cycle, samples[k].at)]
  /\ todo' = todo \ {FirstTodo}
  /\ TaskGoto("restore_fresh")
  /\ UNCHANGED <<db, plan, next, late, wrote, behind>>

RestoreEnds ==
  /\ \/ task = "restore_fresh" /\ todo = {} /\ values = <<>> /\ TaskGoto("abort")
     \/ /\ task \in {"restore_events", "restore_late", "restore_samples", "restore_fresh"}
        /\ MayFail /\ TaskGoto("half_restored")
  /\ UNCHANGED <<db, plan, next, todo, values, late, wrote, behind>>

NoLocals ==
  /\ target' = Default /\ previous' = Default /\ plan' = Empty /\ next' = 1
  /\ todo' = {} /\ values' = <<>> /\ late' = <<>> /\ wrote' = FALSE /\ before' = <<>>

\* A failed task switches back once more, and reports its end.
TaskEnd ==
  /\ task \in {"succeeded", "abort", "half_restored"}
  /\ outcome' = IF task = "abort" THEN "failed" ELSE task
  /\ intact' = (task = "succeeded" \/ (intact /\ task # "half_restored"))
  /\ task' = "none" /\ live' = FALSE
  /\ IF task = "succeeded" THEN UNCHANGED cfg ELSE RollbackCfg
  /\ NoLocals
  /\ UNCHANGED <<up, conf, confCfg, migrated, db, tasks, behind>>

(***************************************************************************)
(* quiesce, configure and the end of the process, as far as they matter    *)
(* here; PluginLifecycle has them in detail.                               *)
(***************************************************************************)
\* detachStore and cancel.  The drain waits for the task.
Quiesce ==
  /\ MayStop /\ up /\ conf = "none"
  /\ up' = FALSE /\ live' = FALSE
  /\ UNCHANGED <<cfg, conf, confCfg, migrated, db, task, locals, ends>>

\* configure, of a plugin that was stopped or of one that serves and whose
\* configuration file has changed, is refused while a task is active.
ConfigureCheck ==
  /\ conf = "none" /\ ~Active
  /\ conf' = "checked"
  /\ UNCHANGED <<up, cfg, confCfg, migrated, db, task, live, locals, ends>>

\* configure returns, and its locals are gone.
ConfigureDone == conf' = "none" /\ confCfg' = Default /\ migrated' = FALSE

\* loadPricingSettings: settings with a mode of an older version, or without the
\* formula in a database that has events, are a migration.  A plugin that serves
\* may start, and end, a task from here on.
ConfigureLoad ==
  /\ conf = "checked"
  /\ \/ /\ conf' = "loaded"
        /\ confCfg' = IF saved = None THEN Default ELSE saved
        /\ migrated' = (mark = "old_mode" \/ (mark = "no_formula" /\ events # <<>>))
        /\ behind' = behind \ {"loaded"}
     \/ MayFail /\ ConfigureDone /\ UNCHANGED behind
  /\ UNCHANGED <<up, cfg, db, task, live, locals, outcome, tasks, intact>>

\* Another statement of configure fails: the plugin goes on as it was.
ConfigureFail ==
  /\ MayFail /\ conf = "loaded"
  /\ ConfigureDone
  /\ UNCHANGED <<up, cfg, db, task, live, locals, ends>>

\* Admission is sealed and the context cancelled; then configure waits.
ConfigureSeal ==
  /\ conf = "loaded"
  /\ conf' = "sealed" /\ up' = FALSE /\ live' = FALSE
  /\ UNCHANGED <<cfg, confCfg, migrated, db, task, locals, ends>>

ConfigurePublish ==
  /\ conf = "sealed" /\ ~Active
  /\ up' = TRUE /\ cfg' = confCfg
  /\ IF migrated THEN conf' = "migrate" /\ UNCHANGED <<confCfg, migrated>> ELSE ConfigureDone
  /\ behind' = IF "loaded" \in behind THEN {"active", "history"} ELSE behind \ {"active"}
  /\ UNCHANGED <<db, task, live, locals, outcome, tasks, intact>>

\* Mutant: the migration is left for later.
ConfigureMigrateLater ==
  /\ conf = "migrate"
  /\ ConfigureDone
  /\ UNCHANGED <<up, cfg, db, task, live, locals, ends>>

ConfigureMigrate ==
  /\ conf = "migrate"
  /\ ConfigureDone
  /\ \/ StartTask(confCfg)
     \/ Active /\ UNCHANGED <<cfg, task, live, locals, outcome, intact, behind>>
  /\ UNCHANGED <<up, db, tasks>>

\* Memory is lost, and the database is what was committed.
Crash ==
  /\ MayCrash /\ (up \/ Active)
  /\ up' = FALSE /\ cfg' = Default
  /\ ConfigureDone
  /\ task' = "none" /\ live' = FALSE
  /\ NoLocals
  /\ outcome' = "none" /\ behind' = {}
  /\ intact' = (intact /\ ~wrote)
  /\ UNCHANGED <<db, tasks>>

-----------------------------------------------------------------------------
TaskStep ==
  \/ TaskFit \/ TaskSnapshot \/ TaskEvents \/ TaskEventsDone \/ TaskReadCycle
  \/ TaskSamples \/ TaskCatchUp \/ TaskPersist \/ TaskFails
  \/ RestoreEvents \/ RestoreReadLate \/ RestoreLate \/ RestoreValues \/ RestoreSamples
  \/ RestoreFreshCycles \/ RestoreFreshRead \/ RestoreEnds
  \/ TaskEnd

Usage ==
  \E t \in Times, c \in Cycles :
    \/ \E sampled \in BOOLEAN : RecordUsage(t, c, sampled)
    \/ \E to \in Cycles, since \in Times : RecordReset(t, c, to, since)
    \/ \E to \in Cycles : RecordRecovery(t, c, to)

Configure ==
  \/ ConfigureCheck \/ ConfigureLoad \/ ConfigureFail \/ ConfigureSeal
  \/ ConfigurePublish \/ ConfigureMigrate

Next ==
  \/ Usage
  \/ \E settings \in Settings : SavePricingSettings(settings)
  \/ TaskStep
  \/ Quiesce \/ Configure
  \/ Crash

Spec == Init /\ [][Next]_vars

\* The goroutine of a task is scheduled, its context and that of the
\* restoration expire, and a configure that was begun goes on.
FairSpec ==
  /\ Spec
  /\ WF_vars(TaskStep)
  /\ WF_vars(ConfigureLoad \/ ConfigureSeal \/ ConfigurePublish \/ ConfigureMigrate)

(***************************************************************************)
(* Properties.                                                             *)
(***************************************************************************)
\* The plugin serves and nothing is being recalculated.
Settled == up /\ conf = "none" /\ ~Active

\* The cost of a sample is the sum of the costs its events have now, however
\* usage, batches, the catch-up pass and restorations interleaved: a sample
\* never mixes an old cost with a new one.
SamplesAgree ==
  ~Active /\ intact =>
    \A k \in DOMAIN samples : \A i \in DOMAIN samples[k].value :
      samples[k].value[i] = events[i].basis

\* A task that fails gives every event that was there when it was started its
\* old cost.  If it had written a batch, it also gives the late events the cost of
\* the restored settings; one that failed before leaves those that were recorded
\* meanwhile in the basis it had switched to.
RollbackRestores ==
  task = "abort" =>
    /\ \A i \in DOMAIN before : events[i].basis = before[i]
    /\ wrote => \A i \in (Len(plan.basis) + 1) .. Len(events) : events[i].basis = previous
    /\ wrote /\ up => cfg = previous

\* What loadPricingSettings gives a restart.
Effective == IF saved = None THEN Default ELSE saved

\* New events are priced with the settings that a restart would load, unless
\* configure published settings that it had loaded (app.go:260) before a task
\* saved others, and no task has succeeded and no settings were published since.
SavedIsActive == Settled /\ "active" \notin behind => cfg = Effective

\* A task that has succeeded leaves every cost of the history in its basis, also
\* those recorded while it was running.  They stay in the active basis until
\* another task is started, unless such a configure has published others.
SucceededTaskReprices ==
  LET AllIn(basis) ==
        /\ \A i \in DOMAIN events : events[i].basis = basis
        /\ \A k \in DOMAIN samples : \A i \in DOMAIN samples[k].value :
             samples[k].value[i] = basis
  IN /\ task = "succeeded" => AllIn(target)
     /\ Settled /\ outcome = "succeeded" /\ "history" \notin behind => AllIn(cfg)

\* Every task comes to an end, whatever fails and whoever cancels it.
TaskEnds == Active ~> ~Active

\* The history of an older version is brought to the current basis, or its
\* task has reported a failure, unless the plugin is stopped before.
MigrationCompletes ==
  conf = "migrate" ~>
    ~up \/ mark = "applied" \/ (conf # "migrate" /\ outcome \in {"failed", "half_restored"})
=============================================================================
