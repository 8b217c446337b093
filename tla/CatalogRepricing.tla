--------------------------- MODULE CatalogRepricing ---------------------------
(***************************************************************************)
(* How prices and fits reach the costs of the history.  Several goroutines *)
(* sync the price catalog (background and prices/sync), others fit the     *)
(* learned weights, and each publishes its result in a.cfg and asks for a  *)
(* repricing; a request that meets a running task leaves a flag which the  *)
(* end of that task takes (app.go, pricing_task.go, pricing_limit.go).     *)
(* Meanwhile usage is priced and written with retries (usage_retry.go,     *)
(* store.go) under a.mu.RLock.                                             *)
(*                                                                         *)
(* The price list is represented by its number: a sync stores the next one. *)
(* A cost is represented by the list and the fit it was computed with.  The *)
(* batches and the restoration of a task are those of PricingTask, and take *)
(* one step here.                                                           *)
(***************************************************************************)
EXTENDS Naturals, Sequences

CONSTANTS
  Syncers,      (* the background loop and the calls of prices/sync             *)
  Fitters,      (* the background loop and the refits of calibrations           *)
  Recorders,    (* host threads in usage.handle                                 *)
  Requests,     (* the ingest ids                                               *)
  MaxSyncs,     (* bounds the price lists stored                                *)
  MaxFits,      (* bounds the fits                                              *)
  MaxTasks,     (* bounds the tasks, those of a user included                   *)
  MaxTries,     (* bounds the attempts to write an event, 30 s in the code      *)
  MaxRestarts   (* bounds the restarts of the process                           *)

ASSUME RepricingAssumption ==
  {MaxSyncs, MaxFits, MaxTasks, MaxTries, MaxRestarts} \subseteq Nat

VARIABLES
  stored,     (* the number of the price list in model_prices                   *)
  catalog,    (* a.cfg.PriceCatalog                                             *)
  saved,      (* the number of the newest row of weight_fits                    *)
  fit,        (* a.cfg.LearnedFit                                               *)
  priced,     (* a.lastPricedFit                                                *)
  recent,     (* fewer than six hours since a.lastAutoFitRepriceAt              *)
  events,     (* usage_events: ingest id, and prices and fit of the cost        *)
  sync,       (* where each syncer is, and what it has loaded                   *)
  fitter,     (* where each fitter is, and its fit                              *)
  record,     (* where each recorder is, and its event                          *)
  tasks,      (* runPricingTask of each task, until it returns                  *)
  pending,    (* pricingRepricePending, pricingFitPending                       *)
  dropped,    (* the requests counted in dropped_usage_events                   *)
  restarts,   (* restarts of the process                                        *)
  returned,   (* history: the requests whose insertUsageWithRetry has returned  *)
  overtaken,  (* history: the catalog or the fit in memory is not the newest one *)
  behind      (* history: a failure or a restart left costs as they were        *)

prices   == <<stored, catalog, sync>>
fits     == <<saved, fit, priced, recent, fitter>>
usage    == <<events, record, dropped, returned>>
history  == <<overtaken, behind>>
vars     == <<prices, fits, usage, tasks, pending, restarts, history>>

Idle == "idle"

NoEvent == [at |-> Idle, id |-> Idle, prices |-> 0, fit |-> 0, tries |-> 0]

Init ==
  /\ stored = 0 /\ catalog = 0
  /\ saved = 0 /\ fit = 0 /\ priced = 0 /\ recent \in BOOLEAN
  /\ events = <<>>
  /\ sync = [s \in Syncers |-> [at |-> Idle, loaded |-> 0]]
  /\ fitter = [f \in Fitters |-> [at |-> Idle, fit |-> 0]]
  /\ record = [r \in Recorders |-> NoEvent]
  /\ tasks = <<>> /\ pending = {}
  /\ dropped = {} /\ returned = {} /\ restarts = 0
  /\ overtaken = FALSE /\ behind = FALSE

\* a.mu.Lock waits for the recorders, which hold a.mu.RLock until they return.
NoReader == \A r \in Recorders : record[r].at = Idle

RunningTask(t) ==
  tasks[t].at \in {"queued", "writing", "restoring", "succeeded", "failed"}

\* pricingTaskActive
Active == \E t \in DOMAIN tasks : RunningTask(t)

(***************************************************************************)
(* startPricingTask, called for kind k: a task, or a refusal.              *)
(***************************************************************************)
NewTask ==
  [at |-> "queued", catalog |-> catalog, fit |-> fit, prices |-> 0, upto |-> 0, todo |-> {}]

\* Mutant: a task is started while another one runs.
CanStartAlways == NoReader /\ Len(tasks) < MaxTasks

CanStart == NoReader /\ ~Active /\ Len(tasks) < MaxTasks

Started == CanStart /\ tasks' = Append(tasks, NewTask)

Refused == NoReader /\ Active

\* fitRepricingDue: fits are available, of one version, and two of them differ
\* in some factor by more than two percent.
Due(f) == f # priced /\ ~recent

(***************************************************************************)
(* syncPrices and refreshPriceCatalog.                                     *)
(***************************************************************************)
SyncGoto(s, label) ==
  sync' = [sync EXCEPT ![s] = [at |-> label, loaded |-> IF label = "loaded" THEN stored ELSE 0]]

SyncStore(s) ==
  /\ sync[s].at = Idle /\ stored < MaxSyncs
  /\ stored' = stored + 1
  /\ SyncGoto(s, "stored")
  /\ UNCHANGED <<catalog, fits, usage, tasks, pending, restarts, history>>

\* loadPriceCatalog; when it fails, the catalog is not published.
SyncLoad(s) ==
  /\ sync[s].at = "stored"
  /\ \/ SyncGoto(s, "loaded") /\ UNCHANGED overtaken
     \/ SyncGoto(s, Idle) /\ overtaken' = TRUE
  /\ UNCHANGED <<stored, catalog, fits, usage, tasks, pending, restarts, behind>>

SyncPublish(s) ==
  /\ sync[s].at = "loaded" /\ NoReader
  /\ catalog' = sync[s].loaded
  /\ overtaken' = (overtaken \/ sync[s].loaded < catalog)
  /\ SyncGoto(s, IF sync[s].loaded # catalog THEN "queue" ELSE Idle)
  /\ UNCHANGED <<stored, fits, usage, tasks, pending, restarts, behind>>

\* queuePricingReprice, which is called for the custom mode too.
SyncQueue(s) ==
  /\ sync[s].at = "queue"
  /\ \/ Started /\ SyncGoto(s, Idle)
     \/ Refused /\ SyncGoto(s, "refused") /\ UNCHANGED tasks
  /\ UNCHANGED <<stored, catalog, fits, usage, pending, restarts, history>>

\* Mutant: the refused request is not remembered.
SyncRefusedForgets(s) ==
  /\ sync[s].at = "refused"
  /\ SyncGoto(s, Idle)
  /\ UNCHANGED <<stored, catalog, fits, usage, tasks, pending, restarts, history>>

SyncRefused(s) ==
  /\ sync[s].at = "refused"
  /\ pending' = pending \cup {"catalog"}
  /\ SyncGoto(s, Idle)
  /\ UNCHANGED <<stored, catalog, fits, usage, tasks, restarts, history>>

(***************************************************************************)
(* refreshWeightsIfNeeded, runGuidedCalibrationRefit, applyFittedWeights.  *)
(***************************************************************************)
FitGoto(f, label) ==
  fitter' = [fitter EXCEPT ![f] = [at |-> label, fit |-> IF label = "queue" THEN @.fit ELSE 0]]

\* The fit is saved when it has been computed.  The background loop does not
\* begin one while a task is active; a refit does.
FitSave(f) ==
  /\ fitter[f].at = Idle /\ saved < MaxFits
  /\ saved' = saved + 1
  /\ fitter' = [fitter EXCEPT ![f] = [at |-> "computed", fit |-> saved']]
  /\ UNCHANGED <<prices, fit, priced, recent, usage, tasks, pending, restarts, history>>

\* Mutant: the fit is applied whether or not a task is active.
FitApplyAnyTime(f) ==
  /\ fitter[f].at = "computed" /\ NoReader
  /\ fit' = fitter[f].fit
  /\ overtaken' = (overtaken \/ fit' < fit)
  /\ FitGoto(f, "queue")
  /\ UNCHANGED <<prices, saved, priced, recent, usage, tasks, pending, restarts, behind>>

\* Nothing is applied when a task is active, and when the store or the reference
\* has changed, the context was cancelled or the scales cannot be written.
FitApply(f) ==
  /\ fitter[f].at = "computed" /\ NoReader
  /\ \/ FitGoto(f, Idle) /\ UNCHANGED <<fit, overtaken>>
     \/ /\ ~Active
        /\ fit' = fitter[f].fit
        /\ overtaken' = (overtaken \/ fit' < fit)
        /\ FitGoto(f, "queue")
  /\ UNCHANGED <<prices, saved, priced, recent, usage, tasks, pending, restarts, behind>>

\* queueFitRepricing, with the fit that was applied.
FitQueue(f) ==
  /\ fitter[f].at = "queue"
  /\ \/ ~Due(fitter[f].fit) /\ FitGoto(f, Idle) /\ UNCHANGED tasks
     \/ Due(fitter[f].fit) /\ Started /\ FitGoto(f, "started")
     \/ Due(fitter[f].fit) /\ Refused /\ FitGoto(f, "refused") /\ UNCHANGED tasks
  /\ UNCHANGED <<prices, saved, fit, priced, recent, usage, pending, restarts, history>>

\* lastAutoFitRepriceAt, and the metadata row that a restart reads.
FitStarted(f) ==
  /\ fitter[f].at = "started"
  /\ recent' = TRUE
  /\ FitGoto(f, Idle)
  /\ UNCHANGED <<prices, saved, fit, priced, usage, tasks, pending, restarts, history>>

FitRefused(f) ==
  /\ fitter[f].at = "refused"
  /\ pending' = pending \cup {"fit"}
  /\ FitGoto(f, Idle)
  /\ UNCHANGED <<prices, saved, fit, priced, recent, usage, tasks, restarts, history>>

SixHoursPass ==
  /\ recent /\ recent' = FALSE
  /\ UNCHANGED <<prices, saved, fit, priced, fitter, usage, tasks, pending, restarts, history>>

(***************************************************************************)
(* The tasks.                                                              *)
(***************************************************************************)
\* A user saves the settings.
SaveSettings ==
  /\ Started
  /\ UNCHANGED <<prices, fits, usage, pending, restarts, history>>

\* preparePricingSnapshot reads the prices and the events at once.
TaskSnapshot(t) ==
  /\ tasks[t].at = "queued"
  /\ tasks' = [tasks EXCEPT ![t] =
                  [@ EXCEPT !.at = "writing", !.prices = stored, !.upto = Len(events)]]
  /\ UNCHANGED <<prices, fits, usage, pending, restarts, history>>

TaskWrite(t) ==
  /\ tasks[t].at = "writing"
  /\ events' = [i \in DOMAIN events |->
                  IF i <= tasks[t].upto
                  THEN [events[i] EXCEPT !.prices = tasks[t].prices, !.fit = tasks[t].fit]
                  ELSE events[i]]
  /\ tasks' = [tasks EXCEPT ![t].at = "succeeded"]
  /\ behind' = FALSE
  /\ UNCHANGED <<prices, fits, record, dropped, returned, pending, restarts, overtaken>>

\* rollbackCfg: the whole configuration is what it was when the task was started.
RollbackCfg(t, label) ==
  /\ NoReader
  /\ catalog' = tasks[t].catalog /\ fit' = tasks[t].fit
  /\ overtaken' = (overtaken \/ tasks[t].catalog < catalog)
  /\ tasks' = [tasks EXCEPT ![t].at = label]
  /\ behind' = TRUE
  /\ UNCHANGED <<stored, sync, saved, priced, recent, fitter, usage, pending, restarts>>

\* A statement of the recalculation fails: back, and then the restoration.
TaskRollBack(t) == tasks[t].at = "writing" /\ RollbackCfg(t, "restoring")

\* The fit or the snapshot fails, or the restoration has ended: back, once more.
TaskFail(t) == tasks[t].at \in {"queued", "restoring"} /\ RollbackCfg(t, "failed")

Ended(label, f, todo) ==
  [at |-> label, catalog |-> 0, fit |-> f, prices |-> 0, upto |-> 0, todo |-> todo]

\* From here on another task may be started.
TaskReport(t) ==
  /\ tasks[t].at \in {"succeeded", "failed"}
  /\ tasks' = [tasks EXCEPT ![t] =
       Ended(IF @.at = "succeeded" THEN "repriced" ELSE "rolled_back", @.fit, {})]
  /\ UNCHANGED <<prices, fits, usage, pending, restarts, history>>

\* Mutant: the fit of the configuration is remembered, not that of the task.
TaskTakeCurrent(t) ==
  /\ tasks[t].at \in {"repriced", "rolled_back"}
  /\ priced' = IF tasks[t].at = "repriced" THEN fit ELSE priced
  /\ tasks' = [tasks EXCEPT ![t] = Ended("queue", 0, pending)]
  /\ pending' = {}
  /\ UNCHANGED <<prices, saved, fit, recent, fitter, usage, restarts, history>>

\* The flags are taken in the lock section that sets lastPricedFit.
TaskTake(t) ==
  /\ tasks[t].at \in {"repriced", "rolled_back"}
  /\ priced' = IF tasks[t].at = "repriced" THEN tasks[t].fit ELSE priced
  /\ tasks' = [tasks EXCEPT ![t] = Ended("queue", 0, pending)]
  /\ pending' = {}
  /\ UNCHANGED <<prices, saved, fit, recent, fitter, usage, restarts, history>>

\* The catalog first, then the fit.
Wanted(t) == IF "catalog" \in tasks[t].todo THEN "catalog" ELSE "fit"

Served(t) == [tasks EXCEPT ![t].todo = @ \ {Wanted(t)}]

Leave(t, label) == [tasks EXCEPT ![t].at = label, ![t].fit = 0]

\* a.cfg is read ...
TaskRead(t) ==
  /\ tasks[t].at = "queue" /\ tasks[t].todo # {}
  /\ tasks' = [tasks EXCEPT ![t].at = "read", ![t].fit = fit]
  /\ UNCHANGED <<prices, fits, usage, pending, restarts, history>>

\* ... for queuePricingReprice or queueFitRepricing, once more.  A new task takes
\* the catalog and the fit of a.cfg as it is by then.
TaskQueue(t) ==
  /\ tasks[t].at = "read"
  /\ LET due == Wanted(t) = "catalog" \/ Due(tasks[t].fit) IN
     \/ ~due /\ tasks' = [Leave(t, "queue") EXCEPT ![t].todo = @ \ {Wanted(t)}]
     \/ due /\ CanStart /\ tasks' = Append(Leave(t, "started"), NewTask)
     \/ due /\ Refused /\ tasks' = Leave(t, "refused")
  /\ UNCHANGED <<prices, fits, usage, pending, restarts, history>>

TaskStarted(t) ==
  /\ tasks[t].at = "started"
  /\ recent' = (recent \/ Wanted(t) = "fit")
  /\ tasks' = [Served(t) EXCEPT ![t].at = "queue"]
  /\ UNCHANGED <<prices, saved, fit, priced, fitter, usage, pending, restarts, history>>

TaskRefused(t) ==
  /\ tasks[t].at = "refused"
  /\ pending' = pending \cup {Wanted(t)}
  /\ tasks' = [Served(t) EXCEPT ![t].at = "queue"]
  /\ UNCHANGED <<prices, fits, usage, restarts, history>>

Finished == Ended("finished", 0, {})

TaskReturn(t) ==
  /\ tasks[t].at = "queue" /\ tasks[t].todo = {}
  /\ tasks' = [tasks EXCEPT ![t] = Finished]
  /\ UNCHANGED <<prices, fits, usage, pending, restarts, history>>

(***************************************************************************)
(* recordUsage and insertUsageWithRetry.                                   *)
(***************************************************************************)
Ids == {events[i].id : i \in DOMAIN events}

\* getPrice reads the stored price, the fit is that of a.cfg.  A request whose
\* price cannot be read is not recorded.
RecordUsage(r, id) ==
  /\ record[r].at = Idle
  /\ id \notin returned \cup Ids \cup {record[q].id : q \in Recorders}
  /\ record' = [record EXCEPT ![r] =
                  [at |-> "write", id |-> id, prices |-> stored, fit |-> fit, tries |-> 0]]
  /\ UNCHANGED <<prices, fits, events, dropped, returned, tasks, pending, restarts, history>>

Row(r) == [id |-> record[r].id, prices |-> record[r].prices, fit |-> record[r].fit]

\* Mutant: insertEvent does not look for the ingest id.
InsertedAgain(r) == Append(events, Row(r))

\* insertEvent: an ingest id that is stored is not stored again.
Inserted(r) == IF record[r].id \in Ids THEN events ELSE Append(events, Row(r))

Return(r) ==
  /\ record' = [record EXCEPT ![r] = NoEvent]
  /\ returned' = returned \cup {record[r].id}

AttemptSucceeds(r) ==
  /\ record[r].at = "write"
  /\ events' = Inserted(r)
  /\ Return(r)
  /\ UNCHANGED <<prices, fits, dropped, tasks, pending, restarts, history>>

\* An attempt that is busy or timed out, before its commit or after it.
AttemptFails(r) ==
  /\ record[r].at = "write" /\ record[r].tries < MaxTries
  /\ events' \in {events, Inserted(r)}
  /\ record' = [record EXCEPT ![r].tries = @ + 1]
  /\ UNCHANGED <<prices, fits, dropped, returned, tasks, pending, restarts, history>>

\* Mutant: the event is given up without being counted.
GiveUpSilently(r) ==
  /\ record[r].at = "write" /\ record[r].tries > 0
  /\ Return(r)
  /\ UNCHANGED <<prices, fits, events, dropped, tasks, pending, restarts, history>>

\* The budget is spent, or the error is of another kind.
GiveUp(r) ==
  /\ record[r].at = "write" /\ record[r].tries > 0
  /\ dropped' = dropped \cup {record[r].id}
  /\ Return(r)
  /\ UNCHANGED <<prices, fits, events, tasks, pending, restarts, history>>

(***************************************************************************)
(* The process ends at any moment, and configure loads what is stored.     *)
(***************************************************************************)
Restart ==
  /\ restarts < MaxRestarts /\ restarts' = restarts + 1
  /\ catalog' = stored /\ fit' = saved /\ priced' = saved
  /\ sync' = [s \in Syncers |-> [at |-> Idle, loaded |-> 0]]
  /\ fitter' = [f \in Fitters |-> [at |-> Idle, fit |-> 0]]
  /\ record' = [r \in Recorders |-> NoEvent]
  /\ tasks' = [t \in DOMAIN tasks |-> Finished] /\ pending' = {}
  /\ behind' = (behind \/ \E i \in DOMAIN events :
                            events[i].prices # stored \/ events[i].fit # saved)
  /\ overtaken' = FALSE /\ dropped' = {} /\ returned' = {}
  /\ UNCHANGED <<stored, saved, recent, events>>

-----------------------------------------------------------------------------
Next ==
  \/ \E s \in Syncers :
       SyncStore(s) \/ SyncLoad(s) \/ SyncPublish(s) \/ SyncQueue(s) \/ SyncRefused(s)
  \/ \E f \in Fitters : FitSave(f) \/ FitApply(f) \/ FitQueue(f)
                      \/ FitStarted(f) \/ FitRefused(f)
  \/ SixHoursPass
  \/ SaveSettings
  \/ \E t \in DOMAIN tasks :
       \/ TaskSnapshot(t) \/ TaskWrite(t) \/ TaskRollBack(t) \/ TaskFail(t)
       \/ TaskReport(t) \/ TaskTake(t) \/ TaskRead(t) \/ TaskQueue(t)
       \/ TaskStarted(t) \/ TaskRefused(t) \/ TaskReturn(t)
  \/ \E r \in Recorders :
       \/ \E id \in Requests : RecordUsage(r, id)
       \/ AttemptSucceeds(r) \/ AttemptFails(r) \/ GiveUp(r)
  \/ Restart

Spec == Init /\ [][Next]_vars

(***************************************************************************)
(* Properties.                                                             *)
(***************************************************************************)
Kinds == {"catalog", "fit"}

Task ==
  [at : {"queued", "writing", "restoring", "succeeded", "failed", "repriced", "rolled_back",
         "queue", "read", "started", "refused", "finished"},
   catalog : 0..MaxSyncs, fit : 0..MaxFits, prices : 0..MaxSyncs, upto : Nat,
   todo : SUBSET Kinds]

\* The types of the variables; at most one task is active.
TypeOK ==
  /\ {stored, catalog} \subseteq 0..MaxSyncs
  /\ {saved, fit, priced} \subseteq 0..MaxFits /\ recent \in BOOLEAN
  /\ events \in Seq([id : Requests, prices : 0..MaxSyncs, fit : 0..MaxFits])
  /\ sync \in [Syncers -> [at : {Idle, "stored", "loaded", "queue", "refused"},
                           loaded : 0..MaxSyncs]]
  /\ fitter \in [Fitters -> [at : {Idle, "computed", "queue", "started", "refused"},
                             fit : 0..MaxFits]]
  /\ \A r \in Recorders : record[r] = NoEvent \/
       record[r] \in [at : {"write"}, id : Requests, prices : 0..MaxSyncs, fit : 0..MaxFits,
                      tries : 0..MaxTries]
  /\ tasks \in Seq(Task)
  /\ \A t, u \in DOMAIN tasks : RunningTask(t) /\ RunningTask(u) => t = u
  /\ pending \subseteq Kinds /\ dropped \subseteq Requests /\ returned \subseteq Requests
  /\ restarts \in 0..MaxRestarts /\ {overtaken, behind} \subseteq BOOLEAN

\* Nobody is on the way to change or to request anything.
Quiet ==
  /\ \A s \in Syncers : sync[s].at = Idle
  /\ \A f \in Fitters : fitter[f].at = Idle
  /\ \A t \in DOMAIN tasks : tasks[t].at = "finished"
  /\ NoReader

\* However often a write is repeated whose commit has reported an error, an event
\* is stored once: it is never counted twice in a window, a cycle or a month.
StoredOnce == \A i, j \in DOMAIN events : events[i].id = events[j].id => i = j

\* "Usage writes retry busy/timeout failures for about 30 seconds; persistent
\* failures increment metadata.dropped_usage_events" (README): a request whose
\* recording has returned is in the history or in that count, or in both.
RequestsAccounted == returned \subseteq Ids \cup dropped

\* When everything has come to rest, all costs are those of the stored prices:
\* no change of the prices is forgotten that came while a task was running, or
\* while a request that was priced before it was still being written.  Excepted
\* are a failed task and a restart, which forget requests, an older catalog
\* published over a newer one, and a flag that was set after the last task took
\* the flags.
HistoryFollowsCatalog ==
  Quiet /\ pending = {} /\ ~behind /\ ~overtaken =>
    \A i \in DOMAIN events : events[i].prices = stored

\* a.lastPricedFit, which decides whether a fit is worth a repricing, is the fit
\* that the costs of the history were computed with, so that a change of it that
\* came too early for a repricing is found by the next one.
PricedFitIsInHistory ==
  Quiet /\ ~behind /\ ~overtaken /\ priced = fit =>
    \A i \in DOMAIN events : events[i].fit = fit

\* A task that fails takes the whole configuration back to where it was started:
\* no fit is lost by that, because none was applied since.
FitSurvivesRollback ==
  \A t \in DOMAIN tasks :
    tasks[t].at \in {"queued", "writing", "restoring", "failed"} => tasks[t].fit = fit

=============================================================================
