------------------------ MODULE CatalogRepricingProofs ------------------------
(***************************************************************************)
(* Proofs about CatalogRepricing: the mutual exclusion of the tasks, that  *)
(* an event is stored once, that a request whose recording has returned is *)
(* stored or counted, and that no rollback loses a fit.                    *)
(***************************************************************************)
EXTENDS CatalogRepricing, SequenceTheorems, TLAPS

(***************************************************************************)
(* The parts of the inductive invariant.                                   *)
(***************************************************************************)
Event == [id : Requests, prices : 0..MaxSyncs, fit : 0..MaxFits]

Attempt ==
  [at : {"write"}, id : Requests, prices : 0..MaxSyncs, fit : 0..MaxFits, tries : 0..MaxTries]

PricesOK ==
  /\ stored \in 0..MaxSyncs /\ catalog \in 0..MaxSyncs
  /\ sync \in [Syncers -> [at : {Idle, "stored", "loaded", "queue", "refused"},
                           loaded : 0..MaxSyncs]]

FitsOK ==
  /\ saved \in 0..MaxFits /\ fit \in 0..MaxFits /\ priced \in 0..MaxFits
  /\ recent \in BOOLEAN
  /\ fitter \in [Fitters -> [at : {Idle, "computed", "queue", "started", "refused"},
                             fit : 0..MaxFits]]

RecordsOK == record \in [Recorders -> {NoEvent} \cup Attempt]

\* A history of distinct requests.
Sound(es) ==
  /\ es \in Seq(Event)
  /\ \A i, j \in 1..Len(es) : es[i].id = es[j].id => i = j

UsageOK ==
  /\ Sound(events)
  /\ dropped \subseteq Requests /\ returned \subseteq Requests
  /\ \A id \in returned \ dropped : \E i \in 1..Len(events) : events[i].id = id

Running == {"queued", "writing", "restoring", "succeeded", "failed"}

\* The tasks of which a rollback may come, or has come, restore the fit that is
\* in memory; while one runs, no other does and no fit is applied.
Exclusive(ts, f) ==
  /\ ts \in Seq(Task)
  /\ \A t, u \in 1..Len(ts) : ts[t].at \in Running /\ ts[u].at \in Running => t = u
  /\ \A t \in 1..Len(ts) : ts[t].at \in {"queued", "writing", "restoring", "failed"} => ts[t].fit = f

RestOK ==
  /\ pending \subseteq Kinds /\ restarts \in 0..MaxRestarts
  /\ overtaken \in BOOLEAN /\ behind \in BOOLEAN

IInv == PricesOK /\ FitsOK /\ RecordsOK /\ UsageOK /\ Exclusive(tasks, fit) /\ RestOK

(***************************************************************************)
(* The histories and the lists of tasks.                                   *)
(***************************************************************************)

\* An event whose id is not stored yet may be appended.
LEMMA SoundAppend ==
  ASSUME NEW es, Sound(es), NEW e \in Event, \A i \in 1..Len(es) : es[i].id # e.id
  PROVE  Sound(Append(es, e)) /\ Len(Append(es, e)) = Len(es) + 1
<1> DEFINE new == Append(es, e)
<1>1. /\ new \in Seq(Event) /\ Len(new) = Len(es) + 1
      /\ \A i \in 1..Len(es) : new[i] = es[i]
      /\ new[Len(es) + 1] = e
  BY AppendProperties DEF Sound
<1>2. Len(es) \in Nat
  BY LenProperties DEF Sound
<1>3. ASSUME NEW i \in 1..Len(new), NEW j \in 1..Len(new), new[i].id = new[j].id
      PROVE  i = j
  BY <1>1, <1>2, <1>3 DEF Sound
<1> QED BY <1>1, <1>3 DEF Sound

\* A task is appended when none is running.
LEMMA ExclusiveAppend ==
  ASSUME NEW ts, NEW f, Exclusive(ts, f), NEW x \in Task, x.fit = f,
         \A t \in 1..Len(ts) : ts[t].at \notin Running
  PROVE  Exclusive(Append(ts, x), f)
<1> DEFINE new == Append(ts, x)
<1>1. /\ new \in Seq(Task) /\ Len(new) = Len(ts) + 1
      /\ \A t \in 1..Len(ts) : new[t] = ts[t]
      /\ new[Len(ts) + 1] = x
  BY AppendProperties DEF Exclusive
<1>2. Len(ts) \in Nat
  BY LenProperties DEF Exclusive
<1>3. \A t \in 1..Len(new) : t \in 1..Len(ts) \/ (t = Len(ts) + 1 /\ new[t] = x)
  BY <1>1, <1>2
<1>4. ASSUME NEW t \in 1..Len(new), NEW u \in 1..Len(new),
             new[t].at \in Running, new[u].at \in Running
      PROVE  t = u
  BY <1>1, <1>3, <1>4
<1>5. ASSUME NEW t \in 1..Len(new), new[t].at \in {"queued", "writing", "restoring", "failed"}
      PROVE  new[t].fit = f
  BY <1>1, <1>3, <1>5 DEF Exclusive
<1> QED BY <1>1, <1>4, <1>5 DEF Exclusive

\* A task may go on, as long as it does not begin to run again.
LEMMA ExclusiveExcept ==
  ASSUME NEW ts, NEW f, Exclusive(ts, f), NEW t \in 1..Len(ts), NEW x \in Task,
         x.at \in Running => ts[t].at \in Running,
         x.at \in {"queued", "writing", "restoring", "failed"} => x.fit = f
  PROVE  /\ Exclusive([ts EXCEPT ![t] = x], f)
         /\ Len([ts EXCEPT ![t] = x]) = Len(ts)
         /\ \A u \in 1..Len(ts) : [ts EXCEPT ![t] = x][u] = IF u = t THEN x ELSE ts[u]
<1> DEFINE new == [ts EXCEPT ![t] = x]
<1>1. /\ new \in Seq(Task) /\ Len(new) = Len(ts)
      /\ \A u \in 1..Len(ts) : new[u] = IF u = t THEN x ELSE ts[u]
  BY ExceptSeq DEF Exclusive
<1>2. ASSUME NEW u \in 1..Len(new), NEW v \in 1..Len(new),
             new[u].at \in Running, new[v].at \in Running
      PROVE  u = v
  BY <1>1, <1>2 DEF Exclusive
<1>3. ASSUME NEW u \in 1..Len(new), new[u].at \in {"queued", "writing", "restoring", "failed"}
      PROVE  new[u].fit = f
  BY <1>1, <1>3 DEF Exclusive
<1> QED BY <1>1, <1>2, <1>3 DEF Exclusive

\* startPricingTask starts a task with the fit in memory, when none is running.
LEMMA StartedInv ==
  ASSUME IInv, CanStart
  PROVE  NewTask \in Task /\ NewTask.fit = fit
         /\ \A t \in 1..Len(tasks) : tasks[t].at \notin Running
<1>1. NewTask \in Task /\ NewTask.fit = fit
  BY RepricingAssumption DEF IInv, PricesOK, FitsOK, NewTask, Task, Kinds
<1>2. DOMAIN tasks = 1..Len(tasks)
  BY LenProperties DEF IInv, Exclusive
<1> QED BY <1>1, <1>2 DEF CanStart, Active, RunningTask, Running

(***************************************************************************)
(* The initial states and the actions.                                     *)
(***************************************************************************)

LEMMA InitInv == Init => IInv
<1> SUFFICES ASSUME Init PROVE IInv
  OBVIOUS
<1> USE RepricingAssumption
<1>1. PricesOK /\ FitsOK
  BY DEF Init, PricesOK, FitsOK, Idle
<1>2. RecordsOK
  BY DEF Init, RecordsOK
<1>5. RestOK
  <2>1. pending \subseteq Kinds /\ overtaken \in BOOLEAN /\ behind \in BOOLEAN
    BY Zenon DEF Init
  <2>2. restarts \in 0..MaxRestarts
    BY DEF Init
  <2> QED BY <2>1, <2>2 DEF RestOK
<1>3. UsageOK
  BY EmptySeq DEF Init, UsageOK, Sound
<1>4. Exclusive(tasks, fit)
  BY EmptySeq DEF Init, Exclusive
<1> QED BY <1>1, <1>2, <1>3, <1>4, <1>5 DEF IInv

\* The steps of a price sync.
LEMMA SyncInv ==
  ASSUME IInv, NEW s \in Syncers,
         SyncStore(s) \/ SyncLoad(s) \/ SyncPublish(s) \/ SyncRefused(s)
  PROVE  IInv'
<1> USE DEF IInv, SyncGoto, fits, usage, history
<1>1. PricesOK'
  <2>1. CASE SyncStore(s)
    BY <2>1, RepricingAssumption DEF SyncStore, PricesOK, Idle
  <2>2. CASE SyncLoad(s)
    BY <2>2, RepricingAssumption DEF SyncLoad, PricesOK, Idle
  <2>3. CASE SyncPublish(s)
    BY <2>3, RepricingAssumption DEF SyncPublish, PricesOK, Idle
  <2>4. CASE SyncRefused(s)
    BY <2>4, RepricingAssumption DEF SyncRefused, PricesOK, Idle
  <2> QED BY <2>1, <2>2, <2>3, <2>4
<1>2. UNCHANGED <<saved, fit, priced, recent, fitter, events, record, dropped, returned, tasks>>
  BY DEF SyncStore, SyncLoad, SyncPublish, SyncRefused
<1>3. FitsOK' /\ RecordsOK' /\ UsageOK' /\ Exclusive(tasks, fit)'
  BY <1>2 DEF FitsOK, RecordsOK, UsageOK
<1>4. RestOK'
  BY DEF SyncStore, SyncLoad, SyncPublish, SyncRefused, RestOK, Kinds
<1> QED BY <1>1, <1>3, <1>4

LEMMA SyncQueueInv ==
  ASSUME IInv, NEW s \in Syncers, SyncQueue(s)
  PROVE  IInv'
<1> USE DEF IInv, SyncQueue, fits, usage, history
<1>1. PricesOK'
  BY RepricingAssumption DEF SyncGoto, PricesOK, Idle
<1>2. Exclusive(tasks, fit)'
  <2>1. CASE Started
    <3>1. tasks' = Append(tasks, NewTask) /\ fit' = fit
      BY <2>1 DEF Started
    <3> QED BY <2>1, <3>1, StartedInv, ExclusiveAppend DEF Started
  <2>2. CASE UNCHANGED tasks
    BY <2>2
  <2> QED BY <2>1, <2>2
<1>3. FitsOK' /\ RecordsOK' /\ UsageOK' /\ RestOK'
  BY DEF FitsOK, RecordsOK, UsageOK, RestOK
<1> QED BY <1>1, <1>2, <1>3

\* The steps of a fit that start no task.  A fit is applied when no task is active:
\* none is there whose rollback would take it back.
LEMMA FitInv ==
  ASSUME IInv, NEW f \in Fitters,
         FitSave(f) \/ FitApply(f) \/ FitStarted(f) \/ FitRefused(f)
  PROVE  IInv'
<1> USE DEF IInv, FitGoto, prices, usage, history
<1>1. FitsOK'
  <2>1. CASE FitSave(f)
    BY <2>1, RepricingAssumption DEF FitSave, FitsOK, Idle
  <2>2. CASE FitApply(f)
    BY <2>2, RepricingAssumption DEF FitApply, FitsOK, Idle
  <2>3. CASE FitStarted(f)
    BY <2>3, RepricingAssumption DEF FitStarted, FitsOK, Idle
  <2>4. CASE FitRefused(f)
    BY <2>4, RepricingAssumption DEF FitRefused, FitsOK, Idle
  <2> QED BY <2>1, <2>2, <2>3, <2>4
<1>2. UNCHANGED <<stored, catalog, sync, events, record, dropped, returned, tasks>>
  BY DEF FitSave, FitApply, FitStarted, FitRefused
<1>3. PricesOK' /\ RecordsOK' /\ UsageOK'
  BY <1>2 DEF PricesOK, RecordsOK, UsageOK
<1>4. Exclusive(tasks, fit)'
  <2>1. CASE UNCHANGED fit
    BY <1>2, <2>1
  <2>2. CASE FitApply(f) /\ ~Active
    <3>1. DOMAIN tasks = 1..Len(tasks)
      BY LenProperties DEF Exclusive
    <3>2. \A t \in 1..Len(tasks) : tasks[t].at \notin Running
      BY <2>2, <3>1 DEF Active, RunningTask, Running
    <3> QED BY <1>2, <3>2 DEF Exclusive, Running
  <2> QED BY <2>1, <2>2 DEF FitSave, FitApply, FitStarted, FitRefused
<1>5. RestOK'
  BY DEF FitSave, FitApply, FitStarted, FitRefused, RestOK, Kinds
<1> QED BY <1>1, <1>3, <1>4, <1>5

LEMMA FitQueueInv ==
  ASSUME IInv, NEW f \in Fitters, FitQueue(f)
  PROVE  IInv'
<1> USE DEF IInv, FitQueue, prices, usage, history
<1>1. FitsOK'
  BY RepricingAssumption DEF FitGoto, FitsOK, Idle
<1>2. Exclusive(tasks, fit)'
  <2>1. CASE Started
    <3>1. tasks' = Append(tasks, NewTask) /\ fit' = fit
      BY <2>1 DEF Started
    <3> QED BY <2>1, <3>1, StartedInv, ExclusiveAppend DEF Started
  <2>2. CASE UNCHANGED tasks
    BY <2>2
  <2> QED BY <2>1, <2>2
<1>3. PricesOK' /\ RecordsOK' /\ UsageOK' /\ RestOK'
  BY DEF PricesOK, RecordsOK, UsageOK, RestOK
<1> QED BY <1>1, <1>2, <1>3

LEMMA SettingsInv ==
  ASSUME IInv, SixHoursPass \/ SaveSettings
  PROVE  IInv'
<1> USE DEF IInv, prices, usage, fits, history
<1>1. CASE SixHoursPass
  BY <1>1 DEF SixHoursPass, PricesOK, FitsOK, RecordsOK, UsageOK, RestOK
<1>2. CASE SaveSettings
  <2>1. tasks' = Append(tasks, NewTask) /\ fit' = fit
    BY <1>2 DEF SaveSettings, Started
  <2>2. Exclusive(tasks, fit)'
    BY <1>2, <2>1, StartedInv, ExclusiveAppend DEF SaveSettings, Started
  <2> QED BY <1>2, <2>2 DEF SaveSettings, PricesOK, FitsOK, RecordsOK, UsageOK, RestOK
<1> QED BY <1>1, <1>2
\* The fields of a task.
LEMMA TaskFields ==
  ASSUME IInv, NEW t \in DOMAIN tasks
  PROVE  t \in 1..Len(tasks) /\ tasks[t] \in Task
BY LenProperties, ElementOfSeq DEF IInv, Exclusive

\* What a task does until it reports: its fit remains, and so does its activity.
LEMMA TaskRunsInv ==
  ASSUME IInv, NEW t \in DOMAIN tasks, TaskSnapshot(t) \/ TaskRollBack(t) \/ TaskFail(t) \/ TaskReport(t)
  PROVE  IInv'
<1> USE DEF IInv, prices, fits, usage, history
<1>1. t \in 1..Len(tasks) /\ tasks[t] \in Task
  BY TaskFields
<1>2. CASE TaskSnapshot(t)
  <2> DEFINE x == [tasks[t] EXCEPT !.at = "writing", !.prices = stored, !.upto = Len(events)]
  <2>1. tasks' = [tasks EXCEPT ![t] = x] /\ tasks[t].at = "queued"
    BY <1>2 DEF TaskSnapshot
  <2>2. Len(events) \in Nat
    BY LenProperties DEF UsageOK, Sound
  <2>3. x \in Task /\ x.at = "writing" /\ x.fit = tasks[t].fit
    BY <1>1, <2>2 DEF Task, PricesOK
  <2>4. x.fit = fit
    BY <1>1, <2>1, <2>3 DEF Exclusive
  <2>5. Exclusive(tasks', fit)
    <3>1. tasks[t].at \in Running
      BY <2>1 DEF Running
    <3> HIDE DEF x
    <3> QED BY <1>1, <2>1, <2>3, <2>4, <3>1, ExclusiveExcept
  <2> QED BY <1>2, <2>5 DEF TaskSnapshot, PricesOK, FitsOK, RecordsOK, UsageOK, RestOK
<1>3. CASE TaskRollBack(t) \/ TaskFail(t)
  <2>7. PICK label \in {"restoring", "failed"} : RollbackCfg(t, label)
    BY <1>3 DEF TaskRollBack, TaskFail
  <2> DEFINE x == [tasks[t] EXCEPT !.at = label]
  <2>1. /\ tasks' = [tasks EXCEPT ![t] = x] /\ tasks[t].at \in {"queued", "writing", "restoring"}
        /\ fit' = tasks[t].fit /\ catalog' = tasks[t].catalog
    BY <1>3, <2>7 DEF TaskRollBack, TaskFail, RollbackCfg
  <2>2. x \in Task /\ x.at = label /\ x.fit = tasks[t].fit
    BY <1>1 DEF Task
  <2>3. x.fit = fit /\ fit' = fit
    BY <1>1, <2>1, <2>2 DEF Exclusive
  <2>4. Exclusive(tasks', fit')
    <3>1. tasks[t].at \in Running
      BY <2>1 DEF Running
    <3> HIDE DEF x
    <3> QED BY <1>1, <2>1, <2>2, <2>3, <3>1, ExclusiveExcept
  <2>5. catalog' \in 0..MaxSyncs
    BY <1>1, <2>1 DEF Task
  <2>6. overtaken' \in BOOLEAN /\ behind' \in BOOLEAN
    BY <2>7 DEF RollbackCfg
  <2> QED BY <2>3, <2>4, <2>5, <2>6, <2>7
        DEF RollbackCfg, PricesOK, FitsOK, RecordsOK, UsageOK, RestOK
<1>4. CASE TaskReport(t)
  <2> DEFINE x == Ended(IF tasks[t].at = "succeeded" THEN "repriced" ELSE "rolled_back",
                        tasks[t].fit, {})
  <2>1. tasks' = [tasks EXCEPT ![t] = x]
    BY <1>4 DEF TaskReport
  <2>2. x \in Task /\ x.at \in {"repriced", "rolled_back"}
    BY <1>1, RepricingAssumption DEF Task, Ended
  <2>3. Exclusive(tasks', fit)
    <3> HIDE DEF x
    <3> QED BY <1>1, <2>1, <2>2, ExclusiveExcept DEF Running
  <2> QED BY <1>4, <2>3 DEF TaskReport, PricesOK, FitsOK, RecordsOK, UsageOK, RestOK
<1> QED BY <1>2, <1>3, <1>4

\* The costs change, the requests of the history do not.
LEMMA TaskWriteInv ==
  ASSUME IInv, NEW t \in DOMAIN tasks, TaskWrite(t)
  PROVE  IInv'
<1> USE DEF IInv, prices, fits
<1>1. t \in 1..Len(tasks) /\ tasks[t] \in Task
  BY TaskFields
<1>2. Exclusive(tasks', fit)
  <2> DEFINE x == [tasks[t] EXCEPT !.at = "succeeded"]
  <2>1. tasks' = [tasks EXCEPT ![t] = x] /\ tasks[t].at = "writing"
    BY DEF TaskWrite
  <2>2. x \in Task /\ x.at = "succeeded"
    BY <1>1 DEF Task
  <2> HIDE DEF x
  <2> QED BY <1>1, <2>1, <2>2, ExclusiveExcept DEF Running
<1>3. UsageOK'
  <2>1. Len(events) \in Nat /\ DOMAIN events = 1..Len(events)
    BY LenProperties DEF UsageOK, Sound
  <2>2. \A i \in 1..Len(events) : events[i] \in Event
    BY ElementOfSeq DEF UsageOK, Sound
  <2>3. \A i \in 1..Len(events) : events'[i] \in Event /\ events'[i].id = events[i].id
    BY <1>1, <2>1, <2>2 DEF TaskWrite, Event, Task
  <2>4. DOMAIN events' = 1..Len(events) /\ events' = [i \in 1..Len(events) |-> events'[i]]
    BY <2>1 DEF TaskWrite
  <2>5. events' \in Seq(Event) /\ Len(events') = Len(events)
    <3>1. events' \in [1..Len(events) -> Event]
      BY <2>3, <2>4
    <3>2. events' \in Seq(Event)
      BY <2>1, <3>1, SeqDef
    <3> QED BY <2>1, <2>4, <3>2, LenProperties
  <2>6. Sound(events)'
    BY <2>3, <2>5 DEF UsageOK, Sound
  <2>7. \A id \in returned \ dropped : \E i \in 1..Len(events') : events'[i].id = id
    BY <2>3, <2>5 DEF UsageOK
  <2> QED BY <2>6, <2>7 DEF UsageOK, TaskWrite
<1> QED BY <1>2, <1>3 DEF TaskWrite, PricesOK, FitsOK, RecordsOK, RestOK
\* A task that has served one of its requests for a repricing goes on.
LEMMA ServedInv ==
  ASSUME IInv, NEW t \in DOMAIN tasks, tasks[t].at \notin Running,
         NEW label \in {"queue", "refused", "started"},
         NEW k \in SUBSET Kinds
  PROVE  Exclusive([tasks EXCEPT ![t] = [tasks[t] EXCEPT !.at = label, !.todo = tasks[t].todo \ k]],
                   fit)
<1> DEFINE x == [tasks[t] EXCEPT !.at = label, !.todo = tasks[t].todo \ k]
<1> SUFFICES Exclusive([tasks EXCEPT ![t] = x], fit)
  OBVIOUS
<1>1. t \in 1..Len(tasks) /\ tasks[t] \in Task
  BY TaskFields
<1>2. x \in Task /\ x.at = label
  BY <1>1 DEF Task
<1>3. x.at \notin Running
  BY <1>2 DEF Running
<1> HIDE DEF x
<1>4. Exclusive(tasks, fit)
  BY DEF IInv
<1> QED BY <1>1, <1>2, <1>3, <1>4, ExclusiveExcept DEF Running

\* What a task does after it has reported.
LEMMA TaskEndsInv ==
  ASSUME IInv, NEW t \in DOMAIN tasks,
         TaskTake(t) \/ TaskRead(t) \/ TaskStarted(t) \/ TaskRefused(t) \/ TaskReturn(t)
  PROVE  IInv'
<1> USE DEF IInv, prices, fits, usage, history
<1>1. t \in 1..Len(tasks) /\ tasks[t] \in Task
  BY TaskFields
<1>2. CASE TaskTake(t)
  <2> DEFINE x == Ended("queue", 0, pending)
  <2>1. tasks' = [tasks EXCEPT ![t] = x]
    BY <1>2 DEF TaskTake
  <2>2. x \in Task /\ x.at = "queue"
    BY RepricingAssumption DEF Task, Ended, RestOK
  <2>3. Exclusive(tasks', fit)
    <3> HIDE DEF x
    <3> QED BY <1>1, <2>1, <2>2, ExclusiveExcept DEF Running
  <2>4. priced' \in 0..MaxFits
    BY <1>1, <1>2 DEF TaskTake, Task, FitsOK
  <2> QED BY <1>2, <2>3, <2>4 DEF TaskTake, PricesOK, FitsOK, RecordsOK, UsageOK, RestOK
<1>3. CASE TaskStarted(t)
  <2>1. tasks' = [tasks EXCEPT ![t] = [tasks[t] EXCEPT !.at = "queue",
                                                       !.todo = tasks[t].todo \ {Wanted(t)}]]
    BY <1>1, <1>3 DEF TaskStarted, Served, Task, Exclusive
  <2>2. Exclusive(tasks', fit)
    <3>1. tasks[t].at \notin Running /\ {Wanted(t)} \in SUBSET Kinds
      BY <1>3 DEF TaskStarted, Running, Wanted, Kinds
    <3> HIDE DEF IInv
    <3> QED BY <2>1, <3>1, ServedInv
  <2>3. recent' \in BOOLEAN
    BY <1>3 DEF TaskStarted
  <2> QED BY <1>3, <2>2, <2>3 DEF TaskStarted, PricesOK, FitsOK, RecordsOK, UsageOK, RestOK
<1>4. CASE TaskRefused(t)
  <2>1. tasks' = [tasks EXCEPT ![t] = [tasks[t] EXCEPT !.at = "queue",
                                                       !.todo = tasks[t].todo \ {Wanted(t)}]]
    BY <1>1, <1>4 DEF TaskRefused, Served, Task, Exclusive
  <2>2. Exclusive(tasks', fit)
    <3>1. tasks[t].at \notin Running /\ {Wanted(t)} \in SUBSET Kinds
      BY <1>4 DEF TaskRefused, Running, Wanted, Kinds
    <3> HIDE DEF IInv
    <3> QED BY <2>1, <3>1, ServedInv
  <2>3. pending' \subseteq Kinds
    BY <1>4 DEF TaskRefused, RestOK, Wanted, Kinds
  <2> QED BY <1>4, <2>2, <2>3 DEF TaskRefused, PricesOK, FitsOK, RecordsOK, UsageOK, RestOK
<1>5. CASE TaskReturn(t)
  <2>1. tasks' = [tasks EXCEPT ![t] = Finished]
    BY <1>5 DEF TaskReturn
  <2>2. Finished \in Task /\ Finished.at = "finished"
    BY RepricingAssumption DEF Task, Finished, Ended
  <2>3. Exclusive(tasks', fit)
    BY <1>1, <2>1, <2>2, ExclusiveExcept DEF Running
  <2> QED BY <1>5, <2>3 DEF TaskReturn, PricesOK, FitsOK, RecordsOK, UsageOK, RestOK
<1>6. CASE TaskRead(t)
  <2> DEFINE x == [tasks[t] EXCEPT !.at = "read", !.fit = fit]
  <2>1. tasks' = [tasks EXCEPT ![t] = x]
    BY <1>1, <1>6 DEF TaskRead, Task, Exclusive
  <2>2. x \in Task /\ x.at = "read"
    BY <1>1 DEF Task, FitsOK
  <2>3. Exclusive(tasks', fit)
    <3> HIDE DEF x
    <3> QED BY <1>1, <2>1, <2>2, ExclusiveExcept DEF Running
  <2> QED BY <1>6, <2>3 DEF TaskRead, PricesOK, FitsOK, RecordsOK, UsageOK, RestOK
<1> QED BY <1>2, <1>3, <1>4, <1>5, <1>6

\* What a task leaves behind when it has asked for a repricing.
LEMMA LeaveInv ==
  ASSUME IInv, NEW t \in DOMAIN tasks, NEW label \in {"queue", "refused", "started"},
         NEW todo \in SUBSET Kinds
  PROVE  LET x == [tasks[t] EXCEPT !.at = label, !.fit = 0, !.todo = todo]
         IN  x \in Task /\ x.at \notin Running /\ Exclusive([tasks EXCEPT ![t] = x], fit)
<1> DEFINE x == [tasks[t] EXCEPT !.at = label, !.fit = 0, !.todo = todo]
<1>1. t \in 1..Len(tasks) /\ tasks[t] \in Task
  BY TaskFields
<1>2. x \in Task /\ x.at = label
  <2>1. 0 \in 0..MaxFits
    BY RepricingAssumption
  <2> QED BY <1>1, <2>1 DEF Task
<1>3. x.at \notin Running
  BY <1>2 DEF Running
<1>4. Exclusive(tasks, fit)
  BY DEF IInv
<1>5. Exclusive([tasks EXCEPT ![t] = x], fit)
  <2> HIDE DEF x
  <2> QED BY <1>1, <1>2, <1>3, <1>4, ExclusiveExcept DEF Running
<1> QED BY <1>2, <1>3, <1>5

\* What TaskQueue makes of its own task.
LEMMA TaskQueueStep ==
  ASSUME IInv, NEW t \in DOMAIN tasks, TaskQueue(t)
  PROVE  \E label \in {"queue", "refused", "started"}, todo \in SUBSET Kinds :
           LET x == [tasks[t] EXCEPT !.at = label, !.fit = 0, !.todo = todo]
           IN  /\ label # "queue" => todo = tasks[t].todo
               /\ "catalog" \in tasks[t].todo /\ label # "started" => "catalog" \in todo
               /\ IF label = "started"
                  THEN CanStart /\ tasks' = Append([tasks EXCEPT ![t] = x], NewTask)
                  ELSE tasks' = [tasks EXCEPT ![t] = x]
<1>1. t \in 1..Len(tasks) /\ tasks[t] \in Task
  BY TaskFields
<1> DEFINE X(label, todo) == [tasks[t] EXCEPT !.at = label, !.fit = 0, !.todo = todo]
<1>2. tasks[t].todo \in SUBSET Kinds
  BY <1>1 DEF Task
<1>3. \A label \in {"refused", "started"} :
        Leave(t, label) = [tasks EXCEPT ![t] = X(label, tasks[t].todo)]
  BY <1>1 DEF Leave, Task
<1>4. [Leave(t, "queue") EXCEPT ![t].todo = @ \ {Wanted(t)}]
        = [tasks EXCEPT ![t] = X("queue", tasks[t].todo \ {Wanted(t)})]
  BY <1>1 DEF Leave, Task
<1>5. CASE /\ Wanted(t) # "catalog"
           /\ tasks' = [Leave(t, "queue") EXCEPT ![t].todo = @ \ {Wanted(t)}]
  <2>1. tasks' = [tasks EXCEPT ![t] = X("queue", tasks[t].todo \ {Wanted(t)})]
    BY <1>4, <1>5
  <2>2. /\ tasks[t].todo \ {Wanted(t)} \in SUBSET Kinds
        /\ "catalog" \in tasks[t].todo => "catalog" \in tasks[t].todo \ {Wanted(t)}
    BY <1>2, <1>5
  <2> HIDE DEF X
  <2> QED BY <2>1, <2>2 DEF X
<1>6. CASE CanStart /\ tasks' = Append(Leave(t, "started"), NewTask)
  BY <1>2, <1>3, <1>6
<1>7. CASE tasks' = Leave(t, "refused")
  BY <1>2, <1>3, <1>7
<1> QED BY <1>5, <1>6, <1>7 DEF TaskQueue

\* A finished task starts the next one itself.
LEMMA TaskQueueInv ==
  ASSUME IInv, NEW t \in DOMAIN tasks, TaskQueue(t)
  PROVE  IInv'
<1> USE DEF prices, fits, usage, history
<1>1. PICK label \in {"queue", "refused", "started"}, todo \in SUBSET Kinds :
        LET x == [tasks[t] EXCEPT !.at = label, !.fit = 0, !.todo = todo]
        IN  IF label = "started"
            THEN CanStart /\ tasks' = Append([tasks EXCEPT ![t] = x], NewTask)
            ELSE tasks' = [tasks EXCEPT ![t] = x]
  BY TaskQueueStep
<1> DEFINE x == [tasks[t] EXCEPT !.at = label, !.fit = 0, !.todo = todo]
           ts == [tasks EXCEPT ![t] = x]
<1>2. x \in Task /\ x.at \notin Running /\ Exclusive(ts, fit)
  BY LeaveInv
<1>3. IF label = "started" THEN CanStart /\ tasks' = Append(ts, NewTask) ELSE tasks' = ts
  BY <1>1
<1> HIDE DEF x
<1>4. Exclusive(tasks', fit)
  <2>1. CASE label = "started"
    <3>1. /\ NewTask \in Task /\ NewTask.fit = fit
          /\ \A u \in 1..Len(tasks) : tasks[u].at \notin Running
      BY <1>3, <2>1, StartedInv
    <3>2. /\ Len(ts) = Len(tasks)
          /\ \A u \in 1..Len(tasks) : ts[u] = IF u = t THEN x ELSE tasks[u]
      BY <1>2, TaskFields, ExceptSeq DEF IInv, Exclusive
    <3>3. \A u \in 1..Len(ts) : ts[u].at \notin Running
      BY <1>2, <3>1, <3>2
    <3> HIDE DEF ts
    <3> QED BY <1>2, <1>3, <2>1, <3>1, <3>3, ExclusiveAppend
  <2>2. CASE label # "started"
    BY <1>2, <1>3, <2>2
  <2> QED BY <2>1, <2>2
<1> QED BY <1>4 DEF IInv, TaskQueue, PricesOK, FitsOK, RecordsOK, UsageOK, RestOK

(***************************************************************************)
(* The recorders.                                                          *)
(***************************************************************************)

LEMMA RecordInv ==
  ASSUME IInv, NEW r \in Recorders, NEW id \in Requests, RecordUsage(r, id)
  PROVE  IInv'
<1> USE DEF IInv, prices, fits, history
<1>1. RecordsOK'
  BY RepricingAssumption DEF RecordUsage, RecordsOK, Attempt, PricesOK, FitsOK
<1> QED BY <1>1 DEF RecordUsage, PricesOK, FitsOK, UsageOK, RestOK

\* What an attempt leaves: the event is stored once, whether or not an earlier
\* attempt had stored it.
LEMMA InsertedInv ==
  ASSUME IInv, NEW r \in Recorders, record[r].at = "write"
  PROVE  /\ record[r] \in Attempt
         /\ Sound(Inserted(r))
         /\ \E i \in 1..Len(Inserted(r)) : Inserted(r)[i].id = record[r].id
         /\ \A i \in 1..Len(events) : i \in 1..Len(Inserted(r)) /\ Inserted(r)[i] = events[i]
<1> USE DEF IInv
<1>1. record[r] \in Attempt
  BY DEF RecordsOK, NoEvent, Idle
<1>2. Len(events) \in Nat /\ DOMAIN events = 1..Len(events)
  BY LenProperties DEF UsageOK, Sound
<1>3. CASE record[r].id \in Ids
  <2>1. Inserted(r) = events
    BY <1>3 DEF Inserted
  <2>2. \E i \in 1..Len(events) : events[i].id = record[r].id
    BY <1>2, <1>3 DEF Ids
  <2> QED BY <1>1, <2>1, <2>2 DEF UsageOK
<1>4. CASE record[r].id \notin Ids
  <2>1. Inserted(r) = Append(events, Row(r))
    BY <1>4 DEF Inserted
  <2>2. Row(r) \in Event /\ Row(r).id = record[r].id
    BY <1>1 DEF Row, Event, Attempt
  <2>3. \A i \in 1..Len(events) : events[i].id # Row(r).id
    BY <1>2, <1>4, <2>2 DEF Ids
  <2>4. Sound(Append(events, Row(r)))
    BY <2>2, <2>3, SoundAppend DEF UsageOK
  <2>5. /\ Len(Append(events, Row(r))) = Len(events) + 1
        /\ \A i \in 1..Len(events) : Append(events, Row(r))[i] = events[i]
        /\ Append(events, Row(r))[Len(events) + 1] = Row(r)
    BY <2>2, AppendProperties DEF UsageOK, Sound
  <2> HIDE DEF Row
  <2> QED BY <1>1, <1>2, <2>1, <2>2, <2>4, <2>5
<1> QED BY <1>3, <1>4

LEMMA AttemptInv ==
  ASSUME IInv, NEW r \in Recorders, AttemptSucceeds(r) \/ AttemptFails(r) \/ GiveUp(r)
  PROVE  IInv'
<1> USE DEF IInv, prices, fits, history
<1>1. /\ record[r] \in Attempt
      /\ Sound(Inserted(r))
      /\ \E i \in 1..Len(Inserted(r)) : Inserted(r)[i].id = record[r].id
      /\ \A i \in 1..Len(events) : i \in 1..Len(Inserted(r)) /\ Inserted(r)[i] = events[i]
  BY InsertedInv DEF AttemptSucceeds, AttemptFails, GiveUp
<1>2. record[r].id \in Requests
  BY <1>1 DEF Attempt
<1> HIDE DEF Inserted
<1>3. CASE AttemptSucceeds(r)
  <2>1. UsageOK'
    BY <1>1, <1>2, <1>3 DEF AttemptSucceeds, Return, UsageOK
  <2>2. RecordsOK'
    BY <1>3 DEF AttemptSucceeds, Return, RecordsOK
  <2> QED BY <1>3, <2>1, <2>2 DEF AttemptSucceeds, PricesOK, FitsOK, RestOK
<1>4. CASE AttemptFails(r)
  <2>1. UsageOK'
    BY <1>1, <1>4 DEF AttemptFails, UsageOK
  <2>2. [record[r] EXCEPT !.tries = @ + 1] \in Attempt
    <3>1. MaxTries \in Nat /\ record[r].tries \in 0..MaxTries /\ record[r].tries < MaxTries
      BY <1>1, <1>4, RepricingAssumption DEF AttemptFails, Attempt
    <3>2. record[r].tries + 1 \in 0..MaxTries
      BY <3>1
    <3> QED BY <1>1, <3>2 DEF Attempt
  <2>3. RecordsOK'
    BY <1>4, <2>2 DEF AttemptFails, RecordsOK
  <2> QED BY <1>4, <2>1, <2>3 DEF AttemptFails, PricesOK, FitsOK, RestOK
<1>5. CASE GiveUp(r)
  <2>1. UsageOK'
    BY <1>2, <1>5 DEF GiveUp, Return, UsageOK
  <2>2. RecordsOK'
    BY <1>5 DEF GiveUp, Return, RecordsOK
  <2> QED BY <1>5, <2>1, <2>2 DEF GiveUp, PricesOK, FitsOK, RestOK
<1> QED BY <1>3, <1>4, <1>5

LEMMA RestartInv == ASSUME IInv, Restart PROVE IInv'
<1> USE DEF IInv, Restart
<1>1. PricesOK'
  BY RepricingAssumption DEF PricesOK, Idle
<1>2. FitsOK'
  BY RepricingAssumption DEF FitsOK, Idle
<1>3. RecordsOK'
  BY DEF RecordsOK
<1>4. UsageOK'
  BY DEF UsageOK
<1>5. Exclusive(tasks', fit')
  <2>1. Len(tasks) \in Nat /\ DOMAIN tasks = 1..Len(tasks)
    BY LenProperties DEF Exclusive
  <2>2. Finished \in Task /\ Finished.at = "finished"
    BY RepricingAssumption DEF Task, Finished, Ended
  <2>3. tasks' \in [1..Len(tasks) -> Task] /\ \A t \in 1..Len(tasks) : tasks'[t] = Finished
    BY <2>1, <2>2
  <2>4. tasks' \in Seq(Task)
    BY <2>1, <2>3, SeqDef
  <2>5. Len(tasks') = Len(tasks)
    BY <2>1, <2>3, <2>4, LenProperties
  <2> QED BY <2>2, <2>3, <2>4, <2>5 DEF Exclusive, Running
<1>6. RestOK'
  <2>1. restarts' \in 0..MaxRestarts
    BY RepricingAssumption DEF RestOK
  <2>2. pending' \subseteq Kinds
    BY DEF RestOK
  <2>3. overtaken' \in BOOLEAN /\ behind' \in BOOLEAN
    BY DEF RestOK
  <2> QED BY <2>1, <2>2, <2>3 DEF RestOK
<1> QED BY <1>1, <1>2, <1>3, <1>4, <1>5, <1>6

(***************************************************************************)
(* The theorems.                                                           *)
(***************************************************************************)

LEMMA NextInv == IInv /\ [Next]_vars => IInv'
<1> SUFFICES ASSUME IInv, [Next]_vars PROVE IInv'
  OBVIOUS
<1>1. ASSUME NEW s \in Syncers,
             \/ SyncStore(s) \/ SyncLoad(s) \/ SyncPublish(s) \/ SyncQueue(s) \/ SyncRefused(s)
      PROVE  IInv'
  BY <1>1, SyncInv, SyncQueueInv
<1>2. ASSUME NEW f \in Fitters,
             \/ FitSave(f) \/ FitApply(f) \/ FitQueue(f) \/ FitStarted(f) \/ FitRefused(f)
      PROVE  IInv'
  BY <1>2, FitInv, FitQueueInv
<1>3. CASE SixHoursPass \/ SaveSettings
  BY <1>3, SettingsInv
<1>4. ASSUME NEW t \in DOMAIN tasks,
             \/ TaskSnapshot(t) \/ TaskWrite(t) \/ TaskRollBack(t) \/ TaskFail(t) \/ TaskReport(t)
             \/ TaskTake(t) \/ TaskRead(t) \/ TaskQueue(t) \/ TaskStarted(t) \/ TaskRefused(t) \/ TaskReturn(t)
      PROVE  IInv'
  BY <1>4, TaskRunsInv, TaskWriteInv, TaskEndsInv, TaskQueueInv
<1>5. ASSUME NEW r \in Recorders,
             \/ \E id \in Requests : RecordUsage(r, id)
             \/ AttemptSucceeds(r) \/ AttemptFails(r) \/ GiveUp(r)
      PROVE  IInv'
  BY <1>5, RecordInv, AttemptInv
<1>6. CASE Restart
  BY <1>6, RestartInv
<1>7. CASE UNCHANGED vars
  BY <1>7 DEF vars, prices, fits, usage, history, IInv, PricesOK, FitsOK, RecordsOK, UsageOK, RestOK
<1> QED BY <1>1, <1>2, <1>3, <1>4, <1>5, <1>6, <1>7 DEF Next

\* The inductive invariant: types, distinct events, exclusive tasks and the fit that
\* their rollback would restore.
THEOREM Inductive == Spec => []IInv
BY InitInv, NextInv, PTL DEF Spec

\* For any number of syncers, fitters, recorders, requests and restarts every
\* variable keeps its type, and at most one task is active: every call of
\* startPricingTask looks for one, and no other step begins to run.
THEOREM TypeCorrect == Spec => []TypeOK
<1>1. IInv => TypeOK
  <2> SUFFICES ASSUME IInv PROVE TypeOK
    OBVIOUS
  <2> USE DEF IInv
  <2>1. DOMAIN tasks = 1..Len(tasks)
    BY LenProperties DEF Exclusive
  <2>2. tasks \in Seq(Task) /\ \A t, u \in DOMAIN tasks : RunningTask(t) /\ RunningTask(u) => t = u
    BY <2>1 DEF Exclusive, RunningTask, Running
  <2>3. \A r \in Recorders : record[r] = NoEvent \/ record[r] \in Attempt
    BY DEF RecordsOK
  <2> QED BY <2>2, <2>3
        DEF TypeOK, PricesOK, FitsOK, UsageOK, Sound, RestOK, Event, Attempt
<1> QED BY <1>1, Inductive, PTL

\* An event is stored once, however many attempts its insertion takes and whichever
\* of them have committed.
THEOREM StoredOnceAlways == Spec => []StoredOnce
<1>1. IInv => StoredOnce
  BY LenProperties DEF IInv, UsageOK, Sound, StoredOnce
<1> QED BY <1>1, Inductive, PTL

\* A request whose recording has returned is stored or counted as dropped.
THEOREM Accounted == Spec => []RequestsAccounted
<1>1. IInv => RequestsAccounted
  <2> SUFFICES ASSUME IInv PROVE RequestsAccounted
    OBVIOUS
  <2>1. DOMAIN events = 1..Len(events)
    BY LenProperties DEF IInv, UsageOK, Sound
  <2> QED BY <2>1 DEF IInv, UsageOK, RequestsAccounted, Ids
<1> QED BY <1>1, Inductive, PTL

\* No rollback of a task takes back a fit that was applied while it ran.
THEOREM FitSurvives == Spec => []FitSurvivesRollback
<1>1. IInv => FitSurvivesRollback
  BY LenProperties DEF IInv, Exclusive, FitSurvivesRollback
<1> QED BY <1>1, Inductive, PTL

-----------------------------------------------------------------------------
(***************************************************************************)
(* Proofs about CatalogRepricing: when everything has come to rest, the    *)
(* history follows the stored prices, and a.lastPricedFit is the fit the   *)
(* history was priced with.                                                *)
(***************************************************************************)

(***************************************************************************)
(* Why no change of the prices is forgotten.                               *)
(***************************************************************************)
Carrying(s) == sync[s].at = "stored" \/ (sync[s].at = "loaded" /\ sync[s].loaded = stored)

\* Nobody holds a list newer than the stored one; a rollback would bring an older one.
CatalogsBelow ==
  /\ catalog <= stored /\ \A s \in Syncers : sync[s].loaded <= stored
  /\ \A t \in 1..Len(tasks) :
       tasks[t].at \in {"queued", "writing", "restoring"} => tasks[t].catalog <= stored
  /\ ~overtaken => \A t \in 1..Len(tasks) :
       tasks[t].at \in {"queued", "writing", "restoring"} => tasks[t].catalog <= catalog

\* A list that is stored and not yet in memory is on its way.
Carried == ~overtaken /\ catalog # stored => \E s \in Syncers : Carrying(s)

\* A request that was priced before the newest list has to be written before that
\* list is published.
RecordsCurrent ==
  ~overtaken => \A r \in Recorders :
    record[r].at = "write" /\ record[r].prices # stored => catalog # stored

\* A repricing with the newest list has been asked for, or is going to be.
CatalogWanted ==
  \/ catalog # stored
  \/ \E s \in Syncers : sync[s].at \in {"queue", "refused"}
  \/ "catalog" \in pending
  \/ \E t \in 1..Len(tasks) : tasks[t].at \in {"queue", "read", "refused"} /\ "catalog" \in tasks[t].todo

\* When a task has written its costs, the history follows the prices, or another
\* repricing is going to see to it.
Covered ==
  ~overtaken => \A t \in 1..Len(tasks) : tasks[t].at = "writing" =>
    \/ CatalogWanted
    \/ /\ tasks[t].prices = stored
       /\ \A i \in 1..Len(events) : events[i].prices = stored \/ i <= tasks[t].upto

\* Costs that do not follow the prices are promised a task.
Promised ==
  ~overtaken /\ ~behind =>
    \/ CatalogWanted
    \/ \E t \in 1..Len(tasks) : tasks[t].at \in {"queued", "writing", "restoring"}
    \/ \A i \in 1..Len(events) : events[i].prices = stored

HInv == CatalogsBelow /\ Carried /\ RecordsCurrent /\ Covered /\ Promised

\* The domains and the numbers.
LEMMA Numbers ==
  ASSUME IInv
  PROVE  /\ {stored, catalog, saved, fit, priced} \subseteq Nat
         /\ Len(tasks) \in Nat /\ DOMAIN tasks = 1..Len(tasks)
         /\ Len(events) \in Nat /\ DOMAIN events = 1..Len(events)
         /\ \A s \in Syncers : sync[s].loaded \in Nat
         /\ \A t \in 1..Len(tasks) : /\ tasks[t] \in Task
                                     /\ tasks[t].catalog \in Nat /\ tasks[t].fit \in Nat
                                     /\ tasks[t].upto \in Nat
<1>1. Len(tasks) \in Nat /\ DOMAIN tasks = 1..Len(tasks)
  BY LenProperties DEF IInv, Exclusive
<1>2. Len(events) \in Nat /\ DOMAIN events = 1..Len(events)
  BY LenProperties DEF IInv, UsageOK, Sound
<1>3. \A t \in 1..Len(tasks) : tasks[t] \in Task
  BY ElementOfSeq DEF IInv, Exclusive
<1>4. MaxSyncs \in Nat /\ MaxFits \in Nat
  BY RepricingAssumption
<1>5. {stored, catalog, saved, fit, priced} \subseteq Nat
  BY <1>4 DEF IInv, PricesOK, FitsOK
<1>6. \A s \in Syncers : sync[s].loaded \in Nat
  BY <1>4 DEF IInv, PricesOK
<1>7. \A t \in 1..Len(tasks) : /\ tasks[t].catalog \in Nat /\ tasks[t].fit \in Nat
                               /\ tasks[t].upto \in Nat
  BY <1>3, <1>4 DEF Task
<1> QED BY <1>1, <1>2, <1>3, <1>5, <1>6, <1>7

\* What a step leaves of the tasks when it changes one of them.
LEMMA Changed ==
  ASSUME IInv, NEW t \in DOMAIN tasks, NEW x, tasks' = [tasks EXCEPT ![t] = x]
  PROVE  /\ Len(tasks') = Len(tasks) /\ tasks'[t] = x
         /\ \A u \in 1..Len(tasks) : u # t => tasks'[u] = tasks[u]
<1>1. DOMAIN tasks' = 1..Len(tasks) /\ Len(tasks) \in Nat
  BY Numbers
<1>2. tasks \in Seq(Task)
  BY DEF IInv, Exclusive
<1>3. Len(tasks') = Len(tasks)
  <2>1. tasks \in Seq(Task \cup {x})
    BY <1>2, SeqMonotonic
  <2> QED BY <2>1, Numbers, ExceptSeq
<1> QED BY <1>1, <1>3, Numbers

\* What a step leaves of them when it starts one: no other one is running.
LEMMA Grown ==
  ASSUME IInv, Started
  PROVE  /\ Len(tasks') = Len(tasks) + 1
         /\ \A t \in 1..Len(tasks) : tasks'[t] = tasks[t] /\ tasks[t].at \notin Running
         /\ tasks'[Len(tasks) + 1] = NewTask
<1>1. tasks' = Append(tasks, NewTask) /\ tasks \in Seq(Task)
  BY DEF Started, IInv, Exclusive
<1>2. NewTask \in Task /\ \A t \in 1..Len(tasks) : tasks[t].at \notin Running
  BY StartedInv DEF Started
<1> QED BY <1>1, <1>2, AppendProperties

\* What an insertion leaves of the events.
LEMMA EventsGrow ==
  ASSUME IInv, NEW r \in Recorders, record[r].at = "write", events' \in {events, Inserted(r)}
  PROVE  \A i \in 1..Len(events') :
           \/ i \in 1..Len(events) /\ events'[i] = events[i]
           \/ i = Len(events) + 1 /\ events'[i] = Row(r)
<1>1. CASE events' = events
  BY <1>1
<1>2. CASE events' = Append(events, Row(r))
  <2>1. Row(r) \in Event
    BY InsertedInv DEF Row, Event, Attempt
  <2>2. /\ Len(events') = Len(events) + 1
        /\ \A i \in 1..Len(events) : events'[i] = events[i]
        /\ events'[Len(events) + 1] = Row(r)
    BY <1>2, <2>1, AppendProperties DEF IInv, UsageOK, Sound
  <2> HIDE DEF Row
  <2> QED BY <2>2, Numbers
<1> QED BY <1>1, <1>2 DEF Inserted

(***************************************************************************)
(* A price sync.                                                           *)
(***************************************************************************)

LEMMA SyncStoreH ==
  ASSUME IInv, HInv, NEW s \in Syncers, SyncStore(s)
  PROVE  HInv'
<1> USE DEF HInv, fits, usage, history
<1>1. /\ stored' = stored + 1 /\ sync'[s].at = "stored" /\ sync'[s].loaded = 0
      /\ \A q \in Syncers : q # s => sync'[q] = sync[q]
      /\ UNCHANGED <<catalog, events, record, tasks, pending, overtaken, behind>>
  BY DEF IInv, PricesOK, SyncStore, SyncGoto
<1>2. catalog' # stored' /\ catalog' <= stored'
  BY <1>1, Numbers DEF CatalogsBelow
<1>3. CatalogsBelow'
  BY <1>1, <1>2, Numbers DEF CatalogsBelow
<1>4. Carried' /\ RecordsCurrent'
  BY <1>1, <1>2 DEF Carried, Carrying, RecordsCurrent
<1>5. Covered' /\ Promised'
  BY <1>2 DEF Covered, Promised, CatalogWanted
<1> QED BY <1>3, <1>4, <1>5

LEMMA SyncLoadH ==
  ASSUME IInv, HInv, NEW s \in Syncers, SyncLoad(s)
  PROVE  HInv'
<1> USE DEF HInv, fits, usage
<1>1. /\ sync[s].at = "stored"
      /\ \A q \in Syncers : q # s => sync'[q] = sync[q]
      /\ UNCHANGED <<stored, catalog, events, record, tasks, pending, behind>>
      /\ \/ sync'[s].at = "loaded" /\ sync'[s].loaded = stored /\ overtaken' = overtaken
         \/ sync'[s].at = Idle /\ sync'[s].loaded = 0 /\ overtaken'
  BY DEF IInv, PricesOK, SyncLoad, SyncGoto, Idle
<1>2. CatalogsBelow'
  <2>1. ~overtaken' => ~overtaken
    BY <1>1, Zenon
  <2>2. \A q \in Syncers : sync'[q].loaded <= stored
    BY <1>1, Numbers DEF CatalogsBelow
  <2> QED BY <1>1, <2>1, <2>2 DEF CatalogsBelow
<1>3. Carried' /\ RecordsCurrent'
  BY <1>1 DEF Carried, Carrying, RecordsCurrent
<1>4. CatalogWanted => CatalogWanted'
  BY <1>1 DEF CatalogWanted
<1>5. Covered' /\ Promised'
  BY <1>1, <1>4 DEF Covered, Promised
<1> QED BY <1>2, <1>3, <1>5

\* Publishing the newest list asks for a repricing; nobody was writing a request then.
LEMMA SyncPublishH ==
  ASSUME IInv, HInv, NEW s \in Syncers, SyncPublish(s)
  PROVE  HInv'
<1> USE DEF HInv, fits, usage
<1>1. /\ sync[s].at = "loaded" /\ catalog' = sync[s].loaded
      /\ overtaken' = (overtaken \/ sync[s].loaded < catalog)
      /\ sync'[s].at = (IF sync[s].loaded # catalog THEN "queue" ELSE Idle)
      /\ sync'[s].loaded = 0
      /\ \A q \in Syncers : q # s => sync'[q] = sync[q]
      /\ UNCHANGED <<stored, events, record, tasks, pending, behind>>
  BY DEF IInv, PricesOK, SyncPublish, SyncGoto, Idle
<1>2. ~overtaken' => ~overtaken /\ catalog <= catalog'
  <2>1. ~overtaken' => ~overtaken /\ ~(sync[s].loaded < catalog)
    BY <1>1, Zenon
  <2> QED BY <1>1, <2>1, Numbers
<1>3. CatalogsBelow'
  <2>1. catalog' <= stored' /\ \A q \in Syncers : sync'[q].loaded <= stored'
    BY <1>1, Numbers DEF CatalogsBelow
  <2>2. ~overtaken' => \A t \in 1..Len(tasks) :
          tasks[t].at \in {"queued", "writing", "restoring"} => tasks[t].catalog <= catalog'
    BY <1>1, <1>2, Numbers DEF CatalogsBelow
  <2> QED BY <1>1, <2>1, <2>2, Numbers DEF CatalogsBelow
<1>4. Carried'
  <2> SUFFICES ASSUME ~overtaken', catalog' # stored' PROVE \E q \in Syncers : Carrying(q)'
    BY DEF Carried
  <2>1. PICK q \in Syncers : Carrying(q)
    <3>1. catalog # stored
      BY <1>1, <1>2, Numbers DEF CatalogsBelow
    <3> QED BY <1>2, <3>1 DEF Carried
  <2>2. q # s
    BY <1>1, <2>1 DEF Carrying
  <2> QED BY <1>1, <2>1, <2>2 DEF Carrying
<1>5. RecordsCurrent'
  BY <1>1 DEF RecordsCurrent, SyncPublish, NoReader, Idle
<1>6. CatalogWanted => CatalogWanted'
  <2>1. CASE catalog # stored
    BY <1>1, <2>1 DEF CatalogWanted
  <2>2. CASE catalog = stored
    <3>1. sync[s].loaded # catalog => sync'[s].at = "queue"
      BY <1>1
    <3> QED BY <1>1, <2>2, <3>1 DEF CatalogWanted
  <2> QED BY <2>1, <2>2
<1>7. Covered' /\ Promised'
  BY <1>1, <1>2, <1>6 DEF Covered, Promised
<1> QED BY <1>3, <1>4, <1>5, <1>7

\* A refused request sets its flag.
LEMMA SyncRefusedH ==
  ASSUME IInv, HInv, NEW s \in Syncers, SyncRefused(s)
  PROVE  HInv'
<1> USE DEF HInv, fits, usage, history
<1>1. /\ sync[s].at = "refused" /\ sync'[s].at = Idle /\ sync'[s].loaded = 0
      /\ \A q \in Syncers : q # s => sync'[q] = sync[q]
      /\ "catalog" \in pending'
      /\ UNCHANGED <<stored, catalog, events, record, tasks, overtaken, behind>>
  BY DEF IInv, PricesOK, SyncRefused, SyncGoto, Idle
<1>2. CatalogsBelow'
  <2>1. 0 <= stored
    BY Numbers
  <2> QED BY <1>1, <2>1 DEF CatalogsBelow
<1>3. Carried' /\ RecordsCurrent'
  BY <1>1 DEF Carried, Carrying, RecordsCurrent
<1>4. Covered' /\ Promised'
  BY <1>1 DEF Covered, Promised, CatalogWanted
<1> QED BY <1>2, <1>3, <1>4

\* Whoever starts a task leaves what the history is promised to that task.
LEMMA StartedH ==
  ASSUME IInv, HInv, Started,
         UNCHANGED <<stored, catalog, events, record, overtaken, behind>>,
         \A q \in Syncers : sync'[q].loaded <= sync[q].loaded /\ sync'[q].loaded \in Nat,
         \A q \in Syncers : Carrying(q) => sync'[q] = sync[q]
  PROVE  HInv'
<1> USE DEF HInv
<1>1. /\ Len(tasks') = Len(tasks) + 1
      /\ \A t \in 1..Len(tasks) : tasks'[t] = tasks[t] /\ tasks[t].at \notin Running
      /\ tasks'[Len(tasks) + 1] = NewTask
  BY Grown
<1>2. \A t \in 1..Len(tasks') : t \in 1..Len(tasks) \/ t = Len(tasks) + 1
  BY <1>1, Numbers
<1>3. NewTask.at = "queued" /\ NewTask.catalog = catalog
  BY DEF NewTask
<1>4. CatalogsBelow'
  <2>1. catalog' <= stored' /\ \A q \in Syncers : sync'[q].loaded <= stored'
    BY Numbers DEF CatalogsBelow
  <2>2. \A t \in 1..Len(tasks') :
          tasks'[t].at \in {"queued", "writing", "restoring"} => tasks'[t].catalog = catalog'
    BY <1>1, <1>2, <1>3 DEF Running
  <2> QED BY <2>1, <2>2, Numbers DEF CatalogsBelow
<1>5. Carried' /\ RecordsCurrent'
  BY DEF Carried, Carrying, RecordsCurrent
<1>6. Covered'
  BY <1>1, <1>2, <1>3 DEF Covered, Running
<1>7. Promised'
  <2>1. Len(tasks) + 1 \in 1..Len(tasks')
    BY <1>1, Numbers
  <2> QED BY <1>1, <1>3, <2>1 DEF Promised
<1> QED BY <1>4, <1>5, <1>6, <1>7

LEMMA SyncQueueH ==
  ASSUME IInv, HInv, NEW s \in Syncers, SyncQueue(s)
  PROVE  HInv'
<1> USE DEF SyncQueue, fits, usage, history
<1>1. /\ sync[s].at = "queue" /\ sync'[s].loaded = 0
      /\ \A q \in Syncers : q # s => sync'[q] = sync[q]
      /\ UNCHANGED <<stored, catalog, events, record, pending, overtaken, behind>>
  BY DEF IInv, PricesOK, SyncGoto, Idle
<1>2. CASE Started
  <2>1. /\ \A q \in Syncers : sync'[q].loaded <= sync[q].loaded /\ sync'[q].loaded \in Nat
        /\ \A q \in Syncers : Carrying(q) => sync'[q] = sync[q]
    BY <1>1, Numbers DEF Carrying
  <2> QED BY <1>1, <1>2, <2>1, StartedH
<1>3. CASE sync'[s].at = "refused" /\ UNCHANGED tasks
  <2>1. CatalogsBelow'
    BY <1>1, <1>3, Numbers DEF HInv, CatalogsBelow
  <2>2. Carried' /\ RecordsCurrent'
    BY <1>1, <1>3 DEF HInv, Carried, Carrying, RecordsCurrent
  <2>3. Covered' /\ Promised'
    BY <1>1, <1>3 DEF HInv, Covered, Promised, CatalogWanted
  <2> QED BY <2>1, <2>2, <2>3 DEF HInv
<1>4. SyncGoto(s, "refused") => sync'[s].at = "refused"
  BY DEF IInv, PricesOK, SyncGoto
<1> QED BY <1>2, <1>3, <1>4

(***************************************************************************)
(* Fits, settings, and the ends of tasks, which change nothing of this.    *)
(***************************************************************************)

LEMMA StillH ==
  ASSUME IInv, HInv, UNCHANGED <<stored, catalog, sync, events, behind>>,
         overtaken => overtaken',
         Len(tasks') = Len(tasks),
         \A t \in 1..Len(tasks) :
           tasks[t].at \in {"queued", "writing", "restoring"} \/ tasks'[t].at \in {"queued", "writing", "restoring"} =>
             tasks'[t] = tasks[t],
         \A r \in Recorders : record'[r].at = "write" =>
           record'[r] = record[r] \/ record'[r].prices = stored,
         CatalogWanted => CatalogWanted'
  PROVE  HInv'
<1> USE DEF HInv
<1>1. CatalogsBelow'
  BY DEF CatalogsBelow
<1>2. Carried'
  BY DEF Carried, Carrying
<1>3. RecordsCurrent'
  BY DEF RecordsCurrent
<1>4. Covered'
  BY DEF Covered
<1>5. Promised'
  BY DEF Promised
<1> QED BY <1>1, <1>2, <1>3, <1>4, <1>5

LEMMA FitH ==
  ASSUME IInv, HInv, NEW f \in Fitters,
         FitSave(f) \/ FitApply(f) \/ FitStarted(f) \/ FitRefused(f)
  PROVE  HInv'
<1> USE DEF FitSave, FitApply, FitStarted, FitRefused, prices, usage, history
<1>1. UNCHANGED <<stored, catalog, sync, events, record, tasks, behind>>
  OBVIOUS
<1>2. overtaken => overtaken'
  BY Zenon
<1>3. CatalogWanted => CatalogWanted'
  BY DEF CatalogWanted
<1> HIDE DEF FitSave, FitApply, FitStarted, FitRefused
<1> QED BY <1>1, <1>2, <1>3, StillH

LEMMA FitQueueH ==
  ASSUME IInv, HInv, NEW f \in Fitters, FitQueue(f)
  PROVE  HInv'
<1> USE DEF FitQueue, prices, usage, history
<1>1. CASE Started
  BY <1>1, StartedH, Numbers
<1>2. CASE UNCHANGED tasks
  <2>1. CatalogWanted => CatalogWanted'
    BY <1>2 DEF CatalogWanted
  <2> QED BY <1>2, <2>1, StillH
<1> QED BY <1>1, <1>2

LEMMA SettingsH ==
  ASSUME IInv, HInv, SixHoursPass \/ SaveSettings
  PROVE  HInv'
<1> USE DEF SixHoursPass, SaveSettings, prices, usage, fits, history
<1>1. CASE SaveSettings
  BY <1>1, StartedH, Numbers
<1>2. CASE SixHoursPass
  <2>1. CatalogWanted => CatalogWanted'
    BY <1>2 DEF CatalogWanted
  <2> QED BY <1>2, <2>1, StillH
<1> QED BY <1>1, <1>2
(***************************************************************************)
(* The tasks.                                                              *)
(***************************************************************************)

\* While a task is active, no other one is.
LEMMA Alone ==
  ASSUME IInv, NEW t \in DOMAIN tasks, tasks[t].at \in Running
  PROVE  \A u \in 1..Len(tasks) : u # t => tasks[u].at \notin Running
BY Numbers DEF IInv, Exclusive

LEMMA TaskSnapshotH ==
  ASSUME IInv, HInv, NEW t \in DOMAIN tasks, TaskSnapshot(t)
  PROVE  HInv'
<1> USE DEF HInv, prices, fits, usage, history
<1> DEFINE x == [tasks[t] EXCEPT !.at = "writing", !.prices = stored, !.upto = Len(events)]
<1>1. /\ tasks' = [tasks EXCEPT ![t] = x] /\ tasks[t].at = "queued"
      /\ UNCHANGED <<stored, catalog, sync, events, record, pending, overtaken, behind>>
  BY DEF TaskSnapshot
<1>2. t \in 1..Len(tasks) /\ tasks[t] \in Task
  BY TaskFields
<1>3. /\ x.at = "writing" /\ x.prices = stored /\ x.upto = Len(events)
      /\ x.catalog = tasks[t].catalog
  BY <1>2 DEF Task
<1> HIDE DEF x
<1>4. /\ Len(tasks') = Len(tasks) /\ tasks'[t] = x
      /\ \A u \in 1..Len(tasks) : u # t => tasks'[u] = tasks[u] /\ tasks[u].at \notin Running
  BY <1>1, Changed, Alone DEF Running
<1>5. CatalogsBelow'
  BY <1>1, <1>2, <1>3, <1>4 DEF CatalogsBelow, Running
<1>6. Carried' /\ RecordsCurrent'
  BY <1>1 DEF Carried, Carrying, RecordsCurrent
<1>7. Covered'
  <2>1. \A i \in 1..Len(events) : i <= x.upto
    BY <1>3, Numbers
  <2> QED BY <1>1, <1>3, <1>4, <2>1 DEF Covered, Running
<1>8. Promised'
  BY <1>2, <1>3, <1>4 DEF Promised
<1> QED BY <1>5, <1>6, <1>7, <1>8

\* What a task writes.
LEMMA Written ==
  ASSUME IInv, NEW t \in DOMAIN tasks, TaskWrite(t)
  PROVE  /\ Len(events') = Len(events)
         /\ \A i \in 1..Len(events) : i <= tasks[t].upto =>
              events'[i].prices = tasks[t].prices /\ events'[i].fit = tasks[t].fit
         /\ \A i \in 1..Len(events) : ~(i <= tasks[t].upto) => events'[i] = events[i]
<1>1. events' = [i \in 1..Len(events) |->
                   IF i <= tasks[t].upto
                   THEN [events[i] EXCEPT !.prices = tasks[t].prices, !.fit = tasks[t].fit]
                   ELSE events[i]]
  BY Numbers DEF TaskWrite
<1>2. Len(events') = Len(events)
  <2>1. IInv'
    BY TaskWriteInv
  <2>2. events' \in Seq(Event)
    BY <2>1 DEF IInv, UsageOK, Sound
  <2>3. DOMAIN events' = 1..Len(events)
    BY <1>1
  <2>4. DOMAIN events' = 1..Len(events') /\ Len(events') \in Nat
    BY <2>2, LenProperties
  <2>5. Len(events) \in Nat
    BY Numbers
  <2> QED BY <2>3, <2>4, <2>5
<1>3. \A i \in 1..Len(events) : events[i] \in Event
  BY ElementOfSeq DEF IInv, UsageOK, Sound
<1> QED BY <1>1, <1>2, <1>3 DEF Event

\* What was priced before the snapshot is written now, what was priced since has the
\* newest prices, or another task is going to come.
LEMMA TaskWriteH ==
  ASSUME IInv, HInv, NEW t \in DOMAIN tasks, TaskWrite(t)
  PROVE  HInv'
<1> USE DEF HInv, prices, fits
<1> DEFINE x == [tasks[t] EXCEPT !.at = "succeeded"]
<1>1. /\ tasks' = [tasks EXCEPT ![t] = x] /\ tasks[t].at = "writing"
      /\ UNCHANGED <<stored, catalog, sync, record, pending, overtaken>>
  BY DEF TaskWrite
<1>2. t \in 1..Len(tasks) /\ tasks[t] \in Task
  BY TaskFields
<1>3. x.at = "succeeded"
  BY <1>2 DEF Task
<1> HIDE DEF x
<1>4. /\ Len(tasks') = Len(tasks) /\ tasks'[t] = x
      /\ \A u \in 1..Len(tasks) : u # t => tasks'[u] = tasks[u] /\ tasks[u].at \notin Running
  BY <1>1, Changed, Alone DEF Running
<1>5. CatalogsBelow' /\ Covered'
  BY <1>1, <1>2, <1>3, <1>4 DEF CatalogsBelow, Covered, Running
<1>6. Carried' /\ RecordsCurrent'
  BY <1>1 DEF Carried, Carrying, RecordsCurrent
<1>7. Promised'
  <2> SUFFICES ASSUME ~overtaken PROVE CatalogWanted' \/ \A i \in 1..Len(events') : events'[i].prices = stored'
    BY <1>1 DEF Promised
  <2>1. CASE CatalogWanted
    <3>1. \A u \in 1..Len(tasks) : tasks[u].at \in {"queue", "read", "refused"} => tasks'[u] = tasks[u]
      BY <1>1, <1>4
    <3> QED BY <1>1, <1>4, <2>1, <3>1 DEF CatalogWanted
  <2>2. CASE /\ tasks[t].prices = stored
             /\ \A i \in 1..Len(events) : events[i].prices = stored \/ i <= tasks[t].upto
    <3>1. \A i \in 1..Len(events) : events'[i].prices = stored
      BY <1>2, <2>2, Written, Numbers
    <3> QED BY <1>1, <3>1, Written
  <2> QED BY <1>1, <1>2, <2>1, <2>2 DEF Covered
<1> QED BY <1>5, <1>6, <1>7

LEMMA TaskFailH ==
  ASSUME IInv, HInv, NEW t \in DOMAIN tasks, TaskRollBack(t) \/ TaskFail(t)
  PROVE  HInv'
<1> USE DEF HInv, usage
<1>9. PICK label \in {"restoring", "failed"} : RollbackCfg(t, label)
  BY DEF TaskRollBack, TaskFail
<1> DEFINE x == [tasks[t] EXCEPT !.at = label]
<1>1. /\ tasks' = [tasks EXCEPT ![t] = x] /\ tasks[t].at \in {"queued", "writing", "restoring"}
      /\ catalog' = tasks[t].catalog /\ behind'
      /\ overtaken' = (overtaken \/ tasks[t].catalog < catalog)
      /\ UNCHANGED <<stored, sync, events, record, pending>>
  BY <1>9 DEF TaskRollBack, TaskFail, RollbackCfg
<1>2. t \in 1..Len(tasks) /\ tasks[t] \in Task
  BY TaskFields
<1>3. x.at = label /\ x.catalog = tasks[t].catalog
  BY <1>2 DEF Task
<1> HIDE DEF x
<1>4. /\ Len(tasks') = Len(tasks) /\ tasks'[t] = x
      /\ \A u \in 1..Len(tasks) : u # t => tasks'[u] = tasks[u] /\ tasks[u].at \notin Running
  BY <1>1, Changed, Alone DEF Running
<1>5. ~overtaken' => ~overtaken /\ catalog' = catalog
  <2>1. ~overtaken' => ~overtaken /\ ~(tasks[t].catalog < catalog)
    BY <1>1, Zenon
  <2>2. ~overtaken => tasks[t].catalog <= catalog
    BY <1>1, <1>2 DEF CatalogsBelow
  <2> QED BY <1>1, <1>2, <2>1, <2>2, Numbers
<1>6. CatalogsBelow'
  <2>1. catalog' <= stored
    BY <1>1, <1>2 DEF CatalogsBelow
  <2>2. \A u \in 1..Len(tasks') : tasks'[u].at \in {"queued", "writing", "restoring"} =>
          tasks'[u].catalog = catalog'
    BY <1>1, <1>3, <1>4 DEF Running
  <2>3. catalog' <= catalog'
    BY <1>1, <1>2, Numbers
  <2> QED BY <1>1, <2>1, <2>2, <2>3 DEF CatalogsBelow
<1>7. Carried' /\ RecordsCurrent'
  BY <1>1, <1>5 DEF Carried, Carrying, RecordsCurrent
<1>8. Covered' /\ Promised'
  BY <1>1, <1>3, <1>4 DEF Covered, Promised, Running
<1> QED BY <1>6, <1>7, <1>8

LEMMA TaskEndsH ==
  ASSUME IInv, HInv, NEW t \in DOMAIN tasks,
         \/ TaskReport(t) \/ TaskTake(t) \/ TaskRead(t)
         \/ TaskStarted(t) \/ TaskRefused(t) \/ TaskReturn(t)
  PROVE  HInv'
<1> USE DEF prices, fits, usage, history
<1>1. t \in 1..Len(tasks) /\ tasks[t] \in Task
  BY TaskFields
<1>2. UNCHANGED <<stored, catalog, sync, events, record, overtaken, behind>>
  BY DEF TaskReport, TaskTake, TaskRead, TaskStarted, TaskRefused, TaskReturn
<1>3. ASSUME NEW x, tasks' = [tasks EXCEPT ![t] = x],
             x.at \notin {"queued", "writing", "restoring"}, tasks[t].at \notin {"queued", "writing", "restoring"},
             tasks[t].at \in {"queue", "read", "refused"} /\ "catalog" \in tasks[t].todo =>
               \/ "catalog" \in pending'
               \/ x.at \in {"queue", "read", "refused"} /\ "catalog" \in x.todo,
             "catalog" \in pending =>
               \/ "catalog" \in pending'
               \/ x.at \in {"queue", "read", "refused"} /\ "catalog" \in x.todo
      PROVE  HInv'
  <2>1. /\ Len(tasks') = Len(tasks) /\ tasks'[t] = x
        /\ \A u \in 1..Len(tasks) : u # t => tasks'[u] = tasks[u]
    BY <1>3, Changed
  <2>2. CatalogWanted => CatalogWanted'
    BY <1>1, <1>2, <1>3, <2>1 DEF CatalogWanted
  <2> QED BY <1>2, <1>3, <2>1, <2>2, StillH
<1>4. CASE TaskReport(t)
  <2> DEFINE x == Ended(IF tasks[t].at = "succeeded" THEN "repriced" ELSE "rolled_back",
                        tasks[t].fit, {})
  <2>1. tasks' = [tasks EXCEPT ![t] = x] /\ tasks[t].at \in {"succeeded", "failed"}
        /\ x.at \in {"repriced", "rolled_back"} /\ pending' = pending
    BY <1>4 DEF TaskReport, Ended
  <2> HIDE DEF x
  <2> QED BY <1>3, <2>1
<1>5. CASE TaskTake(t)
  <2> DEFINE x == Ended("queue", 0, pending)
  <2>1. tasks' = [tasks EXCEPT ![t] = x] /\ tasks[t].at \in {"repriced", "rolled_back"}
        /\ x.at = "queue" /\ x.todo = pending
    BY <1>5 DEF TaskTake, Ended
  <2> HIDE DEF x
  <2> QED BY <1>3, <2>1
<1>6. CASE TaskStarted(t)
  <2> DEFINE x == [tasks[t] EXCEPT !.at = "queue", !.todo = tasks[t].todo \ {Wanted(t)}]
  <2>1. tasks' = [tasks EXCEPT ![t] = x] /\ tasks[t].at = "started" /\ pending' = pending
    BY <1>1, <1>6, Numbers DEF TaskStarted, Served, Task
  <2>2. x.at = "queue"
    BY <1>1 DEF Task
  <2> HIDE DEF x
  <2> QED BY <1>3, <2>1, <2>2
<1>7. CASE TaskRefused(t)
  <2> DEFINE x == [tasks[t] EXCEPT !.at = "queue", !.todo = tasks[t].todo \ {Wanted(t)}]
  <2>1. tasks' = [tasks EXCEPT ![t] = x] /\ tasks[t].at = "refused"
        /\ pending' = pending \cup {Wanted(t)}
    BY <1>1, <1>7, Numbers DEF TaskRefused, Served, Task
  <2>2. x.at = "queue"
    BY <1>1 DEF Task
  <2>3. "catalog" \in tasks[t].todo => "catalog" \in pending'
    BY <2>1 DEF Wanted
  <2> HIDE DEF x
  <2> QED BY <1>3, <2>1, <2>2, <2>3
<1>8. CASE TaskReturn(t)
  <2>1. tasks' = [tasks EXCEPT ![t] = Finished] /\ tasks[t].at = "queue" /\ tasks[t].todo = {}
        /\ Finished.at = "finished" /\ pending' = pending
    BY <1>8 DEF TaskReturn, Finished, Ended
  <2> QED BY <1>3, <2>1
<1>9. CASE TaskRead(t)
  <2> DEFINE x == [tasks[t] EXCEPT !.at = "read", !.fit = fit]
  <2>1. tasks' = [tasks EXCEPT ![t] = x] /\ tasks[t].at = "queue" /\ pending' = pending
    BY <1>1, <1>9, Numbers DEF TaskRead, Task
  <2>2. x.at = "read" /\ x.todo = tasks[t].todo
    BY <1>1 DEF Task
  <2> HIDE DEF x
  <2> QED BY <1>3, <2>1, <2>2
<1> QED BY <1>4, <1>5, <1>6, <1>7, <1>8, <1>9

LEMMA TaskQueueH ==
  ASSUME IInv, HInv, NEW t \in DOMAIN tasks, TaskQueue(t)
  PROVE  HInv'
<1> USE DEF prices, fits, usage, history
<1>1. t \in 1..Len(tasks) /\ tasks[t] \in Task /\ tasks[t].at = "read"
  BY TaskFields DEF TaskQueue
<1>2. UNCHANGED <<stored, catalog, sync, events, record, pending, overtaken, behind>>
  BY DEF TaskQueue
<1>3. PICK label \in {"queue", "refused", "started"}, todo \in SUBSET Kinds :
        LET x == [tasks[t] EXCEPT !.at = label, !.fit = 0, !.todo = todo]
        IN  /\ "catalog" \in tasks[t].todo /\ label # "started" => "catalog" \in todo
            /\ IF label = "started"
               THEN CanStart /\ tasks' = Append([tasks EXCEPT ![t] = x], NewTask)
               ELSE tasks' = [tasks EXCEPT ![t] = x]
  BY TaskQueueStep
<1> DEFINE x == [tasks[t] EXCEPT !.at = label, !.fit = 0, !.todo = todo]
           ts == [tasks EXCEPT ![t] = x]
<1>4. /\ x \in Task /\ x.at = label /\ x.todo = todo /\ x.at \notin Running
      /\ Exclusive(ts, fit)
  <2>1. x \in Task /\ x.at \notin Running /\ Exclusive(ts, fit)
    BY LeaveInv
  <2>2. x.at = label /\ x.todo = todo
    BY <1>1 DEF Task
  <2> HIDE DEF x
  <2> QED BY <2>1, <2>2
<1>5. /\ "catalog" \in tasks[t].todo /\ label # "started" => "catalog" \in x.todo
      /\ IF label = "started" THEN CanStart /\ tasks' = Append(ts, NewTask) ELSE tasks' = ts
  BY <1>3, <1>4
<1> HIDE DEF x
<1>6. CASE label # "started"
  <2>1. /\ Len(tasks') = Len(tasks) /\ tasks'[t] = x
        /\ \A u \in 1..Len(tasks) : u # t => tasks'[u] = tasks[u]
    BY <1>5, <1>6, Changed
  <2>2. CatalogWanted => CatalogWanted'
    BY <1>1, <1>2, <1>4, <1>5, <1>6, <2>1 DEF CatalogWanted
  <2> QED BY <1>1, <1>2, <1>4, <1>6, <2>1, <2>2, StillH
<1>7. CASE label = "started"
  <2>2. /\ NewTask \in Task /\ NewTask.at = "queued" /\ NewTask.catalog = catalog
        /\ \A u \in 1..Len(tasks) : tasks[u].at \notin Running
    BY <1>5, <1>7, StartedInv DEF NewTask
  <2>3. /\ ts \in Seq(Task) /\ Len(ts) = Len(tasks)
        /\ \A u \in 1..Len(tasks) : ts[u].at \notin Running
    <3>1. tasks \in Seq(Task)
      BY DEF IInv, Exclusive
    <3>2. /\ ts \in Seq(Task) /\ Len(ts) = Len(tasks)
          /\ \A u \in 1..Len(tasks) : ts[u] = IF u = t THEN x ELSE tasks[u]
      BY <1>1, <1>4, <3>1, ExceptSeq
    <3> QED BY <1>4, <2>2, <3>2
  <2>4. tasks' = Append(ts, NewTask)
    BY <1>5, <1>7
  <2> HIDE DEF ts
  <2>5. /\ Len(tasks') = Len(tasks) + 1 /\ tasks'[Len(tasks) + 1] = NewTask
        /\ \A u \in 1..Len(tasks) : tasks'[u].at \notin Running
    BY <2>2, <2>3, <2>4, AppendProperties
  <2>6. \A u \in 1..Len(tasks') : u \in 1..Len(tasks) \/ u = Len(tasks) + 1
    BY <2>5, Numbers
  <2>7. CatalogsBelow'
    <3>1. \A u \in 1..Len(tasks') :
            tasks'[u].at \in {"queued", "writing", "restoring"} => tasks'[u].catalog = catalog
      BY <2>2, <2>5, <2>6 DEF Running
    <3>2. /\ catalog' = catalog /\ stored' = stored /\ sync' = sync
          /\ catalog \in Nat /\ stored \in Nat /\ catalog <= stored
          /\ \A s \in Syncers : sync[s].loaded <= stored
      BY <1>2, Numbers DEF HInv, CatalogsBelow
    <3> QED BY <3>1, <3>2 DEF CatalogsBelow
  <2>8. Carried' /\ RecordsCurrent'
    BY <1>2 DEF HInv, Carried, Carrying, RecordsCurrent
  <2>9. Covered'
    BY <2>2, <2>5, <2>6 DEF Covered, Running
  <2>10. Promised'
    <3>1. Len(tasks) + 1 \in 1..Len(tasks')
      BY <2>5, Numbers
    <3> QED BY <2>2, <2>5, <3>1 DEF Promised
  <2> QED BY <2>7, <2>8, <2>9, <2>10 DEF HInv
<1> QED BY <1>6, <1>7

(***************************************************************************)
(* The recorders, and a restart.                                           *)
(***************************************************************************)

LEMMA RecordH ==
  ASSUME IInv, HInv, NEW r \in Recorders,
         (\E id \in Requests : RecordUsage(r, id)) \/ GiveUp(r)
  PROVE  HInv'
<1> USE DEF RecordUsage, GiveUp, Return, prices, fits, history
<1>1. UNCHANGED <<stored, catalog, sync, events, tasks, pending, overtaken, behind>>
  OBVIOUS
<1>2. CatalogWanted => CatalogWanted'
  BY <1>1 DEF CatalogWanted
<1>3. \A q \in Recorders : record'[q].at = "write" =>
        record'[q] = record[q] \/ record'[q].prices = stored
  BY DEF IInv, RecordsOK, NoEvent, Idle
<1> HIDE DEF RecordUsage, GiveUp
<1> QED BY <1>1, <1>2, <1>3, StillH

\* A request that was priced before the newest list is inserted before that list is
\* published, and so before its repricing is asked for.
LEMMA AttemptH ==
  ASSUME IInv, HInv, NEW r \in Recorders, AttemptSucceeds(r) \/ AttemptFails(r)
  PROVE  HInv'
<1> USE DEF AttemptSucceeds, AttemptFails, Return, prices, fits, history, HInv
<1>1. /\ UNCHANGED <<stored, catalog, sync, tasks, pending, overtaken, behind>>
      /\ record[r].at = "write" /\ events' \in {events, Inserted(r)}
  OBVIOUS
<1>2. \A q \in Recorders : record'[q].at = "write" =>
        record[q].at = "write" /\ record'[q].prices = record[q].prices
  <2>1. record[r] \in Attempt
    BY InsertedInv, <1>1
  <2> QED BY <2>1 DEF IInv, RecordsOK, NoEvent, Idle, Attempt
<1> HIDE DEF AttemptSucceeds, AttemptFails
<1>3. CatalogsBelow' /\ Carried' /\ RecordsCurrent'
  BY <1>1, <1>2 DEF CatalogsBelow, Carried, Carrying, RecordsCurrent
<1>4. CatalogWanted <=> CatalogWanted'
  BY <1>1 DEF CatalogWanted
<1>5. ~overtaken => Row(r).prices = stored \/ CatalogWanted
  BY <1>1 DEF Row, RecordsCurrent, CatalogWanted
<1>6. \A i \in 1..Len(events') :
        \/ i \in 1..Len(events) /\ events'[i] = events[i]
        \/ i = Len(events) + 1 /\ events'[i] = Row(r)
  BY <1>1, EventsGrow
<1>7. Covered' /\ Promised'
  BY <1>1, <1>4, <1>5, <1>6 DEF Covered, Promised
<1> QED BY <1>3, <1>7

LEMMA RestartH ==
  ASSUME IInv, HInv, Restart
  PROVE  HInv'
<1> USE DEF Restart
<1>1. \A t \in 1..Len(tasks') : tasks'[t].at = "finished"
  <2>1. DOMAIN tasks' = 1..Len(tasks')
    <3>1. IInv'
      BY RestartInv
    <3> QED BY <3>1, LenProperties DEF IInv, Exclusive
  <2> QED BY <2>1 DEF Finished, Ended
<1>2. CatalogsBelow'
  BY <1>1, Numbers DEF CatalogsBelow
<1>3. Carried' /\ RecordsCurrent'
  BY DEF Carried, RecordsCurrent, NoEvent, Idle
<1>4. Covered'
  BY <1>1 DEF Covered
<1>5. Promised'
  <2>1. ~behind' => \A i \in 1..Len(events) : events[i].prices = stored
    BY Numbers
  <2> QED BY <2>1 DEF Promised
<1> QED BY <1>2, <1>3, <1>4, <1>5 DEF HInv

(***************************************************************************)
(* The theorem about the prices.                                           *)
(***************************************************************************)

LEMMA InitH == Init => HInv
<1> SUFFICES ASSUME Init PROVE HInv
  OBVIOUS
<1>1. Len(tasks) = 0 /\ Len(events) = 0
  BY DEF Init
<1> QED BY <1>1 DEF Init, HInv, CatalogsBelow, Carried, RecordsCurrent, Covered, Promised, NoEvent, Idle

LEMMA NextH == IInv /\ HInv /\ [Next]_vars => HInv'
<1> SUFFICES ASSUME IInv, HInv, [Next]_vars PROVE HInv'
  OBVIOUS
<1>1. ASSUME NEW s \in Syncers,
             \/ SyncStore(s) \/ SyncLoad(s) \/ SyncPublish(s) \/ SyncQueue(s) \/ SyncRefused(s)
      PROVE  HInv'
  BY <1>1, SyncStoreH, SyncLoadH, SyncPublishH, SyncQueueH, SyncRefusedH
<1>2. ASSUME NEW f \in Fitters,
             \/ FitSave(f) \/ FitApply(f) \/ FitQueue(f) \/ FitStarted(f) \/ FitRefused(f)
      PROVE  HInv'
  BY <1>2, FitH, FitQueueH
<1>3. CASE SixHoursPass \/ SaveSettings
  BY <1>3, SettingsH
<1>4. ASSUME NEW t \in DOMAIN tasks,
             \/ TaskSnapshot(t) \/ TaskWrite(t) \/ TaskRollBack(t) \/ TaskFail(t) \/ TaskReport(t)
             \/ TaskTake(t) \/ TaskRead(t) \/ TaskQueue(t) \/ TaskStarted(t) \/ TaskRefused(t) \/ TaskReturn(t)
      PROVE  HInv'
  BY <1>4, TaskSnapshotH, TaskWriteH, TaskFailH, TaskEndsH, TaskQueueH
<1>5. ASSUME NEW r \in Recorders,
             \/ \E id \in Requests : RecordUsage(r, id)
             \/ AttemptSucceeds(r) \/ AttemptFails(r) \/ GiveUp(r)
      PROVE  HInv'
  BY <1>5, RecordH, AttemptH
<1>6. CASE Restart
  BY <1>6, RestartH
<1>7. CASE UNCHANGED vars
  <2>1. CatalogWanted => CatalogWanted'
    BY <1>7 DEF vars, prices, fits, usage, history, CatalogWanted
  <2> QED BY <1>7, <2>1, StillH DEF vars, prices, fits, usage, history
<1> QED BY <1>1, <1>2, <1>3, <1>4, <1>5, <1>6, <1>7 DEF Next

\* When everything has come to rest, and no failure, restart or overtaken publication
\* was in the way, every cost of the history is that of the stored prices.
THEOREM HistoryFollows == Spec => []HistoryFollowsCatalog
<1>1. IInv /\ HInv => HistoryFollowsCatalog
  <2> SUFFICES ASSUME IInv, HInv, Quiet, pending = {}, ~behind, ~overtaken
               PROVE  \A i \in DOMAIN events : events[i].prices = stored
    BY DEF HistoryFollowsCatalog
  <2>1. catalog = stored
    BY DEF HInv, Carried, Carrying, Quiet, Idle
  <2>2. \A t \in 1..Len(tasks) : tasks[t].at = "finished"
    BY Numbers DEF Quiet
  <2>3. ~CatalogWanted
    BY <2>1, <2>2 DEF CatalogWanted, Quiet, Idle
  <2> QED BY <2>2, <2>3, Numbers DEF HInv, Promised
<1> QED BY <1>1, InitInv, NextInv, InitH, NextH, PTL DEF Spec

(***************************************************************************)
(* Why a.lastPricedFit is the fit of the history.                          *)
(***************************************************************************)

\* No task and no repricing has a newer fit than the one in memory.
FitsBelow ==
  ~overtaken => priced <= fit /\ \A t \in 1..Len(tasks) : tasks[t].fit <= fit

\* Fits change only when no request is being written.
RecordsFit == \A r \in Recorders : record[r].at = "write" => record[r].fit = fit

\* What a task does not write was priced with its fit.
CoveredFit ==
  \A t \in 1..Len(tasks) : tasks[t].at = "writing" =>
    \A i \in 1..Len(events) : events[i].fit = fit \/ i <= tasks[t].upto

\* The history has the fit that is remembered, or is about to be, unless another one
\* is in memory.
PromisedFit ==
  /\ ~overtaken /\ ~behind
  /\ \/ priced = fit
     \/ \E t \in 1..Len(tasks) :
          tasks[t].at \in {"succeeded", "repriced"} /\ tasks[t].fit = fit
  => \A i \in 1..Len(events) : events[i].fit = fit

FInv == FitsBelow /\ RecordsFit /\ CoveredFit /\ PromisedFit

\* Steps that change neither the fits nor the costs.
LEMMA StillF ==
  ASSUME IInv, FInv, UNCHANGED <<fit, events, behind>>,
         priced' = priced,
         overtaken => overtaken',
         Len(tasks') = Len(tasks),
         \A t \in 1..Len(tasks) : tasks'[t].fit \in {tasks[t].fit, fit, 0},
         \A t \in 1..Len(tasks) :
           tasks'[t].at \in {"succeeded", "repriced"} =>
             tasks'[t].fit = tasks[t].fit /\ tasks[t].at \in {"succeeded", "repriced"},
         \A t \in 1..Len(tasks) :
           tasks'[t].at = "writing" => \/ tasks'[t] = tasks[t]
                                      \/ tasks'[t].upto = Len(events),
         \A r \in Recorders : record'[r].at = "write" =>
           record'[r].fit = fit
  PROVE  FInv'
<1> USE DEF FInv
<1>1. FitsBelow'
  <2>1. \A t \in 1..Len(tasks) : tasks[t].fit <= fit => tasks'[t].fit <= fit
    BY Numbers
  <2> QED BY <2>1 DEF FitsBelow
<1>2. RecordsFit'
  BY DEF RecordsFit
<1>3. CoveredFit'
  BY Numbers DEF CoveredFit
<1>4. PromisedFit'
  BY DEF PromisedFit
<1> QED BY <1>1, <1>2, <1>3, <1>4

\* A task that is started has the fit in memory and has written nothing.
LEMMA StartedF ==
  ASSUME IInv, FInv, Started, UNCHANGED <<fit, priced, events, record, overtaken, behind>>
  PROVE  FInv'
<1> USE DEF FInv
<1>1. /\ Len(tasks') = Len(tasks) + 1
      /\ \A t \in 1..Len(tasks) : tasks'[t] = tasks[t] /\ tasks[t].at \notin Running
      /\ tasks'[Len(tasks) + 1] = NewTask
  BY Grown
<1>2. \A t \in 1..Len(tasks') : t \in 1..Len(tasks) \/ t = Len(tasks) + 1
  BY <1>1, Numbers
<1>3. NewTask.at = "queued" /\ NewTask.fit = fit
  BY DEF NewTask
<1>4. FitsBelow'
  BY <1>1, <1>2, <1>3, Numbers DEF FitsBelow
<1>5. RecordsFit' /\ CoveredFit' /\ PromisedFit'
  BY <1>1, <1>2, <1>3 DEF RecordsFit, CoveredFit, PromisedFit
<1> QED BY <1>4, <1>5

LEMMA SyncF ==
  ASSUME IInv, FInv, NEW s \in Syncers,
         SyncStore(s) \/ SyncLoad(s) \/ SyncPublish(s) \/ SyncQueue(s) \/ SyncRefused(s)
  PROVE  FInv'
<1> USE DEF SyncStore, SyncLoad, SyncPublish, SyncRefused, SyncQueue, fits, usage, history
<1>1. UNCHANGED <<fit, priced, events, record, behind>>
  OBVIOUS
<1>2. overtaken => overtaken'
  BY Zenon
<1>3. CASE UNCHANGED tasks
  BY <1>1, <1>2, <1>3, StillF DEF FInv, RecordsFit
<1>4. CASE SyncQueue(s) /\ Started
  BY <1>1, <1>4, StartedF
<1> QED BY <1>3, <1>4

\* A new fit is not the one that any task or the history is remembered by.
LEMMA FitApplyF ==
  ASSUME IInv, FInv, NEW f \in Fitters, FitApply(f)
  PROVE  FInv'
<1> USE DEF FInv, FitApply, prices, usage
<1>1. CASE UNCHANGED <<fit, overtaken>>
  <2>1. UNCHANGED <<fit, priced, events, record, tasks, overtaken, behind>>
    BY <1>1
  <2> QED BY <2>1, StillF DEF RecordsFit
<1>2. CASE ~Active /\ fit' = fitter[f].fit /\ overtaken' = (overtaken \/ fit' < fit)
  <2>1. /\ fit' = fitter[f].fit /\ overtaken' = (overtaken \/ fit' < fit)
        /\ UNCHANGED <<priced, events, record, tasks, behind>>
    BY <1>2
  <2>2. fit' \in Nat
    BY FitInv, Numbers, RepricingAssumption DEF IInv, FitsOK
  <2>3. ~overtaken' => ~overtaken /\ fit <= fit'
    <3>1. ~overtaken' => ~overtaken /\ ~(fit' < fit)
      BY <2>1, Zenon
    <3> QED BY <2>2, <3>1, Numbers
  <2>4. \A t \in 1..Len(tasks) : tasks[t].at # "writing"
    BY <1>2, Numbers DEF Active, RunningTask
  <2>5. FitsBelow'
    BY <2>1, <2>2, <2>3, Numbers DEF FitsBelow
  <2>6. RecordsFit'
    BY <2>1 DEF RecordsFit, NoReader, Idle
  <2>7. CoveredFit'
    BY <2>1, <2>4 DEF CoveredFit
  <2>8. PromisedFit'
    <3>1. CASE fit' = fit
      BY <2>1, <2>3, <3>1 DEF PromisedFit
    <3>2. CASE fit' # fit
      <4>1. ~overtaken' => priced # fit' /\ \A t \in 1..Len(tasks) : tasks[t].fit # fit'
        BY <2>2, <2>3, <3>2, Numbers DEF FitsBelow
      <4> QED BY <2>1, <4>1 DEF PromisedFit
    <3> QED BY <3>1, <3>2
  <2> QED BY <2>5, <2>6, <2>7, <2>8
<1> QED BY <1>1, <1>2

LEMMA FitF ==
  ASSUME IInv, FInv, NEW f \in Fitters,
         FitSave(f) \/ FitQueue(f) \/ FitStarted(f) \/ FitRefused(f)
  PROVE  FInv'
<1> USE DEF FitSave, FitQueue, FitStarted, FitRefused, prices, usage, history
<1>1. UNCHANGED <<fit, priced, events, record, overtaken, behind>>
  OBVIOUS
<1>2. CASE UNCHANGED tasks
  BY <1>1, <1>2, StillF DEF FInv, RecordsFit
<1>3. CASE Started
  BY <1>1, <1>3, StartedF
<1> QED BY <1>2, <1>3

LEMMA SettingsF ==
  ASSUME IInv, FInv, SixHoursPass \/ SaveSettings
  PROVE  FInv'
<1> USE DEF SixHoursPass, SaveSettings, prices, usage, fits, history
<1>1. CASE SaveSettings
  BY <1>1, StartedF
<1>2. CASE SixHoursPass
  BY <1>2, StillF DEF FInv, RecordsFit
<1> QED BY <1>1, <1>2
\* One task changes; it has written nothing more and has no other fit.
LEMMA ChangedF ==
  ASSUME IInv, FInv, NEW t \in DOMAIN tasks, NEW x, tasks' = [tasks EXCEPT ![t] = x],
         UNCHANGED <<fit, priced, events, record, overtaken, behind>>,
         x.fit \in {tasks[t].fit, fit, 0},
         x.at \in {"succeeded", "repriced"} =>
           x.fit = tasks[t].fit /\ tasks[t].at \in {"succeeded", "repriced"},
         x.at = "writing" => x.upto = Len(events)
  PROVE  FInv'
<1>1. /\ Len(tasks') = Len(tasks) /\ tasks'[t] = x
      /\ \A u \in 1..Len(tasks) : u # t => tasks'[u] = tasks[u]
  BY Changed
<1>2. \A r \in Recorders : record'[r].at = "write" => record'[r].fit = fit
  BY DEF FInv, RecordsFit
<1> QED BY <1>1, <1>2, StillF

LEMMA TaskF ==
  ASSUME IInv, FInv, NEW t \in DOMAIN tasks,
         \/ TaskSnapshot(t) \/ TaskReport(t) \/ TaskRead(t)
         \/ TaskStarted(t) \/ TaskRefused(t) \/ TaskReturn(t)
  PROVE  FInv'
<1> USE DEF prices, fits, usage, history
<1>1. t \in 1..Len(tasks) /\ tasks[t] \in Task
  BY TaskFields
<1>2. UNCHANGED <<fit, priced, events, record, overtaken, behind>>
  BY DEF TaskSnapshot, TaskReport, TaskRead, TaskStarted, TaskRefused, TaskReturn
<1>3. CASE TaskSnapshot(t)
  <2> DEFINE x == [tasks[t] EXCEPT !.at = "writing", !.prices = stored, !.upto = Len(events)]
  <2>1. tasks' = [tasks EXCEPT ![t] = x]
    BY <1>3 DEF TaskSnapshot
  <2>2. x.at = "writing" /\ x.upto = Len(events) /\ x.fit = tasks[t].fit
    BY <1>1 DEF Task
  <2> HIDE DEF x
  <2> QED BY <1>2, <2>1, <2>2, ChangedF
<1>4. CASE TaskReport(t)
  <2> DEFINE x == Ended(IF tasks[t].at = "succeeded" THEN "repriced" ELSE "rolled_back",
                        tasks[t].fit, {})
  <2>1. /\ tasks' = [tasks EXCEPT ![t] = x] /\ x.fit = tasks[t].fit
        /\ x.at = (IF tasks[t].at = "succeeded" THEN "repriced" ELSE "rolled_back")
    BY <1>4 DEF TaskReport, Ended
  <2> HIDE DEF x
  <2> QED BY <1>2, <2>1, ChangedF
<1>5. CASE TaskStarted(t) \/ TaskRefused(t)
  <2> DEFINE x == [tasks[t] EXCEPT !.at = "queue", !.todo = tasks[t].todo \ {Wanted(t)}]
  <2>1. tasks' = [tasks EXCEPT ![t] = x]
    BY <1>1, <1>5, Numbers DEF TaskStarted, TaskRefused, Served, Task
  <2>2. x.at = "queue" /\ x.fit = tasks[t].fit
    BY <1>1 DEF Task
  <2> HIDE DEF x
  <2> QED BY <1>2, <2>1, <2>2, ChangedF
<1>6. CASE TaskReturn(t)
  <2>1. tasks' = [tasks EXCEPT ![t] = Finished] /\ Finished.at = "finished" /\ Finished.fit = 0
    BY <1>6 DEF TaskReturn, Finished, Ended
  <2> QED BY <1>2, <2>1, ChangedF
<1>7. CASE TaskRead(t)
  <2> DEFINE x == [tasks[t] EXCEPT !.at = "read", !.fit = fit]
  <2>1. tasks' = [tasks EXCEPT ![t] = x]
    BY <1>1, <1>7, Numbers DEF TaskRead, Task
  <2>2. x.at = "read" /\ x.fit = fit
    BY <1>1 DEF Task
  <2> HIDE DEF x
  <2> QED BY <1>2, <2>1, <2>2, ChangedF
<1> QED BY <1>3, <1>4, <1>5, <1>6, <1>7

\* A task has written its fit, which is the one in memory, and so have the requests
\* recorded meanwhile.
LEMMA TaskWriteF ==
  ASSUME IInv, FInv, NEW t \in DOMAIN tasks, TaskWrite(t)
  PROVE  FInv'
<1> USE DEF FInv, prices, fits
<1> DEFINE x == [tasks[t] EXCEPT !.at = "succeeded"]
<1>1. /\ tasks' = [tasks EXCEPT ![t] = x] /\ tasks[t].at = "writing"
      /\ UNCHANGED <<fit, priced, record, overtaken>>
  BY DEF TaskWrite
<1>2. t \in 1..Len(tasks) /\ tasks[t] \in Task
  BY TaskFields
<1>3. x.at = "succeeded" /\ x.fit = tasks[t].fit
  BY <1>2 DEF Task
<1> HIDE DEF x
<1>4. /\ Len(tasks') = Len(tasks) /\ tasks'[t] = x
      /\ \A u \in 1..Len(tasks) : u # t => tasks'[u] = tasks[u] /\ tasks[u].at \notin Running
  BY <1>1, Changed, Alone DEF Running
<1>5. FitsBelow' /\ RecordsFit' /\ CoveredFit'
  BY <1>1, <1>3, <1>4 DEF FitsBelow, RecordsFit, CoveredFit, Running
<1>6. tasks[t].fit = fit
  BY <1>1, <1>2 DEF IInv, Exclusive
<1>7. \A i \in 1..Len(events') : events'[i].fit = fit
  BY <1>1, <1>2, <1>6, Written DEF CoveredFit
<1>8. PromisedFit'
  BY <1>1, <1>7 DEF PromisedFit
<1> QED BY <1>5, <1>8

LEMMA TaskFailF ==
  ASSUME IInv, FInv, NEW t \in DOMAIN tasks, TaskRollBack(t) \/ TaskFail(t)
  PROVE  FInv'
<1> USE DEF FInv, usage
<1>9. PICK label \in {"restoring", "failed"} : RollbackCfg(t, label)
  BY DEF TaskRollBack, TaskFail
<1> DEFINE x == [tasks[t] EXCEPT !.at = label]
<1>1. /\ tasks' = [tasks EXCEPT ![t] = x] /\ tasks[t].at \in {"queued", "writing", "restoring"}
      /\ fit' = tasks[t].fit /\ behind'
      /\ overtaken' = (overtaken \/ tasks[t].catalog < catalog)
      /\ UNCHANGED <<priced, events, record>>
  BY <1>9 DEF TaskRollBack, TaskFail, RollbackCfg
<1>2. t \in 1..Len(tasks) /\ tasks[t] \in Task
  BY TaskFields
<1>3. x.at = label /\ x.fit = tasks[t].fit
  BY <1>2 DEF Task
<1> HIDE DEF x
<1>4. /\ Len(tasks') = Len(tasks) /\ tasks'[t] = x
      /\ \A u \in 1..Len(tasks) : u # t => tasks'[u] = tasks[u] /\ tasks[u].at \notin Running
  BY <1>1, Changed, Alone DEF Running
<1>5. fit' = fit
  BY <1>1, <1>2 DEF IInv, Exclusive
<1>6. ~overtaken' => ~overtaken
  BY <1>1, Zenon
<1>7. FitsBelow'
  BY <1>1, <1>3, <1>4, <1>5, <1>6 DEF FitsBelow
<1>8. RecordsFit' /\ CoveredFit' /\ PromisedFit'
  BY <1>1, <1>3, <1>4, <1>5 DEF RecordsFit, CoveredFit, PromisedFit, Running
<1> QED BY <1>7, <1>8

\* The fit that a task has written is remembered, however late.
LEMMA TaskTakeF ==
  ASSUME IInv, FInv, NEW t \in DOMAIN tasks, TaskTake(t)
  PROVE  FInv'
<1> USE DEF FInv, prices, usage, history
<1> DEFINE x == Ended("queue", 0, pending)
<1>1. /\ tasks' = [tasks EXCEPT ![t] = x] /\ x.at = "queue" /\ x.fit = 0
      /\ tasks[t].at \in {"repriced", "rolled_back"}
      /\ priced' = (IF tasks[t].at = "repriced" THEN tasks[t].fit ELSE priced)
      /\ UNCHANGED <<fit, events, record, overtaken, behind>>
  BY DEF TaskTake, Ended
<1>2. t \in 1..Len(tasks) /\ tasks[t] \in Task
  BY TaskFields
<1> HIDE DEF x
<1>3. /\ Len(tasks') = Len(tasks) /\ tasks'[t] = x
      /\ \A u \in 1..Len(tasks) : u # t => tasks'[u] = tasks[u]
  BY <1>1, Changed
<1>4. FitsBelow'
  <2>1. 0 <= fit
    BY Numbers
  <2> QED BY <1>1, <1>2, <1>3, <2>1 DEF FitsBelow
<1>5. RecordsFit' /\ CoveredFit'
  BY <1>1, <1>3 DEF RecordsFit, CoveredFit
<1>6. PromisedFit'
  BY <1>1, <1>2, <1>3 DEF PromisedFit
<1> QED BY <1>4, <1>5, <1>6

LEMMA TaskQueueF ==
  ASSUME IInv, FInv, NEW t \in DOMAIN tasks, TaskQueue(t)
  PROVE  FInv'
<1> USE DEF prices, fits, usage, history
<1>1. t \in 1..Len(tasks) /\ tasks[t] \in Task
  BY TaskFields
<1>2. UNCHANGED <<fit, priced, events, record, overtaken, behind>>
  BY DEF TaskQueue
<1>3. PICK label \in {"queue", "refused", "started"}, todo \in SUBSET Kinds :
        LET x == [tasks[t] EXCEPT !.at = label, !.fit = 0, !.todo = todo]
        IN  IF label = "started"
            THEN CanStart /\ tasks' = Append([tasks EXCEPT ![t] = x], NewTask)
            ELSE tasks' = [tasks EXCEPT ![t] = x]
  BY TaskQueueStep
<1> DEFINE x == [tasks[t] EXCEPT !.at = label, !.fit = 0, !.todo = todo]
           ts == [tasks EXCEPT ![t] = x]
<1>4. x \in Task /\ x.at = label /\ x.fit = 0 /\ Exclusive(ts, fit)
  <2>1. x \in Task /\ x.at \notin Running /\ Exclusive(ts, fit)
    BY LeaveInv
  <2>2. x.at = label /\ x.fit = 0
    BY <1>1 DEF Task
  <2> HIDE DEF x
  <2> QED BY <2>1, <2>2
<1>5. IF label = "started" THEN CanStart /\ tasks' = Append(ts, NewTask) ELSE tasks' = ts
  BY <1>3
<1> HIDE DEF x
<1>6. CASE label # "started"
  BY <1>2, <1>4, <1>5, <1>6, ChangedF
<1>7. CASE label = "started"
  <2>2. NewTask \in Task /\ NewTask.at = "queued" /\ NewTask.fit = fit
    BY <1>5, <1>7, StartedInv DEF NewTask
  <2>3. /\ ts \in Seq(Task) /\ Len(ts) = Len(tasks)
        /\ \A u \in 1..Len(tasks) : ts[u] = IF u = t THEN x ELSE tasks[u]
    BY <1>1, <1>4, ExceptSeq DEF IInv, Exclusive
  <2>4. tasks' = Append(ts, NewTask)
    BY <1>5, <1>7
  <2> HIDE DEF ts
  <2>5. /\ Len(tasks') = Len(tasks) + 1 /\ tasks'[Len(tasks) + 1] = NewTask
        /\ \A u \in 1..Len(tasks) : tasks'[u] = IF u = t THEN x ELSE tasks[u]
    BY <2>2, <2>3, <2>4, AppendProperties
  <2>6. \A u \in 1..Len(tasks') : u \in 1..Len(tasks) \/ u = Len(tasks) + 1
    BY <2>5, Numbers
  <2>7. FitsBelow'
    <3>1. \A u \in 1..Len(tasks') :
            \/ tasks'[u].fit \in {fit, 0}
            \/ u \in 1..Len(tasks) /\ tasks'[u].fit = tasks[u].fit
      BY <1>4, <2>2, <2>5, <2>6
    <3>2. fit <= fit /\ 0 <= fit
      BY Numbers
    <3> QED BY <1>2, <3>1, <3>2 DEF FInv, FitsBelow
  <2>8. RecordsFit' /\ CoveredFit' /\ PromisedFit'
    BY <1>2, <1>4, <1>7, <2>2, <2>5, <2>6 DEF FInv, RecordsFit, CoveredFit, PromisedFit
  <2> QED BY <2>7, <2>8 DEF FInv
<1> QED BY <1>6, <1>7

LEMMA RecordF ==
  ASSUME IInv, FInv, NEW r \in Recorders,
         \/ \E id \in Requests : RecordUsage(r, id)
         \/ AttemptSucceeds(r) \/ AttemptFails(r) \/ GiveUp(r)
  PROVE  FInv'
<1> USE DEF FInv, prices, fits, history
<1>1. CASE (\E id \in Requests : RecordUsage(r, id)) \/ GiveUp(r)
  <2>1. UNCHANGED <<fit, priced, events, tasks, overtaken, behind>>
    BY <1>1 DEF RecordUsage, GiveUp
  <2>2. \A q \in Recorders : record'[q].at = "write" => record'[q].fit = fit
    BY <1>1 DEF RecordUsage, GiveUp, Return, RecordsFit, IInv, RecordsOK, NoEvent, Idle
  <2> QED BY <2>1, <2>2, StillF
<1>2. CASE AttemptSucceeds(r) \/ AttemptFails(r)
  <2>1. /\ UNCHANGED <<fit, priced, tasks, overtaken, behind>>
        /\ record[r].at = "write" /\ events' \in {events, Inserted(r)}
    BY <1>2 DEF AttemptSucceeds, AttemptFails
  <2>2. RecordsFit'
    <3>1. record[r] \in Attempt
      BY InsertedInv, <2>1
    <3> QED BY <1>2, <2>1, <3>1 DEF AttemptSucceeds, AttemptFails, Return, RecordsFit, IInv,
                                   RecordsOK, NoEvent, Idle, Attempt
  <2>3. Row(r).fit = fit
    BY <2>1 DEF Row, RecordsFit
  <2>4. \A i \in 1..Len(events') :
          \/ i \in 1..Len(events) /\ events'[i] = events[i]
          \/ i = Len(events) + 1 /\ events'[i] = Row(r)
    BY <2>1, EventsGrow
  <2> QED BY <2>1, <2>2, <2>3, <2>4 DEF FitsBelow, CoveredFit, PromisedFit
<1> QED BY <1>1, <1>2

LEMMA RestartF ==
  ASSUME IInv, FInv, Restart
  PROVE  FInv'
<1> USE DEF Restart
<1>1. \A t \in 1..Len(tasks') : tasks'[t].at = "finished" /\ tasks'[t].fit = 0
  <2>1. DOMAIN tasks' = 1..Len(tasks')
    <3>1. IInv'
      BY RestartInv
    <3> QED BY <3>1, LenProperties DEF IInv, Exclusive
  <2> QED BY <2>1 DEF Finished, Ended
<1>2. FitsBelow'
  BY <1>1, Numbers DEF FitsBelow
<1>3. RecordsFit' /\ CoveredFit'
  BY <1>1 DEF RecordsFit, CoveredFit, NoEvent, Idle
<1>4. PromisedFit'
  <2>1. ~behind' => \A i \in 1..Len(events) : events[i].fit = saved
    BY Numbers
  <2> QED BY <2>1 DEF PromisedFit
<1> QED BY <1>2, <1>3, <1>4 DEF FInv

LEMMA InitF == Init => FInv
<1> SUFFICES ASSUME Init PROVE FInv
  OBVIOUS
<1>1. Len(tasks) = 0 /\ Len(events) = 0
  BY DEF Init
<1> QED BY <1>1 DEF Init, FInv, FitsBelow, RecordsFit, CoveredFit, PromisedFit, NoEvent, Idle

LEMMA NextF == IInv /\ FInv /\ [Next]_vars => FInv'
<1> SUFFICES ASSUME IInv, FInv, [Next]_vars PROVE FInv'
  OBVIOUS
<1>1. ASSUME NEW s \in Syncers,
             \/ SyncStore(s) \/ SyncLoad(s) \/ SyncPublish(s) \/ SyncQueue(s) \/ SyncRefused(s)
      PROVE  FInv'
  BY <1>1, SyncF
<1>2. ASSUME NEW f \in Fitters,
             \/ FitSave(f) \/ FitApply(f) \/ FitQueue(f) \/ FitStarted(f) \/ FitRefused(f)
      PROVE  FInv'
  BY <1>2, FitF, FitApplyF
<1>3. CASE SixHoursPass \/ SaveSettings
  BY <1>3, SettingsF
<1>4. ASSUME NEW t \in DOMAIN tasks,
             \/ TaskSnapshot(t) \/ TaskWrite(t) \/ TaskRollBack(t) \/ TaskFail(t) \/ TaskReport(t)
             \/ TaskTake(t) \/ TaskRead(t) \/ TaskQueue(t) \/ TaskStarted(t) \/ TaskRefused(t) \/ TaskReturn(t)
      PROVE  FInv'
  BY <1>4, TaskF, TaskWriteF, TaskFailF, TaskTakeF, TaskQueueF
<1>5. ASSUME NEW r \in Recorders,
             \/ \E id \in Requests : RecordUsage(r, id)
             \/ AttemptSucceeds(r) \/ AttemptFails(r) \/ GiveUp(r)
      PROVE  FInv'
  BY <1>5, RecordF
<1>6. CASE Restart
  BY <1>6, RestartF
<1>7. CASE UNCHANGED vars
  BY <1>7, StillF DEF vars, prices, fits, usage, history, FInv, RecordsFit
<1> QED BY <1>1, <1>2, <1>3, <1>4, <1>5, <1>6, <1>7 DEF Next

\* When everything has come to rest, and a.lastPricedFit is the fit in memory, every
\* cost of the history was computed with that fit.
THEOREM PricedFitInHistory == Spec => []PricedFitIsInHistory
<1>1. IInv /\ FInv => PricedFitIsInHistory
  BY Numbers DEF FInv, PromisedFit, PricedFitIsInHistory
<1> QED BY <1>1, InitInv, NextInv, InitF, NextF, PTL DEF Spec

=============================================================================
