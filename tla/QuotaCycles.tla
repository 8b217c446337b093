----------------------------- MODULE QuotaCycles -----------------------------
(***************************************************************************)
(* The cycle ledger of one account in the main quota scope (cycles.go,     *)
(* advanced_reset.go): every usage event that is recorded brings what its  *)
(* response headers said of the quota, and insertEvent decides in one      *)
(* transaction whether the current cycle goes on, ends at its schedule,    *)
(* was reset early, or whether an earlier early reset has to be undone.    *)
(*                                                                         *)
(* A request is recorded when its response ends, so events are recorded    *)
(* in another order than their headers were observed in.  SQLite has one   *)
(* connection: transactions are serial and each of them is one action.     *)
(* Token totals are represented by the sets of events they sum.  The       *)
(* segments and calibrations that insertEvent also maintains are separate  *)
(* state, which the ledger never reads.                                    *)
(***************************************************************************)
EXTENDS Integers, Sequences, FiniteSets

CONSTANTS
  Observations,  (* the requests of the account, with what their headers said   *)
  NoPlan,        (* no X-Codex-Plan-Type                                        *)
  Tolerance,     (* scheduledResetTolerance, 300 s                              *)
  Span,          (* resetConfirmationMinSeconds, 60                             *)
  StartSlack,    (* the 60 s of eventCycleStart                                 *)
  SampleInterval,(* sampleInterval, in seconds                                  *)
  LowPercent,    (* resetLowPercent, 5                                          *)
  PercentSlack,  (* resetPercentTolerance, 1                                    *)
  ResetSamples,  (* resetConfirmationSamples, 3                                 *)
  RegimeSamples, (* quotaRegimeConfirmationSamples, 2                           *)
  MaxEvents,     (* bounds the events recorded                                  *)
  MaxLate        (* bounds the events recorded after one observed later         *)

Full == 100      \* quotaExhaustedPercent

ASSUME ConstantsAssumption ==
  /\ Observations \subseteq
       [requested : Nat \ {0}, observed : Nat, used : 0..Full, reset : Nat \ {0},
        window : Nat \ {0}, plan : {o.plan : o \in Observations},
        quota : BOOLEAN, failed : BOOLEAN]
  /\ \A o \in Observations : o.observed >= o.requested
  /\ {Tolerance, Span, StartSlack, SampleInterval, LowPercent, PercentSlack} \subseteq Nat
  /\ {ResetSamples, MaxEvents, MaxLate} \subseteq Nat
  /\ RegimeSamples \in Nat /\ RegimeSamples > 1

VARIABLES
  events,   (* usage_events in the order of their ids: observation and cycle_id *)
  cycles,   (* quota_cycles by id                                               *)
  samples   (* quota_samples by id                                              *)

vars == <<events, cycles, samples>>

db == [events |-> events, cycles |-> cycles, samples |-> samples]

Init == events = <<>> /\ cycles = <<>> /\ samples = <<>>

CompatiblePlan(p, q) == p = NoPlan \/ q = NoPlan \/ p = q

AtLeast(a, b) == IF a < b THEN b ELSE a

Distance(a, b) == IF a < b THEN b - a ELSE a - b

DeclaredStart(e) == e.reset - e.window

(***************************************************************************)
(* Statements on the database d = [events, cycles, samples].               *)
(***************************************************************************)
EventsOf(d, c) == {i \in DOMAIN d.events : d.events[i].cycle = c}

\* The events of cycle c whose headers told the quota.
QuotaEvents(d, c) == {i \in EventsOf(d, c) : d.events[i].quota}

\* ORDER BY observed_at DESC, id DESC: i comes before j.
Newer(d, i, j) ==
  \/ d.events[i].observed > d.events[j].observed
  \/ d.events[i].observed = d.events[j].observed /\ i > j

\* ORDER BY requested_at, id: the first of the events I.
FirstRequest(d, I) ==
  CHOOSE i \in I : \A j \in I :
    \/ d.events[i].requested < d.events[j].requested
    \/ d.events[i].requested = d.events[j].requested /\ i <= j

InRegime(d, c, reset, window) ==
  {k \in DOMAIN d.samples :
     d.samples[k].cycle = c /\ d.samples[k].reset = reset /\ d.samples[k].window = window}

SamplesOf(d, c) == {k \in DOMAIN d.samples : d.samples[k].cycle = c}

\* ORDER BY sampled_at, id: the first and the last of the samples K.
SampledBefore(d, k, l) ==
  \/ d.samples[k].at < d.samples[l].at
  \/ d.samples[k].at = d.samples[l].at /\ k < l

FirstSample(d, K) == CHOOSE k \in K : \A l \in K \ {k} : SampledBefore(d, k, l)
LastSample(d, K)  == CHOOSE k \in K : \A l \in K \ {k} : SampledBefore(d, l, k)

Peak(d, K) ==
  IF K = {} THEN 0
  ELSE CHOOSE p \in {d.samples[k].used : k \in K} : \A k \in K : d.samples[k].used <= p

\* first_sample_at, start_used_percent and peak_used_percent of cycle c
\* computed from its samples K.
WithStats(d, c, K) ==
  [d EXCEPT !.cycles[c] =
     [@ EXCEPT !.first = IF K = {} THEN 0 ELSE d.samples[FirstSample(d, K)].at,
               !.start = IF K = {} THEN 0 ELSE d.samples[FirstSample(d, K)].used,
               !.peak  = Peak(d, K)]]

\* refreshCycleSampleStatsForRegime
RefreshStats(d, c, reset, window) == WithStats(d, c, InRegime(d, c, reset, window))

\* refreshCycleSampleSummary
RefreshSummary(d, c) == WithStats(d, c, SamplesOf(d, c))

\* The UPDATE of reset_at, window_minutes and plan_type; no plan keeps the old.
SetSchedule(d, c, e) ==
  [d EXCEPT !.cycles[c] =
     [@ EXCEPT !.reset = e.reset, !.window = e.window,
               !.plan = IF e.plan = NoPlan THEN d.cycles[c].plan ELSE e.plan]]

\* AUTOINCREMENT; that the id of a deleted row is never used again does not
\* matter, no row refers to it any more.
NextId(ids) == 1 + (CHOOSE n \in {0} \cup ids : \A m \in ids : m <= n)

NewId(d) == NextId(DOMAIN d.cycles)

OpenIds(d) == {c \in DOMAIN d.cycles : d.cycles[c].ended = 0}

\* createCycle
CreateCycle(d, n, started, e) ==
  [d EXCEPT !.cycles = [c \in DOMAIN d.cycles \cup {n} |->
     IF c = n THEN [started |-> started, ended |-> 0, reset |-> e.reset,
                    window |-> e.window, plan |-> e.plan, reason |-> "",
                    first |-> 0, start |-> 0, peak |-> 0]
     ELSE d.cycles[c]]]

\* closeCycle
CloseCycle(d, c, at, reason) ==
  [d EXCEPT !.cycles[c] = [@ EXCEPT !.ended = at, !.reason = reason]]

\* UPDATE usage_events SET cycle_id=n for the events I.
MoveEvents(d, I, n) ==
  [d EXCEPT !.events = [i \in DOMAIN d.events |->
     IF i \in I THEN [d.events[i] EXCEPT !.cycle = n] ELSE d.events[i]]]

RequestedFrom(d, c, at) == {i \in EventsOf(d, c) : d.events[i].requested >= at}

\* Mutant: the requests of every cycle are summed.
TotalOfAccount(d, c, at) == {i \in DOMAIN d.events : d.events[i].requested <= at}

\* window_tokens, window_cost_usd and requests of a sample at a time.
Total(d, c, at) == {i \in EventsOf(d, c) : d.events[i].requested <= at}

\* The INSERT INTO quota_samples, and updateCycleSample.
AddSample(d, c, e) ==
  LET sample == [cycle |-> c, at |-> e.requested, used |-> e.used, reset |-> e.reset,
                 window |-> e.window, total |-> Total(d, c, e.requested)]
      added == [k \in DOMAIN d.samples \cup {NextId(DOMAIN d.samples)} |->
                  IF k \in DOMAIN d.samples THEN d.samples[k] ELSE sample]
  IN RefreshStats(SetSchedule([d EXCEPT !.samples = added], c, e), c, e.reset, e.window)

\* A reading is sampled when it is the first of its regime, when it rises, or
\* when it is as high as the last one after the sampling interval.
Due(d, c, e) ==
  LET K == InRegime(d, c, e.reset, e.window)
      l == d.samples[LastSample(d, K)]
  IN K = {} \/ (e.used >= l.used /\ (e.used # l.used \/ e.requested - l.at >= SampleInterval))

\* The rest of insertEvent: the event is stored in cycle c, and sampled.
Recorded(d, c, e, sampled) ==
  LET row == [requested |-> e.requested, observed |-> e.observed, used |-> e.used,
              reset |-> e.reset, window |-> e.window, plan |-> e.plan,
              quota |-> e.quota, failed |-> e.failed, cycle |-> c]
      stored == [d EXCEPT !.events = Append(@, row)]
  IN IF sampled /\ e.quota /\ Due(stored, c, e) THEN AddSample(stored, c, e) ELSE stored

Commit(d) == events' = d.events /\ cycles' = d.cycles /\ samples' = d.samples

(***************************************************************************)
(* What ensureEventCycle knows of the current cycle when event e arrives.  *)
(***************************************************************************)
Cur == LET open == OpenIds(db) IN CHOOSE c \in open : \A o \in open : o <= c

C == cycles[Cur]

ResetAtChanged(e) == C.reset # e.reset

RegimeChanged(e) == C.window # e.window \/ ~CompatiblePlan(C.plan, e.plan)

SameRegime(r, e) == r.reset = e.reset /\ r.window = e.window /\ CompatiblePlan(r.plan, e.plan)

\* eventCycleStart
EventCycleStart(e, previousStart) ==
  LET declared == DeclaredStart(e) IN
  IF declared <= previousStart \/ declared <= 0 \/ declared > e.requested + StartSlack
  THEN e.requested ELSE declared

\* The newest of the events I, and all that follow it as long as they are in OK.
Run(I, OK) == {i \in I : i \in OK /\ \A j \in I : Newer(db, j, i) => j \in OK}

\* The percentage of the event that follows i, e itself when i is the newest.
NewerUsed(I, i, e) ==
  LET N == {j \in I : Newer(db, j, i)} IN
  IF N = {} THEN e.used
  ELSE events[CHOOSE j \in N : \A k \in N \ {j} : Newer(db, k, j)].used

(***************************************************************************)
(* Scheduled resets.                                                       *)
(***************************************************************************)
\* expiredScheduleAdvance
ExpiredScheduleAdvance(e) ==
  /\ e.reset > C.reset + Tolerance
  /\ C.window = e.window /\ CompatiblePlan(C.plan, e.plan)
  /\ e.observed >= C.reset
  /\ DeclaredStart(e) >= C.reset - Tolerance
  /\ DeclaredStart(e) <= e.observed + Tolerance

\* scheduledResetObservation
ScheduledResetObservation(e) ==
  /\ ~e.failed
  /\ \/ Distance(DeclaredStart(e), C.reset) <= Tolerance /\ e.observed >= C.reset - Tolerance
     \/ ExpiredScheduleAdvance(e)

\* confirmScheduledReset: the newest recorded observation agrees.
ScheduledResetConfirmed(e) ==
  LET I == QuotaEvents(db, Cur) IN
  \E i \in I :
    /\ \A j \in I \ {i} : Newer(db, i, j)
    /\ ~events[i].failed /\ events[i].observed <= e.observed
    /\ SameRegime(events[i], e)
    /\ ScheduledResetObservation(events[i])

\* findExhaustedScheduleAdvance: the boundaries of exhausted windows that the
\* recorded observations of the current cycle have passed, in their order.
ExhaustedAdvances(e) ==
  LET I == QuotaEvents(db, Cur) IN
  {i \in I : \E n \in I :
     LET old == events[i]  new == events[n] IN
     /\ Newer(db, n, i) /\ ~\E k \in I : Newer(db, n, k) /\ Newer(db, k, i)
     /\ ~old.failed /\ old.used >= Full
     /\ new.reset > old.reset + Tolerance
     /\ old.window = new.window /\ CompatiblePlan(old.plan, new.plan)
     /\ new.observed >= old.reset
     /\ DeclaredStart(new) >= old.reset - Tolerance
     /\ DeclaredStart(new) <= new.observed + Tolerance
     /\ e.observed >= old.reset /\ e.reset > old.reset
     /\ e.window = new.window /\ CompatiblePlan(e.plan, new.plan)}

ExhaustedReset(e) ==
  LET A == ExhaustedAdvances(e) IN
  events[CHOOSE i \in A : \A j \in A \ {i} : Newer(db, j, i)].reset

\* Mutant: a low reading need not be lower than the peak.
ResetCandidateNoFall(peak, used) == used <= LowPercent

(***************************************************************************)
(* Early resets.                                                           *)
(***************************************************************************)
\* resetCandidate
ResetCandidate(peak, used) == used < peak - PercentSlack /\ used <= LowPercent

\* earlyResetPercentCandidate
EarlyPercentCandidate(peak, used, advanced) ==
  ResetCandidate(peak, used) \/ (advanced /\ peak > 0 /\ 2 * used <= peak)

\* advancedEarlyResetObservation
AdvancedObservation(e) ==
  /\ e.reset > C.reset
  /\ e.observed < C.reset - Tolerance
  /\ DeclaredStart(e) > C.started
  /\ DeclaredStart(e) <= e.observed + Tolerance

\* advancedEarlyResetCandidate: the new window starts after everything that was
\* observed of the old one, and no sample had shown it by then.
AdvancedCandidate(e) ==
  LET originals == {events[i].observed : i \in {i \in QuotaEvents(db, Cur) :
                      ~events[i].failed /\ events[i].reset = C.reset
                                        /\ events[i].window = C.window}}
  IN /\ AdvancedObservation(e)
     /\ EarlyPercentCandidate(C.peak, e.used, TRUE)
     /\ \E last \in originals :
          /\ \A t \in originals : t <= last
          /\ DeclaredStart(e) >= last - Tolerance
          /\ \A k \in InRegime(db, Cur, e.reset, e.window) : samples[k].at > last

EarlyCandidate(e) ==
  /\ ~RegimeChanged(e) /\ C.peak > 0 /\ ~e.failed
  /\ IF ResetAtChanged(e) THEN AdvancedCandidate(e) ELSE ResetCandidate(C.peak, e.used)

\* confirmEarlyReset: the uninterrupted run of low readings that ends with e.
LowRun(e) ==
  LET I == QuotaEvents(db, Cur) IN
  Run(I, {i \in I :
    /\ ~events[i].failed /\ SameRegime(events[i], e)
    /\ EarlyPercentCandidate(C.peak, events[i].used, ResetAtChanged(e))
    /\ events[i].used <= NewerUsed(I, i, e) + PercentSlack})

\* Mutant: a reading that was observed later does not count.
EarlyResetConfirmedOvertaken(e) ==
  /\ Cardinality(LowRun(e)) + 1 >= ResetSamples
  /\ \E i \in LowRun(e) : e.observed - events[i].observed >= Span

EarlyResetConfirmed(e) ==
  /\ \A i \in QuotaEvents(db, Cur) : events[i].observed <= e.observed
  /\ Cardinality(LowRun(e)) + 1 >= ResetSamples
  /\ \E i \in LowRun(e) : e.observed - events[i].observed >= Span

\* The request the new cycle starts at; firstAdvancedResetRequest also takes
\* earlier low requests of the new window that were in flight with old ones.
FirstLowRequest(e) ==
  LET first == FirstRequest(db, LowRun(e))
      overlapping == {i \in QuotaEvents(db, Cur) :
        LET o == events[i] IN
        /\ ~o.failed /\ o.reset = e.reset /\ o.window = e.window
        /\ o.requested >= C.started /\ o.requested <= events[first].requested
        /\ o.observed >= DeclaredStart(e) - Tolerance
        /\ o.observed <= events[first].observed
        /\ CompatiblePlan(o.plan, e.plan)
        /\ EarlyPercentCandidate(C.peak, o.used, TRUE)
        /\ o.used <= events[first].used + PercentSlack}
  IN IF ResetAtChanged(e) /\ overlapping # {} THEN FirstRequest(db, overlapping) ELSE first

(***************************************************************************)
(* Recovery from an early reset that the upstream takes back.              *)
(***************************************************************************)
EarlyPredecessors ==
  LET cur == Cur IN
  {p \in DOMAIN cycles :
     p < cur /\ cycles[p].ended = cycles[cur].started /\ cycles[p].reason = "early_reset"}

Old == LET early == EarlyPredecessors IN CHOOSE p \in early : \A q \in early : q <= p

\* The newest events of the current cycle that show the old schedule again.
OriginalRun(e) ==
  LET I == QuotaEvents(db, Cur) IN
  Run(I, {i \in I : SameRegime(events[i], e) /\ ~events[i].failed})

Overtaken(e) == \E i \in QuotaEvents(db, Cur) : events[i].observed > e.observed

\* confirmOriginalScheduleRecovery: "possible".
RecoveryPossible(e) ==
  \/ Overtaken(e)
  \/ \A i \in OriginalRun(e) :
       /\ events[i].used >= cycles[Old].peak - PercentSlack
       /\ events[i].used <= NewerUsed(QuotaEvents(db, Cur), i, e) + PercentSlack

\* recoverAdvancedEarlyReset: e shows the schedule and the peak of the cycle
\* that an early reset with a later schedule has closed.
ShowsOriginal(e) ==
  /\ EarlyPredecessors # {}
  /\ LET old == cycles[Old] IN
     /\ e.reset = old.reset /\ e.window = old.window /\ C.window = old.window
     /\ CompatiblePlan(old.plan, e.plan) /\ CompatiblePlan(C.plan, e.plan)
     /\ e.observed < old.reset /\ old.peak > 0
     /\ e.used >= old.peak - PercentSlack
     /\ ~(C.reset = e.reset /\ C.first > 0 /\ C.start < old.peak - PercentSlack)
     /\ LET K == SamplesOf(db, Cur) IN
        K # {} /\ samples[FirstSample(db, K)].reset > old.reset
  /\ e.failed \/ RecoveryPossible(e)

RecoveryConfirmed(e) ==
  ~e.failed /\ ~Overtaken(e) /\ Cardinality(OriginalRun(e)) + 1 >= RegimeSamples

(***************************************************************************)
(* ensureEventCycle and the rest of insertEvent, one action per return.    *)
(* The conditions are tried in this order.                                 *)
(***************************************************************************)
HasCycle == OpenIds(db) # {}

Keep(e, sampled) == Commit(Recorded(db, Cur, e, sampled))

\* The first observation of a quota opens the first cycle, and adopts the events
\* that were recorded before it.
RecordFirst(e) ==
  /\ ~HasCycle
  /\ LET n == NewId(db)
         created == CreateCycle(db, n, EventCycleStart(e, 0), e)
         adopted == {i \in EventsOf(db, 0) : events[i].requested >= created.cycles[n].started
                                             /\ events[i].requested <= e.requested}
     IN IF e.quota THEN Commit(Recorded(MoveEvents(created, adopted, n), n, e, TRUE))
        ELSE Commit(Recorded(db, 0, e, FALSE))

RecordPlain(e) == HasCycle /\ ~e.quota /\ Keep(e, FALSE)

Informed(e) == HasCycle /\ e.quota

\* Mutant: the totals of the samples are not recalculated.
RejoinedOldTotals ==
  LET moved == MoveEvents(db, EventsOf(db, Cur), Old)
      joined == [moved EXCEPT
        !.samples = [k \in DOMAIN samples |->
          IF samples[k].cycle = Cur THEN [samples[k] EXCEPT !.cycle = Old] ELSE samples[k]],
        !.cycles = [c \in DOMAIN cycles \ {Cur} |->
          IF c = Old THEN [cycles[c] EXCEPT !.ended = 0, !.reason = ""] ELSE cycles[c]]]
  IN RefreshStats(joined, Old, cycles[Old].reset, cycles[Old].window)

\* Mutant: the samples stay with the deleted cycle.
RejoinedKeepsSamples ==
  LET moved == MoveEvents(db, EventsOf(db, Cur), Old)
      joined == [moved EXCEPT
        !.cycles = [c \in DOMAIN cycles \ {Cur} |->
          IF c = Old THEN [cycles[c] EXCEPT !.ended = 0, !.reason = ""] ELSE cycles[c]]]
  IN RefreshStats(joined, Old, cycles[Old].reset, cycles[Old].window)

\* The old schedule came back: the old cycle is open again and takes back what
\* was recorded since.
Rejoined ==
  LET moved == MoveEvents(db, EventsOf(db, Cur), Old)
      joined == [moved EXCEPT
        !.samples = [k \in DOMAIN samples |->
          IF samples[k].cycle = Cur THEN [samples[k] EXCEPT !.cycle = Old] ELSE samples[k]],
        !.cycles = [c \in DOMAIN cycles \ {Cur} |->
          IF c = Old THEN [cycles[c] EXCEPT !.ended = 0, !.reason = ""] ELSE cycles[c]]]
      totals == [joined EXCEPT
        !.samples = [k \in DOMAIN samples |->
          IF joined.samples[k].cycle = Old
          THEN [joined.samples[k] EXCEPT !.total = Total(joined, Old, samples[k].at)]
          ELSE joined.samples[k]]]
  IN RefreshStats(totals, Old, cycles[Old].reset, cycles[Old].window)

Recover(e) ==
  /\ Informed(e) /\ ShowsOriginal(e) /\ RecoveryConfirmed(e)
  /\ LET first == events[FirstRequest(db, OriginalRun(e))]
         d == Rejoined
         sampled == \E k \in InRegime(d, Old, first.reset, first.window) :
                      d.samples[k].at = first.requested
         recovered == IF sampled THEN d ELSE AddSample(d, Old, first)
     IN Commit(Recorded(recovered, Old, e, TRUE))

AwaitRecovery(e) ==
  Informed(e) /\ ShowsOriginal(e) /\ ~RecoveryConfirmed(e) /\ Keep(e, FALSE)

InCurrent(e) == Informed(e) /\ ~ShowsOriginal(e)

\* A cycle that has no sample yet follows the schedule as it slides forward, and
\* does not accept the exhausted percentage of the window before it.
Pending(e) == C.first = 0 /\ ~RegimeChanged(e)

RecordPending(e) ==
  /\ InCurrent(e) /\ Pending(e)
  /\ LET slid == [SetSchedule(db, Cur, e) EXCEPT
                    !.cycles[Cur] = [@ EXCEPT
                      !.started = AtLeast(EventCycleStart(e, 0), C.started)]]
         d == IF ResetAtChanged(e) THEN slid ELSE db
     IN IF ResetAtChanged(e) /\ e.reset + Tolerance < C.reset
        THEN Keep(e, FALSE)
        ELSE Commit(Recorded(d, Cur, e, ~e.failed /\ e.used < Full))

Accepted(e) == InCurrent(e) /\ ~Pending(e)

\* Mutant: the cycle is not closed.
NextCycleNoClose(d, started, at, e) ==
  LET n == NewId(d) IN
  MoveEvents(CreateCycle(d, n, started, e), RequestedFrom(d, Cur, at), n)

\* The current cycle ends at its deadline and the next one starts.
NextCycle(d, started, at, e) ==
  LET n == NewId(d)
      created == CreateCycle(CloseCycle(d, Cur, at, "scheduled_reset"), n, started, e)
  IN MoveEvents(created, RequestedFrom(d, Cur, at), n)

\* repairExhaustedScheduleCarryover
Carryover(e) ==
  C.peak >= Full /\ ~e.failed /\ e.used < Full /\ ExhaustedAdvances(e) # {}

RepairCarryover(e) ==
  /\ Accepted(e) /\ Carryover(e)
  /\ LET at == ExhaustedReset(e)
         carried == {k \in SamplesOf(db, Cur) : samples[k].at >= at}
         kept == [db EXCEPT !.samples = [k \in DOMAIN samples \ carried |-> samples[k]]]
         closed == NextCycle(RefreshSummary(kept, Cur),
                             AtLeast(EventCycleStart(e, C.started), at), at, e)
     IN Commit(Recorded(closed, NewId(db), e, TRUE))

\* startAdvancedCycle
Exhausted(e) == ResetAtChanged(e) /\ C.peak >= Full /\ ExpiredScheduleAdvance(e)

StartAdvanced(e) ==
  /\ Accepted(e) /\ ~Carryover(e) /\ Exhausted(e)
  /\ LET closed == NextCycle(db, AtLeast(EventCycleStart(e, C.started), C.reset), C.reset, e)
     IN Commit(Recorded(closed, NewId(db), e, ~e.failed /\ e.used < Full))

Scheduled(e) ==
  Accepted(e) /\ ~Carryover(e) /\ ~Exhausted(e)
    /\ ResetAtChanged(e) /\ ScheduledResetObservation(e)

ScheduledReset(e) ==
  /\ Scheduled(e) /\ ScheduledResetConfirmed(e)
  /\ LET started == IF DeclaredStart(e) > C.reset + Tolerance THEN DeclaredStart(e) ELSE C.reset
     IN Commit(Recorded(NextCycle(db, started, C.reset, e), NewId(db), e, TRUE))

AwaitScheduledReset(e) == Scheduled(e) /\ ~ScheduledResetConfirmed(e) /\ Keep(e, FALSE)

Unscheduled(e) ==
  Accepted(e) /\ ~Carryover(e) /\ ~Exhausted(e)
    /\ ~(ResetAtChanged(e) /\ ScheduledResetObservation(e))

RecordFailedChange(e) ==
  Unscheduled(e) /\ ResetAtChanged(e) /\ e.failed /\ Keep(e, FALSE)

Judged(e) == Unscheduled(e) /\ ~(ResetAtChanged(e) /\ e.failed)

\* Mutant: the new cycle starts at its declared start.
EarlyResetDeclaredStart(e) ==
  /\ Judged(e) /\ EarlyCandidate(e) /\ EarlyResetConfirmed(e)
  /\ LET n == NewId(db)
         f == FirstLowRequest(e)
         first == events[f]
         created == CreateCycle(CloseCycle(db, Cur, first.requested, "early_reset"),
                                n, EventCycleStart(first, C.started), first)
         since == {i \in EventsOf(db, Cur) :
                     \/ events[i].requested > first.requested
                     \/ events[i].requested = first.requested /\ i >= f}
     IN Commit(Recorded(AddSample(MoveEvents(created, since, n), n, first), n, e, TRUE))

\* The new cycle starts at its first low request, which becomes its first sample.
EarlyReset(e) ==
  /\ Judged(e) /\ EarlyCandidate(e) /\ EarlyResetConfirmed(e)
  /\ LET n == NewId(db)
         f == FirstLowRequest(e)
         first == events[f]
         created == CreateCycle(CloseCycle(db, Cur, first.requested, "early_reset"),
                                n, first.requested, first)
         since == {i \in EventsOf(db, Cur) :
                     \/ events[i].requested > first.requested
                     \/ events[i].requested = first.requested /\ i >= f}
     IN Commit(Recorded(AddSample(MoveEvents(created, since, n), n, first), n, e, TRUE))

AwaitEarlyReset(e) ==
  Judged(e) /\ EarlyCandidate(e) /\ ~EarlyResetConfirmed(e) /\ Keep(e, FALSE)

\* Mutant: the statistics keep those of the schedule before.
RecordInRegimeNoRefresh(e) ==
  /\ Judged(e) /\ ~EarlyCandidate(e)
  /\ LET d == IF ResetAtChanged(e) \/ RegimeChanged(e) THEN SetSchedule(db, Cur, e) ELSE db
     IN Commit(Recorded(d, Cur, e, TRUE))

\* The cycle goes on; another schedule or plan becomes the current one.
RecordInRegime(e) ==
  /\ Judged(e) /\ ~EarlyCandidate(e)
  /\ LET d == IF ResetAtChanged(e) \/ RegimeChanged(e)
              THEN RefreshStats(SetSchedule(db, Cur, e), Cur, e.reset, e.window)
              ELSE db
     IN Commit(Recorded(d, Cur, e, TRUE))

InsertEvent(e) ==
  \/ RecordFirst(e)
  \/ RecordPlain(e)
  \/ Recover(e)
  \/ AwaitRecovery(e)
  \/ RecordPending(e)
  \/ RepairCarryover(e)
  \/ StartAdvanced(e)
  \/ ScheduledReset(e)
  \/ AwaitScheduledReset(e)
  \/ RecordFailedChange(e)
  \/ EarlyReset(e)
  \/ AwaitEarlyReset(e)
  \/ RecordInRegime(e)

(***************************************************************************)
(* The requests end in any order.  Each is recorded at most once (its      *)
(* ingest id), and MaxLate bounds how many are overtaken.                  *)
(***************************************************************************)
Observation(row) ==
  [requested |-> row.requested, observed |-> row.observed, used |-> row.used,
   reset |-> row.reset, window |-> row.window, plan |-> row.plan,
   quota |-> row.quota, failed |-> row.failed]

Late == {i \in DOMAIN events : \E j \in 1..(i - 1) : events[j].observed > events[i].observed}

Arrives(e) ==
  /\ Len(events) < MaxEvents
  /\ \A i \in DOMAIN events : Observation(events[i]) # e
  /\ (\E i \in DOMAIN events : events[i].observed > e.observed) => Cardinality(Late) < MaxLate

Next == \E e \in Observations : Arrives(e) /\ InsertEvent(e)

Spec == Init /\ [][Next]_vars

-----------------------------------------------------------------------------

\* Every row has its type, and refers to a cycle that exists.
TypeOK ==
  /\ \A i \in DOMAIN events :
       Observation(events[i]) \in Observations /\ events[i].cycle \in {0} \cup DOMAIN cycles
  /\ \A k \in DOMAIN samples :
       /\ samples[k].cycle \in DOMAIN cycles
       /\ samples[k].total \subseteq DOMAIN events
  /\ \A c \in DOMAIN cycles :
       /\ c \in Nat \ {0}
       /\ {cycles[c].started, cycles[c].ended, cycles[c].first} \subseteq Nat
       /\ {cycles[c].start, cycles[c].peak} \subseteq 0..Full
       /\ cycles[c].reason = "" <=> cycles[c].ended = 0

\* A closed cycle holds no request made after its end; at a scheduled end "Requests
\* after the old deadline belong to the new ledger", the one at the deadline too.
EndsRespected ==
  \A i \in DOMAIN events : LET c == events[i].cycle IN
    c # 0 /\ cycles[c].ended # 0 =>
      /\ events[i].requested <= cycles[c].ended
      /\ cycles[c].reason = "scheduled_reset" => events[i].requested # cycles[c].ended

\* From the first quota observation on there is exactly one open cycle, every
\* event that told a quota belongs to a cycle, and none to one that had ended: no
\* return of ensureEventCycle leaves the account without a cycle or with two, or a
\* request behind in the cycle that it closes.
OneOpenCycle ==
  /\ Cardinality(OpenIds(db)) = IF DOMAIN cycles = {} THEN 0 ELSE 1
  /\ \A i \in DOMAIN events : events[i].quota => events[i].cycle # 0
  /\ EndsRespected

\* The baseline that decides about resets (first_sample_at, start and peak) is
\* that of the samples of the schedule the cycle currently follows, whatever
\* path has changed its samples or its schedule.
StatsAgree ==
  \A c \in OpenIds(db) :
    RefreshStats(db, c, cycles[c].reset, cycles[c].window) = db

\* A sample of the open cycle sums requests of that cycle only: what a reset or
\* a recovery moves between cycles is not counted in both.
TotalsStayInCycle ==
  \A k \in DOMAIN samples : samples[k].cycle \in OpenIds(db) =>
    \A i \in samples[k].total :
      events[i].cycle = samples[k].cycle /\ events[i].requested <= samples[k].at

\* The cycles that an early reset ends at a request made before they started: a
\* request that was in flight may be the first of the low run, whose time
\* confirmEarlyReset does not compare with started_at (cycles.go:489-491).
EndedBeforeStart ==
  {c \in DOMAIN cycles :
     /\ cycles[c].reason = "early_reset"
     /\ \E i \in DOMAIN events : /\ events[i].requested = cycles[c].ended
                                /\ events[i].requested < cycles[c].started}

\* The open cycle is the newest, and the cycles follow each other in time without
\* overlapping.  Excepted are those that end before they start, which the cycle
\* before them outlasts.
CyclesInOrder ==
  /\ \A c \in DOMAIN cycles, o \in OpenIds(db) : c <= o
  /\ \A c \in DOMAIN cycles :
       cycles[c].ended # 0 =>
         /\ c \in EndedBeforeStart \/ cycles[c].started <= cycles[c].ended
         /\ \A d \in DOMAIN cycles : c < d =>
              \/ cycles[c].ended <= cycles[d].started
              \/ \E o \in EndedBeforeStart : c < o /\ o < d

Kept(c) == c \in DOMAIN cycles'

Last == Len(events)

Closes(c, reason) == c \in OpenIds(db) /\ Kept(c) /\ cycles'[c].reason = reason

LowReadings(c) ==
  LET e == events'[Last'] IN
  {i \in QuotaEvents(db', e.cycle) :
     LET r == events'[i] IN
     /\ ~r.failed /\ SameRegime(r, e) /\ r.observed <= e.observed
     /\ r.used < cycles[c].peak
     /\ r.used <= LowPercent \/ (e.reset > cycles[c].reset /\ 2 * r.used <= cycles[c].peak)}

\* The newest readings are low: those of the new cycle and of c alike.
LowEvidence(c) ==
  LET e == events'[Last']
      run == {i \in LowReadings(c) :
                \A k \in QuotaEvents(db', c) \cup QuotaEvents(db', e.cycle) :
                  Newer(db', k, i) => k \in LowReadings(c)}
  IN Last' \in run /\ Cardinality(run) >= ResetSamples
     /\ \E i \in run : e.observed - events'[i].observed >= Span

DeadlineEvidence(c) ==
  \E i \in DOMAIN events :
    \A r \in {events[i], events'[Last']} :
      /\ r.quota /\ ~r.failed /\ r.observed >= cycles[c].reset - Tolerance
      /\ DeclaredStart(r) >= cycles[c].reset - Tolerance
      /\ r.reset = events'[Last'].reset /\ r.window = events'[Last'].window

\* An early reset rests on "at least three successful [...] readings in the same
\* quota regime [that] span 60 seconds", low ones, all of them in the new cycle,
\* the event just recorded the newest of them, and no reading of the closed
\* cycle was observed among them.  A window that was not exhausted ends at its
\* schedule only when two successful observations of the same new window were made
\* at the deadline, after it, or at most Tolerance before it (cycles.go:443-444):
\* src/README.md:124 asks for two "at or after the old boundary" and does not mention
\* the tolerance.
ResetsConfirmed ==
  [][\A c \in DOMAIN cycles :
       /\ Closes(c, "early_reset") => LowEvidence(c)
       /\ Closes(c, "scheduled_reset") /\ cycles[c].peak < Full => DeadlineEvidence(c)]_vars

RecoveryEvidence(c) ==
  LET n == CHOOSE o \in OpenIds(db) : TRUE
      e == events'[Last']
  IN /\ e.reset = cycles[c].reset /\ e.observed < cycles[c].reset
     /\ \E i \in QuotaEvents(db, n) :
          /\ \A j \in QuotaEvents(db, n) \ {i} : Newer(db, i, j)
          /\ \A r \in {events[i], e} :
               ~r.failed /\ r.reset = cycles[c].reset /\ r.used >= cycles[c].peak - PercentSlack
     /\ n \notin DOMAIN cycles'
     /\ EventsOf(db', c) = EventsOf(db, c) \cup EventsOf(db, n) \cup {Last'}
     /\ SamplesOf(db, c) \cup SamplesOf(db, n) \subseteq SamplesOf(db', c)
     /\ \A k \in SamplesOf(db', c) :
          Total(db', c, samples'[k].at) \subseteq samples'[k].total \cup {Last'}

\* A cycle is opened again on two consecutive successful observations of its
\* schedule near its peak or above, made before its deadline; it takes back every
\* request and every sample of the cycle that followed it, and the totals of
\* the samples count the requests of both.
RecoveriesConfirmed ==
  [][\A c \in DOMAIN cycles \ OpenIds(db) :
       Kept(c) /\ cycles'[c].ended = 0 => RecoveryEvidence(c)]_vars

\* Successive successful readings, in the order of observation, that fall.
Drops ==
  LET R == {i \in DOMAIN events : events[i].quota /\ ~events[i].failed} IN
  {i \in R : \E j \in R :
     /\ Newer(db, j, i) /\ ~\E k \in R : Newer(db, j, k) /\ Newer(db, k, i)
     /\ events[j].used < events[i].used - PercentSlack}

EarlyResets == {c \in DOMAIN cycles : cycles[c].reason = "early_reset"}

\* "Quota evidence is ordered by when its response headers were observed": each
\* early reset of the ledger is a fall of the readings in that order, while they
\* are recorded in it.
OrderedResetsFollowObservations == Late = {} => Cardinality(EarlyResets) <= Cardinality(Drops)

=============================================================================
