----------------------------- MODULE Calibration -----------------------------
(***************************************************************************)
(* The guided calibration of one account (calibration.go): a session of    *)
(* two phases, kept as one record of the metadata table, that every usage  *)
(* event advances inside its own transaction, that the management API      *)
(* starts, ends and cancels, and whose completion is claimed once for a    *)
(* refit of the weights that runs on its own.                              *)
(*                                                                         *)
(* Transactions are serial (SQLite, one connection): each is one action.   *)
(* Percents are whole.  The values a phase sums are represented by the set *)
(* of events it received.  What ensureEventCycle returns is a choice over  *)
(* what QuotaCycles lets it do.  The locks around the calls and            *)
(* applyFittedWeights are in PluginLifecycle.                              *)
(***************************************************************************)
EXTENDS Integers, Sequences, FiniteSets

CONSTANTS
  MaxCalls,    (* the calls of recordUsage and calibration/end at one time  *)
  Requests,    (* what the requests bring that the sessions tell apart      *)
  Models,      (* the target models (model_b) of the sessions               *)
  NoModel,     (* no weight                                                 *)
  Full,        (* the highest percent                                       *)
  Target,      (* target_percent                                            *)
  MaxEvents,   (* bounds the usage events                                   *)
  MaxCycles,   (* bounds the quota cycles                                   *)
  MaxSessions  (* bounds the sessions started                               *)

Unknown == -1    \* an event without X-Codex-Primary-Used-Percent

\* The requests of other accounts only take ids; so do those of the account's image pool,
\* of which only the account matters.
RequestKinds ==
  [mine : {FALSE}, main : {TRUE}, failed : {FALSE}, percent : {Unknown}]
    \union [mine : {TRUE}, main : {FALSE}, failed : {FALSE}, percent : {Unknown}]
    \union [mine : {TRUE}, main : {TRUE}, failed : BOOLEAN, percent : {Unknown} \union 0..Full]

ASSUME ConstantsAssumption ==
  /\ Requests \subseteq RequestKinds
  /\ NoModel \notin Models
  /\ Full \in Nat /\ Target \in 1..Full
  /\ {MaxCalls, MaxEvents, MaxCycles, MaxSessions} \subseteq Nat

VARIABLES
  events,   (* usage_events in the order of their ids                            *)
  sampled,  (* by cycle: the used_percent of its newest sample                   *)
  open,     (* the open cycle of the account, 0 before the first                 *)
  session,  (* the record guided_calibration_v1:<account>                        *)
  calls,    (* the calls between their commit and their claimCalibrationRefit    *)
  refits,   (* the refits spawned, each with the number of the session it is for *)
  started,  (* the sessions started                                              *)
  orphaned  (* the refit of the session died with the process                    *)

vars == <<events, sampled, open, session, calls, refits, started, orphaned>>

Phase(from, percent) == [from |-> from, to |-> 0, start |-> percent, end |-> percent, counted |-> {}]

NoSession == [number |-> 0, status |-> "none", cycle |-> 0, model |-> NoModel,
              a |-> Phase(0, 0), b |-> Phase(0, 0), refit |-> "none", after |-> NoModel]

Init ==
  /\ events = <<>> /\ sampled = <<>> /\ open = 0
  /\ session = NoSession
  /\ calls = 0
  /\ refits = <<>>
  /\ started = 0 /\ orphaned = FALSE

Active(s) == s.status \in {"phase1", "phase2"}

Current(s) == IF s.status = "phase1" THEN s.a ELSE s.b

WithCurrent(s, p) == IF s.status = "phase1" THEN [s EXCEPT !.a = p] ELSE [s EXCEPT !.b = p]

(***************************************************************************)
(* The end of a phase                                                      *)
(***************************************************************************)

\* Mutant: phase B is measured from the beginning of the session.
BeginBFromStart(s, last) == [s EXCEPT !.status = "phase2", !.b = Phase(last + 1, s.a.start)]

\* Mutant: the span of phase B begins with the last event of phase A.
BeginBAtLast(s, last) == [s EXCEPT !.status = "phase2", !.b = Phase(last, s.a.end)]

\* Phase B starts at the event after `last` and at the percent phase A ended at.
BeginB(s, last) == [s EXCEPT !.status = "phase2", !.b = Phase(last + 1, s.a.end)]

EndPhase(s, last) ==
  IF s.status = "phase1" THEN BeginB([s EXCEPT !.a.to = last], last)
  ELSE [s EXCEPT !.b.to = last, !.status = "completed", !.refit = "pending"]

(***************************************************************************)
(* advanceCalibrationForEvent                                              *)
(***************************************************************************)

\* The event belongs to a session under way: the account's, in the main quota scope.
Concerns(e) == e.mine /\ e.main /\ Active(session)

\* Mutant: a reset does not end the session.
NeverInvalidates(e, cycle) == FALSE

Invalidates(e, cycle) == e.percent # Unknown /\ cycle > 0 /\ cycle # session.cycle

Measures(e, cycle) == ~e.failed /\ e.percent # Unknown /\ cycle = session.cycle

\* The current phase with the event `id`.
Counted(e, cycle, id) ==
  LET p == Current(session) IN
  [p EXCEPT !.counted = @ \union {id},
            !.end = IF Measures(e, cycle) /\ e.percent > @ THEN e.percent ELSE @]

Reached(p) == p.end - p.start >= Target

Ignored(e) ==
  /\ ~Concerns(e)
  /\ UNCHANGED session

Invalidated(e, cycle) ==
  /\ Concerns(e) /\ Invalidates(e, cycle)
  /\ session' = [session EXCEPT !.status = "invalid"]

InPhase(e, cycle, id) ==
  LET p == Counted(e, cycle, id) IN
  /\ Concerns(e) /\ ~Invalidates(e, cycle)
  /\ session' = CASE id < Current(session).from          -> session
                  [] Measures(e, cycle) /\ Reached(p)   -> EndPhase(WithCurrent(session, p), id)
                  [] OTHER                              -> WithCurrent(session, p)

(***************************************************************************)
(* recordUsage: insertEvent, then claimCalibrationRefit                    *)
(***************************************************************************)

\* ensureEventCycle: the open cycle goes on, ends and is followed by the next, or a false
\* early reset is undone and an earlier cycle is open again.  The new cycle gets a sample;
\* in the others a reading below the newest sample, or one that is not due, gets none.
EnsureEventCycle(e) ==
  \/ /\ ~(e.mine /\ e.main /\ e.percent # Unknown)
     /\ UNCHANGED <<open, sampled>>
  \/ /\ e.mine /\ e.main /\ e.percent # Unknown
     /\ \/ /\ Len(sampled) < MaxCycles
           /\ open' = Len(sampled) + 1
           /\ sampled' = Append(sampled, e.percent)
        \/ /\ open > 0
           /\ open' \in 1..open
           /\ \/ UNCHANGED sampled
              \/ /\ e.percent > sampled[open']
                 /\ sampled' = [sampled EXCEPT ![open'] = e.percent]

CycleOf(e) == IF e.mine /\ e.main THEN open' ELSE 0

RecordUsage ==
  LET id == Len(events) + 1 IN
  /\ calls < MaxCalls /\ id <= MaxEvents
  /\ \E e \in Requests :
       /\ EnsureEventCycle(e)
       /\ events' = Append(events, [mine |-> e.mine, main |-> e.main, failed |-> e.failed,
                                    percent |-> e.percent, cycle |-> CycleOf(e)])
       /\ \/ Ignored(e)
          \/ Invalidated(e, CycleOf(e))
          \/ InPhase(e, CycleOf(e), id)
       /\ calls' = IF e.mine THEN calls + 1 ELSE calls
  /\ UNCHANGED <<refits, started, orphaned>>

\* Mutant: a refit that is running is claimed again.
PendingOrRunning == session.status = "completed" /\ session.refit \in {"pending", "running"}

Pending == session.status = "completed" /\ session.refit = "pending"

\* claimCalibrationRefit and spawnGuidedCalibrationRefit.
ClaimRefit ==
  /\ calls > 0 /\ Pending
  /\ calls' = calls - 1
  /\ session' = [session EXCEPT !.refit = "running"]
  /\ refits' = Append(refits, [session |-> session.number, pc |-> "fit", after |-> NoModel])
  /\ UNCHANGED <<events, sampled, open, started, orphaned>>

\* Nothing to claim, or an error: recordUsage's 10 seconds began before its retries.
LeaveRefit ==
  /\ calls > 0
  /\ calls' = calls - 1
  /\ UNCHANGED <<events, sampled, open, session, refits, started, orphaned>>

(***************************************************************************)
(* The calibration calls of the management API                             *)
(***************************************************************************)

StartCalibration ==
  /\ started < MaxSessions
  /\ ~Active(session) /\ open > 0
  /\ \E m \in Models :
       session' = [NoSession EXCEPT !.number = started + 1, !.status = "phase1", !.model = m,
                                    !.cycle = open,
                                    !.a = Phase(Len(events) + 1, sampled[open])]
  /\ started' = started + 1
  /\ orphaned' = FALSE
  /\ UNCHANGED <<events, sampled, open, calls, refits>>

\* The last id of the account.
LastOfAccount ==
  CHOOSE n \in 0..Len(events) : /\ n > 0 => events[n].mine
                                /\ \A i \in (n + 1)..Len(events) : ~events[i].mine

EndCalibration ==
  /\ calls < MaxCalls /\ Active(session)
  /\ session' = EndPhase(session, LastOfAccount)
  /\ calls' = IF session.status = "phase2" THEN calls + 1 ELSE calls
  /\ UNCHANGED <<events, sampled, open, refits, started, orphaned>>

CancelCalibration ==
  /\ Active(session)
  /\ session' = [session EXCEPT !.status = "cancelled"]
  /\ UNCHANGED <<events, sampled, open, calls, refits, started, orphaned>>

(***************************************************************************)
(* runGuidedCalibrationRefit                                               *)
(***************************************************************************)

\* refreshWeightFit succeeds, or fails, is cancelled or has no fit to offer.
Fit(i) ==
  /\ refits[i].pc = "fit"
  /\ \E pc \in {"read", "failed"} : refits' = [refits EXCEPT ![i].pc = pc]
  /\ UNCHANGED <<events, sampled, open, session, calls, started, orphaned>>

\* calibrationSession: the target of the session that is stored now; the read may fail.
ReadTarget(i) ==
  /\ refits[i].pc = "read"
  /\ \/ refits' = [refits EXCEPT ![i].pc = "fitted", ![i].after = session.model]
     \/ refits' = [refits EXCEPT ![i].pc = "failed"]
  /\ UNCHANGED <<events, sampled, open, session, calls, started, orphaned>>

Running == session.status = "completed" /\ session.refit = "running"

\* Mutant: a failed fit leaves the session as it is.
FinishedIfFitted(r) ==
  IF ~Running \/ r.pc = "failed" THEN session
  ELSE [session EXCEPT !.refit = "done", !.after = r.after]

\* finishCalibrationRefit.
Finished(r) ==
  IF ~Running THEN session
  ELSE IF r.pc = "failed" THEN [session EXCEPT !.refit = "failed"]
  ELSE [session EXCEPT !.refit = "done", !.after = r.after]

Finish(i) ==
  /\ refits[i].pc \in {"fitted", "failed"}
  /\ session' = Finished(refits[i])
  /\ refits' = [refits EXCEPT ![i].pc = "ended", ![i].after = NoModel]
  /\ UNCHANGED <<events, sampled, open, calls, started, orphaned>>

\* The process dies; what was committed stays.
Crash ==
  /\ calls' = 0
  /\ refits' = [i \in DOMAIN refits |-> [refits[i] EXCEPT !.pc = "ended", !.after = NoModel]]
  /\ orphaned' = (orphaned \/ session.refit = "running")
  /\ UNCHANGED <<events, sampled, open, session, started>>

Refit(i) == i \in DOMAIN refits /\ (Fit(i) \/ ReadTarget(i) \/ Finish(i))

Next ==
  \/ RecordUsage
  \/ ClaimRefit
  \/ LeaveRefit
  \/ StartCalibration
  \/ EndCalibration
  \/ CancelCalibration
  \/ \E i \in DOMAIN refits : Fit(i) \/ ReadTarget(i) \/ Finish(i)
  \/ Crash

Spec == Init /\ [][Next]_vars

\* A refit has a timeout of 5 minutes, and the write of its end does not depend on it; that
\* write is taken to succeed.  No call of the host and no event is fair.
FairSpec == Spec /\ \A i \in 1..MaxSessions : WF_vars(Refit(i))

(***************************************************************************)
(* Properties                                                              *)
(***************************************************************************)

Percents == {Unknown} \union 0..Full

PhaseType(p) ==
  /\ {p.from, p.to} \subseteq 0..(MaxEvents + 1)
  /\ {p.start, p.end} \subseteq 0..Full /\ p.start <= p.end
  /\ p.counted \subseteq DOMAIN events

\* The state of the account and of its session: a session that is measured has a cycle,
\* and only a session that completed has a refit (calibration.go:29-45).
TypeOK ==
  /\ open \in 0..Len(sampled) /\ Len(sampled) <= MaxCycles
  /\ \A i \in DOMAIN events : events[i].percent \in Percents /\ events[i].cycle \in 0..Len(sampled)
  /\ session.status \in {"none", "phase1", "phase2", "completed", "invalid", "cancelled"}
  /\ session.refit \in {"none", "pending", "running", "done", "failed"}
  /\ session.status # "none" => session.cycle \in 1..Len(sampled) /\ session.model \in Models
  /\ (session.refit # "none") <=> (session.status = "completed")
  /\ PhaseType(session.a) /\ PhaseType(session.b)
  /\ calls \in 0..MaxCalls
  /\ \A i \in DOMAIN refits : refits[i].pc \in {"fit", "read", "fitted", "failed", "ended"}

\* The account's events in the main quota scope with an id in the span of the phase.
Spanned(p) == {i \in DOMAIN events : events[i].mine /\ events[i].main /\ p.from <= i /\ i <= p.to}

\* The spans of ids that GET /calibration reports (README.md:246) hold exactly the events
\* whose values the phases summed, none of them in both, however a phase ended, although the
\* ends are taken from the ids of the account and the start from those of every account.
SpansAreCounted ==
  /\ session.a.to > 0 => Spanned(session.a) = session.a.counted
  /\ session.b.to > 0 => Spanned(session.b) = session.b.counted
  /\ session.a.counted \intersect session.b.counted = {}
  /\ session.status \in {"phase2", "completed"} =>
       \A i \in session.a.counted, j \in session.b.counted : i < j

\* No phase mixes the readings of two cycles: a session whose cycle was left or rejoined
\* is over (README.md:51, "A quota reset invalidates the session").
OneCycleMeasured ==
  \A i \in session.a.counted \union session.b.counted :
    events[i].percent # Unknown => events[i].cycle = session.cycle

\* The percents that two phases of a session measured add up to what the account's
\* successful responses showed above the start of the session: no rise is lost between
\* the phases and none is measured twice.
ConsumptionShared ==
  session.status \in {"phase2", "completed"} =>
    LET shown == {events[i].percent : i \in {j \in session.a.counted \union session.b.counted :
                                                ~events[j].failed}}
        top   == CHOOSE p \in shown \union {session.a.start} :
                   \A q \in shown \union {session.a.start} : q <= p
    IN (session.a.end - session.a.start) + (session.b.end - session.b.start)
         = top - session.a.start

\* A completed session is refitted once, however many usage calls and management calls
\* claim it at the same time (claimCalibrationRefit).
ClaimedOnce ==
  \A i, j \in DOMAIN refits : refits[i].session = refits[j].session => i = j

\* A session that has ended stays as it was measured until another one is started: events
\* recorded late, ends, cancels and refits change nothing but the state of its refit.
EndedSessionsStay ==
  [][session.status \in {"completed", "invalid", "cancelled"} /\ session'.number = session.number =>
       /\ session'.status = session.status
       /\ session'.a = session.a /\ session'.b = session.b]_vars

\* A refit that is running ends and says so in the session, unless the process dies.
RefitEnds == (session.refit = "running" /\ ~orphaned) ~> (session.refit # "running" \/ orphaned)

\* The multiplier shown after a calibration is that of the session's target model
\* (README.md:51, "shows the target input multiplier before and after").
AfterIsOfTarget == session.refit = "done" => session.after = session.model

=============================================================================
