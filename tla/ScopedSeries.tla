----------------------------- MODULE ScopedSeries -----------------------------
(***************************************************************************)
(* The quota scopes beside the main one (scope_series.go): the weekly      *)
(* quota of an account with a 5 hour one, and those of Spark.  They have   *)
(* no ledger.  Whenever a report is asked for, their cycles are derived    *)
(* anew from all the events of the scope, in the order in which the        *)
(* headers were observed, and a month is summed from these cycles.         *)
(*                                                                         *)
(* Positions count from 1 and 0 stands for none, cycles are in the order   *)
(* of time (the code reverses them), and token sums are left out.          *)
(***************************************************************************)
EXTENDS Integers, FiniteSets, Sequences, Functions, TimeOrder

CONSTANTS
  Observations,  (* the requests of the scope, with what their headers said     *)
  NoPlan,        (* no X-Codex-Plan-Type                                        *)
  Tolerance,     (* scheduledResetTolerance, 300 s                              *)
  Span,          (* resetConfirmationMinSeconds, 60                             *)
  StartSlack,    (* the 60 s of scopedDeclaredStart                             *)
  LowPercent,    (* resetLowPercent, 5                                          *)
  PercentSlack,  (* resetPercentTolerance, 1                                    *)
  ResetSamples,  (* resetConfirmationSamples, 3                                 *)
  Times,         (* when reports are asked for, and where months begin          *)
  MaxEvents,     (* bounds the events recorded                                  *)
  MaxLate        (* bounds the events recorded after one observed later         *)

ASSUME SeriesAssumption ==
  /\ \A o \in Observations :
       /\ {o.observed, o.reset, o.window} \subseteq Nat \ {0}
       /\ o.used \in 0..100 /\ {o.shown, o.failed} \subseteq BOOLEAN
  /\ {Tolerance, Span, StartSlack, LowPercent, PercentSlack} \subseteq Nat
  /\ {ResetSamples, MaxEvents, MaxLate} \subseteq Nat /\ Times \subseteq Nat

VARIABLE events   (* the usage_events of the scope in the order of their ids *)

Init == events = <<>>

Late == {i \in DOMAIN events : \E j \in 1..(i - 1) : events[j].observed > events[i].observed}

\* insertEvent: an event of another scope than the main one touches no cycle.
Record(o) ==
  /\ Len(events) < MaxEvents
  /\ \A i \in DOMAIN events : events[i] # o
  /\ (\E i \in DOMAIN events : events[i].observed > o.observed) => Cardinality(Late) < MaxLate
  /\ events' = Append(events, o)

Next == \E o \in Observations : Record(o)

Spec == Init /\ [][Next]_events

(***************************************************************************)
(* From events to cycles.                                                  *)
(***************************************************************************)
\* quotaScopeObservations: the successful events whose headers show the quota
\* of the scope, in the order of observation, then of id.
Readings(log) ==
  LET kept == {i \in DOMAIN log : log[i].shown /\ ~log[i].failed}
      ids == InOrder([i \in kept |-> log[i].observed])
  IN [n \in DOMAIN ids |-> log[ids[n]]]

Distance(a, b) == IF a < b THEN b - a ELSE a - b

Highest(N) == CHOOSE n \in N : \A m \in N : m <= n

\* scopedDeclaredStart
DeclaredStart(r, fallback) ==
  LET declared == r.reset - r.window IN
  IF declared <= 0 \/ declared > r.observed + StartSlack THEN fallback ELSE declared

\* scopedScheduledTransitionCandidate
ShowsNextWindow(reset, r) ==
  /\ Distance(r.reset - r.window, reset) <= Tolerance
  /\ r.observed >= reset - Tolerance

\* sameScopedQuotaRegime
SameRegime(r, q) ==
  /\ r.reset = q.reset /\ r.window = q.window
  /\ r.plan = NoPlan \/ q.plan = NoPlan \/ r.plan = q.plan

\* resetCandidate
IsLow(peak, r) == r.used < peak - PercentSlack /\ r.used <= LowPercent

\* buildScopedCycleDefinition: the cycle of the readings s.from..to.
Cycle(o, s, to, ended, reason) ==
  LET inside == {n \in s.from..to : o[n].observed >= s.start}
      first == IF inside = {} THEN s.from ELSE CHOOSE n \in inside : \A m \in inside : n <= m
      after == {n \in (first + 1)..to : ended > 0 /\ o[n].observed >= ended}
      last == IF after = {} THEN to ELSE (CHOOSE n \in after : \A m \in after : n <= m) - 1
  IN [start |-> s.start, ended |-> ended, reset |-> s.reset, window |-> s.window,
      plan |-> s.plan, reason |-> reason, from |-> s.from, to |-> to,
      peak |-> Highest({o[n].used : n \in first..last}),
      seen |-> o[IF last = first THEN to ELSE last].observed, current |-> FALSE]

\* appendCycle
Closed(o, s, to, ended, reason) ==
  IF to < s.from THEN s.closed ELSE Append(s.closed, Cycle(o, s, to, ended, reason))

\* A new cycle of the readings from..n, the last of which confirmed it.
Opened(o, closed, from, n, start) ==
  [closed |-> closed, from |-> from, start |-> start, reset |-> o[n].reset,
   window |-> o[n].window, plan |-> o[n].plan, fixed |-> TRUE,
   peak |-> Highest({o[i].used : i \in from..n}),
   candidate |-> 0, low |-> 0, lows |-> 0, lastLow |-> 0]

\* The locals of quotaScopeCycleDefinitions before its loop.
Begin(o) ==
  [Opened(o, <<>>, 1, 1, DeclaredStart(o[1], o[1].observed)) EXCEPT !.fixed = FALSE]

\* Mutant: the new cycle starts with its first reading.
ScheduledResetObserved(o, s, n) ==
  Opened(o, Closed(o, s, s.candidate - 1, s.reset, "scheduled_reset"), s.candidate, n,
         o[s.candidate].observed)

\* The second reading in a row that shows the next window.
ScheduledReset(o, s, n) ==
  Opened(o, Closed(o, s, s.candidate - 1, s.reset, "scheduled_reset"), s.candidate, n, s.reset)

\* A reset time that changes before the old boundary corrects the schedule.
Corrected(s, r) ==
  [s EXCEPT !.reset = r.reset, !.window = r.window, !.candidate = 0,
            !.plan = IF r.plan = NoPlan THEN @ ELSE r.plan,
            !.start = IF r.reset # s.reset /\ ~s.fixed THEN DeclaredStart(r, @) ELSE @]

\* Mutant: readings of another regime count as well.
CountedAnyRegime(o, s, n) ==
  LET goesOn == s.low > 0 /\ o[n].used + PercentSlack >= s.lastLow IN
  [s EXCEPT !.low = IF goesOn THEN @ ELSE n, !.lows = IF goesOn THEN @ + 1 ELSE 1,
            !.lastLow = o[n].used]

\* The run of low readings that reading n goes on with, or begins.
Counted(o, s, n) ==
  LET goesOn == /\ s.low > 0 /\ SameRegime(o[s.low], o[n])
                /\ o[n].used + PercentSlack >= s.lastLow
  IN [s EXCEPT !.low = IF goesOn THEN @ ELSE n, !.lows = IF goesOn THEN @ + 1 ELSE 1,
               !.lastLow = o[n].used]

\* An early reset, once the run is long enough.
AfterLow(o, s, n) ==
  IF s.lows >= ResetSamples /\ o[n].observed - o[s.low].observed >= Span
  THEN LET boundary == o[s.low].observed IN
       Opened(o, Closed(o, s, s.low - 1, boundary, "early_reset"), s.low, n, boundary)
  ELSE s

\* The body of the loop, for reading n.
Step(o, s, n) ==
  LET r == o[n]
      t == Corrected(s, r)
  IN IF r.reset # s.reset /\ ShowsNextWindow(s.reset, r)
     THEN IF s.candidate > 0 /\ n = s.candidate + 1 /\ SameRegime(o[s.candidate], r)
          THEN ScheduledReset(o, s, n)
          ELSE [s EXCEPT !.candidate = n]
     ELSE IF IsLow(t.peak, r)
          THEN AfterLow(o, Counted(o, t, n), n)
          ELSE [t EXCEPT !.low = 0, !.lows = 0, !.peak = Highest({@, r.used})]

\* The locals after each reading.
Scan(o) ==
  LET scan[n \in DOMAIN o] == IF n = 1 THEN Begin(o) ELSE Step(o, scan[n - 1], n)
  IN scan

\* quotaScopeCycleDefinitions
Definitions(o) ==
  LET s == Scan(o)[Len(o)] IN
  IF o = <<>> THEN <<>>
  ELSE Append(s.closed, [Cycle(o, s, Len(o), 0, "") EXCEPT !.current = TRUE])

\* advanceExpiredScopedSchedule: a schedule that is over goes on by whole windows.
Advanced(cs, now) ==
  LET c == cs[Len(cs)]
      start == c.reset + ((now - c.reset) \div c.window) * c.window
  IN IF cs = <<>> THEN <<>>
     ELSE IF now < c.reset THEN cs
     ELSE Append([cs EXCEPT ![Len(cs)].current = FALSE, ![Len(cs)].ended = c.reset,
                            ![Len(cs)].reason = "scheduled_reset"],
                 [c EXCEPT !.start = start, !.reset = start + c.window, !.reason = "",
                           !.from = 0, !.to = 0, !.peak = 0, !.seen = 0])

\* scopedCycleEnd; a cycle that never ends ends at its reset.
End(c) ==
  IF c.ended > c.start THEN c.ended
  ELSE IF c.reset > c.start THEN c.reset
  ELSE c.seen + 1

(***************************************************************************)
(* A month of a scope.                                                     *)
(***************************************************************************)
\* The percents observed in a cycle, from its start, within a span of time.
Percents(c, o, from, before) ==
  {o[n].used : n \in {n \in DOMAIN o :
     /\ o[n].observed >= c.start /\ o[n].observed < End(c)
     /\ o[n].observed >= from /\ o[n].observed < before}}

\* The first percent observed in a cycle within a span of time.
FirstIn(c, o, from, before) ==
  LET inside == {n \in DOMAIN o : /\ o[n].observed >= from /\ o[n].observed < before
                                  /\ o[n].observed < End(c) /\ o[n].observed >= c.start}
  IN o[CHOOSE n \in inside : \A m \in inside : n <= m].used

\* Mutant: a month measures every cycle from the first percent it sees.
GrowthFromFirst(c, o, from, before) ==
  LET until == Percents(c, o, 0, before) IN
  IF until = {} THEN [consumed |-> 0, complete |-> FALSE]
  ELSE IF c.start >= from THEN [consumed |-> Highest(until), complete |-> TRUE]
  ELSE IF Percents(c, o, from, before) = {} THEN [consumed |-> 0, complete |-> TRUE]
  ELSE [consumed |-> Highest(until) - FirstIn(c, o, from, before), complete |-> TRUE]

\* quotaScopeCycleGrowth
Growth(c, o, from, before) ==
  LET until == Percents(c, o, 0, before)
      earlier == Percents(c, o, 0, from)
  IN IF until = {} THEN [consumed |-> 0, complete |-> FALSE]
     ELSE IF c.start >= from THEN [consumed |-> Highest(until), complete |-> TRUE]
     ELSE IF earlier # {} THEN [consumed |-> Highest(until) - Highest(earlier), complete |-> TRUE]
     ELSE IF Percents(c, o, from, before) = {} THEN [consumed |-> 0, complete |-> FALSE]
     ELSE [consumed |-> Highest({0, Highest(until) - FirstIn(c, o, from, before)}),
           complete |-> FALSE]

\* monthlyQuotaScopeAt: what the cycles cs of the scope consumed in a month, and
\* how many of them were reset.
Month(cs, o, from, before, now) ==
  LET ends(c) == IF c.current /\ c.reset > now THEN now + 1 ELSE End(c)
      shared == {k \in DOMAIN cs : cs[k].start < before /\ ends(cs[k]) > from}
      growth == [k \in shared |-> Growth(cs[k], o, from, before)]
  IN [consumed |-> SumFunction([k \in DOMAIN cs |->
                                  IF k \in shared THEN growth[k].consumed ELSE 0]),
      complete |-> \A k \in shared : growth[k].complete,
      resets   |-> Cardinality({k \in shared : /\ ~cs[k].current
                                 /\ cs[k].ended >= from /\ cs[k].ended < before})]

-----------------------------------------------------------------------------
\* When a report may be asked for: after what it is about.
Now == {now \in Times : \A i \in DOMAIN events : events[i].observed <= now}

\* The cycles that a report sees.
Reported(now) == Advanced(Definitions(Readings(events)), now)

\* A cycle that is closed where it starts, or before: see EarlyResetKeepsSchedule.
Collapsed(c) == ~c.current /\ c.ended <= c.start

\* Every reading belongs to one cycle, in order, and no moment belongs to two,
\* whatever corrections of the schedule, resets and windows without a request there
\* were: a request is counted once in a month
\* (TestSparkScheduleCorrectionDoesNotCreateOverlappingCycle).  A cycle that is
\* closed before it starts breaks the second, for itself and those before it.
CyclesDisjoint ==
  LET o == Readings(events)
      defined == Definitions(o)
  IN /\ \A k \in DOMAIN defined :
          /\ defined[k].from \in 1..defined[k].to
          /\ defined[k].from = (IF k = 1 THEN 1 ELSE defined[k - 1].to + 1)
          /\ defined[k].current <=> k = Len(defined)
     /\ defined # <<>> => defined[Len(defined)].to = Len(o)
     /\ \A now \in Now : LET cs == Reported(now) IN
          \A j, k \in DOMAIN cs :
            j < k /\ (\A i \in j..(k - 1) : ~Collapsed(cs[i])) => End(cs[j]) <= cs[k].start

\* The run of readings of one regime that begins with reading n.
Run(o, n, last) == {m \in n..last : SameRegime(o[n], o[m])}

\* Each reading of a run shows as much as the one before it, up to the tolerance.
Nondecreasing(o, run) ==
  \A m, q \in run :
    m < q /\ (\A p \in run : p <= m \/ q <= p) => o[q].used + PercentSlack >= o[m].used

\* What a cycle c ends on, and the next begins with reading n: two readings in a row
\* of one regime that shows the next window.
ScheduleConfirmed(o, c, n) ==
  \A m \in {n, n + 1} : m \in DOMAIN o /\ ShowsNextWindow(c.reset, o[m]) /\ SameRegime(o[n], o[m])

\* Low readings of one regime, far below one of the cycle and nondecreasing; what came
\* in between shows that the schedule goes on.
RefillConfirmed(o, c, n) ==
  \E last \in n..Len(o) :
    LET run == Run(o, n, last) IN
    /\ Cardinality(run) >= ResetSamples
    /\ o[last].observed - o[n].observed >= Span
    /\ \E q \in c.from..c.to : \A m \in run :
         o[m].used <= LowPercent /\ o[m].used < o[q].used - PercentSlack
    /\ Nondecreasing(o, run)
    /\ \A m \in (n..last) \ run : ShowsNextWindow(c.reset, o[m])

Confirmed(o, c, n) ==
  IF c.reason = "scheduled_reset" THEN ScheduleConfirmed(o, c, n)
  ELSE c.reason = "early_reset" /\ RefillConfirmed(o, c, n)

\* The cycle of a scope ends at its schedule only when two successful observations in
\* a row describe the new window consistently, made at the old boundary, after it, or
\* at most Tolerance before it (scope_series.go:424): src/README.md:124 asks for two
\* "at or after the old boundary" and does not mention the tolerance.  An early reset
\* needs "at least three successful, nondecreasing candidate readings in the same
\* quota regime [that] span 60 seconds".
ResetsConfirmed ==
  LET o == Readings(events)
      cs == Definitions(o)
  IN \A k \in 1..(Len(cs) - 1) : Confirmed(o, cs[k], cs[k + 1].from)

\* Two months that follow each other consumed together what their union consumed,
\* if their coverage is complete: a cycle that lasts over the end of a month is
\* neither lost nor counted twice.  So with the resets, unless one happened at the
\* very beginning of a month, which is counted in neither, or before its cycle starts.
MonthsAddUp ==
  LET o == Readings(events)
      defined == Definitions(o)
  IN \A now \in Now : \A a, m, b \in Times :
       a < m /\ m < b =>
         LET cs == Advanced(defined, now)
             first == Month(cs, o, a, m, now)
             second == Month(cs, o, m, b, now)
             both == Month(cs, o, a, b, now)
         IN /\ first.complete /\ second.complete /\ both.complete =>
                 first.consumed + second.consumed = both.consumed
            /\ (\A k \in DOMAIN cs : cs[k].ended # m /\ ~Collapsed(cs[k])) =>
                 first.resets + second.resets = both.resets

\* "An early reset keeps the old schedule and usage baseline until at least three
\* successful [...] candidate readings": the cycle that an early reset closed is
\* reported with a span of time that its own readings were made in.
EarlyResetKeepsSchedule ==
  LET o == Readings(events)
      cs == Definitions(o)
  IN \A k \in DOMAIN cs :
       cs[k].reason = "early_reset" => \A n \in cs[k].from..cs[k].to :
         o[n].observed >= cs[k].start /\ o[n].observed < End(cs[k])

=============================================================================
