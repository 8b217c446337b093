---------------------------- MODULE MonthlyReport ----------------------------
(***************************************************************************)
(* The months of the main scope (monthly.go), as a report sums them from   *)
(* the cycle ledger at any moment: the consumption and the resets of the   *)
(* cycles that a month shows.  The tokens and costs of the requests made   *)
(* in it, and the estimates of capacity, are left out.                     *)
(***************************************************************************)
EXTENDS QuotaCycles, Functions

CONSTANT Times    (* when months begin, and when reports are asked for *)

ASSUME MonthsAssumption == Times \subseteq Nat

\* Mutant: the baseline of a month is the first sample in it.
GrowthFromFirst(c, from, before) ==
  LET until == {k \in SamplesOf(db, c) : samples[k].at < before}
      within == {k \in until : samples[k].at >= from}
  IN IF within = {} THEN [consumed |-> 0, complete |-> until # {}]
     ELSE IF cycles[c].started >= from THEN [consumed |-> Peak(db, until), complete |-> TRUE]
     ELSE [consumed |-> Peak(db, until) - samples[FirstSample(db, within)].used, complete |-> TRUE]

\* cycleQuotaGrowth: what a cycle consumed in a month, and whether that is sure.
Growth(c, from, before) ==
  LET until == {k \in SamplesOf(db, c) : samples[k].at < before}
      earlier == {k \in SamplesOf(db, c) : samples[k].at < from}
      within == until \ earlier
  IN IF until = {} THEN [consumed |-> 0, complete |-> FALSE]
     ELSE IF cycles[c].started >= from THEN [consumed |-> Peak(db, until), complete |-> TRUE]
     ELSE IF earlier # {}
          THEN [consumed |-> Peak(db, until) - Peak(db, earlier), complete |-> TRUE]
          ELSE [consumed |-> Peak(db, until) - samples[FirstSample(db, within)].used,
                complete |-> FALSE]

\* When a cycle ends for a report; an open one with its schedule, or not yet.
EndsAt(c, now) ==
  IF cycles[c].ended # 0 THEN cycles[c].ended
  ELSE IF cycles[c].reset > cycles[c].started /\ cycles[c].reset < now THEN cycles[c].reset
  ELSE now + 1

\* The cycles that a month shows.
Shown(from, before, now) ==
  {c \in DOMAIN cycles : cycles[c].started < before /\ EndsAt(c, now) > from}

\* monthly
Month(from, before, now) ==
  LET shown == Shown(from, before, now)
      growth == [c \in shown |-> Growth(c, from, before)]
  IN [consumed |-> SumFunction([c \in DOMAIN cycles |->
                                  IF c \in shown THEN growth[c].consumed ELSE 0]),
      complete |-> \A c \in shown : growth[c].complete,
      resets   |-> Cardinality({c \in shown : cycles[c].ended >= from /\ cycles[c].ended < before
                                  /\ cycles[c].reason \in {"scheduled_reset", "early_reset"}})]

-----------------------------------------------------------------------------

Now == {now \in Times : \A i \in DOMAIN events : events[i].observed <= now}

Spans == {span \in Times \X Times : span[1] < span[2]}

\* A cycle that is over for a report, and none of whose samples was made later.
Settled(c, now) ==
  /\ cycles[c].started < EndsAt(c, now)
  /\ \A k \in SamplesOf(db, c) : samples[k].at < EndsAt(c, now)

\* Two months that follow each other consumed together what their union consumed,
\* if their coverage is complete, whatever resets and recoveries have moved
\* samples and boundaries of cycles between them; so with the resets, but for one
\* at the very beginning of a month.  A report takes an open cycle to be over at its
\* deadline, and an early reset ends one at the first low request: the samples that
\* were made later, or those of a cycle that ends before it starts, are in neither
\* month then.
MonthsAddUp ==
  \A now \in Now :
    LET month == [span \in Spans |-> Month(span[1], span[2], now)] IN
    \A a, m, b \in Times :
      /\ a < m /\ m < b
      /\ \A c \in DOMAIN cycles : EndsAt(c, now) <= m => Settled(c, now)
      =>
        LET first == month[<<a, m>>]
            second == month[<<m, b>>]
            both == month[<<a, b>>]
        IN /\ first.complete /\ second.complete /\ both.complete =>
                first.consumed + second.consumed = both.consumed
           /\ (\A c \in DOMAIN cycles : cycles[c].ended # m) =>
                first.resets + second.resets = both.resets

=============================================================================
