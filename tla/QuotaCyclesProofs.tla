-------------------------- MODULE QuotaCyclesProofs --------------------------
(***************************************************************************)
(* Proofs about QuotaCycles: whatever the headers say and in which order   *)
(* the requests are recorded, the account has one open cycle, its baseline *)
(* is that of its samples, a sample counts requests of its cycle only, and *)
(* cycles are closed and opened again on the evidence that is asked for.   *)
(***************************************************************************)
EXTENDS QuotaCycles, CommonLemmas, SequenceTheorems, FiniteSetTheorems, TLAPS

(***************************************************************************)
(* What is true of every database d = [events, cycles, samples].           *)
(***************************************************************************)
Plans == {o.plan : o \in Observations}

Event == [requested : Nat \ {0}, observed : Nat, used : 0..Full, reset : Nat \ {0},
          window : Nat \ {0}, plan : Plans, quota : BOOLEAN, failed : BOOLEAN, cycle : Nat]

Cycle == [started : Nat, ended : Nat, reset : Nat \ {0}, window : Nat \ {0}, plan : Plans,
          reason : {"", "scheduled_reset", "early_reset"},
          first : Nat, start : 0..Full, peak : 0..Full]

Sample == [cycle : Nat \ {0}, at : Nat \ {0}, used : 0..Full, reset : Nat \ {0},
           window : Nat \ {0}, total : SUBSET Nat]

\* The rows of a table, by their ids.
Table(Row) == UNION {[I -> Row] : I \in SUBSET (Nat \ {0})}

Db == [events : Seq(Event), cycles : Table(Cycle), samples : Table(Sample)]

\* An end has a reason.
Explained(row) == row.reason = "" <=> row.ended = 0

\* Rows refer to rows that exist, and cycles end for a reason.
Sound(d) ==
  /\ d \in Db
  /\ Bounded(DOMAIN d.cycles) /\ Bounded(DOMAIN d.samples)
  /\ \A i \in DOMAIN d.events :
       /\ Observation(d.events[i]) \in Observations
       /\ d.events[i].cycle \in {0} \cup DOMAIN d.cycles
       /\ d.events[i].quota => d.events[i].cycle # 0
  /\ \A k \in DOMAIN d.samples :
       d.samples[k].cycle \in DOMAIN d.cycles /\ d.samples[k].total \subseteq DOMAIN d.events
  /\ \A c \in DOMAIN d.cycles : Explained(d.cycles[c])

\* A sample of cycle o sums requests of o.
Totals(d, o) ==
  \A k \in SamplesOf(d, o) : \A i \in d.samples[k].total :
    d.events[i].cycle = o /\ d.events[i].requested <= d.samples[k].at

\* o is the one open cycle.
OneOpen(d, o) == Sound(d) /\ OpenIds(d) = {o} /\ Totals(d, o)

CurrentRegime(d, c) == InRegime(d, c, d.cycles[c].reset, d.cycles[c].window)

\* The baseline of cycle o is that of its samples; a cycle without a baseline has
\* no samples of other schedules either, to which its schedule could return.
Stated(d, o) ==
  /\ d = WithStats(d, o, CurrentRegime(d, o))
  /\ d.cycles[o].first = 0 => SamplesOf(d, o) = {}

Good(d, o) == OneOpen(d, o) /\ Stated(d, o)

\* No quota was told yet.
Fresh(d) == Sound(d) /\ DOMAIN d.cycles = {}

IInv == Fresh(db) \/ \E o \in DOMAIN cycles : Good(db, o)

(***************************************************************************)
(* The next id, and the first of some samples.                             *)
(***************************************************************************)
\* AUTOINCREMENT finds an id that no row has, after all of them.
LEMMA NextIdFacts ==
  ASSUME NEW I, I \subseteq Nat \ {0}, Bounded(I)
  PROVE  /\ NextId(I) \in Nat \ {0} /\ NextId(I) \notin I
         /\ Bounded(I \cup {NextId(I)})
<1> DEFINE n == CHOOSE n \in {0} \cup I : \A m \in I : m <= n
<1>1. \E m \in {0} \cup I : \A x \in {0} \cup I : x <= m
  <2>1. Bounded({0} \cup I)
    <3>1. PICK b \in Nat : \A i \in I : i <= b
      BY DEF Bounded
    <3>2. \A i \in {0} \cup I : i <= b
      BY <3>1
    <3> QED BY <3>1, <3>2 DEF Bounded
  <2>2. {0} \cup I \subseteq Nat /\ {0} \cup I # {}
    OBVIOUS
  <2> QED BY <2>1, <2>2, GreatestNatural
<1>2. n \in {0} \cup I /\ \A m \in I : m <= n
  BY <1>1
<1>3. NextId(I) = 1 + n
  BY DEF NextId
<1> HIDE DEF n
<1>4. n \in Nat
  BY <1>2
<1>5. ASSUME NEW m \in I \cup {1 + n} PROVE m <= 1 + n
  BY <1>2, <1>4
<1>6. 1 + n \in Nat \ {0} /\ 1 + n \notin I
  BY <1>2, <1>4
<1> QED BY <1>3, <1>4, <1>5, <1>6 DEF Bounded

\* A function that has rows is a table.
LEMMA TableFacts ==
  ASSUME NEW Row, NEW t \in Table(Row)
  PROVE  /\ DOMAIN t \subseteq Nat \ {0} /\ \A i \in DOMAIN t : t[i] \in Row
         /\ t \in [DOMAIN t -> Row]
BY DEF Table

\* Rows with ids are a table.
LEMMA IsTable ==
  ASSUME NEW Row, NEW I \in SUBSET (Nat \ {0}), NEW f \in [I -> Row]
  PROVE  f \in Table(Row) /\ DOMAIN f = I
BY DEF Table

\* FirstSample looks at the samples only.
FirstIn(t, K) ==
  CHOOSE k \in K : \A l \in K \ {k} : t[k].at < t[l].at \/ (t[k].at = t[l].at /\ k < l)

\* The first sample depends on the samples of the database only.
LEMMA FirstSampleIsFirstIn ==
  ASSUME NEW d, NEW K
  PROVE  FirstSample(d, K) = FirstIn(d.samples, K)
BY DEF FirstSample, SampledBefore, FirstIn

\* There is a first one: the one with the least id of those with the least time.
LEMMA FirstInFacts ==
  ASSUME NEW t \in Table(Sample), NEW K, K \subseteq DOMAIN t, K # {}
  PROVE  FirstIn(t, K) \in K
<1>1. K \subseteq Nat /\ \A k \in K : t[k].at \in Nat
  <2>1. \A k \in K : k \in Nat /\ t[k] \in Sample
    BY TableFacts
  <2> QED BY <2>1 DEF Sample
<1>2. PICK a \in {t[k].at : k \in K} : \A x \in {t[k].at : k \in K} : a <= x
  <2>1. {t[k].at : k \in K} \subseteq Nat /\ {t[k].at : k \in K} # {}
    BY <1>1
  <2> QED BY <2>1, LeastNatural
<1>3. PICK f \in {k \in K : t[k].at = a} : \A k \in {k \in K : t[k].at = a} : f <= k
  <2>1. {k \in K : t[k].at = a} \subseteq Nat /\ {k \in K : t[k].at = a} # {}
    BY <1>1, <1>2
  <2> QED BY <2>1, LeastNatural
<1>4. \A l \in K \ {f} : t[f].at < t[l].at \/ (t[f].at = t[l].at /\ f < l)
  BY <1>1, <1>2, <1>3
<1> QED BY <1>3, <1>4 DEF FirstIn

\* Peak looks at the samples only.
PeakIn(t, K) ==
  IF K = {} THEN 0
  ELSE CHOOSE p \in {t[k].used : k \in K} : \A k \in K : t[k].used <= p

\* So does the peak of some samples.
LEMMA PeakIsPeakIn ==
  ASSUME NEW d, NEW K
  PROVE  Peak(d, K) = PeakIn(d.samples, K)
BY DEF Peak, PeakIn

\* The peak of some samples is a percentage.
LEMMA PeakInFacts ==
  ASSUME NEW t \in Table(Sample), NEW K, K \subseteq DOMAIN t
  PROVE  PeakIn(t, K) \in 0..Full
<1>1. CASE K = {}
  BY <1>1 DEF PeakIn, Full
<1>2. CASE K # {}
  <2> DEFINE U == {t[k].used : k \in K}
  <2>1. \A k \in K : t[k].used \in 0..100
    <3>1. \A k \in K : t[k] \in Sample
      BY TableFacts
    <3> QED BY <3>1 DEF Sample, Full
  <2>2. U \subseteq 0..100 /\ U # {}
    BY <1>2, <2>1
  <2>3. U \subseteq Nat /\ Bounded(U)
    <3>1. \A u \in U : u <= 100
      BY <2>2
    <3>2. 100 \in Nat
      OBVIOUS
    <3>3. U \subseteq Nat
      BY <2>2
    <3> HIDE DEF U
    <3>4. Bounded(U)
      BY <3>1, <3>2 DEF Bounded
    <3> QED BY <3>3, <3>4
  <2>4. \E m \in U : \A x \in U : x <= m
    <3> HIDE DEF U
    <3> QED BY <2>2, <2>3, GreatestNatural
  <2>5. PeakIn(t, K) \in U
    BY <1>2, <2>4 DEF PeakIn
  <2> QED BY <2>2, <2>5 DEF Full
<1> QED BY <1>1, <1>2

(***************************************************************************)
(* The statements of ensureEventCycle and insertEvent keep the database    *)
(* sound.                                                                  *)
(***************************************************************************)

\* What is known of a sound database.
LEMMA SoundFacts ==
  ASSUME NEW d, Sound(d)
  PROVE  /\ d = [events |-> d.events, cycles |-> d.cycles, samples |-> d.samples]
         /\ d.events \in Seq(Event) /\ d.cycles \in Table(Cycle) /\ d.samples \in Table(Sample)
         /\ Len(d.events) \in Nat /\ DOMAIN d.events = 1..Len(d.events)
         /\ \A i \in DOMAIN d.events : d.events[i] \in Event
         /\ DOMAIN d.cycles \subseteq Nat \ {0} /\ \A c \in DOMAIN d.cycles : d.cycles[c] \in Cycle
         /\ DOMAIN d.samples \subseteq Nat \ {0}
         /\ \A k \in DOMAIN d.samples : d.samples[k] \in Sample
<1>1. d \in Db
  BY DEF Sound
<1>2. /\ d = [events |-> d.events, cycles |-> d.cycles, samples |-> d.samples]
      /\ d.events \in Seq(Event) /\ d.cycles \in Table(Cycle) /\ d.samples \in Table(Sample)
  BY <1>1 DEF Db
<1>3. /\ Len(d.events) \in Nat /\ DOMAIN d.events = 1..Len(d.events)
      /\ \A i \in DOMAIN d.events : d.events[i] \in Event
  BY <1>2, LenProperties
<1> QED BY <1>2, <1>3, TableFacts

\* An UPDATE of one cycle.
Updated(d, c, row) ==
  [events |-> d.events, cycles |-> [d.cycles EXCEPT ![c] = row], samples |-> d.samples]

\* A row of a cycle replaced by one that is open or closed as it was.
LEMMA UpdatedFacts ==
  ASSUME NEW d, Sound(d), NEW c \in DOMAIN d.cycles,
         NEW row \in Cycle, Explained(row)
  PROVE  /\ Sound(Updated(d, c, row))
         /\ Updated(d, c, row).events = d.events /\ Updated(d, c, row).samples = d.samples
         /\ DOMAIN Updated(d, c, row).cycles = DOMAIN d.cycles
         /\ Updated(d, c, row).cycles[c] = row
         /\ \A x \in DOMAIN d.cycles \ {c} : Updated(d, c, row).cycles[x] = d.cycles[x]
<1> DEFINE u == Updated(d, c, row)
<1>1. /\ u.events = d.events /\ u.samples = d.samples
      /\ u.cycles = [d.cycles EXCEPT ![c] = row]
      /\ u = [events |-> u.events, cycles |-> u.cycles, samples |-> u.samples]
  BY DEF Updated
<1> HIDE DEF u
<1>2. /\ DOMAIN u.cycles = DOMAIN d.cycles /\ u.cycles[c] = row
      /\ \A x \in DOMAIN d.cycles \ {c} : u.cycles[x] = d.cycles[x]
  BY <1>1
<1>3. DOMAIN d.cycles \in SUBSET (Nat \ {0}) /\ u.cycles \in [DOMAIN d.cycles -> Cycle]
  BY <1>1, SoundFacts
<1>4. u.cycles \in Table(Cycle)
  BY <1>3, IsTable
<1>5. u \in Db
  BY <1>1, <1>4, SoundFacts DEF Db
<1>6. Sound(u)
  <2>1. \A x \in DOMAIN u.cycles : Explained(u.cycles[x])
    BY <1>2 DEF Sound
  <2>2. /\ Bounded(DOMAIN u.cycles) /\ Bounded(DOMAIN u.samples)
        /\ \A i \in DOMAIN u.events :
             /\ Observation(u.events[i]) \in Observations
             /\ u.events[i].cycle \in {0} \cup DOMAIN u.cycles
             /\ u.events[i].quota => u.events[i].cycle # 0
        /\ \A k \in DOMAIN u.samples :
             u.samples[k].cycle \in DOMAIN u.cycles /\ u.samples[k].total \subseteq DOMAIN u.events
    BY <1>1, <1>2 DEF Sound
  <2> QED BY <1>5, <2>1, <2>2 DEF Sound
<1> QED BY <1>1, <1>2, <1>6 DEF u

FirstAt(t, K) == IF K = {} THEN 0 ELSE t[FirstIn(t, K)].at
StartOf(t, K) == IF K = {} THEN 0 ELSE t[FirstIn(t, K)].used

\* The row of a cycle with its statistics.
StatsRow(t, row, K) ==
  [row EXCEPT !.first = FirstAt(t, K), !.start = StartOf(t, K), !.peak = PeakIn(t, K)]

\* The statistics of a row are of its type, and they depend on nothing they change.
LEMMA StatsRowFacts ==
  ASSUME NEW t \in Table(Sample), NEW row \in Cycle, NEW K, K \subseteq DOMAIN t
  PROVE  /\ StatsRow(t, row, K) \in Cycle
         /\ StatsRow(t, row, K).reset = row.reset /\ StatsRow(t, row, K).window = row.window
         /\ StatsRow(t, row, K).ended = row.ended
         /\ Explained(row) => Explained(StatsRow(t, row, K))
         /\ StatsRow(t, row, K).first = 0 => K = {}
         /\ StatsRow(t, StatsRow(t, row, K), K) = StatsRow(t, row, K)
<1>1. FirstAt(t, K) \in Nat /\ StartOf(t, K) \in 0..Full /\ (FirstAt(t, K) = 0 => K = {})
  <2>1. CASE K = {}
    BY <2>1 DEF FirstAt, StartOf, Full
  <2>2. CASE K # {}
    <3>1. t[FirstIn(t, K)] \in Sample
      BY <2>2, FirstInFacts, TableFacts
    <3> QED BY <2>2, <3>1 DEF FirstAt, StartOf, Sample
  <2> QED BY <2>1, <2>2
<1>2. PeakIn(t, K) \in 0..Full
  BY PeakInFacts
<1> QED BY <1>1, <1>2 DEF StatsRow, Cycle, Explained

\* The statistics replace the row of the cycle.
LEMMA WithStatsIsUpdate ==
  ASSUME NEW d, Sound(d), NEW c \in DOMAIN d.cycles, NEW K
  PROVE  WithStats(d, c, K) = Updated(d, c, StatsRow(d.samples, d.cycles[c], K))
<1>1. /\ d = [events |-> d.events, cycles |-> d.cycles, samples |-> d.samples]
      /\ d.cycles[c] \in Cycle
  BY SoundFacts
<1>2. FirstSample(d, K) = FirstIn(d.samples, K) /\ Peak(d, K) = PeakIn(d.samples, K)
  BY FirstSampleIsFirstIn, PeakIsPeakIn
<1> DEFINE row == StatsRow(d.samples, d.cycles[c], K)
<1>3. WithStats(d, c, K) = [d EXCEPT !.cycles[c] = row]
  BY <1>2 DEF WithStats, StatsRow, FirstAt, StartOf
<1> HIDE DEF row
<1>4. [d EXCEPT !.cycles[c] = row] = Updated(d, c, row)
  BY <1>1 DEF Updated
<1> QED BY <1>3, <1>4 DEF row

\* refreshCycleSampleStats...: the statistics of a cycle.
LEMMA WithStatsFacts ==
  ASSUME NEW d, Sound(d), NEW c \in DOMAIN d.cycles, NEW K, K \subseteq DOMAIN d.samples
  PROVE  LET s == WithStats(d, c, K) IN
         /\ Sound(s) /\ s.events = d.events /\ s.samples = d.samples
         /\ DOMAIN s.cycles = DOMAIN d.cycles
         /\ \A x \in DOMAIN d.cycles : s.cycles[x].ended = d.cycles[x].ended
         /\ \A x \in DOMAIN d.cycles \ {c} : s.cycles[x] = d.cycles[x]
         /\ s.cycles[c].reset = d.cycles[c].reset /\ s.cycles[c].window = d.cycles[c].window
         /\ s.cycles[c].first = 0 => K = {}
         /\ WithStats(s, c, K) = s
<1> DEFINE row == StatsRow(d.samples, d.cycles[c], K)
           s == WithStats(d, c, K)
<1>1. d.samples \in Table(Sample) /\ d.cycles[c] \in Cycle
  BY SoundFacts
<1>2. /\ row \in Cycle /\ row.reset = d.cycles[c].reset /\ row.window = d.cycles[c].window
      /\ row.ended = d.cycles[c].ended /\ Explained(row)
      /\ row.first = 0 => K = {}
      /\ StatsRow(d.samples, row, K) = row
  <2>1. Explained(d.cycles[c])
    BY DEF Sound
  <2> QED BY <1>1, <2>1, StatsRowFacts
<1>3. s = Updated(d, c, row)
  BY WithStatsIsUpdate
<1> HIDE DEF row, s
<1>5. /\ Sound(s) /\ s.events = d.events /\ s.samples = d.samples
      /\ DOMAIN s.cycles = DOMAIN d.cycles /\ s.cycles[c] = row
      /\ \A x \in DOMAIN d.cycles \ {c} : s.cycles[x] = d.cycles[x]
  <2>1. row \in Cycle /\ Explained(row)
    BY <1>2
  <2>2. LET u == Updated(d, c, row) IN
        /\ Sound(u) /\ u.events = d.events /\ u.samples = d.samples
        /\ DOMAIN u.cycles = DOMAIN d.cycles /\ u.cycles[c] = row
        /\ \A x \in DOMAIN d.cycles \ {c} : u.cycles[x] = d.cycles[x]
    BY <2>1, UpdatedFacts
  <2> QED BY <1>3, <2>2
<1>6. WithStats(s, c, K) = Updated(s, c, row)
  <2>1. c \in DOMAIN s.cycles /\ StatsRow(s.samples, s.cycles[c], K) = row
    BY <1>2, <1>5
  <2>2. WithStats(s, c, K) = Updated(s, c, StatsRow(s.samples, s.cycles[c], K))
    BY <1>5, <2>1, WithStatsIsUpdate
  <2> QED BY <2>1, <2>2
<1>7. Updated(s, c, row) = s
  <2>1. /\ s = [events |-> s.events, cycles |-> s.cycles, samples |-> s.samples]
        /\ s.cycles \in [DOMAIN s.cycles -> Cycle]
    BY <1>5, SoundFacts, TableFacts
  <2>2. [s.cycles EXCEPT ![c] = row] = s.cycles
    BY <1>5, <2>1
  <2> QED BY <2>1, <2>2 DEF Updated
<1> QED BY <1>2, <1>5, <1>6, <1>7 DEF s

\* What an event or an observation says of the quota.
Reading(e) ==
  /\ e.requested \in Nat \ {0} /\ e.used \in 0..Full
  /\ e.reset \in Nat \ {0} /\ e.window \in Nat \ {0} /\ e.plan \in Plans

\* The schedule of a cycle.
LEMMA SetScheduleFacts ==
  ASSUME NEW d, Sound(d), NEW c \in DOMAIN d.cycles, NEW e, Reading(e)
  PROVE  LET s == SetSchedule(d, c, e) IN
         /\ Sound(s) /\ s.events = d.events /\ s.samples = d.samples
         /\ DOMAIN s.cycles = DOMAIN d.cycles
         /\ \A x \in DOMAIN d.cycles : s.cycles[x].ended = d.cycles[x].ended
         /\ \A x \in DOMAIN d.cycles \ {c} : s.cycles[x] = d.cycles[x]
         /\ s.cycles[c].reset = e.reset /\ s.cycles[c].window = e.window
         /\ s.cycles[c].first = d.cycles[c].first
         /\ s.cycles[c].start = d.cycles[c].start
         /\ s.cycles[c].peak = d.cycles[c].peak
<1> DEFINE old == d.cycles[c]
           row == [old EXCEPT !.reset = e.reset, !.window = e.window,
                              !.plan = IF e.plan = NoPlan THEN old.plan ELSE e.plan]
           s == SetSchedule(d, c, e)
<1>1. /\ d = [events |-> d.events, cycles |-> d.cycles, samples |-> d.samples]
      /\ old \in Cycle /\ Explained(old)
  BY SoundFacts DEF Sound
<1>2. s = [d EXCEPT !.cycles[c] = row]
  BY DEF SetSchedule
<1>3. /\ row \in Cycle /\ row.reset = e.reset /\ row.window = e.window
      /\ row.first = old.first /\ row.start = old.start /\ row.peak = old.peak
      /\ row.ended = old.ended /\ row.reason = old.reason
  BY <1>1 DEF Cycle, Reading
<1>4. Explained(row)
  BY <1>1, <1>3 DEF Explained
<1> HIDE DEF row, s
<1>5. s = Updated(d, c, row)
  BY <1>1, <1>2 DEF Updated
<1>6. /\ Sound(s) /\ s.events = d.events /\ s.samples = d.samples
      /\ DOMAIN s.cycles = DOMAIN d.cycles /\ s.cycles[c] = row
      /\ \A x \in DOMAIN d.cycles \ {c} : s.cycles[x] = d.cycles[x]
  BY <1>3, <1>4, <1>5, UpdatedFacts
<1> QED BY <1>3, <1>6 DEF s

\* The end of a cycle.
LEMMA CloseCycleFacts ==
  ASSUME NEW d, Sound(d), NEW c \in DOMAIN d.cycles, NEW at \in Nat \ {0},
         NEW reason \in {"scheduled_reset", "early_reset"}
  PROVE  LET s == CloseCycle(d, c, at, reason) IN
         /\ Sound(s) /\ s.events = d.events /\ s.samples = d.samples
         /\ DOMAIN s.cycles = DOMAIN d.cycles /\ s.cycles[c].ended = at
         /\ s.cycles[c].ended # 0 /\ s.cycles[c].reason = reason
         /\ \A x \in DOMAIN d.cycles \ {c} : s.cycles[x] = d.cycles[x]
<1> DEFINE old == d.cycles[c]
           row == [old EXCEPT !.ended = at, !.reason = reason]
           s == CloseCycle(d, c, at, reason)
<1>1. /\ d = [events |-> d.events, cycles |-> d.cycles, samples |-> d.samples]
      /\ old \in Cycle
  BY SoundFacts DEF Sound
<1>2. s = [d EXCEPT !.cycles[c] = row]
  BY DEF CloseCycle
<1>3. row \in Cycle /\ row.ended = at /\ row.reason = reason
  BY <1>1 DEF Cycle
<1>4. Explained(row)
  BY <1>3 DEF Explained
<1> HIDE DEF row, s
<1>5. s = Updated(d, c, row)
  BY <1>1, <1>2 DEF Updated
<1>6. /\ Sound(s) /\ s.events = d.events /\ s.samples = d.samples
      /\ DOMAIN s.cycles = DOMAIN d.cycles /\ s.cycles[c] = row
      /\ \A x \in DOMAIN d.cycles \ {c} : s.cycles[x] = d.cycles[x]
  BY <1>3, <1>4, <1>5, UpdatedFacts
<1> QED BY <1>3, <1>6 DEF s

\* A new cycle has no events, no samples and no baseline.
LEMMA CreateCycleFacts ==
  ASSUME NEW d, Sound(d), NEW started \in Nat, NEW e, Reading(e)
  PROVE  LET n == NewId(d)
             s == CreateCycle(d, n, started, e)
         IN /\ Sound(s) /\ s.events = d.events /\ s.samples = d.samples
            /\ n \in Nat \ {0} /\ n \notin DOMAIN d.cycles
            /\ DOMAIN s.cycles = DOMAIN d.cycles \cup {n}
            /\ \A x \in DOMAIN d.cycles : s.cycles[x] = d.cycles[x]
            /\ s.cycles[n].ended = 0 /\ s.cycles[n].first = 0
            /\ s.cycles[n].start = 0 /\ s.cycles[n].peak = 0
<1> DEFINE n == NewId(d)
           row == [started |-> started, ended |-> 0, reset |-> e.reset,
                   window |-> e.window, plan |-> e.plan, reason |-> "",
                   first |-> 0, start |-> 0, peak |-> 0]
           D == DOMAIN d.cycles \cup {n}
           new == [c \in D |-> IF c = n THEN row ELSE d.cycles[c]]
           s == CreateCycle(d, n, started, e)
<1>1. /\ d = [events |-> d.events, cycles |-> d.cycles, samples |-> d.samples]
      /\ d.events \in Seq(Event) /\ d.samples \in Table(Sample)
      /\ DOMAIN d.cycles \subseteq Nat \ {0} /\ \A c \in DOMAIN d.cycles : d.cycles[c] \in Cycle
  BY SoundFacts
<1>2. n \in Nat \ {0} /\ n \notin DOMAIN d.cycles /\ Bounded(D)
  BY <1>1, NextIdFacts DEF NewId, Sound
<1>3. s = [d EXCEPT !.cycles = new]
  BY DEF CreateCycle
<1>4. row \in Cycle
  BY DEF Cycle, Reading, Full
<1>5. Explained(row)
  BY DEF Explained
<1>6. row.ended = 0 /\ row.first = 0 /\ row.start = 0 /\ row.peak = 0
  OBVIOUS
<1> HIDE DEF row, n
<1>7. new \in [D -> Cycle] /\ DOMAIN new = D /\ new[n] = row
  BY <1>1, <1>4
<1>8. \A c \in DOMAIN d.cycles : new[c] = d.cycles[c]
  BY <1>2
<1> HIDE DEF new, D
<1>9. new \in Table(Cycle)
  <2>1. D \in SUBSET (Nat \ {0})
    BY <1>1, <1>2 DEF D
  <2> QED BY <1>7, <2>1, IsTable
<1>10. s.events = d.events /\ s.cycles = new /\ s.samples = d.samples /\ s \in Db
  BY <1>1, <1>3, <1>9 DEF Db
<1> HIDE DEF s
<1>11. \A x \in DOMAIN s.cycles : Explained(s.cycles[x])
  BY <1>2, <1>5, <1>7, <1>8, <1>10 DEF Sound, D
<1>12. DOMAIN d.cycles \subseteq DOMAIN s.cycles
  BY <1>7, <1>10 DEF D
<1>13. Sound(s)
  BY <1>2, <1>7, <1>10, <1>11, <1>12 DEF Sound
<1>14. /\ s.cycles[n].ended = 0 /\ s.cycles[n].first = 0
       /\ s.cycles[n].start = 0 /\ s.cycles[n].peak = 0
  BY <1>6, <1>7, <1>10
<1> QED BY <1>2, <1>7, <1>8, <1>10, <1>13, <1>14 DEF s, D, n

\* r says what e says.
Shows(r, e) ==
  /\ r.requested = e.requested /\ r.observed = e.observed /\ r.used = e.used
  /\ r.reset = e.reset /\ r.window = e.window /\ r.plan = e.plan
  /\ r.quota = e.quota /\ r.failed = e.failed

\* Events that get another cycle.
LEMMA MoveEventsFacts ==
  ASSUME NEW d, Sound(d), NEW I, NEW n \in DOMAIN d.cycles
  PROVE  LET s == MoveEvents(d, I, n) IN
         /\ Sound(s) /\ s.cycles = d.cycles /\ s.samples = d.samples
         /\ DOMAIN s.events = DOMAIN d.events
         /\ \A i \in DOMAIN d.events :
              /\ s.events[i].requested = d.events[i].requested
              /\ Shows(s.events[i], d.events[i])
              /\ s.events[i].cycle = IF i \in I THEN n ELSE d.events[i].cycle
<1> DEFINE new == [i \in DOMAIN d.events |->
                     IF i \in I THEN [d.events[i] EXCEPT !.cycle = n] ELSE d.events[i]]
           s == MoveEvents(d, I, n)
<1>1. /\ d = [events |-> d.events, cycles |-> d.cycles, samples |-> d.samples]
      /\ d.cycles \in Table(Cycle) /\ d.samples \in Table(Sample)
      /\ Len(d.events) \in Nat /\ DOMAIN d.events = 1..Len(d.events)
      /\ \A i \in DOMAIN d.events : d.events[i] \in Event
      /\ n \in Nat \ {0}
  BY SoundFacts
<1>2. s = [d EXCEPT !.events = new]
  BY DEF MoveEvents
<1>3. ASSUME NEW i \in DOMAIN d.events
      PROVE  /\ new[i] \in Event /\ Observation(new[i]) = Observation(d.events[i])
             /\ new[i].requested = d.events[i].requested /\ new[i].quota = d.events[i].quota
             /\ Shows(new[i], d.events[i])
             /\ new[i].cycle = IF i \in I THEN n ELSE d.events[i].cycle
  <2>1. CASE i \in I
    <3>1. new[i] = [d.events[i] EXCEPT !.cycle = n] /\ d.events[i] \in Event
      BY <1>1, <2>1
    <3> QED BY <1>1, <2>1, <3>1 DEF Event, Observation, Shows
  <2>2. CASE i \notin I
    BY <1>1, <2>2 DEF Shows
  <2> QED BY <2>1, <2>2
<1>4. new \in [1..Len(d.events) -> Event] /\ DOMAIN new = DOMAIN d.events
  BY <1>1, <1>3
<1> HIDE DEF new
<1>5. new \in Seq(Event)
  BY <1>1, <1>4, SeqDef
<1>6. s.events = new /\ s.cycles = d.cycles /\ s.samples = d.samples /\ s \in Db
  BY <1>1, <1>2, <1>5 DEF Db
<1> HIDE DEF s
<1>7. \A i \in DOMAIN s.events :
        /\ Observation(s.events[i]) \in Observations
        /\ s.events[i].cycle \in {0} \cup DOMAIN s.cycles
        /\ s.events[i].quota => s.events[i].cycle # 0
  BY <1>1, <1>3, <1>4, <1>6 DEF Sound
<1>8. Sound(s)
  BY <1>4, <1>6, <1>7 DEF Sound
<1> QED BY <1>3, <1>4, <1>6, <1>8 DEF s

\* The events stay below the ids of a total.
LEMMA TotalFacts ==
  ASSUME NEW d, Sound(d), NEW c, NEW at
  PROVE  /\ Total(d, c, at) \subseteq DOMAIN d.events /\ Total(d, c, at) \in SUBSET Nat
         /\ \A i \in Total(d, c, at) : d.events[i].cycle = c /\ d.events[i].requested <= at
BY SoundFacts DEF Total, EventsOf

\* A new sample sums requests of its cycle.
Sampled(d, c, e) ==
  LET sample == [cycle |-> c, at |-> e.requested, used |-> e.used, reset |-> e.reset,
                 window |-> e.window, total |-> Total(d, c, e.requested)]
  IN [d EXCEPT !.samples =
        [k \in DOMAIN d.samples \cup {NextId(DOMAIN d.samples)} |->
           IF k \in DOMAIN d.samples THEN d.samples[k] ELSE sample]]

\* It keeps the open cycle, and its regime has a sample then.
LEMMA SampledFacts ==
  ASSUME NEW d, NEW o, OneOpen(d, o), NEW e, Reading(e)
  PROVE  LET s == Sampled(d, o, e) IN
         /\ OneOpen(s, o) /\ s.events = d.events /\ s.cycles = d.cycles
         /\ InRegime(s, o, e.reset, e.window) # {}
<1> DEFINE m == NextId(DOMAIN d.samples)
           D == DOMAIN d.samples \cup {m}
           sample == [cycle |-> o, at |-> e.requested, used |-> e.used, reset |-> e.reset,
                      window |-> e.window, total |-> Total(d, o, e.requested)]
           new == [k \in D |-> IF k \in DOMAIN d.samples THEN d.samples[k] ELSE sample]
           s == Sampled(d, o, e)
<1>1. Sound(d) /\ o \in DOMAIN d.cycles /\ OpenIds(d) = {o} /\ Totals(d, o)
  BY DEF OneOpen, OpenIds
<1>2. /\ d = [events |-> d.events, cycles |-> d.cycles, samples |-> d.samples]
      /\ d.events \in Seq(Event) /\ d.cycles \in Table(Cycle)
      /\ DOMAIN d.cycles \subseteq Nat \ {0}
      /\ DOMAIN d.samples \subseteq Nat \ {0}
      /\ \A k \in DOMAIN d.samples : d.samples[k] \in Sample
  BY <1>1, SoundFacts
<1>3. m \in Nat \ {0} /\ m \notin DOMAIN d.samples /\ Bounded(D)
  BY <1>1, <1>2, NextIdFacts DEF Sound
<1>4. s = [d EXCEPT !.samples = new]
  BY DEF Sampled
<1>5. /\ Total(d, o, e.requested) \subseteq DOMAIN d.events
      /\ Total(d, o, e.requested) \in SUBSET Nat
      /\ \A i \in Total(d, o, e.requested) :
           d.events[i].cycle = o /\ d.events[i].requested <= e.requested
  BY <1>1, TotalFacts
<1>6. /\ sample \in Sample /\ sample.cycle = o /\ sample.at = e.requested
      /\ sample.reset = e.reset /\ sample.window = e.window
      /\ sample.total = Total(d, o, e.requested)
  BY <1>1, <1>2, <1>5 DEF Sample, Reading
<1> HIDE DEF sample, m
<1>7. /\ new \in [D -> Sample] /\ DOMAIN new = D /\ new[m] = sample
      /\ \A k \in DOMAIN d.samples : new[k] = d.samples[k]
  BY <1>2, <1>3, <1>6
<1>8. D \in SUBSET (Nat \ {0}) /\ m \in D /\ \A k \in D : k \in DOMAIN d.samples \/ k = m
  BY <1>2, <1>3
<1> HIDE DEF new, D
<1>9. new \in Table(Sample)
  BY <1>7, <1>8, IsTable
<1>10. s.events = d.events /\ s.cycles = d.cycles /\ s.samples = new /\ s \in Db
  BY <1>2, <1>4, <1>9 DEF Db
<1> HIDE DEF s
<1>11. \A k \in DOMAIN s.samples :
         s.samples[k].cycle \in DOMAIN s.cycles /\ s.samples[k].total \subseteq DOMAIN s.events
  <2> SUFFICES ASSUME NEW k \in D
               PROVE  new[k].cycle \in DOMAIN d.cycles /\ new[k].total \subseteq DOMAIN d.events
    BY <1>7, <1>10
  <2>1. CASE k \in DOMAIN d.samples
    BY <1>1, <1>7, <2>1 DEF Sound
  <2>2. CASE k = m
    BY <1>1, <1>5, <1>6, <1>7, <2>2
  <2> QED BY <1>8, <2>1, <2>2
<1>12. Sound(s)
  BY <1>1, <1>3, <1>7, <1>10, <1>11 DEF Sound
<1>13. OpenIds(s) = {o}
  BY <1>1, <1>10 DEF OpenIds
<1>14. Totals(s, o)
  <2> SUFFICES ASSUME NEW k \in DOMAIN s.samples, s.samples[k].cycle = o,
                      NEW i \in s.samples[k].total
               PROVE  s.events[i].cycle = o /\ s.events[i].requested <= s.samples[k].at
    BY DEF Totals, SamplesOf
  <2>1. CASE k = m
    BY <1>5, <1>6, <1>7, <1>10, <2>1
  <2>2. CASE k # m
    <3>1. k \in SamplesOf(d, o) /\ s.samples[k] = d.samples[k]
      BY <1>7, <1>8, <1>10, <2>2 DEF SamplesOf
    <3> QED BY <1>1, <1>10, <3>1 DEF Totals
  <2> QED BY <2>1, <2>2
<1>15. m \in InRegime(s, o, e.reset, e.window)
  BY <1>6, <1>7, <1>8, <1>10 DEF InRegime
<1> QED BY <1>10, <1>12, <1>13, <1>14, <1>15 DEF OneOpen, s

\* What changes no row but those of cycles, and opens and closes none, leaves the
\* open cycle and its totals.
LEMMA OneOpenSame ==
  ASSUME NEW d, NEW o, OneOpen(d, o), NEW s, Sound(s),
         s.events = d.events, s.samples = d.samples, DOMAIN s.cycles = DOMAIN d.cycles,
         \A x \in DOMAIN d.cycles : s.cycles[x].ended = d.cycles[x].ended
  PROVE  OneOpen(s, o)
<1>1. OpenIds(s) = OpenIds(d)
  BY DEF OpenIds
<1>2. Totals(s, o)
  BY DEF OneOpen, Totals, SamplesOf
<1> QED BY <1>1, <1>2 DEF OneOpen

\* A sample comes with the schedule and the statistics of its cycle.
LEMMA AddSampleGood ==
  ASSUME NEW d, NEW o, OneOpen(d, o), NEW e, Reading(e)
  PROVE  Good(AddSample(d, o, e), o)
<1> DEFINE a == Sampled(d, o, e)
           b == SetSchedule(a, o, e)
           K == InRegime(b, o, e.reset, e.window)
           s == WithStats(b, o, K)
<1>1. AddSample(d, o, e) = s
  BY DEF AddSample, Sampled, RefreshStats
<1>2. OneOpen(a, o) /\ InRegime(a, o, e.reset, e.window) # {}
  BY SampledFacts
<1>3. Sound(a) /\ o \in DOMAIN a.cycles
  BY <1>2 DEF OneOpen, OpenIds
<1> HIDE DEF a
<1>4. /\ Sound(b) /\ b.events = a.events /\ b.samples = a.samples
      /\ DOMAIN b.cycles = DOMAIN a.cycles
      /\ \A x \in DOMAIN a.cycles : b.cycles[x].ended = a.cycles[x].ended
      /\ b.cycles[o].reset = e.reset /\ b.cycles[o].window = e.window
  BY <1>3, SetScheduleFacts
<1> HIDE DEF b
<1>5. K # {} /\ K \subseteq DOMAIN b.samples
  BY <1>2, <1>4 DEF InRegime
<1>6. o \in DOMAIN b.cycles
  BY <1>3, <1>4
<1>7. K = InRegime(b, o, e.reset, e.window)
  OBVIOUS
<1> HIDE DEF K
<1>8. /\ Sound(s) /\ s.events = b.events /\ s.samples = b.samples
      /\ DOMAIN s.cycles = DOMAIN b.cycles
      /\ \A x \in DOMAIN b.cycles : s.cycles[x].ended = b.cycles[x].ended
      /\ s.cycles[o].reset = b.cycles[o].reset /\ s.cycles[o].window = b.cycles[o].window
      /\ s.cycles[o].first = 0 => K = {}
      /\ WithStats(s, o, K) = s
  BY <1>4, <1>5, <1>6, WithStatsFacts
<1> HIDE DEF s
<1>9. OneOpen(b, o)
  BY <1>2, <1>4, OneOpenSame
<1>10. OneOpen(s, o)
  BY <1>8, <1>9, OneOpenSame
<1>11. CurrentRegime(s, o) = K
  BY <1>4, <1>7, <1>8 DEF CurrentRegime, InRegime
<1>12. Stated(s, o)
  BY <1>5, <1>8, <1>11 DEF Stated
<1> QED BY <1>1, <1>10, <1>12 DEF Good

\* Statistics that are up to date are those of the row.
LEMMA StatsUpToDate ==
  ASSUME NEW d, Sound(d), NEW o \in DOMAIN d.cycles, NEW K
  PROVE  d = WithStats(d, o, K) <=> d.cycles[o] = StatsRow(d.samples, d.cycles[o], K)
<1> DEFINE row == StatsRow(d.samples, d.cycles[o], K)
<1>1. /\ d = [events |-> d.events, cycles |-> d.cycles, samples |-> d.samples]
      /\ d.cycles \in [DOMAIN d.cycles -> Cycle]
  BY SoundFacts, TableFacts
<1>2. WithStats(d, o, K) = Updated(d, o, row)
  BY WithStatsIsUpdate
<1> HIDE DEF row
<1>3. ASSUME d = Updated(d, o, row) PROVE d.cycles[o] = row
  <2>1. d.cycles = [d.cycles EXCEPT ![o] = row]
    BY <1>3 DEF Updated
  <2> QED BY <1>1, <2>1
<1>4. ASSUME d.cycles[o] = row PROVE d = Updated(d, o, row)
  <2>1. [d.cycles EXCEPT ![o] = row] = d.cycles
    BY <1>1, <1>4
  <2> QED BY <1>1, <2>1 DEF Updated
<1> QED BY <1>2, <1>3, <1>4 DEF row

\* They stay so as long as the row and the samples do.
LEMMA StatedSame ==
  ASSUME NEW d, Sound(d), NEW o \in DOMAIN d.cycles, Stated(d, o),
         NEW s, Sound(s), o \in DOMAIN s.cycles,
         s.cycles[o] = d.cycles[o], s.samples = d.samples
  PROVE  Stated(s, o)
<1>1. CurrentRegime(s, o) = CurrentRegime(d, o) /\ SamplesOf(s, o) = SamplesOf(d, o)
  BY DEF CurrentRegime, InRegime, SamplesOf
<1>2. d.cycles[o] = StatsRow(d.samples, d.cycles[o], CurrentRegime(d, o))
  BY StatsUpToDate DEF Stated
<1>3. s.cycles[o] = StatsRow(s.samples, s.cycles[o], CurrentRegime(s, o))
  BY <1>1, <1>2
<1>4. s = WithStats(s, o, CurrentRegime(s, o))
  BY <1>3, StatsUpToDate
<1> QED BY <1>1, <1>4 DEF Stated

\* A cycle that has no samples has no baseline.
LEMMA StatedNone ==
  ASSUME NEW d, Sound(d), NEW o \in DOMAIN d.cycles, SamplesOf(d, o) = {},
         d.cycles[o].first = 0, d.cycles[o].start = 0, d.cycles[o].peak = 0
  PROVE  Stated(d, o)
<1>1. CurrentRegime(d, o) = {}
  BY DEF CurrentRegime, InRegime, SamplesOf
<1>2. d.cycles[o] \in Cycle
  BY SoundFacts
<1>3. d.cycles[o] = StatsRow(d.samples, d.cycles[o], {})
  BY <1>2 DEF StatsRow, FirstAt, StartOf, PeakIn, Cycle
<1> QED BY <1>1, <1>3, StatsUpToDate DEF Stated

\* An observation is a reading, and an event with its cycle.
LEMMA ObservationFacts ==
  ASSUME NEW e \in Observations
  PROVE  /\ Reading(e) /\ e.observed \in Nat /\ {e.quota, e.failed} \subseteq BOOLEAN
         /\ Observation(e) = e
<1>1. e \in [requested : Nat \ {0}, observed : Nat, used : 0..Full, reset : Nat \ {0},
             window : Nat \ {0}, plan : Plans, quota : BOOLEAN, failed : BOOLEAN]
  BY ConstantsAssumption DEF Plans
<1> QED BY <1>1 DEF Reading, Observation

\* An event is a reading.
LEMMA EventReading ==
  ASSUME NEW r \in Event
  PROVE  Reading(r)
BY DEF Event, Reading

Stored(d, c, e) ==
  LET row == [requested |-> e.requested, observed |-> e.observed, used |-> e.used,
              reset |-> e.reset, window |-> e.window, plan |-> e.plan,
              quota |-> e.quota, failed |-> e.failed, cycle |-> c]
  IN [d EXCEPT !.events = Append(@, row)]

\* The event is stored after the others.
LEMMA StoredFacts ==
  ASSUME NEW d, Sound(d), NEW e \in Observations, NEW c \in {0} \cup DOMAIN d.cycles,
         e.quota => c # 0
  PROVE  LET s == Stored(d, c, e) IN
         /\ Sound(s) /\ s.cycles = d.cycles /\ s.samples = d.samples
         /\ DOMAIN d.events \subseteq DOMAIN s.events
         /\ \A i \in DOMAIN d.events : s.events[i] = d.events[i]
         /\ Len(s.events) = Len(d.events) + 1 /\ DOMAIN s.events = 1..Len(s.events)
         /\ Shows(s.events[Len(s.events)], e) /\ s.events[Len(s.events)].cycle = c
<1> DEFINE row == [requested |-> e.requested, observed |-> e.observed, used |-> e.used,
                   reset |-> e.reset, window |-> e.window, plan |-> e.plan,
                   quota |-> e.quota, failed |-> e.failed, cycle |-> c]
           s == Stored(d, c, e)
           m == Len(d.events) + 1
<1>1. /\ d = [events |-> d.events, cycles |-> d.cycles, samples |-> d.samples]
      /\ d.events \in Seq(Event) /\ d.cycles \in Table(Cycle) /\ d.samples \in Table(Sample)
      /\ Len(d.events) \in Nat /\ DOMAIN d.events = 1..Len(d.events)
      /\ c \in Nat
  BY SoundFacts
<1>2. s = [d EXCEPT !.events = Append(d.events, row)]
  BY DEF Stored
<1>3. /\ Reading(e) /\ e.observed \in Nat /\ {e.quota, e.failed} \subseteq BOOLEAN
      /\ Observation(e) = e
  BY ObservationFacts
<1>4. row \in Event /\ row.cycle = c /\ row.quota = e.quota /\ Shows(row, e)
  BY <1>1, <1>3 DEF Event, Reading, Shows
<1>5. Observation(row) = Observation(e)
  BY DEF Observation
<1> HIDE DEF row
<1>6. /\ Append(d.events, row) \in Seq(Event) /\ Len(Append(d.events, row)) = m
      /\ \A i \in 1..Len(d.events) : Append(d.events, row)[i] = d.events[i]
      /\ Append(d.events, row)[m] = row
  BY <1>1, <1>4, AppendProperties
<1>7. /\ s.events = Append(d.events, row) /\ s.cycles = d.cycles /\ s.samples = d.samples
      /\ s \in Db
  BY <1>1, <1>2, <1>6 DEF Db
<1>8. DOMAIN s.events = 1..m
  BY <1>6, <1>7, LenProperties
<1> HIDE DEF s
<1>9. /\ DOMAIN d.events \subseteq DOMAIN s.events
      /\ \A i \in DOMAIN d.events : s.events[i] = d.events[i]
      /\ s.events[m] = row
      /\ \A i \in DOMAIN s.events : i \in DOMAIN d.events \/ i = m
  BY <1>1, <1>6, <1>7, <1>8
<1>10. \A i \in DOMAIN s.events :
         /\ Observation(s.events[i]) \in Observations
         /\ s.events[i].cycle \in {0} \cup DOMAIN s.cycles
         /\ s.events[i].quota => s.events[i].cycle # 0
  <2> SUFFICES ASSUME NEW i \in DOMAIN s.events
               PROVE  /\ Observation(s.events[i]) \in Observations
                      /\ s.events[i].cycle \in {0} \cup DOMAIN s.cycles
                      /\ s.events[i].quota => s.events[i].cycle # 0
    OBVIOUS
  <2>1. CASE i \in DOMAIN d.events
    BY <1>7, <1>9, <2>1 DEF Sound
  <2>2. CASE i = m
    BY <1>3, <1>4, <1>5, <1>7, <1>9, <2>2
  <2> QED BY <1>9, <2>1, <2>2
<1>11. \A k \in DOMAIN s.samples :
         s.samples[k].cycle \in DOMAIN s.cycles /\ s.samples[k].total \subseteq DOMAIN s.events
  BY <1>7, <1>9 DEF Sound
<1>12. Sound(s)
  BY <1>7, <1>10, <1>11 DEF Sound
<1>13. Len(s.events) = m
  BY <1>6, <1>7
<1> QED BY <1>4, <1>7, <1>8, <1>9, <1>12, <1>13 DEF s

\* The rest of insertEvent: the open cycle gets the event, and its sample.
LEMMA RecordedGood ==
  ASSUME NEW d, NEW o, OneOpen(d, o), NEW e \in Observations, NEW sampled \in BOOLEAN,
         \/ Stated(d, o)
         \/ sampled /\ e.quota /\ InRegime(d, o, e.reset, e.window) = {}
  PROVE  Good(Recorded(d, o, e, sampled), o)
<1> DEFINE s == Stored(d, o, e)
<1>1. Sound(d) /\ o \in DOMAIN d.cycles /\ OpenIds(d) = {o} /\ Totals(d, o) /\ o # 0
  BY SoundFacts DEF OneOpen, OpenIds
<1>2. Recorded(d, o, e, sampled) =
        IF sampled /\ e.quota /\ Due(s, o, e) THEN AddSample(s, o, e) ELSE s
  BY DEF Recorded, Stored
<1>3. /\ Sound(s) /\ s.cycles = d.cycles /\ s.samples = d.samples
      /\ DOMAIN d.events \subseteq DOMAIN s.events
      /\ \A i \in DOMAIN d.events : s.events[i] = d.events[i]
  <2>1. o \in {0} \cup DOMAIN d.cycles /\ (e.quota => o # 0)
    BY <1>1
  <2>2. LET u == Stored(d, o, e) IN
          /\ Sound(u) /\ u.cycles = d.cycles /\ u.samples = d.samples
          /\ DOMAIN d.events \subseteq DOMAIN u.events
          /\ \A i \in DOMAIN d.events : u.events[i] = d.events[i]
    BY ONLY <1>1, <2>1, StoredFacts, e \in Observations
  <2> QED BY <2>2
<1> HIDE DEF s
<1>4. OpenIds(s) = {o}
  BY <1>1, <1>3 DEF OpenIds
<1>5. Totals(s, o)
  <2>1. \A k \in DOMAIN d.samples : d.samples[k].total \subseteq DOMAIN d.events
    BY <1>1 DEF Sound
  <2> QED BY <1>1, <1>3, <2>1 DEF Totals, SamplesOf
<1>6. OneOpen(s, o)
  BY <1>3, <1>4, <1>5 DEF OneOpen
<1>7. Reading(e)
  BY ObservationFacts
<1>8. CASE sampled /\ e.quota /\ Due(s, o, e)
  BY <1>2, <1>6, <1>7, <1>8, AddSampleGood
<1>9. CASE ~(sampled /\ e.quota /\ Due(s, o, e))
  <2>1. InRegime(s, o, e.reset, e.window) = InRegime(d, o, e.reset, e.window)
    BY <1>3 DEF InRegime
  <2>2. Stated(d, o)
    BY <1>9, <2>1 DEF Due
  <2>3. Stated(s, o)
    BY <1>1, <1>3, <2>2, StatedSame
  <2> QED BY <1>2, <1>6, <1>9, <2>3 DEF Good
<1> QED BY <1>8, <1>9

(***************************************************************************)
(* The cycles that are opened and closed.                                  *)
(***************************************************************************)

\* The cycle that is created when none is open is the open one.
LEMMA BirthGood ==
  ASSUME NEW d, Sound(d), OpenIds(d) = {}, NEW started \in Nat, NEW e, Reading(e), NEW I
  PROVE  Good(MoveEvents(CreateCycle(d, NewId(d), started, e), I, NewId(d)), NewId(d))
<1> DEFINE n == NewId(d)
           c == CreateCycle(d, n, started, e)
           s == MoveEvents(c, I, n)
<1>1. /\ Sound(c) /\ c.events = d.events /\ c.samples = d.samples
      /\ n \in Nat \ {0} /\ n \notin DOMAIN d.cycles
      /\ DOMAIN c.cycles = DOMAIN d.cycles \cup {n}
      /\ \A x \in DOMAIN d.cycles : c.cycles[x].ended = d.cycles[x].ended
      /\ c.cycles[n].ended = 0 /\ c.cycles[n].first = 0
      /\ c.cycles[n].start = 0 /\ c.cycles[n].peak = 0
  BY CreateCycleFacts
<1> HIDE DEF c, n
<1>2. /\ Sound(s) /\ s.cycles = c.cycles /\ s.samples = c.samples
      /\ DOMAIN s.events = DOMAIN c.events
  BY <1>1, MoveEventsFacts
<1> HIDE DEF s
<1>3. /\ s.cycles[n].ended = 0 /\ s.cycles[n].first = 0
      /\ s.cycles[n].start = 0 /\ s.cycles[n].peak = 0
  BY <1>1, <1>2
<1>4. OpenIds(s) = {n}
  BY <1>1, <1>2, <1>3 DEF OpenIds
<1>5. SamplesOf(s, n) = {}
  BY <1>1, <1>2 DEF SamplesOf, Sound
<1>6. n \in DOMAIN s.cycles
  BY <1>1, <1>2
<1>7. OneOpen(s, n)
  BY <1>2, <1>4, <1>5 DEF OneOpen, Totals
<1>8. Stated(s, n)
  BY <1>2, <1>3, <1>5, <1>6, StatedNone
<1> QED BY <1>7, <1>8 DEF Good, s, c, n

\* The last open cycle is closed.
LEMMA ClosedNone ==
  ASSUME NEW d, NEW o, Sound(d), OpenIds(d) = {o}, NEW at \in Nat \ {0},
         NEW reason \in {"scheduled_reset", "early_reset"}
  PROVE  LET s == CloseCycle(d, o, at, reason) IN
         Sound(s) /\ OpenIds(s) = {} /\ NewId(s) = NewId(d)
<1> DEFINE s == CloseCycle(d, o, at, reason)
<1>1. o \in DOMAIN d.cycles
  BY DEF OpenIds
<1>2. /\ Sound(s) /\ DOMAIN s.cycles = DOMAIN d.cycles /\ s.cycles[o].ended # 0
      /\ \A x \in DOMAIN d.cycles \ {o} : s.cycles[x].ended = d.cycles[x].ended
  BY <1>1, CloseCycleFacts
<1> HIDE DEF s
<1>3. OpenIds(s) = {}
  BY <1>2 DEF OpenIds
<1> QED BY <1>2, <1>3 DEF s, NewId

\* Of what holds of one cycle only, that cycle is chosen.
LEMMA CurIs ==
  ASSUME NEW o \in Nat, OpenIds(db) = {o}
  PROVE  Cur = o
<1>1. \A x : x \in OpenIds(db) /\ (\A y \in OpenIds(db) : y <= x) <=> x = o
  OBVIOUS
<1> QED BY <1>1 DEF Cur

\* The cycle that follows one that has ended at its schedule is the open one.
LEMMA NextCycleGood ==
  ASSUME NEW d, Sound(d), OpenIds(d) = {Cur}, NEW at \in Nat \ {0}, NEW started \in Nat,
         NEW e, Reading(e)
  PROVE  Good(NextCycle(d, started, at, e), NewId(d))
<1> DEFINE c == CloseCycle(d, Cur, at, "scheduled_reset")
<1>1. Sound(c) /\ OpenIds(c) = {} /\ NewId(c) = NewId(d)
  BY ClosedNone
<1>2. NextCycle(d, started, at, e) =
        MoveEvents(CreateCycle(c, NewId(d), started, e), RequestedFrom(d, Cur, at), NewId(d))
  BY DEF NextCycle
<1> HIDE DEF c
<1> QED BY <1>1, <1>2, BirthGood

(***************************************************************************)
(* What a transaction leaves in the rows, for the action properties.       *)
(***************************************************************************)

\* s has the samples of d, and new ones of cycle o with their totals.
MoreSamples(d, s, o) ==
  /\ \A k \in DOMAIN d.samples : k \in DOMAIN s.samples /\ s.samples[k] = d.samples[k]
  /\ \A k \in DOMAIN s.samples \ DOMAIN d.samples :
       s.samples[k].cycle = o /\ s.samples[k].total = Total(s, o, s.samples[k].at)

\* A sample changes its own cycle only.
LEMMA AddSampleRows ==
  ASSUME NEW d, NEW o, OneOpen(d, o), NEW e, Reading(e)
  PROVE  LET s == AddSample(d, o, e) IN
         /\ s.events = d.events /\ DOMAIN s.cycles = DOMAIN d.cycles
         /\ \A x \in DOMAIN d.cycles \ {o} : s.cycles[x] = d.cycles[x]
         /\ MoreSamples(d, s, o)
<1> DEFINE m == NextId(DOMAIN d.samples)
           sample == [cycle |-> o, at |-> e.requested, used |-> e.used, reset |-> e.reset,
                      window |-> e.window, total |-> Total(d, o, e.requested)]
           new == [k \in DOMAIN d.samples \cup {m} |->
                     IF k \in DOMAIN d.samples THEN d.samples[k] ELSE sample]
           a == Sampled(d, o, e)
           b == SetSchedule(a, o, e)
           K == InRegime(b, o, e.reset, e.window)
           s == WithStats(b, o, K)
<1>1. AddSample(d, o, e) = s
  BY DEF AddSample, Sampled, RefreshStats
<1>2. OneOpen(a, o) /\ a.events = d.events /\ a.cycles = d.cycles
  BY SampledFacts
<1>3. Sound(a) /\ o \in DOMAIN a.cycles
  BY <1>2 DEF OneOpen, OpenIds
<1>4. a.samples = new
  <2>1. a = [d EXCEPT !.samples = new]
    BY DEF Sampled
  <2>2. d = [events |-> d.events, cycles |-> d.cycles, samples |-> d.samples]
    BY SoundFacts DEF OneOpen
  <2> HIDE DEF a, new
  <2> QED BY <2>1, <2>2
<1>5. /\ sample.cycle = o /\ sample.total = Total(d, o, sample.at)
  OBVIOUS
<1> HIDE DEF sample, a
<1>6. /\ Sound(b) /\ b.events = a.events /\ b.samples = a.samples
      /\ DOMAIN b.cycles = DOMAIN a.cycles
      /\ \A x \in DOMAIN a.cycles \ {o} : b.cycles[x] = a.cycles[x]
  BY <1>3, SetScheduleFacts
<1> HIDE DEF b
<1>7. K \subseteq DOMAIN b.samples /\ o \in DOMAIN b.cycles
  BY <1>3, <1>6 DEF InRegime
<1> HIDE DEF K
<1>8. /\ s.events = b.events /\ s.samples = b.samples
      /\ DOMAIN s.cycles = DOMAIN b.cycles
      /\ \A x \in DOMAIN b.cycles \ {o} : s.cycles[x] = b.cycles[x]
  BY <1>6, <1>7, WithStatsFacts
<1> HIDE DEF s
<1>9. \A at : Total(s, o, at) = Total(d, o, at)
  BY <1>2, <1>6, <1>8 DEF Total, EventsOf
<1>10. /\ \A k \in DOMAIN d.samples : k \in DOMAIN new /\ new[k] = d.samples[k]
       /\ \A k \in DOMAIN new \ DOMAIN d.samples : new[k] = sample
  OBVIOUS
<1> HIDE DEF new
<1>11. MoreSamples(d, s, o)
  BY <1>4, <1>5, <1>6, <1>8, <1>9, <1>10 DEF MoreSamples
<1> QED BY <1>1, <1>2, <1>6, <1>8, <1>11

\* The event recorded is the last one.
LEMMA RecordedRows ==
  ASSUME NEW d, NEW o, OneOpen(d, o), NEW e \in Observations, NEW sampled \in BOOLEAN
  PROVE  LET s == Recorded(d, o, e, sampled) IN
         /\ DOMAIN s.events = DOMAIN d.events \cup {Len(s.events)}
         /\ Len(s.events) \notin DOMAIN d.events
         /\ \A i \in DOMAIN d.events : i < Len(s.events) /\ s.events[i] = d.events[i]
         /\ Shows(s.events[Len(s.events)], e) /\ s.events[Len(s.events)].cycle = o
         /\ DOMAIN s.cycles = DOMAIN d.cycles
         /\ \A x \in DOMAIN d.cycles \ {o} : s.cycles[x] = d.cycles[x]
         /\ MoreSamples(d, s, o)
<1> DEFINE a == Stored(d, o, e)
           s == Recorded(d, o, e, sampled)
<1>1. Sound(d) /\ o \in DOMAIN d.cycles /\ OpenIds(d) = {o} /\ Totals(d, o) /\ o # 0
  BY SoundFacts DEF OneOpen, OpenIds
<1>2. s = IF sampled /\ e.quota /\ Due(a, o, e) THEN AddSample(a, o, e) ELSE a
  BY DEF Recorded, Stored
<1>3. /\ Sound(a) /\ a.cycles = d.cycles /\ a.samples = d.samples
      /\ DOMAIN d.events \subseteq DOMAIN a.events
      /\ \A i \in DOMAIN d.events : a.events[i] = d.events[i]
      /\ Len(a.events) = Len(d.events) + 1 /\ DOMAIN a.events = 1..Len(a.events)
      /\ Shows(a.events[Len(a.events)], e) /\ a.events[Len(a.events)].cycle = o
  <2>1. o \in {0} \cup DOMAIN d.cycles /\ (e.quota => o # 0)
    BY <1>1
  <2>2. a = Stored(d, o, e)
    OBVIOUS
  <2>3. LET u == Stored(d, o, e) IN
        /\ Sound(u) /\ u.cycles = d.cycles /\ u.samples = d.samples
        /\ DOMAIN d.events \subseteq DOMAIN u.events
        /\ \A i \in DOMAIN d.events : u.events[i] = d.events[i]
        /\ Len(u.events) = Len(d.events) + 1 /\ DOMAIN u.events = 1..Len(u.events)
        /\ Shows(u.events[Len(u.events)], e) /\ u.events[Len(u.events)].cycle = o
    <3>1. Sound(d) /\ e \in Observations
      BY <1>1
    <3> QED BY <2>1, <3>1, StoredFacts
  <2> HIDE DEF a
  <2> QED BY <2>2, <2>3, Zenon
<1>4. Len(d.events) \in Nat /\ DOMAIN d.events = 1..Len(d.events)
  BY <1>1, SoundFacts
<1> HIDE DEF a, s
<1>5. OneOpen(a, o)
  <2>1. \A k \in DOMAIN d.samples : d.samples[k].total \subseteq DOMAIN d.events
    BY <1>1 DEF Sound
  <2>2. Totals(a, o)
    BY <1>1, <1>3, <2>1 DEF Totals, SamplesOf
  <2>3. OpenIds(a) = {o}
    BY <1>1, <1>3 DEF OpenIds
  <2> QED BY <1>3, <2>2, <2>3 DEF OneOpen
<1>6. /\ s.events = a.events /\ DOMAIN s.cycles = DOMAIN a.cycles
      /\ \A x \in DOMAIN a.cycles \ {o} : s.cycles[x] = a.cycles[x]
      /\ MoreSamples(a, s, o)
  <2>1. CASE sampled /\ e.quota /\ Due(a, o, e)
    <3>1. Reading(e)
      BY ObservationFacts
    <3> QED BY <1>2, <1>5, <2>1, <3>1, AddSampleRows
  <2>2. CASE ~(sampled /\ e.quota /\ Due(a, o, e))
    BY <1>2, <2>2 DEF MoreSamples
  <2> QED BY <2>1, <2>2
<1>7. MoreSamples(d, s, o)
  BY <1>3, <1>6 DEF MoreSamples
<1>8. /\ DOMAIN a.events = DOMAIN d.events \cup {Len(a.events)}
      /\ Len(a.events) \notin DOMAIN d.events
      /\ \A i \in DOMAIN d.events : i < Len(a.events)
  BY <1>3, <1>4
<1> QED BY <1>3, <1>6, <1>7, <1>8 DEF s

\* A cycle that ends at its schedule says so.
LEMMA NextCycleRows ==
  ASSUME NEW d, Sound(d), OpenIds(d) = {Cur}, NEW at \in Nat \ {0}, NEW started \in Nat,
         NEW e, Reading(e)
  PROVE  LET s == NextCycle(d, started, at, e) IN
         /\ DOMAIN s.events = DOMAIN d.events
         /\ \A i \in DOMAIN d.events : Shows(s.events[i], d.events[i])
         /\ Cur \in DOMAIN s.cycles /\ Cur # NewId(d)
         /\ s.cycles[Cur].reason = "scheduled_reset"
<1> DEFINE n == NewId(d)
           c == CloseCycle(d, Cur, at, "scheduled_reset")
           b == CreateCycle(c, n, started, e)
           s == NextCycle(d, started, at, e)
<1>1. Cur \in DOMAIN d.cycles
  BY DEF OpenIds
<1>2. /\ Sound(c) /\ c.events = d.events /\ DOMAIN c.cycles = DOMAIN d.cycles
      /\ c.cycles[Cur].reason = "scheduled_reset"
  BY <1>1, CloseCycleFacts
<1>3. s = MoveEvents(b, RequestedFrom(d, Cur, at), n)
  BY DEF NextCycle
<1> HIDE DEF c, s
<1>4. n = NewId(c)
  BY <1>2 DEF NewId
<1> HIDE DEF n
<1>5. /\ Sound(b) /\ b.events = c.events /\ n \notin DOMAIN c.cycles
      /\ DOMAIN b.cycles = DOMAIN c.cycles \cup {n}
      /\ \A x \in DOMAIN c.cycles : b.cycles[x] = c.cycles[x]
  BY <1>2, <1>4, CreateCycleFacts
<1> HIDE DEF b
<1>6. /\ s.cycles = b.cycles /\ DOMAIN s.events = DOMAIN b.events
      /\ \A i \in DOMAIN b.events : Shows(s.events[i], b.events[i])
  BY <1>3, <1>5, MoveEventsFacts
<1> QED BY <1>1, <1>2, <1>5, <1>6 DEF s, n

\* The reset that RepairCarryover, StartAdvanced and ScheduledReset have in common.
LEMMA ScheduledReason ==
  ASSUME NEW d, Sound(d), OpenIds(d) = {Cur}, NEW at \in Nat \ {0}, NEW started \in Nat,
         NEW e \in Observations, NEW sampled \in BOOLEAN,
         Commit(Recorded(NextCycle(d, started, at, e), NewId(d), e, sampled))
  PROVE  cycles'[Cur].reason = "scheduled_reset"
<1> DEFINE s == NextCycle(d, started, at, e)
           n == NewId(d)
           r == Recorded(s, n, e, sampled)
<1>1. Reading(e)
  BY ObservationFacts
<1>2. Cur \in DOMAIN s.cycles /\ Cur # n /\ s.cycles[Cur].reason = "scheduled_reset"
  BY <1>1, NextCycleRows
<1>3. OneOpen(s, n)
  BY <1>1, NextCycleGood DEF Good
<1> HIDE DEF s, n
<1>4. \A x \in DOMAIN s.cycles \ {n} : r.cycles[x] = s.cycles[x]
  BY <1>3, RecordedRows
<1>5. cycles' = r.cycles
  BY DEF Commit, s, n
<1> QED BY <1>2, <1>4, <1>5

\* A request is not made after the end of its cycle.
InTime(d) ==
  \A i \in DOMAIN d.events : LET c == d.events[i].cycle IN
    c # 0 /\ d.cycles[c].ended # 0 =>
      /\ d.events[i].requested <= d.cycles[c].ended
      /\ d.cycles[c].reason = "scheduled_reset" => d.events[i].requested # d.cycles[c].ended

\* s has the requests of d, and those that it adds or moves belong to cycle o.
Follows(d, s, o) ==
  /\ \A i \in DOMAIN d.events : Shows(s.events[i], d.events[i])
  /\ \A i \in DOMAIN s.events : s.events[i].cycle # o =>
       i \in DOMAIN d.events /\ s.events[i].cycle = d.events[i].cycle
  /\ \A x \in DOMAIN s.cycles \ {o} : x \in DOMAIN d.cycles /\ s.cycles[x] = d.cycles[x]

\* What is added to the open cycle is in time.
LEMMA FollowsInTime ==
  ASSUME NEW d, NEW s, NEW o, Sound(s), OpenIds(s) = {o}, Follows(d, s, o), InTime(d)
  PROVE  InTime(s)
<1> SUFFICES ASSUME NEW i \in DOMAIN s.events, NEW c, c = s.events[i].cycle,
                    c # 0, s.cycles[c].ended # 0
             PROVE  /\ s.events[i].requested <= s.cycles[c].ended
                    /\ s.cycles[c].reason = "scheduled_reset"
                         => s.events[i].requested # s.cycles[c].ended
  BY DEF InTime
<1>1. c \in DOMAIN s.cycles
  BY DEF Sound
<1>2. c # o
  BY DEF OpenIds
<1>3. i \in DOMAIN d.events /\ c = d.events[i].cycle /\ s.cycles[c] = d.cycles[c]
  BY <1>1, <1>2 DEF Follows
<1>4. s.events[i].requested = d.events[i].requested
  BY <1>3 DEF Follows, Shows
<1> QED BY <1>3, <1>4 DEF InTime

\* A cycle that is closed gives away the requests made since.
LEMMA ClosedInTime ==
  ASSUME NEW d, NEW o, Sound(d), OpenIds(d) = {o}, NEW at \in Nat \ {0},
         NEW reason \in {"scheduled_reset", "early_reset"}, NEW started \in Nat,
         NEW e, Reading(e), NEW I,
         \A i \in EventsOf(d, o) \ I :
           /\ d.events[i].requested <= at
           /\ reason = "scheduled_reset" => d.events[i].requested # at
  PROVE  LET n == NewId(d)
             s == MoveEvents(CreateCycle(CloseCycle(d, o, at, reason), n, started, e), I, n)
         IN /\ DOMAIN s.events = DOMAIN d.events
            /\ \A i \in DOMAIN d.events : Shows(s.events[i], d.events[i])
            /\ InTime(d) => InTime(s)
<1> DEFINE n == NewId(d)
           c == CloseCycle(d, o, at, reason)
           b == CreateCycle(c, n, started, e)
           s == MoveEvents(b, I, n)
<1>1. /\ Sound(c) /\ c.events = d.events /\ DOMAIN c.cycles = DOMAIN d.cycles
      /\ c.cycles[o].reason = reason /\ c.cycles[o].ended = at
      /\ \A x \in DOMAIN d.cycles \ {o} : c.cycles[x] = d.cycles[x]
  <2>1. o \in DOMAIN d.cycles
    BY DEF OpenIds
  <2> QED BY <2>1, CloseCycleFacts
<1> HIDE DEF c
<1>2. Sound(c) /\ n = NewId(c)
  BY <1>1 DEF NewId
<1> HIDE DEF n
<1>3. /\ Sound(b) /\ b.events = c.events
      /\ DOMAIN b.cycles = DOMAIN c.cycles \cup {n} /\ b.cycles[n].ended = 0
      /\ \A x \in DOMAIN c.cycles : b.cycles[x] = c.cycles[x]
  <2> DEFINE a == CreateCycle(c, NewId(c), started, e)
  <2>1. /\ Sound(a) /\ a.events = c.events
        /\ DOMAIN a.cycles = DOMAIN c.cycles \cup {NewId(c)} /\ a.cycles[NewId(c)].ended = 0
        /\ \A x \in DOMAIN c.cycles : a.cycles[x] = c.cycles[x]
    BY ONLY <1>2, started \in Nat, Reading(e), CreateCycleFacts
  <2>2. a = b
    BY <1>2
  <2> HIDE DEF a, b
  <2> QED BY <1>2, <2>1, <2>2
<1> HIDE DEF b
<1>4. /\ Sound(s) /\ s.cycles = b.cycles /\ DOMAIN s.events = DOMAIN b.events
      /\ \A i \in DOMAIN b.events :
           /\ Shows(s.events[i], b.events[i])
           /\ s.events[i].cycle = IF i \in I THEN n ELSE b.events[i].cycle
  BY <1>3, MoveEventsFacts
<1> HIDE DEF s
<1>5. ASSUME InTime(d), NEW i \in DOMAIN s.events, NEW x, x = s.events[i].cycle,
             x # 0, s.cycles[x].ended # 0
      PROVE  /\ s.events[i].requested <= s.cycles[x].ended
             /\ s.cycles[x].reason = "scheduled_reset"
                  => s.events[i].requested # s.cycles[x].ended
  <2>1. x \in DOMAIN s.cycles /\ x # n
    BY <1>3, <1>4, <1>5 DEF Sound
  <2>2. x \in DOMAIN d.cycles /\ s.cycles[x] = c.cycles[x]
    BY <1>1, <1>3, <1>4, <2>1
  <2>3. i \in DOMAIN d.events /\ i \notin I /\ d.events[i].cycle = x
    BY <1>1, <1>3, <1>4, <1>5, <2>1
  <2>4. s.events[i].requested = d.events[i].requested
    BY <1>1, <1>3, <1>4, <2>3 DEF Shows
  <2>5. CASE x = o
    <3>1. i \in EventsOf(d, o) \ I
      BY <2>3, <2>5 DEF EventsOf
    <3>2. d.events[i].requested <= at /\ (reason = "scheduled_reset" => d.events[i].requested # at)
      BY <3>1
    <3> QED BY <1>1, <2>2, <2>4, <2>5, <3>2
  <2>6. CASE x # o
    <3>1. s.cycles[x] = d.cycles[x]
      BY <1>1, <2>2, <2>6
    <3> QED BY <1>5, <2>3, <2>4, <3>1 DEF InTime
  <2> QED BY <2>5, <2>6
<1>6. InTime(d) => InTime(s)
  BY <1>5 DEF InTime
<1> QED BY <1>1, <1>3, <1>4, <1>6 DEF s, b, c, n

\* The ledger d, in which a transaction records its event, has the requests there were.
Ready(d, o) ==
  /\ OneOpen(d, o)
  /\ DOMAIN d.events = DOMAIN events
  /\ \A i \in DOMAIN events : Shows(d.events[i], events[i])
  /\ InTime(db) => InTime(d)

\* The event is recorded in the open cycle of such a ledger.
Records(e) ==
  \E d, o : \E sampled \in BOOLEAN :
    /\ Commit(Recorded(d, o, e, sampled))
    /\ Good(Recorded(d, o, e, sampled), o)
    /\ Ready(d, o)

\* One that changes the open cycle only, or moves requests to it.
LEMMA FollowsReady ==
  ASSUME NEW d, NEW o, OneOpen(d, o), DOMAIN d.events = DOMAIN events, Follows(db, d, o)
  PROVE  Ready(d, o)
<1>1. db.events = events
  BY DEF db
<1>2. InTime(db) => InTime(d)
  BY FollowsInTime DEF OneOpen
<1>3. \A i \in DOMAIN events : Shows(d.events[i], events[i])
  BY <1>1 DEF Follows
<1> QED BY <1>2, <1>3 DEF Ready

\* A sample moves no request.
LEMMA SampleReady ==
  ASSUME NEW d, NEW o, Ready(d, o), NEW e, Reading(e)
  PROVE  Good(AddSample(d, o, e), o) /\ Ready(AddSample(d, o, e), o)
<1> DEFINE s == AddSample(d, o, e)
<1>1. OneOpen(d, o)
  BY DEF Ready
<1>2. Good(s, o)
  BY <1>1, AddSampleGood
<1>3. /\ s.events = d.events /\ DOMAIN s.cycles = DOMAIN d.cycles
      /\ \A x \in DOMAIN d.cycles \ {o} : s.cycles[x] = d.cycles[x]
  BY <1>1, AddSampleRows
<1> HIDE DEF s
<1>4. Follows(d, s, o)
  BY <1>3 DEF Follows, Shows
<1>5. InTime(d) => InTime(s)
  BY <1>2, <1>4, FollowsInTime DEF Good, OneOpen
<1>6. Ready(s, o)
  BY <1>2, <1>3, <1>5 DEF Ready, Good
<1> QED BY <1>2, <1>6 DEF s

(***************************************************************************)
(* Rows that an order puts first.                                          *)
(***************************************************************************)

\* There is a first request among some events.
LEMMA FirstRequestFacts ==
  ASSUME NEW d, Sound(d), NEW I, I \subseteq DOMAIN d.events, I # {}
  PROVE  /\ FirstRequest(d, I) \in I
         /\ \A j \in I : LET f == FirstRequest(d, I) IN
              \/ d.events[f].requested < d.events[j].requested
              \/ d.events[f].requested = d.events[j].requested /\ f <= j
<1>1. \A i \in I : i \in Nat /\ d.events[i] \in Event
  BY SoundFacts
<1>2. \A i \in I : d.events[i].requested \in Nat
  BY <1>1 DEF Event
<1>3. PICK a \in {d.events[i].requested : i \in I} :
        \A x \in {d.events[i].requested : i \in I} : a <= x
  <2>1. {d.events[i].requested : i \in I} \subseteq Nat /\ {d.events[i].requested : i \in I} # {}
    BY <1>2
  <2> QED BY <2>1, LeastNatural
<1>4. PICK f \in {i \in I : d.events[i].requested = a} :
        \A i \in {i \in I : d.events[i].requested = a} : f <= i
  <2>1. /\ {i \in I : d.events[i].requested = a} \subseteq Nat
        /\ {i \in I : d.events[i].requested = a} # {}
    BY <1>1, <1>3
  <2> QED BY <2>1, LeastNatural
<1>5. ASSUME NEW j \in I
      PROVE  \/ d.events[f].requested < d.events[j].requested
             \/ d.events[f].requested = d.events[j].requested /\ f <= j
  <2>1. d.events[f].requested = a /\ a \in Nat /\ d.events[j].requested \in Nat
    BY <1>2, <1>4
  <2>2. a <= d.events[j].requested
    BY <1>3
  <2>3. d.events[j].requested = a => f <= j
    BY <1>4
  <2> QED BY <2>1, <2>2, <2>3
<1> QED BY <1>4, <1>5 DEF FirstRequest

\* There is an oldest observation among some events.
LEMMA OldestFacts ==
  ASSUME NEW d, Sound(d), NEW I, I \subseteq DOMAIN d.events, I # {}
  PROVE  \E i \in I : \A j \in I \ {i} : Newer(d, j, i)
<1>1. \A i \in I : i \in Nat /\ d.events[i] \in Event
  BY SoundFacts
<1>2. \A i \in I : d.events[i].observed \in Nat
  BY <1>1 DEF Event
<1>3. PICK a \in {d.events[i].observed : i \in I} :
        \A x \in {d.events[i].observed : i \in I} : a <= x
  <2>1. {d.events[i].observed : i \in I} \subseteq Nat /\ {d.events[i].observed : i \in I} # {}
    BY <1>2
  <2> QED BY <2>1, LeastNatural
<1>4. PICK f \in {i \in I : d.events[i].observed = a} :
        \A i \in {i \in I : d.events[i].observed = a} : f <= i
  <2>1. /\ {i \in I : d.events[i].observed = a} \subseteq Nat
        /\ {i \in I : d.events[i].observed = a} # {}
    BY <1>1, <1>3
  <2> QED BY <2>1, LeastNatural
<1>5. ASSUME NEW j \in I \ {f} PROVE Newer(d, j, f)
  <2>1. /\ j \in Nat /\ f \in Nat /\ j # f
        /\ d.events[j].observed \in Nat /\ d.events[f].observed = a /\ a \in Nat
    BY <1>1, <1>2, <1>4
  <2>2. a <= d.events[j].observed
    BY <1>3
  <2>3. d.events[j].observed = a => f <= j
    BY <1>4
  <2> QED BY <2>1, <2>2, <2>3 DEF Newer
<1> QED BY <1>4, <1>5

(***************************************************************************)
(* Every action keeps the invariant.                                       *)
(***************************************************************************)

\* The transaction is committed.
LEMMA Committed ==
  ASSUME NEW d, Sound(d), Commit(d)
  PROVE  db' = d
BY SoundFacts DEF Commit, db

\* A good database that is committed keeps the invariant.
LEMMA CommitGood ==
  ASSUME NEW d, NEW o, Good(d, o), Commit(d)
  PROVE  IInv' /\ db' = d /\ OpenIds(db') = {o}
<1>1. db' = d
  BY Committed DEF Good, OneOpen
<1>2. o \in DOMAIN d.cycles /\ d.cycles = cycles'
  BY DEF Good, OneOpen, OpenIds, Commit
<1>3. OpenIds(db') = {o}
  BY <1>1 DEF Good, OneOpen
<1> QED BY <1>1, <1>2, <1>3 DEF IInv

\* Once a quota was told, the current cycle is the open one.
LEMMA Current ==
  ASSUME IInv, HasCycle
  PROVE  /\ Good(db, Cur) /\ OneOpen(db, Cur) /\ Sound(db) /\ OpenIds(db) = {Cur}
         /\ Cur \in DOMAIN cycles /\ Cur \in Nat \ {0}
         /\ C \in Cycle /\ Stated(db, Cur)
         /\ db.events = events /\ db.cycles = cycles /\ db.samples = samples
<1>1. db.events = events /\ db.cycles = cycles /\ db.samples = samples
  BY DEF db
<1>2. ~Fresh(db)
  BY <1>1 DEF HasCycle, OpenIds, Fresh
<1>3. PICK o \in DOMAIN cycles : Good(db, o)
  BY <1>2 DEF IInv
<1>4. OneOpen(db, o) /\ Sound(db) /\ OpenIds(db) = {o} /\ Stated(db, o)
  BY <1>3 DEF Good, OneOpen
<1>5. o \in Nat \ {0} /\ cycles[o] \in Cycle
  BY <1>1, <1>3, <1>4, SoundFacts
<1>6. Cur = o
  BY <1>4, <1>5, CurIs
<1> QED BY <1>1, <1>3, <1>4, <1>5, <1>6 DEF C

\* The start of a cycle is a time.
LEMMA StartFacts ==
  ASSUME NEW e, Reading(e), NEW p \in Nat
  PROVE  /\ DeclaredStart(e) \in Int
         /\ EventCycleStart(e, p) \in Nat
         /\ \A a \in Nat : AtLeast(EventCycleStart(e, p), a) \in Nat
<1>1. e.reset \in Nat /\ e.window \in Nat /\ e.requested \in Nat
  BY DEF Reading
<1>2. DeclaredStart(e) \in Int
  BY <1>1 DEF DeclaredStart
<1>3. EventCycleStart(e, p) \in Nat
  BY <1>1, <1>2, ConstantsAssumption DEF EventCycleStart
<1> QED BY <1>2, <1>3 DEF AtLeast

\* RecordPlain and the other returns that leave the current cycle as it is.
LEMMA KeepInv ==
  ASSUME IInv, HasCycle, NEW e \in Observations, NEW sampled \in BOOLEAN, Keep(e, sampled)
  PROVE  IInv' /\ OpenIds(db') = {Cur} /\ Records(e)
<1>1. Good(Recorded(db, Cur, e, sampled), Cur)
  BY Current, RecordedGood
<1>2. Commit(Recorded(db, Cur, e, sampled))
  BY DEF Keep
<1>3. Ready(db, Cur)
  <2>1. OneOpen(db, Cur) /\ db.events = events
    BY Current
  <2> QED BY <2>1 DEF Ready, Shows
<1>4. Records(e)
  BY <1>1, <1>2, <1>3 DEF Records
<1> QED BY <1>1, <1>2, <1>4, CommitGood

\* RecordFirst: the first cycle is opened.
LEMMA RecordFirstInv ==
  ASSUME IInv, NEW e \in Observations, RecordFirst(e)
  PROVE  IInv' /\ (e.quota => Records(e))
<1> DEFINE n == NewId(db)
           started == EventCycleStart(e, 0)
           created == CreateCycle(db, n, started, e)
           adopted == {i \in EventsOf(db, 0) : events[i].requested >= created.cycles[n].started
                                               /\ events[i].requested <= e.requested}
           moved == MoveEvents(created, adopted, n)
<1>1. Fresh(db)
  <2> SUFFICES ASSUME NEW o \in DOMAIN cycles, Good(db, o) PROVE FALSE
    BY DEF IInv
  <2>1. OpenIds(db) # {}
    BY DEF Good, OneOpen
  <2> QED BY <2>1 DEF RecordFirst, HasCycle
<1>2. Sound(db) /\ OpenIds(db) = {} /\ Reading(e)
  BY <1>1, ObservationFacts DEF Fresh, OpenIds
<1>3. CASE e.quota
  <2>1. started \in Nat
    BY <1>2, StartFacts
  <2>2. Good(moved, n)
    <3> HIDE DEF adopted, started
    <3> QED BY <1>2, <2>1, BirthGood
  <2>3. Commit(Recorded(moved, n, e, TRUE))
    BY <1>3 DEF RecordFirst
  <2>4. /\ DOMAIN created.cycles = {n} /\ created.cycles[n].ended = 0
        /\ created.events = events /\ Sound(created)
    BY <1>1, <1>2, <2>1, CreateCycleFacts DEF Fresh, db
  <2> HIDE DEF created, adopted, n
  <2>5. /\ moved.cycles = created.cycles /\ DOMAIN moved.events = DOMAIN events
        /\ \A i \in DOMAIN events : Shows(moved.events[i], events[i])
    BY <2>4, MoveEventsFacts
  <2> HIDE DEF moved
  <2>6. InTime(moved)
    <3>1. \A i \in DOMAIN moved.events : moved.events[i].cycle \in {0, n}
      BY <2>2, <2>4, <2>5 DEF Good, OneOpen, Sound
    <3> QED BY <2>4, <2>5, <3>1 DEF InTime
  <2>7. Ready(moved, n)
    BY <2>2, <2>5, <2>6 DEF Ready, Good
  <2>8. Good(Recorded(moved, n, e, TRUE), n)
    BY <2>2, RecordedGood DEF Good
  <2>9. Records(e)
    BY <2>3, <2>8, <2>7 DEF Records
  <2> QED BY <2>3, <2>8, <2>9, CommitGood
<1>4. CASE ~e.quota
  <2> DEFINE s == Stored(db, 0, e)
  <2>1. Commit(s)
    BY <1>4 DEF RecordFirst, Recorded, Stored
  <2>2. Sound(s) /\ s.cycles = db.cycles
    BY <1>2, <1>4, StoredFacts
  <2> HIDE DEF s
  <2>3. db' = s
    BY <2>1, <2>2, Committed
  <2>4. Fresh(s)
    BY <1>1, <2>2 DEF Fresh
  <2>5. Fresh(db)'
    BY <2>3, <2>4
  <2> QED BY <1>4, <2>5 DEF IInv
<1> QED BY <1>3, <1>4

\* A cycle without a baseline follows the schedule as it slides.
LEMMA SlidGood ==
  ASSUME NEW d, NEW o, Good(d, o), d.cycles[o].first = 0, NEW e, Reading(e),
         NEW started \in Nat
  PROVE  LET s == [SetSchedule(d, o, e) EXCEPT !.cycles[o] = [@ EXCEPT !.started = started]]
         IN /\ Good(s, o) /\ s.events = d.events /\ DOMAIN s.cycles = DOMAIN d.cycles
            /\ \A x \in DOMAIN d.cycles \ {o} : s.cycles[x] = d.cycles[x]
<1> DEFINE a == SetSchedule(d, o, e)
           row == [a.cycles[o] EXCEPT !.started = started]
           s == [a EXCEPT !.cycles[o] = [@ EXCEPT !.started = started]]
<1>1. OneOpen(d, o) /\ Sound(d) /\ o \in DOMAIN d.cycles /\ SamplesOf(d, o) = {}
  BY DEF Good, OneOpen, OpenIds, Stated
<1>2. d.cycles[o].start = 0 /\ d.cycles[o].peak = 0
  <2>1. CurrentRegime(d, o) = {}
    BY <1>1 DEF CurrentRegime, InRegime, SamplesOf
  <2>2. d.cycles[o] = StatsRow(d.samples, d.cycles[o], {})
    BY <1>1, <2>1, StatsUpToDate DEF Good, Stated
  <2>3. d.cycles[o] \in Cycle
    BY <1>1, SoundFacts
  <2> DEFINE old == d.cycles[o]
  <2>4. old = [old EXCEPT !.first = 0, !.start = 0, !.peak = 0]
    BY <2>2 DEF StatsRow, FirstAt, StartOf, PeakIn
  <2> HIDE DEF old
  <2>5. old.start = 0 /\ old.peak = 0
    <3>1. old \in Cycle
      BY <2>3 DEF old
    <3> QED BY <2>4, <3>1 DEF Cycle
  <2> QED BY <2>5 DEF old
<1>3. /\ Sound(a) /\ a.events = d.events /\ a.samples = d.samples
      /\ DOMAIN a.cycles = DOMAIN d.cycles
      /\ \A x \in DOMAIN d.cycles : a.cycles[x].ended = d.cycles[x].ended
      /\ \A x \in DOMAIN d.cycles \ {o} : a.cycles[x] = d.cycles[x]
      /\ a.cycles[o].first = 0 /\ a.cycles[o].start = 0 /\ a.cycles[o].peak = 0
  BY <1>1, <1>2, SetScheduleFacts
<1> HIDE DEF a
<1>4. OneOpen(a, o)
  BY <1>1, <1>3, OneOpenSame
<1>5. a.cycles[o] \in Cycle /\ Explained(a.cycles[o])
  BY <1>1, <1>3, SoundFacts DEF Sound
<1>6. /\ row \in Cycle /\ row.ended = a.cycles[o].ended /\ row.reason = a.cycles[o].reason
      /\ row.first = 0 /\ row.start = 0 /\ row.peak = 0
  BY <1>3, <1>5 DEF Cycle
<1>7. Explained(row)
  BY <1>5, <1>6 DEF Explained
<1>8. s = Updated(a, o, row)
  <2>1. a = [events |-> a.events, cycles |-> a.cycles, samples |-> a.samples]
    BY <1>3, SoundFacts
  <2>2. s = [a EXCEPT !.cycles[o] = row]
    OBVIOUS
  <2> HIDE DEF row
  <2> QED BY <2>1, <2>2 DEF Updated
<1> HIDE DEF row, s
<1>9. o \in DOMAIN a.cycles
  BY <1>1, <1>3
<1>10. /\ Sound(s) /\ s.events = a.events /\ s.samples = a.samples
       /\ DOMAIN s.cycles = DOMAIN a.cycles /\ s.cycles[o] = row
       /\ \A x \in DOMAIN a.cycles \ {o} : s.cycles[x] = a.cycles[x]
  BY <1>3, <1>6, <1>7, <1>8, <1>9, UpdatedFacts
<1>11. OneOpen(s, o)
  <2>1. \A x \in DOMAIN a.cycles : s.cycles[x].ended = a.cycles[x].ended
    BY <1>6, <1>10
  <2> QED BY <1>4, <1>10, <2>1, OneOpenSame
<1>12. SamplesOf(s, o) = {} /\ o \in DOMAIN s.cycles
  BY <1>1, <1>3, <1>10 DEF SamplesOf
<1>13. Stated(s, o)
  BY <1>6, <1>10, <1>12, StatedNone
<1>14. Good(s, o)
  BY <1>11, <1>13 DEF Good
<1> QED BY <1>3, <1>10, <1>14 DEF s, a

\* RecordPending: a cycle without samples slides, or keeps its later deadline.
LEMMA RecordPendingInv ==
  ASSUME IInv, NEW e \in Observations, RecordPending(e)
  PROVE  IInv' /\ OpenIds(db') = {Cur} /\ Records(e)
<1>1. HasCycle /\ C.first = 0
  BY DEF RecordPending, InCurrent, Informed, Pending
<1> DEFINE started == AtLeast(EventCycleStart(e, 0), C.started)
           slid == [SetSchedule(db, Cur, e) EXCEPT !.cycles[Cur] = [@ EXCEPT !.started = started]]
           d == IF ResetAtChanged(e) THEN slid ELSE db
           sampled == ~e.failed /\ e.used < Full
<1>2. Good(db, Cur) /\ db.cycles[Cur].first = 0 /\ Reading(e) /\ C.started \in Nat
  BY <1>1, Current, ObservationFacts DEF C, Cycle
<1>3. started \in Nat
  <2>1. 0 \in Nat
    OBVIOUS
  <2>2. \A a \in Nat : AtLeast(EventCycleStart(e, 0), a) \in Nat
    BY <1>2, <2>1, StartFacts
  <2> QED BY <1>2, <2>2
<1>4. Good(slid, Cur) /\ Ready(slid, Cur)
  <2> HIDE DEF started
  <2>1. /\ Good(slid, Cur) /\ slid.events = db.events
        /\ DOMAIN slid.cycles = DOMAIN db.cycles
        /\ \A x \in DOMAIN db.cycles \ {Cur} : slid.cycles[x] = db.cycles[x]
    BY <1>2, <1>3, SlidGood
  <2> HIDE DEF slid
  <2>2. Follows(db, slid, Cur) /\ DOMAIN slid.events = DOMAIN events
    BY <2>1 DEF Follows, Shows, db
  <2> QED BY <2>1, <2>2, FollowsReady DEF Good
<1>5. \/ Keep(e, FALSE)
      \/ Commit(Recorded(d, Cur, e, sampled))
  BY DEF RecordPending
<1> HIDE DEF slid
<1>6. Good(d, Cur) /\ Ready(d, Cur)
  <2>1. Ready(db, Cur)
    BY <1>1, Current DEF Ready, Shows
  <2> QED BY <1>2, <1>4, <2>1
<1> HIDE DEF d
<1>7. CASE Keep(e, FALSE)
  BY <1>1, <1>7, KeepInv
<1>8. CASE Commit(Recorded(d, Cur, e, sampled))
  <2>1. sampled \in BOOLEAN
    OBVIOUS
  <2> HIDE DEF sampled
  <2>2. Good(Recorded(d, Cur, e, sampled), Cur)
    BY <1>6, <2>1, RecordedGood DEF Good
  <2>3. Records(e)
    BY <1>6, <1>8, <2>1, <2>2 DEF Records
  <2> QED BY <1>8, <2>2, <2>3, CommitGood
<1> QED BY <1>5, <1>7, <1>8

\* RecordInRegime: the cycle goes on, maybe with another schedule.
LEMMA RecordInRegimeInv ==
  ASSUME IInv, NEW e \in Observations, RecordInRegime(e)
  PROVE  IInv' /\ OpenIds(db') = {Cur} /\ Records(e)
<1>1. HasCycle /\ e.quota
  BY DEF RecordInRegime, Judged, Unscheduled, Accepted, InCurrent, Informed
<1> DEFINE a == SetSchedule(db, Cur, e)
           K == InRegime(a, Cur, e.reset, e.window)
           s == WithStats(a, Cur, K)
           d == IF ResetAtChanged(e) \/ RegimeChanged(e) THEN s ELSE db
           sampled == TRUE
<1>2. Commit(Recorded(d, Cur, e, sampled))
  BY DEF RecordInRegime, RefreshStats
<1>3. Sound(db) /\ OneOpen(db, Cur) /\ Cur \in DOMAIN db.cycles /\ Stated(db, Cur)
  BY <1>1, Current
<1>4. Reading(e)
  BY ObservationFacts
<1>5. /\ Sound(a) /\ a.events = db.events /\ a.samples = db.samples
      /\ DOMAIN a.cycles = DOMAIN db.cycles
      /\ \A x \in DOMAIN db.cycles : a.cycles[x].ended = db.cycles[x].ended
      /\ \A x \in DOMAIN db.cycles \ {Cur} : a.cycles[x] = db.cycles[x]
      /\ a.cycles[Cur].reset = e.reset /\ a.cycles[Cur].window = e.window
  BY <1>3, <1>4, SetScheduleFacts
<1> HIDE DEF a
<1>6. K \subseteq DOMAIN a.samples /\ K = InRegime(a, Cur, e.reset, e.window)
  BY DEF InRegime
<1> HIDE DEF K
<1>7. /\ Sound(s) /\ s.events = a.events /\ s.samples = a.samples
      /\ DOMAIN s.cycles = DOMAIN a.cycles
      /\ \A x \in DOMAIN a.cycles : s.cycles[x].ended = a.cycles[x].ended
      /\ \A x \in DOMAIN a.cycles \ {Cur} : s.cycles[x] = a.cycles[x]
      /\ s.cycles[Cur].reset = a.cycles[Cur].reset /\ s.cycles[Cur].window = a.cycles[Cur].window
      /\ s.cycles[Cur].first = 0 => K = {}
      /\ WithStats(s, Cur, K) = s
  BY <1>3, <1>5, <1>6, WithStatsFacts
<1> HIDE DEF s
<1>8. OneOpen(s, Cur)
  <2>1. OneOpen(a, Cur)
    BY <1>3, <1>5, OneOpenSame
  <2> QED BY <1>7, <2>1, OneOpenSame
<1>9. InRegime(s, Cur, e.reset, e.window) = K /\ CurrentRegime(s, Cur) = K
  BY <1>5, <1>6, <1>7 DEF CurrentRegime, InRegime
<1>10. K # {} => Stated(s, Cur)
  BY <1>7, <1>9 DEF Stated
<1>11. Good(Recorded(d, Cur, e, sampled), Cur)
  <2>1. CASE ResetAtChanged(e) \/ RegimeChanged(e)
    <3>1. d = s
      BY <2>1
    <3>2. Good(Recorded(s, Cur, e, TRUE), Cur)
      BY <1>1, <1>8, <1>9, <1>10, RecordedGood
    <3> QED BY <3>1, <3>2
  <2>2. CASE ~(ResetAtChanged(e) \/ RegimeChanged(e))
    <3>1. d = db
      BY <2>2
    <3>2. Good(Recorded(db, Cur, e, TRUE), Cur)
      BY <1>3, RecordedGood
    <3> QED BY <3>1, <3>2
  <2> QED BY <2>1, <2>2
<1>12. Ready(d, Cur)
  <2>1. Ready(db, Cur)
    BY <1>1, Current DEF Ready, Shows
  <2>2. Follows(db, s, Cur) /\ DOMAIN s.events = DOMAIN events
    BY <1>5, <1>7 DEF Follows, Shows, db
  <2>3. Ready(s, Cur)
    BY <1>8, <2>2, FollowsReady
  <2> QED BY <2>1, <2>3
<1>13. sampled \in BOOLEAN
  OBVIOUS
<1> HIDE DEF d, sampled
<1>14. Records(e)
  BY <1>2, <1>11, <1>12, <1>13 DEF Records
<1> QED BY <1>2, <1>11, <1>14, CommitGood

\* A reset at a schedule: the current cycle ends, and the event is the first of the next.
LEMMA ResetInv ==
  ASSUME IInv, NEW e \in Observations, NEW sampled \in BOOLEAN, NEW n,
         NEW d, Good(d, n), Ready(d, n), Commit(Recorded(d, n, e, sampled))
  PROVE  IInv' /\ OpenIds(db') = {n} /\ Records(e)
<1>1. Good(Recorded(d, n, e, sampled), n)
  BY RecordedGood DEF Good
<1>2. Records(e)
  BY <1>1 DEF Records
<1> QED BY <1>1, <1>2, CommitGood

\* The ledger in which the next cycle has begun.
LEMMA NextCycleReady ==
  ASSUME NEW d, Sound(d), OpenIds(d) = {Cur}, d.events = events, InTime(db) => InTime(d),
         NEW at \in Nat \ {0}, NEW started \in Nat, NEW e, Reading(e)
  PROVE  LET s == NextCycle(d, started, at, e) IN Good(s, NewId(d)) /\ Ready(s, NewId(d))
<1> DEFINE s == NextCycle(d, started, at, e)
           n == NewId(d)
           I == RequestedFrom(d, Cur, at)
           reason == "scheduled_reset"
<1>1. Good(s, n)
  BY NextCycleGood
<1>2. \A i \in EventsOf(d, Cur) \ I : d.events[i].requested < at
  <2>1. ASSUME NEW i \in EventsOf(d, Cur) PROVE d.events[i].requested \in Nat
    <3>1. d.events[i] \in Event
      BY SoundFacts DEF EventsOf
    <3> QED BY <3>1 DEF Event
  <2> QED BY <2>1 DEF RequestedFrom
<1>3. \A i \in EventsOf(d, Cur) \ I :
        d.events[i].requested <= at /\ (reason = "scheduled_reset" => d.events[i].requested # at)
  <2>1. ASSUME NEW i \in EventsOf(d, Cur) PROVE d.events[i].requested \in Nat
    <3>1. d.events[i] \in Event
      BY SoundFacts DEF EventsOf
    <3> QED BY <3>1 DEF Event
  <2> QED BY <1>2, <2>1
<1>4. s = MoveEvents(CreateCycle(CloseCycle(d, Cur, at, reason), n, started, e), I, n)
  BY DEF NextCycle
<1>5. reason \in {"scheduled_reset", "early_reset"}
  OBVIOUS
<1> HIDE DEF s, n, I, reason
<1>6. /\ DOMAIN s.events = DOMAIN events
      /\ \A i \in DOMAIN events : Shows(s.events[i], events[i])
      /\ InTime(d) => InTime(s)
  BY <1>3, <1>4, <1>5, ClosedInTime DEF n
<1>7. Ready(s, n)
  BY <1>1, <1>6 DEF Ready, Good
<1> QED BY <1>1, <1>7 DEF s, n

\* StartAdvanced: the deadline of an exhausted window has passed.
LEMMA StartAdvancedInv ==
  ASSUME IInv, NEW e \in Observations, StartAdvanced(e)
  PROVE  /\ IInv' /\ OpenIds(db') = {NewId(db)} /\ Records(e)
         /\ cycles'[Cur].reason = "scheduled_reset"
<1> DEFINE started == AtLeast(EventCycleStart(e, C.started), C.reset)
           d == NextCycle(db, started, C.reset, e)
           sampled == ~e.failed /\ e.used < Full
<1>1. HasCycle /\ Commit(Recorded(d, NewId(db), e, sampled))
  BY DEF StartAdvanced, Accepted, InCurrent, Informed
<1>2. Reading(e) /\ C.reset \in Nat \ {0} /\ C.started \in Nat
  BY <1>1, Current, ObservationFacts DEF Cycle
<1>3. started \in Nat
  BY <1>2, StartFacts
<1> HIDE DEF started
<1>4. Good(d, NewId(db)) /\ Ready(d, NewId(db))
  BY <1>1, <1>2, <1>3, Current, NextCycleReady
<1>5. sampled \in BOOLEAN
  OBVIOUS
<1> HIDE DEF sampled
<1>6. cycles'[Cur].reason = "scheduled_reset"
  BY <1>1, <1>2, <1>3, <1>5, Current, ScheduledReason
<1> HIDE DEF d
<1> QED BY <1>1, <1>4, <1>5, <1>6, ResetInv

\* ScheduledReset: two observations agree that the deadline has passed.
LEMMA ScheduledResetInv ==
  ASSUME IInv, NEW e \in Observations, ScheduledReset(e)
  PROVE  /\ IInv' /\ OpenIds(db') = {NewId(db)} /\ Records(e)
         /\ cycles'[Cur].reason = "scheduled_reset"
<1> DEFINE started == IF DeclaredStart(e) > C.reset + Tolerance THEN DeclaredStart(e) ELSE C.reset
           d == NextCycle(db, started, C.reset, e)
           sampled == TRUE
<1>1. HasCycle /\ Commit(Recorded(d, NewId(db), e, sampled))
  BY DEF ScheduledReset, Scheduled, Accepted, InCurrent, Informed
<1>2. Reading(e) /\ C.reset \in Nat \ {0}
  BY <1>1, Current, ObservationFacts DEF Cycle
<1>3. started \in Nat
  <2>1. DeclaredStart(e) \in Int /\ C.reset \in Nat /\ Tolerance \in Nat
    BY <1>2, ConstantsAssumption DEF DeclaredStart, Reading
  <2> QED BY <2>1
<1> HIDE DEF started
<1>4. Good(d, NewId(db)) /\ Ready(d, NewId(db))
  BY <1>1, <1>2, <1>3, Current, NextCycleReady
<1>5. sampled \in BOOLEAN
  OBVIOUS
<1> HIDE DEF sampled
<1>6. cycles'[Cur].reason = "scheduled_reset"
  BY <1>1, <1>2, <1>3, <1>5, Current, ScheduledReason
<1> HIDE DEF d
<1> QED BY <1>1, <1>4, <1>5, <1>6, ResetInv

\* Samples that are deleted.
LEMMA DropSamplesSound ==
  ASSUME NEW d, Sound(d), NEW X
  PROVE  LET s == [d EXCEPT !.samples = [k \in DOMAIN d.samples \ X |-> d.samples[k]]] IN
         /\ Sound(s) /\ s.events = d.events /\ s.cycles = d.cycles
<1> DEFINE D == DOMAIN d.samples \ X
           new == [k \in D |-> d.samples[k]]
           s == [d EXCEPT !.samples = new]
<1>1. /\ d = [events |-> d.events, cycles |-> d.cycles, samples |-> d.samples]
      /\ d.events \in Seq(Event) /\ d.cycles \in Table(Cycle)
      /\ DOMAIN d.samples \subseteq Nat \ {0}
      /\ \A k \in DOMAIN d.samples : d.samples[k] \in Sample
  BY SoundFacts
<1>2. D \in SUBSET (Nat \ {0}) /\ new \in [D -> Sample]
  BY <1>1
<1>3. DOMAIN new = D /\ \A k \in D : k \in DOMAIN d.samples /\ new[k] = d.samples[k]
  OBVIOUS
<1>4. Bounded(D)
  BY DEF Sound, Bounded
<1> HIDE DEF new, D
<1>5. new \in Table(Sample)
  BY <1>2, IsTable
<1>6. s.events = d.events /\ s.cycles = d.cycles /\ s.samples = new /\ s \in Db
  BY <1>1, <1>5 DEF Db
<1> HIDE DEF s
<1>7. Sound(s)
  BY <1>3, <1>4, <1>6 DEF Sound
<1> QED BY <1>6, <1>7 DEF s, new, D

\* RepairCarryover: what was sampled after the deadline is dropped, and the next
\* cycle starts there.
LEMMA RepairCarryoverInv ==
  ASSUME IInv, NEW e \in Observations, RepairCarryover(e)
  PROVE  /\ IInv' /\ OpenIds(db') = {NewId(db)} /\ Records(e)
         /\ cycles'[Cur].reason = "scheduled_reset"
<1> DEFINE at == ExhaustedReset(e)
           carried == {k \in SamplesOf(db, Cur) : samples[k].at >= at}
           kept == [db EXCEPT !.samples = [k \in DOMAIN samples \ carried |-> samples[k]]]
           summed == RefreshSummary(kept, Cur)
           started == AtLeast(EventCycleStart(e, C.started), at)
           d == NextCycle(summed, started, at, e)
           sampled == TRUE
<1>1. /\ HasCycle /\ Carryover(e)
      /\ Commit(Recorded(d, NewId(db), e, sampled))
  BY DEF RepairCarryover, Accepted, InCurrent, Informed
<1>2. /\ Sound(db) /\ OpenIds(db) = {Cur} /\ Cur \in DOMAIN db.cycles
      /\ C \in Cycle /\ db.samples = samples /\ db.events = events
  BY <1>1, Current
<1>3. at \in Nat \ {0}
  <2> DEFINE A == ExhaustedAdvances(e)
  <2>1. A # {} /\ A \subseteq DOMAIN db.events
    BY <1>1 DEF Carryover, ExhaustedAdvances, QuotaEvents, EventsOf
  <2> HIDE DEF A
  <2>2. \E i \in A : \A j \in A \ {i} : Newer(db, j, i)
    BY <1>2, <2>1, OldestFacts
  <2>3. PICK i \in A : at = events[i].reset
    BY <2>2 DEF ExhaustedReset, A
  <2>4. events[i] \in Event
    BY <1>2, <2>1, SoundFacts
  <2> QED BY <2>3, <2>4 DEF Event
<1>4. Reading(e) /\ C.started \in Nat
  BY <1>2, ObservationFacts DEF Cycle
<1>5. started \in Nat
  <2> HIDE DEF at
  <2> QED BY <1>3, <1>4, StartFacts
<1> HIDE DEF at, started, carried
<1>6. Sound(kept) /\ kept.events = db.events /\ kept.cycles = db.cycles
  <2> DEFINE same == [db EXCEPT !.samples = [k \in DOMAIN db.samples \ carried |-> db.samples[k]]]
  <2>1. kept = same
    BY <1>2
  <2> HIDE DEF kept
  <2>2. Sound(same) /\ same.events = db.events /\ same.cycles = db.cycles
    BY <1>2, DropSamplesSound
  <2> HIDE DEF same
  <2> QED BY <2>1, <2>2
<1> HIDE DEF kept
<1>7. /\ Sound(summed) /\ summed.events = db.events
      /\ DOMAIN summed.cycles = DOMAIN db.cycles
      /\ \A x \in DOMAIN db.cycles \ {Cur} : summed.cycles[x] = db.cycles[x]
      /\ \A x \in DOMAIN db.cycles : summed.cycles[x].ended = db.cycles[x].ended
  <2>1. SamplesOf(kept, Cur) \subseteq DOMAIN kept.samples /\ Cur \in DOMAIN kept.cycles
    BY <1>2, <1>6 DEF SamplesOf
  <2>2. summed = WithStats(kept, Cur, SamplesOf(kept, Cur))
    BY DEF RefreshSummary
  <2> HIDE DEF summed
  <2> QED BY <1>6, <2>1, <2>2, WithStatsFacts
<1> HIDE DEF summed
<1>8. OpenIds(summed) = {Cur} /\ NewId(summed) = NewId(db)
  BY <1>2, <1>7 DEF OpenIds, NewId
<1>9. Good(d, NewId(db)) /\ Ready(d, NewId(db))
  <2>1. Follows(db, summed, Cur)
    BY <1>7 DEF Follows, Shows
  <2>2. InTime(db) => InTime(summed)
    BY <1>7, <1>8, <2>1, FollowsInTime
  <2> QED BY <1>2, <1>3, <1>4, <1>5, <1>7, <1>8, <2>2, NextCycleReady
<1>10. sampled \in BOOLEAN
  OBVIOUS
<1> HIDE DEF sampled
<1>11. cycles'[Cur].reason = "scheduled_reset"
  BY <1>1, <1>3, <1>5, <1>7, <1>8, <1>10, ScheduledReason
<1> HIDE DEF d
<1> QED BY <1>1, <1>9, <1>10, <1>11, ResetInv

\* EarlyReset: the run of low readings moves to a cycle of its own.
LEMMA EarlyResetInv ==
  ASSUME IInv, NEW e \in Observations, EarlyReset(e)
  PROVE  IInv' /\ OpenIds(db') = {NewId(db)} /\ Records(e)
<1> DEFINE n == NewId(db)
           f == FirstLowRequest(e)
           first == events[f]
           closed == CloseCycle(db, Cur, first.requested, "early_reset")
           created == CreateCycle(closed, n, first.requested, first)
           since == {i \in EventsOf(db, Cur) :
                       \/ events[i].requested > first.requested
                       \/ events[i].requested = first.requested /\ i >= f}
           moved == MoveEvents(created, since, n)
<1>1. /\ HasCycle /\ EarlyResetConfirmed(e)
      /\ Commit(Recorded(AddSample(moved, n, first), n, e, TRUE))
  BY DEF EarlyReset, Judged, Unscheduled, Accepted, InCurrent, Informed
<1>2. /\ Sound(db) /\ OpenIds(db) = {Cur} /\ db.events = events
  BY <1>1, Current
<1>3. f \in DOMAIN events
  <2> DEFINE low == LowRun(e)
             g == FirstRequest(db, low)
             overlapping == {i \in QuotaEvents(db, Cur) :
                 LET o == events[i] IN
                 /\ ~o.failed /\ o.reset = e.reset /\ o.window = e.window
                 /\ o.requested >= C.started /\ o.requested <= events[g].requested
                 /\ o.observed >= DeclaredStart(e) - Tolerance
                 /\ o.observed <= events[g].observed
                 /\ CompatiblePlan(o.plan, e.plan)
                 /\ EarlyPercentCandidate(C.peak, o.used, TRUE)
                 /\ o.used <= events[g].used + PercentSlack}
  <2>1. f = IF ResetAtChanged(e) /\ overlapping # {} THEN FirstRequest(db, overlapping) ELSE g
    BY DEF FirstLowRequest
  <2>2. low # {} /\ low \subseteq DOMAIN db.events
    BY <1>1 DEF EarlyResetConfirmed, LowRun, Run, QuotaEvents, EventsOf
  <2>3. overlapping \subseteq DOMAIN db.events
    BY DEF QuotaEvents, EventsOf
  <2> HIDE DEF low, overlapping, f
  <2>4. g \in DOMAIN db.events
    BY <1>2, <2>2, FirstRequestFacts
  <2>5. overlapping # {} => FirstRequest(db, overlapping) \in DOMAIN db.events
    BY <1>2, <2>3, FirstRequestFacts
  <2> HIDE DEF g
  <2> QED BY <1>2, <2>1, <2>4, <2>5
<1> HIDE DEF f
<1>4. first \in Event
  BY <1>2, <1>3, SoundFacts
<1>5. Reading(first) /\ first.requested \in Nat \ {0}
  BY <1>4, EventReading DEF Event
<1> DEFINE reason == "early_reset"
<1>6. \A i \in EventsOf(db, Cur) \ since :
         /\ db.events[i].requested <= first.requested
         /\ reason = "scheduled_reset" => db.events[i].requested # first.requested
  <2>1. ASSUME NEW i \in EventsOf(db, Cur) PROVE events[i].requested \in Nat
    <3>1. events[i] \in Event
      BY <1>2, SoundFacts DEF EventsOf
    <3> QED BY <3>1 DEF Event
  <2> QED BY <1>2, <1>5, <2>1
<1>7. reason \in {"scheduled_reset", "early_reset"} /\ first.requested \in Nat
  BY <1>5
<1>8. moved = MoveEvents(CreateCycle(CloseCycle(db, Cur, first.requested, reason), n,
                                      first.requested, first), since, n)
  OBVIOUS
<1> HIDE DEF first, since, reason
<1>9. Sound(closed) /\ OpenIds(closed) = {} /\ NewId(closed) = n
  BY <1>2, <1>5, ClosedNone
<1> HIDE DEF closed, n
<1>10. first.requested \in Nat
  BY <1>5
<1>11. Good(moved, n)
  BY <1>5, <1>9, <1>10, BirthGood
<1> HIDE DEF moved
<1>12. /\ DOMAIN moved.events = DOMAIN events
       /\ \A i \in DOMAIN events : Shows(moved.events[i], events[i])
       /\ InTime(db) => InTime(moved)
  BY <1>2, <1>5, <1>6, <1>7, <1>8, ClosedInTime DEF n
<1>13. Good(AddSample(moved, n, first), n) /\ Ready(AddSample(moved, n, first), n)
  BY <1>5, <1>11, <1>12, SampleReady DEF Good, Ready
<1>14. IInv' /\ OpenIds(db') = {n} /\ Records(e)
  BY <1>1, <1>13, ResetInv
<1> QED BY <1>14 DEF n

\* The old cycle is open again, and has the events and samples of both.
LEMMA RejoinedFacts ==
  ASSUME IInv, HasCycle, Old \in DOMAIN cycles, Old # Cur
  PROVE  LET s == Rejoined
             K == InRegime(s, Old, cycles[Old].reset, cycles[Old].window)
         IN /\ OneOpen(s, Old)
            /\ K = CurrentRegime(s, Old)
            /\ s = WithStats(s, Old, K)
            /\ s.cycles[Old].first = 0 => K = {}
            /\ DOMAIN s.cycles = DOMAIN cycles \ {Cur}
            /\ \A c \in DOMAIN s.cycles \ {Old} : s.cycles[c] = cycles[c]
            /\ DOMAIN s.events = DOMAIN events /\ DOMAIN s.samples = DOMAIN samples
            /\ \A i \in DOMAIN events :
                 /\ Shows(s.events[i], events[i])
                 /\ s.events[i].cycle = IF events[i].cycle = Cur THEN Old ELSE events[i].cycle
            /\ \A k \in DOMAIN samples :
                 /\ s.samples[k].at = samples[k].at
                 /\ s.samples[k].cycle = IF samples[k].cycle = Cur THEN Old ELSE samples[k].cycle
                 /\ s.samples[k].cycle = Old => s.samples[k].total = Total(s, Old, samples[k].at)
<1> DEFINE o == Cur
           p == Old
           moved == MoveEvents(db, EventsOf(db, o), p)
           js == [k \in DOMAIN samples |->
                    IF samples[k].cycle = o THEN [samples[k] EXCEPT !.cycle = p] ELSE samples[k]]
           jc == [c \in DOMAIN cycles \ {o} |->
                    IF c = p THEN [cycles[c] EXCEPT !.ended = 0, !.reason = ""] ELSE cycles[c]]
           joined == [moved EXCEPT !.samples = js, !.cycles = jc]
           ts == [k \in DOMAIN samples |->
                    IF joined.samples[k].cycle = p
                    THEN [joined.samples[k] EXCEPT !.total = Total(joined, p, samples[k].at)]
                    ELSE joined.samples[k]]
           totals == [joined EXCEPT !.samples = ts]
           r == cycles[p].reset
           w == cycles[p].window
           s == Rejoined
<1>1. s = WithStats(totals, p, InRegime(totals, p, r, w))
  BY DEF Rejoined, RefreshStats
<1>2. /\ Sound(db) /\ OpenIds(db) = {o} /\ o \in DOMAIN cycles
      /\ db.events = events /\ db.cycles = cycles /\ db.samples = samples
  BY Current
<1>3. p \in DOMAIN cycles /\ p # o
  OBVIOUS
<1>4. /\ DOMAIN cycles \subseteq Nat \ {0} /\ \A c \in DOMAIN cycles : cycles[c] \in Cycle
      /\ DOMAIN samples \subseteq Nat \ {0}
      /\ \A k \in DOMAIN samples : samples[k] \in Sample
  BY <1>2, SoundFacts
<1> HIDE DEF o, p, s
<1>5. /\ Sound(moved) /\ moved.cycles = cycles /\ moved.samples = samples
      /\ \A i \in DOMAIN moved.events : moved.events[i].cycle # o
      /\ DOMAIN moved.events = DOMAIN events
      /\ \A i \in DOMAIN events :
           /\ Shows(moved.events[i], events[i])
           /\ moved.events[i].cycle = IF events[i].cycle = o THEN p ELSE events[i].cycle
  <2>1. /\ Sound(moved) /\ moved.cycles = cycles /\ moved.samples = samples
        /\ DOMAIN moved.events = DOMAIN events
        /\ \A i \in DOMAIN events :
             /\ Shows(moved.events[i], events[i])
             /\ moved.events[i].cycle = IF i \in EventsOf(db, o) THEN p ELSE events[i].cycle
    BY <1>2, <1>3, MoveEventsFacts
  <2>2. \A i \in DOMAIN events : (events[i].cycle = o) <=> i \in EventsOf(db, o)
    BY <1>2 DEF EventsOf
  <2> QED BY <1>3, <2>1, <2>2
<1>6. /\ moved = [events |-> moved.events, cycles |-> moved.cycles, samples |-> moved.samples]
      /\ moved.events \in Seq(Event)
  BY <1>5, SoundFacts
<1> HIDE DEF moved, js, jc
<1>7. moved \in [events : Seq(Event), cycles : Table(Cycle), samples : Table(Sample)]
  BY <1>5 DEF Sound, Db
<1>8. /\ joined.events = moved.events /\ joined.cycles = jc /\ joined.samples = js
      /\ joined \in [events : Seq(Event), cycles : {jc}, samples : {js}]
  BY <1>7
<1>9. \A k \in DOMAIN samples :
        /\ js[k] \in Sample /\ js[k].at = samples[k].at
        /\ js[k].cycle = (IF samples[k].cycle = o THEN p ELSE samples[k].cycle)
        /\ js[k].total = samples[k].total
  <2> SUFFICES ASSUME NEW k \in DOMAIN samples
               PROVE  /\ js[k] \in Sample /\ js[k].at = samples[k].at
                      /\ js[k].cycle = (IF samples[k].cycle = o THEN p ELSE samples[k].cycle)
                      /\ js[k].total = samples[k].total
    OBVIOUS
  <2>1. samples[k] \in Sample /\ p \in Nat \ {0}
    BY <1>3, <1>4
  <2>2. js[k] = IF samples[k].cycle = o THEN [samples[k] EXCEPT !.cycle = p] ELSE samples[k]
    BY DEF js
  <2> QED BY <2>1, <2>2 DEF Sample
<1>10. DOMAIN js = DOMAIN samples
  BY DEF js
<1>11. /\ DOMAIN jc = DOMAIN cycles \ {o} /\ p \in DOMAIN jc
       /\ jc[p] \in Cycle /\ Explained(jc[p]) /\ jc[p].ended = 0
       /\ jc[p].reset = r /\ jc[p].window = w
       /\ \A c \in DOMAIN jc \ {p} : jc[c] = cycles[c]
  <2>1. DOMAIN jc = DOMAIN cycles \ {o} /\ p \in DOMAIN jc
    BY <1>3 DEF jc
  <2>2. jc[p] = [cycles[p] EXCEPT !.ended = 0, !.reason = ""] /\ cycles[p] \in Cycle
    BY <1>3, <1>4 DEF jc
  <2>3. \A c \in DOMAIN jc \ {p} : jc[c] = cycles[c]
    BY DEF jc
  <2> DEFINE old == cycles[p]
             row == [old EXCEPT !.ended = 0, !.reason = ""]
  <2>4. /\ jc[p] \in Cycle /\ jc[p].ended = 0 /\ jc[p].reason = ""
        /\ jc[p].reset = r /\ jc[p].window = w
    <3>1. jc[p] = row /\ old \in Cycle
      BY <2>2
    <3>2. r = old.reset /\ w = old.window
      OBVIOUS
    <3> HIDE DEF old, r, w
    <3>3. /\ row \in Cycle /\ row.ended = 0 /\ row.reason = ""
          /\ row.reset = old.reset /\ row.window = old.window
      BY <3>1 DEF Cycle
    <3> HIDE DEF row
    <3> QED BY <3>1, <3>2, <3>3
  <2>5. Explained(jc[p])
    BY <2>4 DEF Explained
  <2> QED BY <2>1, <2>3, <2>4, <2>5
<1> HIDE DEF joined
<1>12. jc \in Table(Cycle)
  <2>1. \A c \in DOMAIN jc : jc[c] \in Cycle
    BY <1>4, <1>11
  <2>2. DOMAIN jc \in SUBSET (Nat \ {0}) /\ jc \in [DOMAIN jc -> Cycle]
    <3>1. jc = [c \in DOMAIN jc |-> jc[c]]
      BY DEF jc
    <3> QED BY <1>4, <1>11, <2>1, <3>1
  <2> QED BY <2>2, IsTable
<1>13. ts = [k \in DOMAIN samples |-> ts[k]] /\ DOMAIN ts = DOMAIN samples
  OBVIOUS
<1>14. ASSUME NEW k \in DOMAIN samples
       PROVE  /\ ts[k] \in Sample /\ ts[k].at = samples[k].at
              /\ ts[k].cycle \in DOMAIN jc /\ ts[k].cycle = js[k].cycle
              /\ ts[k].cycle = p => ts[k].total = Total(joined, p, samples[k].at)
              /\ ts[k].total \subseteq DOMAIN moved.events
              /\ ts[k].cycle = p => \A i \in ts[k].total :
                   moved.events[i].cycle = p /\ moved.events[i].requested <= ts[k].at
  <2> DEFINE T == Total(joined, p, samples[k].at)
  <2>1. js[k] \in Sample /\ js[k].at = samples[k].at
    BY <1>9
  <2>2. ts[k] = IF js[k].cycle = p THEN [js[k] EXCEPT !.total = T] ELSE js[k]
    BY <1>8
  <2>3. /\ T \subseteq DOMAIN moved.events
        /\ \A i \in T : moved.events[i].cycle = p /\ moved.events[i].requested <= samples[k].at
    BY <1>8 DEF Total, EventsOf
  <2>4. T \in SUBSET Nat
    BY <1>5, <2>3, SoundFacts
  <2>5. js[k].cycle \in DOMAIN jc
    <3>1. samples[k].cycle \in DOMAIN cycles
      BY <1>2 DEF Sound
    <3> QED BY <1>3, <1>9, <1>11, <3>1
  <2>6. js[k].total \subseteq DOMAIN moved.events
    BY <1>5, <1>9 DEF Sound
  <2> HIDE DEF T, ts
  <2>7. CASE js[k].cycle = p
    <3>1. ts[k] = [js[k] EXCEPT !.total = T]
      BY <2>2, <2>7
    <3>2. ts[k] \in Sample /\ ts[k].at = js[k].at /\ ts[k].cycle = p /\ ts[k].total = T
      BY <2>1, <2>4, <2>7, <3>1 DEF Sample
    <3> QED BY <1>11, <2>1, <2>3, <2>7, <3>2 DEF T
  <2>8. CASE js[k].cycle # p
    BY <2>1, <2>2, <2>5, <2>6, <2>8
  <2> QED BY <2>7, <2>8
<1> HIDE DEF ts
<1>15. ts \in Table(Sample)
  <2>1. ts \in [DOMAIN samples -> Sample] /\ DOMAIN samples \in SUBSET (Nat \ {0})
    BY <1>4, <1>13, <1>14
  <2> QED BY <2>1, IsTable
<1>16. totals.events = moved.events /\ totals.cycles = jc /\ totals.samples = ts /\ totals \in Db
  BY <1>8, <1>12, <1>15 DEF Db
<1> HIDE DEF totals
<1>17. Sound(totals)
  <2>1. Bounded(DOMAIN totals.cycles)
    BY <1>2, <1>11, <1>16 DEF Sound, Bounded
  <2>2. Bounded(DOMAIN totals.samples)
    BY <1>2, <1>13, <1>16 DEF Sound
  <2>3. \A i \in DOMAIN totals.events :
          /\ Observation(totals.events[i]) \in Observations
          /\ totals.events[i].cycle \in {0} \cup DOMAIN totals.cycles
          /\ totals.events[i].quota => totals.events[i].cycle # 0
    BY <1>5, <1>11, <1>16 DEF Sound
  <2>4. \A k \in DOMAIN totals.samples :
          /\ totals.samples[k].cycle \in DOMAIN totals.cycles
          /\ totals.samples[k].total \subseteq DOMAIN totals.events
    BY <1>13, <1>14, <1>16
  <2>5. \A c \in DOMAIN totals.cycles : Explained(totals.cycles[c])
    BY <1>2, <1>11, <1>16 DEF Sound
  <2> QED BY <1>16, <2>1, <2>2, <2>3, <2>4, <2>5 DEF Sound
<1>18. OpenIds(totals) = {p}
  BY <1>2, <1>11, <1>16 DEF OpenIds
<1>19. Totals(totals, p)
  BY <1>13, <1>14, <1>16 DEF Totals, SamplesOf
<1>20. OneOpen(totals, p)
  BY <1>17, <1>18, <1>19 DEF OneOpen
<1> DEFINE K == InRegime(totals, p, r, w)
<1>21. K \subseteq DOMAIN totals.samples /\ K = InRegime(totals, p, r, w) /\ p \in DOMAIN totals.cycles
  BY <1>11, <1>16 DEF InRegime
<1> HIDE DEF K
<1>22. /\ Sound(s) /\ s.events = totals.events /\ s.samples = totals.samples
       /\ DOMAIN s.cycles = DOMAIN totals.cycles
       /\ \A x \in DOMAIN totals.cycles : s.cycles[x].ended = totals.cycles[x].ended
       /\ \A x \in DOMAIN totals.cycles \ {p} : s.cycles[x] = totals.cycles[x]
       /\ s.cycles[p].reset = totals.cycles[p].reset
       /\ s.cycles[p].window = totals.cycles[p].window
       /\ s.cycles[p].first = 0 => K = {}
       /\ WithStats(s, p, K) = s
  BY <1>1, <1>17, <1>21, WithStatsFacts
<1>23. OneOpen(s, p)
  BY <1>20, <1>22, OneOpenSame
<1>24. InRegime(s, p, r, w) = K /\ CurrentRegime(s, p) = K
  BY <1>11, <1>16, <1>21, <1>22 DEF CurrentRegime, InRegime
<1>25. \A at : Total(s, p, at) = Total(joined, p, at)
  BY <1>8, <1>16, <1>22 DEF Total, EventsOf
<1>26. \A k \in DOMAIN samples :
         /\ s.samples[k].at = samples[k].at
         /\ s.samples[k].cycle = IF samples[k].cycle = o THEN p ELSE samples[k].cycle
         /\ s.samples[k].cycle = p => s.samples[k].total = Total(s, p, samples[k].at)
  BY <1>9, <1>14, <1>16, <1>22, <1>25
<1>27. /\ DOMAIN s.cycles = DOMAIN cycles \ {o} /\ DOMAIN s.samples = DOMAIN samples
       /\ \A c \in DOMAIN s.cycles \ {p} : s.cycles[c] = cycles[c]
  BY <1>11, <1>13, <1>16, <1>22
<1>28. /\ DOMAIN s.events = DOMAIN events
       /\ \A i \in DOMAIN events :
            /\ Shows(s.events[i], events[i])
            /\ s.events[i].cycle = IF events[i].cycle = o THEN p ELSE events[i].cycle
  BY <1>5, <1>16, <1>22
<1> QED BY <1>22, <1>23, <1>24, <1>26, <1>27, <1>28 DEF s, p, o

\* It takes back requests, and leaves the other cycles alone.
LEMMA RejoinedFollows ==
  ASSUME IInv, HasCycle, Old \in DOMAIN cycles, Old # Cur
  PROVE  Follows(db, Rejoined, Old) /\ DOMAIN Rejoined.events = DOMAIN events
<1> DEFINE s == Rejoined
           p == Old
           o == Cur
<1>1. /\ DOMAIN s.cycles = DOMAIN cycles \ {o}
      /\ \A c \in DOMAIN s.cycles \ {p} : s.cycles[c] = cycles[c]
      /\ DOMAIN s.events = DOMAIN events
      /\ \A i \in DOMAIN events :
           /\ Shows(s.events[i], events[i])
           /\ s.events[i].cycle = IF events[i].cycle = o THEN p ELSE events[i].cycle
  BY RejoinedFacts
<1>2. db.events = events /\ db.cycles = cycles
  BY DEF db
<1> HIDE DEF s, p, o
<1>3. Follows(db, s, p)
  BY <1>1, <1>2 DEF Follows
<1> QED BY <1>1, <1>3 DEF s, p

\* The cycle that an early reset has closed is an older one.
LEMMA OldFacts ==
  ASSUME IInv, HasCycle, EarlyPredecessors # {}
  PROVE  Old \in DOMAIN cycles /\ Old # Cur
<1> DEFINE early == EarlyPredecessors
<1>1. Cur \in Nat /\ DOMAIN cycles \subseteq Nat
  BY Current, SoundFacts
<1>2. \A p \in early : p \in DOMAIN cycles /\ p < Cur
  BY DEF EarlyPredecessors
<1> HIDE DEF early
<1>3. early \subseteq Nat /\ early # {} /\ Bounded(early)
  BY <1>1, <1>2 DEF Bounded, early
<1>4. \E p \in early : \A q \in early : q <= p
  BY <1>3, GreatestNatural
<1>5. Old \in early
  BY <1>4 DEF Old, early
<1> QED BY <1>1, <1>2, <1>5

\* A recovery rests on a recorded request with the old schedule.
LEMMA OriginalRunFacts ==
  ASSUME IInv, NEW e \in Observations, HasCycle, ShowsOriginal(e), RecoveryConfirmed(e)
  PROVE  LET first == events[FirstRequest(db, OriginalRun(e))] IN
         /\ OriginalRun(e) # {} /\ first \in Event
         /\ first.reset = cycles[Old].reset /\ first.window = cycles[Old].window
<1> DEFINE R == OriginalRun(e)
           f == FirstRequest(db, R)
<1>1. Sound(db) /\ db.events = events
  BY Current
<1>2. R # {}
  <2> SUFFICES ASSUME R = {} PROVE FALSE
    OBVIOUS
  <2>1. Cardinality(R) = 0
    BY FS_EmptySet
  <2> HIDE DEF R
  <2>2. 0 + 1 >= RegimeSamples
    BY <2>1 DEF RecoveryConfirmed, R
  <2> QED BY <2>2, ConstantsAssumption
<1>3. \A i \in R : i \in DOMAIN db.events /\ SameRegime(events[i], e)
  BY DEF OriginalRun, Run, QuotaEvents, EventsOf
<1> HIDE DEF R
<1>4. f \in R
  BY <1>1, <1>2, <1>3, FirstRequestFacts
<1> HIDE DEF f
<1>5. f \in DOMAIN events /\ SameRegime(events[f], e)
  BY <1>1, <1>3, <1>4
<1>6. events[f] \in Event
  BY <1>1, <1>5, SoundFacts
<1>7. e.reset = cycles[Old].reset /\ e.window = cycles[Old].window
  BY DEF ShowsOriginal
<1> QED BY <1>2, <1>5, <1>6, <1>7 DEF SameRegime, f, R

\* Recover: the old cycle goes on, with the reading that shows its schedule again.
LEMMA RecoverInv ==
  ASSUME IInv, NEW e \in Observations, Recover(e)
  PROVE  IInv' /\ OpenIds(db') = {Old} /\ Records(e)
<1> DEFINE first == events[FirstRequest(db, OriginalRun(e))]
           s == Rejoined
           K == InRegime(s, Old, first.reset, first.window)
           sampled == \E k \in K : s.samples[k].at = first.requested
           d == IF sampled THEN s ELSE AddSample(s, Old, first)
<1>1. /\ HasCycle /\ ShowsOriginal(e) /\ RecoveryConfirmed(e)
      /\ Commit(Recorded(d, Old, e, TRUE))
  BY DEF Recover, Informed
<1>2. Old \in DOMAIN cycles /\ Old # Cur
  BY <1>1, OldFacts DEF ShowsOriginal
<1>3. /\ first \in Event
      /\ first.reset = cycles[Old].reset /\ first.window = cycles[Old].window
  BY <1>1, OriginalRunFacts
<1> HIDE DEF first
<1>4. /\ OneOpen(s, Old) /\ K = CurrentRegime(s, Old)
      /\ s = WithStats(s, Old, K)
      /\ s.cycles[Old].first = 0 => K = {}
      /\ Follows(db, s, Old) /\ DOMAIN s.events = DOMAIN events
  BY <1>1, <1>2, <1>3, RejoinedFacts, RejoinedFollows
<1> HIDE DEF s
<1>5. sampled => K # {}
  OBVIOUS
<1> HIDE DEF K
<1>6. Ready(s, Old)
  BY <1>4, FollowsReady
<1>7. Good(d, Old) /\ Ready(d, Old)
  <2>1. CASE sampled
    BY <1>4, <1>5, <1>6, <2>1 DEF Good, Stated
  <2>2. CASE ~sampled
    <3>1. Reading(first)
      BY <1>3, EventReading
    <3>2. Good(AddSample(s, Old, first), Old) /\ Ready(AddSample(s, Old, first), Old)
      BY <1>6, <3>1, SampleReady
    <3> QED BY <2>2, <3>2
  <2> QED BY <2>1, <2>2
<1> HIDE DEF d
<1> QED BY <1>1, <1>7, ResetInv

(***************************************************************************)
(* The inductive invariant.                                                *)
(***************************************************************************)

\* An empty database knows no quota.
LEMMA InitInv == Init => IInv
<1> SUFFICES ASSUME Init PROVE IInv
  OBVIOUS
<1>1. events = <<>> /\ cycles = <<>> /\ samples = <<>>
  BY DEF Init
<1>2. /\ db.events = <<>> /\ db.cycles = <<>> /\ db.samples = <<>>
      /\ DOMAIN db.events = {} /\ DOMAIN db.cycles = {} /\ DOMAIN db.samples = {}
  BY <1>1 DEF db
<1>3. db \in Db
  <2>1. \A Row : <<>> \in Table(Row)
    <3> SUFFICES ASSUME NEW Row PROVE <<>> \in Table(Row)
      OBVIOUS
    <3>1. <<>> \in [{} -> Row] /\ {} \in SUBSET (Nat \ {0})
      OBVIOUS
    <3> QED BY <3>1, IsTable
  <2>2. <<>> \in Table(Cycle) /\ <<>> \in Table(Sample) /\ <<>> \in Seq(Event)
    BY <2>1
  <2>3. db = [events |-> <<>>, cycles |-> <<>>, samples |-> <<>>]
    BY <1>1 DEF db
  <2> QED BY <2>2, <2>3 DEF Db
<1>4. Bounded({})
  BY DEF Bounded
<1>5. Fresh(db)
  BY <1>2, <1>3, <1>4 DEF Fresh, Sound
<1> QED BY <1>5 DEF IInv

\* Nothing changes.
LEMMA StutterInv ==
  ASSUME IInv, UNCHANGED vars
  PROVE  IInv'
<1>1. db' = db /\ cycles' = cycles
  BY DEF vars, db
<1> QED BY <1>1 DEF IInv

\* An account without a cycle is at its first observations.
LEMMA InformedOnly ==
  ASSUME NEW e, InsertEvent(e), ~HasCycle
  PROVE  RecordFirst(e)
BY DEF InsertEvent, RecordPlain, Recover, AwaitRecovery, RecordPending, RepairCarryover,
       StartAdvanced, ScheduledReset, Scheduled, AwaitScheduledReset, RecordFailedChange,
       Unscheduled, EarlyReset, Judged, AwaitEarlyReset, RecordInRegime, Accepted, InCurrent,
       Informed

\* Every event that is recorded keeps the invariant.
LEMMA StepRecords ==
  ASSUME IInv, NEW e \in Observations, InsertEvent(e)
  PROVE  IInv' /\ (HasCycle \/ e.quota => Records(e))
<1>1. CASE RecordFirst(e)
  BY <1>1, RecordFirstInv DEF RecordFirst
<1>2. CASE RecordPlain(e)
  BY <1>2, KeepInv DEF RecordPlain
<1>3. CASE Recover(e)
  BY <1>3, RecoverInv
<1>4. CASE AwaitRecovery(e)
  BY <1>4, KeepInv DEF AwaitRecovery, Informed
<1>5. CASE RecordPending(e)
  BY <1>5, RecordPendingInv
<1>6. CASE RepairCarryover(e)
  BY <1>6, RepairCarryoverInv
<1>7. CASE StartAdvanced(e)
  BY <1>7, StartAdvancedInv
<1>8. CASE ScheduledReset(e)
  BY <1>8, ScheduledResetInv
<1>9. CASE AwaitScheduledReset(e)
  <2>1. HasCycle /\ Keep(e, FALSE)
    BY <1>9 DEF AwaitScheduledReset, Scheduled, Accepted, InCurrent, Informed
  <2> QED BY <2>1, KeepInv
<1>10. CASE RecordFailedChange(e)
  <2>1. HasCycle /\ Keep(e, FALSE)
    BY <1>10 DEF RecordFailedChange, Unscheduled, Accepted, InCurrent, Informed
  <2> QED BY <2>1, KeepInv
<1>11. CASE EarlyReset(e)
  BY <1>11, EarlyResetInv
<1>12. CASE AwaitEarlyReset(e)
  <2>1. HasCycle /\ Keep(e, FALSE)
    BY <1>12 DEF AwaitEarlyReset, Judged, Unscheduled, Accepted, InCurrent, Informed
  <2> QED BY <2>1, KeepInv
<1>13. CASE RecordInRegime(e)
  BY <1>13, RecordInRegimeInv
<1> QED BY <1>1, <1>2, <1>3, <1>4, <1>5, <1>6, <1>7, <1>8, <1>9, <1>10,
           <1>11, <1>12, <1>13 DEF InsertEvent

\* And so does every step.
LEMMA StepInv ==
  ASSUME IInv, [Next]_vars
  PROVE  IInv'
<1>1. CASE UNCHANGED vars
  BY <1>1, StutterInv
<1>2. ASSUME NEW e \in Observations, InsertEvent(e) PROVE IInv'
  BY <1>2, StepRecords
<1> QED BY <1>1, <1>2 DEF Next

\* Whatever the headers say and in whatever order the requests end, insertEvent
\* leaves a ledger in which rows refer to rows that exist, one cycle is open, its
\* baseline is that of its samples and they sum its own requests.
THEOREM Inductive == Spec => []IInv
<1>1. Init => IInv
  BY InitInv
<1>2. IInv /\ [Next]_vars => IInv'
  BY StepInv
<1> QED BY <1>1, <1>2, PTL DEF Spec

\* The invariant is that of a sound database.
LEMMA InvSound ==
  ASSUME IInv
  PROVE  /\ Sound(db)
         /\ db.events = events /\ db.cycles = cycles /\ db.samples = samples
         /\ \A o \in OpenIds(db) : Good(db, o) /\ OpenIds(db) = {o}
         /\ DOMAIN cycles # {} => OpenIds(db) # {}
<1>1. db.events = events /\ db.cycles = cycles /\ db.samples = samples
  BY DEF db
<1>2. CASE Fresh(db)
  <2>1. DOMAIN db.cycles = {} /\ Sound(db)
    BY <1>2 DEF Fresh
  <2>2. OpenIds(db) = {}
    BY <2>1 DEF OpenIds
  <2> QED BY <1>1, <2>1, <2>2
<1>3. CASE \E o \in DOMAIN cycles : Good(db, o)
  <2>1. PICK o \in DOMAIN cycles : Good(db, o)
    BY <1>3
  <2>2. Sound(db) /\ OpenIds(db) = {o}
    BY <2>1 DEF Good, OneOpen
  <2> QED BY <1>1, <2>1, <2>2
<1> QED BY <1>2, <1>3 DEF IInv

\* Type correctness: no transaction stores an event, a sample or a total for a
\* cycle or an event that is not there, and only closed cycles have a reason.
THEOREM TypeCorrect == Spec => []TypeOK
<1>1. IInv => TypeOK
  <2> SUFFICES ASSUME IInv PROVE TypeOK
    OBVIOUS
  <2>1. /\ Sound(db) /\ db.events = events /\ db.cycles = cycles /\ db.samples = samples
    BY InvSound
  <2>2. /\ DOMAIN cycles \subseteq Nat \ {0}
        /\ \A c \in DOMAIN cycles : cycles[c] \in Cycle
    BY <2>1, SoundFacts
  <2>3. \A i \in DOMAIN events :
          Observation(events[i]) \in Observations /\ events[i].cycle \in {0} \cup DOMAIN cycles
    BY <2>1 DEF Sound
  <2>4. \A k \in DOMAIN samples :
          samples[k].cycle \in DOMAIN cycles /\ samples[k].total \subseteq DOMAIN events
    BY <2>1 DEF Sound
  <2>5. ASSUME NEW c \in DOMAIN cycles
        PROVE  /\ c \in Nat \ {0}
               /\ {cycles[c].started, cycles[c].ended, cycles[c].first} \subseteq Nat
               /\ {cycles[c].start, cycles[c].peak} \subseteq 0..Full
               /\ cycles[c].reason = "" <=> cycles[c].ended = 0
    <3>1. Explained(cycles[c])
      BY <2>1 DEF Sound
    <3>2. cycles[c] \in Cycle
      BY <2>2
    <3>3. cycles[c].reason = "" <=> cycles[c].ended = 0
      BY <3>1 DEF Explained
    <3>4. /\ {cycles[c].started, cycles[c].ended, cycles[c].first} \subseteq Nat
          /\ {cycles[c].start, cycles[c].peak} \subseteq 0..Full
      BY <3>2 DEF Cycle
    <3> QED BY <2>2, <3>3, <3>4
  <2> QED BY <2>3, <2>4, <2>5 DEF TypeOK
<1> QED BY <1>1, Inductive, PTL

\* What every step does to the requests: one more is recorded, and what the earlier
\* ones told does not change.  None is left behind in a cycle that ends before it.
LEMMA RecordedStep ==
  ASSUME IInv, NEW e \in Observations, InsertEvent(e)
  PROVE  /\ DOMAIN events' = DOMAIN events \cup {Last'} /\ Last' \notin DOMAIN events
         /\ \A i \in DOMAIN events : i < Last' /\ Shows(events'[i], events[i])
         /\ Shows(events'[Last'], e)
         /\ Sound(db') /\ db'.events = events'
         /\ InTime(db) => InTime(db')
<1>1. CASE HasCycle \/ e.quota
  <2>1. Records(e) /\ IInv'
    BY <1>1, StepRecords
  <2>2. PICK d, o : \E sampled \in BOOLEAN :
          /\ Commit(Recorded(d, o, e, sampled))
          /\ Good(Recorded(d, o, e, sampled), o)
          /\ Ready(d, o)
    BY <2>1 DEF Records
  <2>3. PICK sampled \in BOOLEAN :
          /\ Commit(Recorded(d, o, e, sampled))
          /\ Good(Recorded(d, o, e, sampled), o)
          /\ Ready(d, o)
    BY <2>2
  <2> DEFINE r == Recorded(d, o, e, sampled)
  <2>4. /\ DOMAIN r.events = DOMAIN d.events \cup {Len(r.events)}
        /\ Len(r.events) \notin DOMAIN d.events
        /\ \A i \in DOMAIN d.events : i < Len(r.events) /\ r.events[i] = d.events[i]
        /\ Shows(r.events[Len(r.events)], e) /\ r.events[Len(r.events)].cycle = o
        /\ DOMAIN r.cycles = DOMAIN d.cycles
        /\ \A x \in DOMAIN d.cycles \ {o} : r.cycles[x] = d.cycles[x]
    BY <2>3, RecordedRows DEF Ready
  <2>5. Good(r, o) /\ db' = r /\ r.events = events'
    BY <2>3, CommitGood DEF Commit
  <2> HIDE DEF r
  <2>6. Follows(d, r, o)
    BY <2>4 DEF Follows, Shows
  <2>7. InTime(d) => InTime(r)
    BY <2>5, <2>6, FollowsInTime DEF Good, OneOpen
  <2>8. /\ DOMAIN d.events = DOMAIN events
        /\ \A i \in DOMAIN events : Shows(d.events[i], events[i])
        /\ InTime(db) => InTime(d)
    BY <2>3 DEF Ready
  <2>9. Sound(r)
    BY <2>5 DEF Good, OneOpen
  <2> QED BY <2>4, <2>5, <2>7, <2>8, <2>9 DEF Last
<1>2. CASE ~HasCycle /\ ~e.quota
  <2> DEFINE r == Stored(db, 0, e)
  <2>1. Fresh(db)
    <3>1. ~\E o \in DOMAIN cycles : Good(db, o)
      BY <1>2 DEF HasCycle, Good, OneOpen
    <3> QED BY <3>1 DEF IInv
  <2>2. Sound(db) /\ db.events = events
    BY <2>1 DEF Fresh, db
  <2>3. Commit(r)
    <3>1. RecordFirst(e)
      BY <1>2, InformedOnly
    <3> QED BY <1>2, <3>1 DEF RecordFirst, Recorded, Stored
  <2>4. /\ Sound(r) /\ r.cycles = db.cycles
        /\ DOMAIN db.events \subseteq DOMAIN r.events
        /\ \A i \in DOMAIN db.events : r.events[i] = db.events[i]
        /\ Len(r.events) = Len(db.events) + 1 /\ DOMAIN r.events = 1..Len(r.events)
        /\ Shows(r.events[Len(r.events)], e)
    BY <1>2, <2>2, StoredFacts
  <2> HIDE DEF r
  <2>5. db' = r /\ r.events = events'
    BY <2>3, <2>4, Committed DEF Commit
  <2>6. InTime(r)
    <3>1. DOMAIN r.cycles = {}
      BY <2>1, <2>4 DEF Fresh
    <3>2. \A i \in DOMAIN r.events : r.events[i].cycle = 0
      BY <2>4, <3>1 DEF Sound
    <3> QED BY <3>2 DEF InTime
  <2>7. DOMAIN events = 1..Len(events) /\ Len(events) \in Nat
    BY <2>2, SoundFacts
  <2> QED BY <2>2, <2>4, <2>5, <2>6, <2>7 DEF Last, Shows
<1> QED BY <1>1, <1>2

\* No request is left behind in a cycle that has ended.
LEMMA EndsRespectedAlways == Spec => []EndsRespected
<1>1. EndsRespected <=> InTime(db)
  BY DEF EndsRespected, InTime, db
<1>2. Init => EndsRespected
  BY DEF Init, EndsRespected
<1>3. IInv /\ EndsRespected /\ [Next]_vars => EndsRespected'
  <2> SUFFICES ASSUME IInv, EndsRespected, [Next]_vars PROVE EndsRespected'
    OBVIOUS
  <2>1. CASE UNCHANGED vars
    BY <2>1 DEF vars, EndsRespected
  <2>2. ASSUME NEW e \in Observations, InsertEvent(e) PROVE EndsRespected'
    <3>1. InTime(db)'
      BY <1>1, <2>2, RecordedStep
    <3>2. EndsRespected' <=> InTime(db)'
      BY DEF EndsRespected, InTime, db
    <3> QED BY <3>1, <3>2
  <2> QED BY <2>1, <2>2 DEF Next
<1> QED BY <1>2, <1>3, Inductive, PTL DEF Spec

\* No return of ensureEventCycle, whichever of its resets, repairs and recoveries
\* it has gone through, leaves the account without a cycle or with two, or a request
\* in a cycle that had ended when it was made.
THEOREM OneCycle == Spec => []OneOpenCycle
<1>1. IInv /\ EndsRespected => OneOpenCycle
  <2> SUFFICES ASSUME IInv, EndsRespected PROVE OneOpenCycle
    OBVIOUS
  <2>1. /\ Sound(db) /\ db.events = events /\ db.cycles = cycles
        /\ \A o \in OpenIds(db) : OpenIds(db) = {o}
        /\ DOMAIN cycles # {} => OpenIds(db) # {}
    BY InvSound
  <2>2. \A i \in DOMAIN events : events[i].quota => events[i].cycle # 0
    BY <2>1 DEF Sound
  <2>3. Cardinality(OpenIds(db)) = IF DOMAIN cycles = {} THEN 0 ELSE 1
    <3>1. CASE DOMAIN cycles = {}
      <4>1. OpenIds(db) = {}
        BY <2>1, <3>1 DEF OpenIds
      <4>2. Cardinality({}) = 0
        BY FS_EmptySet
      <4> QED BY <3>1, <4>1, <4>2
    <3>2. CASE DOMAIN cycles # {}
      <4>1. PICK o \in OpenIds(db) : TRUE
        BY <2>1, <3>2
      <4>2. OpenIds(db) = {o}
        BY <2>1, <4>1
      <4>3. Cardinality({o}) = 1
        BY FS_Singleton
      <4> QED BY <3>2, <4>2, <4>3
    <3> QED BY <3>1, <3>2
  <2> QED BY <2>2, <2>3 DEF OneOpenCycle
<1> QED BY <1>1, Inductive, EndsRespectedAlways, PTL

\* first_sample_at, start_used_percent and peak_used_percent, which decide about the
\* next reset, are those of the samples of the schedule that the open cycle follows.
THEOREM BaselineOfSamples == Spec => []StatsAgree
<1>1. IInv => StatsAgree
  <2> SUFFICES ASSUME IInv, NEW c \in OpenIds(db)
               PROVE  RefreshStats(db, c, cycles[c].reset, cycles[c].window) = db
    BY DEF StatsAgree
  <2>1. Stated(db, c) /\ db.cycles = cycles
    BY InvSound DEF Good
  <2>2. db = WithStats(db, c, InRegime(db, c, cycles[c].reset, cycles[c].window))
    BY <2>1 DEF Stated, CurrentRegime
  <2> QED BY <2>2 DEF RefreshStats
<1> QED BY <1>1, Inductive, PTL

\* What a reset moves to the next cycle or a recovery takes back is not counted in
\* both: the samples of the open cycle sum requests of that cycle.
THEOREM NothingCountedTwice == Spec => []TotalsStayInCycle
<1>1. IInv => TotalsStayInCycle
  <2> SUFFICES ASSUME IInv, NEW k \in DOMAIN samples, samples[k].cycle \in OpenIds(db),
                      NEW i \in samples[k].total
               PROVE  events[i].cycle = samples[k].cycle /\ events[i].requested <= samples[k].at
    BY DEF TotalsStayInCycle
  <2>1. /\ Good(db, samples[k].cycle)
        /\ db.events = events /\ db.samples = samples
    BY InvSound
  <2>2. Totals(db, samples[k].cycle)
    BY <2>1 DEF Good, OneOpen
  <2> QED BY <2>1, <2>2 DEF Totals, SamplesOf
<1> QED BY <1>1, Inductive, PTL

(***************************************************************************)
(* The requests that an early reset moves.                                 *)
(***************************************************************************)

\* The requests that move to the next cycle begin before every low reading.
LEMMA LowRunMoves ==
  ASSUME IInv, HasCycle, NEW e \in Observations, LowRun(e) # {}
  PROVE  LET f == FirstLowRequest(e) IN
         /\ f \in DOMAIN events
         /\ \A i \in LowRun(e) :
              /\ i \in DOMAIN events /\ events[i].cycle = Cur
              /\ \/ events[i].requested > events[f].requested
                 \/ events[i].requested = events[f].requested /\ i >= f
<1> DEFINE low == LowRun(e)
           f == FirstLowRequest(e)
           g == FirstRequest(db, low)
           overlapping == {i \in QuotaEvents(db, Cur) :
               LET o == events[i] IN
               /\ ~o.failed /\ o.reset = e.reset /\ o.window = e.window
               /\ o.requested >= C.started /\ o.requested <= events[g].requested
               /\ o.observed >= DeclaredStart(e) - Tolerance
               /\ o.observed <= events[g].observed
               /\ CompatiblePlan(o.plan, e.plan)
               /\ EarlyPercentCandidate(C.peak, o.used, TRUE)
               /\ o.used <= events[g].used + PercentSlack}
           h == FirstRequest(db, overlapping)
<1>1. f = IF ResetAtChanged(e) /\ overlapping # {} THEN h ELSE g
  BY DEF FirstLowRequest
<1>2. /\ Sound(db) /\ db.events = events /\ C \in Cycle
  BY Current
<1>3. \A i \in low :
        /\ i \in QuotaEvents(db, Cur) /\ ~events[i].failed /\ SameRegime(events[i], e)
        /\ EarlyPercentCandidate(C.peak, events[i].used, ResetAtChanged(e))
  BY DEF LowRun, Run
<1>4. \A i \in QuotaEvents(db, Cur) : /\ i \in DOMAIN events /\ events[i] \in Event
                                      /\ events[i].cycle = Cur
  BY <1>2, SoundFacts DEF QuotaEvents, EventsOf
<1>5. low \subseteq DOMAIN db.events /\ low # {}
  BY <1>2, <1>3, <1>4
<1> HIDE DEF low, f
<1>6. /\ g \in low
      /\ \A j \in low :
           \/ events[g].requested < events[j].requested
           \/ events[g].requested = events[j].requested /\ g <= j
  BY <1>2, <1>5, FirstRequestFacts
<1> HIDE DEF g
<1>7. \A i \in low : i \in DOMAIN events /\ events[i].cycle = Cur /\ i \in Nat
                     /\ events[i].requested \in Nat
  <2>1. \A i \in low : i \in DOMAIN events /\ events[i].cycle = Cur /\ events[i] \in Event
    BY <1>3, <1>4
  <2>2. \A i \in DOMAIN events : i \in Nat
    BY <1>2, SoundFacts
  <2> QED BY <2>1, <2>2 DEF Event
<1>8. CASE ~(ResetAtChanged(e) /\ overlapping # {})
  <2>1. f = g
    BY <1>1, <1>8
  <2> QED BY <1>6, <1>7, <2>1 DEF f, low
<1>9. CASE ResetAtChanged(e) /\ overlapping # {}
  <2>1. f = h
    BY <1>1, <1>9
  <2>2. overlapping \subseteq DOMAIN db.events
    BY <1>2, <1>4
  <2>3. g \in overlapping
    <3>1. PICK i \in overlapping : TRUE
      BY <1>9
    <3>2. /\ g \in QuotaEvents(db, Cur) /\ ~events[g].failed
          /\ SameRegime(events[g], e) /\ events[g] \in Event
          /\ EarlyPercentCandidate(C.peak, events[g].used, TRUE)
      BY <1>3, <1>4, <1>6, <1>9
    <3>3. /\ events[g].requested \in Nat /\ events[g].observed \in Nat
          /\ events[g].used \in Nat /\ C.started \in Nat /\ PercentSlack \in Nat
      <4>1. /\ events[g].requested \in Nat /\ events[g].observed \in Nat
            /\ events[g].used \in Nat
        BY <3>2 DEF Event, Full
      <4>2. C.started \in Nat
        BY <1>2 DEF Cycle
      <4>3. PercentSlack \in Nat
        BY ConstantsAssumption
      <4> QED BY <4>1, <4>2, <4>3
    <3>4. events[i] \in Event
      BY <1>4
    <3>5. /\ events[i].requested \in Nat /\ events[i].observed \in Nat
      BY <3>4 DEF Event
    <3>6. DeclaredStart(e) - Tolerance \in Int
      BY ObservationFacts, StartFacts, ConstantsAssumption DEF DeclaredStart, Reading
    <3>7. /\ events[g].requested >= C.started
          /\ events[g].observed >= DeclaredStart(e) - Tolerance
      <4>1. /\ events[i].requested >= C.started
            /\ events[i].requested <= events[g].requested
            /\ events[i].observed >= DeclaredStart(e) - Tolerance
            /\ events[i].observed <= events[g].observed
        OBVIOUS
      <4> QED BY <3>3, <3>5, <3>6, <4>1
    <3>8. /\ events[g].requested <= events[g].requested
          /\ events[g].observed <= events[g].observed
          /\ events[g].used <= events[g].used + PercentSlack
      BY <3>3
    <3> QED BY <3>2, <3>7, <3>8 DEF SameRegime
  <2> HIDE DEF overlapping
  <2>4. /\ h \in overlapping
        /\ \/ events[h].requested < events[g].requested
           \/ events[h].requested = events[g].requested /\ h <= g
    BY <1>2, <2>2, <2>3, FirstRequestFacts
  <2>5. h \in DOMAIN events /\ h \in Nat /\ events[h].requested \in Nat
    <3>1. h \in DOMAIN db.events
      BY <2>2, <2>4
    <3>2. h \in Nat /\ events[h] \in Event
      BY <1>2, <3>1, SoundFacts
    <3> QED BY <1>2, <3>1, <3>2 DEF Event
  <2> HIDE DEF h
  <2>6. ASSUME NEW i \in low
        PROVE  /\ i \in DOMAIN events /\ events[i].cycle = Cur
               /\ \/ events[i].requested > events[f].requested
                  \/ events[i].requested = events[f].requested /\ i >= f
    BY <1>6, <1>7, <2>1, <2>4, <2>5
  <2> QED BY <2>1, <2>5, <2>6 DEF f, low
<1> QED BY <1>8, <1>9

\* EarlyReset: the low readings and the event recorded are in the new cycle, the
\* event last, and nothing else enters it from another cycle than the closed one.
LEMMA EarlyResetRows ==
  ASSUME IInv, NEW e \in Observations, EarlyReset(e)
  PROVE  LET n == NewId(db)
             m == Last'
         IN /\ DOMAIN events' = DOMAIN events \cup {m} /\ m \notin DOMAIN events
            /\ Shows(events'[m], e) /\ events'[m].cycle = n
            /\ n \notin DOMAIN cycles /\ cycles'[Cur].reason = "early_reset"
            /\ \A i \in DOMAIN events :
                 /\ i < m /\ Shows(events'[i], events[i])
                 /\ events'[i].cycle = n => events[i].cycle = Cur
                 /\ events'[i].cycle = Cur => events[i].cycle = Cur
            /\ \A i \in LowRun(e) : i \in DOMAIN events /\ events'[i].cycle = n
<1> DEFINE n == NewId(db)
           f == FirstLowRequest(e)
           first == events[f]
           closed == CloseCycle(db, Cur, first.requested, "early_reset")
           created == CreateCycle(closed, n, first.requested, first)
           since == {i \in EventsOf(db, Cur) :
                       \/ events[i].requested > first.requested
                       \/ events[i].requested = first.requested /\ i >= f}
           moved == MoveEvents(created, since, n)
           added == AddSample(moved, n, first)
           d == Recorded(added, n, e, TRUE)
<1>1. HasCycle /\ EarlyResetConfirmed(e) /\ Commit(d)
  BY DEF EarlyReset, Judged, Unscheduled, Accepted, InCurrent, Informed
<1>2. /\ Sound(db) /\ OpenIds(db) = {Cur} /\ db.events = events /\ db.cycles = cycles
      /\ Cur \in DOMAIN cycles
  BY <1>1, Current
<1>3. LowRun(e) # {}
  BY <1>1 DEF EarlyResetConfirmed
<1>4. /\ f \in DOMAIN events
      /\ \A i \in LowRun(e) :
           /\ i \in DOMAIN events /\ events[i].cycle = Cur
           /\ \/ events[i].requested > first.requested
              \/ events[i].requested = first.requested /\ i >= f
  BY <1>1, <1>3, LowRunMoves
<1>5. \A i \in LowRun(e) : i \in since
  BY <1>2, <1>4 DEF EventsOf
<1>6. \A i \in since : events[i].cycle = Cur
  BY <1>2 DEF EventsOf
<1>7. first \in Event
  BY <1>2, <1>4, SoundFacts
<1>8. Reading(first) /\ first.requested \in Nat \ {0} /\ first.requested \in Nat
  BY <1>7, EventReading DEF Event
<1> HIDE DEF since, f, first
<1>9. Sound(closed) /\ OpenIds(closed) = {} /\ NewId(closed) = n
  BY <1>2, <1>8, ClosedNone
<1>10. /\ closed.events = events /\ DOMAIN closed.cycles = DOMAIN cycles
       /\ closed.cycles[Cur].reason = "early_reset"
  BY <1>2, <1>8, CloseCycleFacts
<1> HIDE DEF closed
<1>11. n = NewId(closed)
  BY <1>9
<1>12. Good(moved, n)
  <2> HIDE DEF n
  <2> QED BY <1>8, <1>9, <1>11, BirthGood
<1> HIDE DEF n
<1>13. /\ Sound(created) /\ created.events = closed.events
       /\ n \notin DOMAIN closed.cycles
       /\ DOMAIN created.cycles = DOMAIN closed.cycles \cup {n}
       /\ \A x \in DOMAIN closed.cycles : created.cycles[x] = closed.cycles[x]
  BY <1>8, <1>9, <1>11, CreateCycleFacts
<1> HIDE DEF created
<1>14. /\ DOMAIN moved.events = DOMAIN created.events /\ moved.cycles = created.cycles
       /\ \A i \in DOMAIN created.events :
            /\ Shows(moved.events[i], created.events[i])
            /\ moved.events[i].cycle = IF i \in since THEN n ELSE created.events[i].cycle
  BY <1>13, MoveEventsFacts
<1> HIDE DEF moved
<1>15. /\ added.events = moved.events /\ OneOpen(added, n)
       /\ DOMAIN added.cycles = DOMAIN moved.cycles
       /\ \A x \in DOMAIN moved.cycles \ {n} : added.cycles[x] = moved.cycles[x]
  <2>1. OneOpen(moved, n)
    BY <1>12 DEF Good
  <2>2. /\ added.events = moved.events
        /\ DOMAIN added.cycles = DOMAIN moved.cycles
        /\ \A x \in DOMAIN moved.cycles \ {n} : added.cycles[x] = moved.cycles[x]
    BY <1>8, <2>1, AddSampleRows
  <2>3. Good(added, n)
    BY <1>8, <2>1, AddSampleGood
  <2> QED BY <2>2, <2>3 DEF Good
<1> HIDE DEF added
<1>16. /\ DOMAIN d.events = DOMAIN added.events \cup {Len(d.events)}
       /\ Len(d.events) \notin DOMAIN added.events
       /\ \A i \in DOMAIN added.events : i < Len(d.events) /\ d.events[i] = added.events[i]
       /\ Shows(d.events[Len(d.events)], e) /\ d.events[Len(d.events)].cycle = n
       /\ \A x \in DOMAIN added.cycles \ {n} : d.cycles[x] = added.cycles[x]
  <2> DEFINE sampled == TRUE
  <2>1. LET u == Recorded(added, n, e, sampled) IN
        /\ DOMAIN u.events = DOMAIN added.events \cup {Len(u.events)}
        /\ Len(u.events) \notin DOMAIN added.events
        /\ \A i \in DOMAIN added.events : i < Len(u.events) /\ u.events[i] = added.events[i]
        /\ Shows(u.events[Len(u.events)], e) /\ u.events[Len(u.events)].cycle = n
        /\ \A x \in DOMAIN added.cycles \ {n} : u.cycles[x] = added.cycles[x]
    <3>1. sampled \in BOOLEAN
      OBVIOUS
    <3> HIDE DEF sampled
    <3> QED BY <1>15, <3>1, RecordedRows
  <2> QED BY <2>1
<1>17. d.events = events' /\ d.cycles = cycles'
  BY <1>1 DEF Commit
<1> HIDE DEF d
<1>18. Last' = Len(d.events)
  BY <1>17 DEF Last
<1>19. \A i \in DOMAIN events : events[i].cycle # n
  <2>1. \A i \in DOMAIN events : events[i].cycle \in {0} \cup DOMAIN cycles
    BY <1>2 DEF Sound
  <2>2. n # 0
    <3>1. n \in Nat \ {0}
      BY <1>13, SoundFacts
    <3> QED BY <3>1
  <2> QED BY <1>10, <1>13, <2>1, <2>2
<1>20. n # Cur
  BY <1>2, <1>10, <1>13
<1>21. ASSUME NEW i \in DOMAIN events
       PROVE  /\ i < Last' /\ Shows(events'[i], events[i])
              /\ events'[i].cycle = IF i \in since THEN n ELSE events[i].cycle
  <2>1. events'[i] = moved.events[i]
    BY <1>10, <1>13, <1>14, <1>15, <1>16, <1>17
  <2> QED BY <1>10, <1>13, <1>14, <1>15, <1>16, <1>18, <2>1
<1>22. /\ DOMAIN events' = DOMAIN events \cup {Last'} /\ Last' \notin DOMAIN events
       /\ Shows(events'[Last'], e) /\ events'[Last'].cycle = n
  BY <1>10, <1>13, <1>14, <1>15, <1>16, <1>17, <1>18
<1>23. cycles'[Cur].reason = "early_reset"
  <2>1. Cur \in DOMAIN closed.cycles /\ created.cycles[Cur] = closed.cycles[Cur]
    BY <1>2, <1>10, <1>13
  <2>2. moved.cycles[Cur] = closed.cycles[Cur] /\ Cur \in DOMAIN moved.cycles \ {n}
    BY <1>13, <1>14, <1>20, <2>1
  <2>3. added.cycles[Cur] = moved.cycles[Cur] /\ Cur \in DOMAIN added.cycles \ {n}
    BY <1>15, <1>20, <2>2
  <2>4. cycles'[Cur] = added.cycles[Cur]
    BY <1>16, <1>17, <2>3
  <2> QED BY <1>10, <2>2, <2>3, <2>4
<1> QED BY <1>4, <1>5, <1>6, <1>10, <1>13, <1>19, <1>20, <1>21, <1>22, <1>23 DEF n

(***************************************************************************)
(* The evidence for a reset.                                               *)
(***************************************************************************)

\* A low reading is below the peak.
LEMMA LowIsBelow ==
  ASSUME NEW peak \in 0..Full, NEW used \in 0..Full, NEW advanced \in BOOLEAN,
         EarlyPercentCandidate(peak, used, advanced)
  PROVE  used < peak /\ (used <= LowPercent \/ (advanced /\ 2 * used <= peak))
<1>1. peak \in Nat /\ used \in Nat /\ PercentSlack \in Nat
  BY ConstantsAssumption DEF Full
<1>2. CASE ResetCandidate(peak, used)
  BY <1>1, <1>2 DEF ResetCandidate
<1>3. CASE advanced /\ peak > 0 /\ 2 * used <= peak
  BY <1>1, <1>3
<1> QED BY <1>2, <1>3 DEF EarlyPercentCandidate

\* EarlyReset: the readings that ResetsConfirmed asks for are the run of low readings
\* and the event just recorded.
LEMMA EarlyEvidence ==
  ASSUME IInv, NEW o \in Observations, EarlyReset(o)
  PROVE  LowEvidence(Cur)
<1> DEFINE m == Last'
           n == NewId(db)
           e == events'[m]
           low == LowRun(o)
           I == QuotaEvents(db, Cur)
           J == QuotaEvents(db', n)
           H == QuotaEvents(db', Cur)
           good(r) ==
             /\ ~r.failed /\ SameRegime(r, e) /\ r.observed <= e.observed
             /\ r.used < C.peak
             /\ r.used <= LowPercent \/ (e.reset > C.reset /\ 2 * r.used <= C.peak)
           readings == {i \in J : good(events'[i])}
           run == {i \in readings : \A k \in H \cup J : Newer(db', k, i) => k \in readings}
<1>1. /\ HasCycle /\ EarlyCandidate(o) /\ EarlyResetConfirmed(o) /\ o.quota
  BY DEF EarlyReset, Judged, Unscheduled, Accepted, InCurrent, Informed
<1>2. /\ Sound(db) /\ db.events = events /\ db'.events = events' /\ C \in Cycle
  BY <1>1, Current DEF db
<1>3. /\ DOMAIN events' = DOMAIN events \cup {m} /\ m \notin DOMAIN events
      /\ Shows(e, o) /\ e.cycle = n
      /\ \A i \in DOMAIN events :
           /\ i < m /\ Shows(events'[i], events[i])
           /\ events'[i].cycle = n => events[i].cycle = Cur
           /\ events'[i].cycle = Cur => events[i].cycle = Cur
      /\ \A i \in low : i \in DOMAIN events /\ events'[i].cycle = n
  BY EarlyResetRows
<1>4. Reading(o) /\ o.observed \in Nat
  BY ObservationFacts
<1>5. ASSUME NEW i \in DOMAIN events
      PROVE  i \in Nat /\ events[i].observed \in Nat /\ events[i].used \in 0..Full
  <2>1. i \in Nat /\ events[i] \in Event
    BY <1>2, SoundFacts
  <2> QED BY <2>1 DEF Event
<1>6. \A i \in I : i \in DOMAIN events /\ events[i].observed <= o.observed
  BY <1>1, <1>2 DEF EarlyResetConfirmed, QuotaEvents, EventsOf
<1>7. /\ \A i \in low :
           /\ i \in I /\ ~events[i].failed /\ SameRegime(events[i], o)
           /\ EarlyPercentCandidate(C.peak, events[i].used, ResetAtChanged(o))
      /\ \A i \in low : \A j \in I : Newer(db, j, i) => j \in low
  <2>1. \A i \in low : \A j \in I : Newer(db, j, i) =>
          \A k \in I : Newer(db, k, j) => Newer(db, k, i)
    BY <1>2, <1>5, <1>6 DEF Newer, LowRun, Run
  <2> QED BY <2>1 DEF LowRun, Run
<1>8. /\ ~o.failed /\ EarlyPercentCandidate(C.peak, o.used, ResetAtChanged(o))
      /\ ResetAtChanged(o) => o.reset > C.reset
  BY <1>1 DEF EarlyCandidate, AdvancedCandidate, AdvancedObservation, EarlyPercentCandidate
<1> HIDE DEF low, n, m
<1>9. \A i \in H \cup J : i = m \/ i \in I
  <2> SUFFICES ASSUME NEW i \in H \cup J, i # m PROVE i \in I
    OBVIOUS
  <2>1. i \in DOMAIN events' /\ events'[i].cycle \in {n, Cur} /\ events'[i].quota
    BY <1>2 DEF QuotaEvents, EventsOf
  <2>2. i \in DOMAIN events /\ events[i].cycle = Cur /\ events[i].quota
    BY <1>3, <2>1 DEF Shows
  <2> QED BY <1>2, <2>2 DEF QuotaEvents, EventsOf
<1>10. m \in J /\ \A i \in low : i \in J
  <2>1. m \in J
    BY <1>1, <1>2, <1>3 DEF QuotaEvents, EventsOf, Shows
  <2>2. ASSUME NEW i \in low PROVE i \in J
    <3>1. i \in DOMAIN events' /\ events'[i].cycle = n
      BY <1>3
    <3>2. events[i].quota
      BY <1>2, <1>7 DEF QuotaEvents
    <3>3. events'[i].quota
      BY <1>3, <3>2 DEF Shows
    <3> QED BY <1>2, <3>1, <3>3 DEF QuotaEvents, EventsOf
  <2> QED BY <2>1, <2>2
<1>11. good(e)
  <2>1. C.peak \in 0..Full /\ o.used \in 0..Full /\ ResetAtChanged(o) \in BOOLEAN
    BY <1>2, <1>4 DEF Cycle, Reading, ResetAtChanged
  <2>2. /\ o.used < C.peak
        /\ o.used <= LowPercent \/ (ResetAtChanged(o) /\ 2 * o.used <= C.peak)
    BY <1>8, <2>1, LowIsBelow
  <2>3. SameRegime(e, e) /\ e.observed <= e.observed
    BY <1>3, <1>4 DEF SameRegime, CompatiblePlan, Shows
  <2> QED BY <1>3, <1>8, <2>2, <2>3 DEF Shows
<1>12. ASSUME NEW i \in low PROVE good(events'[i])
  <2>1. i \in I /\ ~events[i].failed /\ SameRegime(events[i], o)
    BY <1>7
  <2>2. C.peak \in 0..Full /\ events[i].used \in 0..Full /\ ResetAtChanged(o) \in BOOLEAN
    BY <1>2, <1>5, <1>6, <2>1 DEF Cycle, ResetAtChanged
  <2>3. /\ events[i].used < C.peak
        /\ events[i].used <= LowPercent \/ (ResetAtChanged(o) /\ 2 * events[i].used <= C.peak)
    BY <1>7, <2>2, LowIsBelow
  <2>4. Shows(events'[i], events[i]) /\ events[i].observed <= o.observed
    BY <1>3, <1>6, <2>1
  <2>5. SameRegime(events'[i], e)
    BY <1>3, <2>1, <2>4 DEF SameRegime, CompatiblePlan, Shows
  <2> QED BY <1>3, <1>8, <2>1, <2>3, <2>4, <2>5 DEF Shows
<1> HIDE DEF good
<1>13. m \in readings /\ \A i \in low : i \in readings
  BY <1>10, <1>11, <1>12
<1>14. m \in run
  <2> SUFFICES ASSUME NEW k \in H \cup J, Newer(db', k, m) PROVE k \in readings
    BY <1>13
  <2>1. CASE k = m
    BY <1>13, <2>1
  <2>2. CASE k # m
    <3>1. k \in I /\ k \in DOMAIN events
      BY <1>6, <1>9, <2>2
    <3>2. \/ events'[k].observed > events'[m].observed
          \/ events'[k].observed = events'[m].observed /\ k > m
      BY <1>2 DEF Newer
    <3>3. events'[k].observed = events[k].observed /\ events'[m].observed = o.observed
      BY <1>3, <3>1 DEF Shows
    <3>4. k < m /\ k \in Nat /\ events[k].observed <= o.observed /\ events[k].observed \in Nat
      BY <1>3, <1>5, <1>6, <3>1
    <3>5. m \in Nat
      <4>1. IInv'
        BY EarlyResetInv
      <4>2. Sound(db')
        BY <4>1 DEF IInv, Fresh, Good, OneOpen
      <4> QED BY <1>2, <4>2, SoundFacts DEF m, Last
    <3> QED BY <1>4, <3>2, <3>3, <3>4, <3>5
  <2> QED BY <2>1, <2>2
<1>15. ASSUME NEW i \in low PROVE i \in run
  <2> SUFFICES ASSUME NEW k \in H \cup J, Newer(db', k, i) PROVE k \in readings
    BY <1>13
  <2>1. CASE k = m
    BY <1>13, <2>1
  <2>2. CASE k # m
    <3>1. k \in I /\ k \in DOMAIN events /\ i \in DOMAIN events
      BY <1>3, <1>6, <1>9, <2>2
    <3>2. /\ events'[k].observed = events[k].observed
          /\ events'[i].observed = events[i].observed
      BY <1>3, <3>1 DEF Shows
    <3>3. Newer(db, k, i)
      BY <1>2, <3>2 DEF Newer
    <3>4. k \in low
      BY <1>7, <3>1, <3>3
    <3> QED BY <1>13, <3>4
  <2> QED BY <2>1, <2>2
<1>16. Cardinality(run) >= ResetSamples
  <2>1. IsFiniteSet(DOMAIN events)
    <3>1. Len(events) \in Nat /\ DOMAIN events = 1..Len(events)
      BY <1>2, SoundFacts
    <3> QED BY <3>1, FS_Interval
  <2>2. IsFiniteSet(DOMAIN events')
    BY <1>3, <2>1, FS_AddElement
  <2>3. run \subseteq DOMAIN events'
    BY <1>2 DEF QuotaEvents, EventsOf
  <2>4. IsFiniteSet(run) /\ Cardinality(run) \in Nat
    BY <2>2, <2>3, FS_Subset, FS_CardinalityType
  <2>5. low \subseteq DOMAIN events /\ m \notin low
    BY <1>3
  <2>6. IsFiniteSet(low) /\ Cardinality(low) \in Nat
    BY <2>1, <2>5, FS_Subset, FS_CardinalityType
  <2>7. Cardinality(low \cup {m}) = Cardinality(low) + 1
    BY <2>5, <2>6, FS_AddElement
  <2>8. low \cup {m} \subseteq run
    BY <1>14, <1>15
  <2> HIDE DEF run
  <2>9. Cardinality(low \cup {m}) <= Cardinality(run)
    BY <2>4, <2>8, FS_Subset
  <2>10. Cardinality(low) + 1 >= ResetSamples
    BY <1>1 DEF EarlyResetConfirmed, low
  <2>11. ResetSamples \in Nat
    BY ConstantsAssumption
  <2> QED BY <2>4, <2>6, <2>7, <2>9, <2>10, <2>11
<1>17. \E i \in run : e.observed - events'[i].observed >= Span
  <2>1. PICK i \in low : o.observed - events[i].observed >= Span
    BY <1>1 DEF EarlyResetConfirmed, low
  <2>2. e.observed = o.observed /\ events'[i].observed = events[i].observed
    BY <1>3 DEF Shows
  <2>3. i \in run
    BY <1>15
  <2> QED BY <2>1, <2>2, <2>3
<1>18. e.cycle = n
  BY <1>3
<1>19. readings = LowReadings(Cur)
  BY <1>18 DEF LowReadings, C, good, n, m
<1> QED BY <1>14, <1>16, <1>17, <1>18, <1>19 DEF LowEvidence, n, m

\* ScheduledReset: the newest recorded observation and the one just recorded were both
\* made at the deadline, and show the same window.
LEMMA ScheduleEvidence ==
  ASSUME IInv, NEW o \in Observations, ScheduledReset(o)
  PROVE  DeadlineEvidence(Cur)
<1> DEFINE started == IF DeclaredStart(o) > C.reset + Tolerance THEN DeclaredStart(o) ELSE C.reset
           n == NewId(db)
           s == NextCycle(db, started, C.reset, o)
           sampled == TRUE
           d == Recorded(s, n, o, sampled)
           last == events'[Last']
           late(r) == /\ r.quota /\ ~r.failed /\ r.observed >= C.reset - Tolerance
                      /\ DeclaredStart(r) >= C.reset - Tolerance
<1>1. /\ HasCycle /\ o.quota /\ ScheduledResetObservation(o) /\ ScheduledResetConfirmed(o)
      /\ Commit(d)
  BY DEF ScheduledReset, Scheduled, Accepted, InCurrent, Informed
<1>2. /\ Sound(db) /\ OpenIds(db) = {Cur} /\ C \in Cycle /\ db.events = events
  BY <1>1, Current
<1>3. Reading(o) /\ C.reset \in Nat \ {0} /\ Tolerance \in Nat /\ o.observed \in Nat
  BY <1>2, ObservationFacts, ConstantsAssumption DEF Cycle
<1>4. Shows(last, o)
  <2>1. started \in Nat
    <3>1. DeclaredStart(o) \in Int /\ C.reset \in Nat
      BY <1>3, ConstantsAssumption DEF DeclaredStart, Reading
    <3> QED BY <1>3, <3>1
  <2> HIDE DEF started
  <2>2. OneOpen(s, n)
    BY <1>2, <1>3, <2>1, NextCycleGood DEF Good
  <2>3. sampled \in BOOLEAN
    OBVIOUS
  <2> HIDE DEF s, n, sampled
  <2>4. Shows(d.events[Len(d.events)], o)
    BY <2>2, <2>3, RecordedRows
  <2> QED BY <1>1, <2>4 DEF Commit, Last
<1> HIDE DEF d, last
<1>5. ASSUME NEW r, ScheduledResetObservation(r), r.quota,
             r.observed \in Nat, r.reset \in Nat, r.window \in Nat
      PROVE  late(r)
  <2>1. DeclaredStart(r) \in Int
    BY <1>5 DEF DeclaredStart
  <2>2. C.reset \in Nat /\ Tolerance \in Nat
    BY <1>3
  <2>3. CASE Distance(DeclaredStart(r), C.reset) <= Tolerance /\ r.observed >= C.reset - Tolerance
    <3>1. DeclaredStart(r) >= C.reset - Tolerance
      BY <2>1, <2>2, <2>3 DEF Distance
    <3> QED BY <1>5, <2>3, <3>1 DEF ScheduledResetObservation
  <2>4. CASE ExpiredScheduleAdvance(r)
    <3>1. r.observed >= C.reset /\ DeclaredStart(r) >= C.reset - Tolerance
      BY <2>4 DEF ExpiredScheduleAdvance
    <3>2. r.observed >= C.reset - Tolerance
      BY <1>5, <2>2, <3>1
    <3> QED BY <1>5, <3>1, <3>2 DEF ScheduledResetObservation
  <2> QED BY <1>5, <2>3, <2>4 DEF ScheduledResetObservation
<1>6. PICK i \in QuotaEvents(db, Cur) :
        ~events[i].failed /\ SameRegime(events[i], o) /\ ScheduledResetObservation(events[i])
  BY <1>1 DEF ScheduledResetConfirmed
<1>7. i \in DOMAIN events /\ events[i].quota /\ events[i] \in Event
  BY <1>2, SoundFacts DEF QuotaEvents, EventsOf
<1>8. late(events[i])
  <2>1. events[i].observed \in Nat /\ events[i].reset \in Nat /\ events[i].window \in Nat
    BY <1>7 DEF Event
  <2> QED BY <1>5, <1>6, <1>7, <2>1
<1>9. late(o)
  <2>1. o.reset \in Nat /\ o.window \in Nat
    BY <1>3 DEF Reading
  <2> QED BY <1>1, <1>3, <1>5, <2>1
<1>10. late(last) /\ last.reset = o.reset /\ last.window = o.window
  BY <1>4, <1>9 DEF Shows, DeclaredStart
<1>11. events[i].reset = last.reset /\ events[i].window = last.window
  BY <1>6, <1>10 DEF SameRegime
<1> QED BY <1>7, <1>8, <1>10, <1>11 DEF DeadlineEvidence, C, last

\* A cycle that goes on has no reason.
LEMMA OpenHasNoReason ==
  ASSUME NEW d, Sound(d), NEW c \in OpenIds(d)
  PROVE  d.cycles[c].reason = ""
<1>1. c \in DOMAIN d.cycles /\ d.cycles[c].ended = 0 /\ Explained(d.cycles[c])
  BY DEF Sound, OpenIds
<1> QED BY <1>1 DEF Explained

\* Recover: the older cycle has the events and the samples of both, with their totals.
LEMMA RecoverRows ==
  ASSUME IInv, NEW e \in Observations, Recover(e)
  PROVE  /\ DOMAIN cycles' = DOMAIN cycles \ {Cur}
         /\ DOMAIN events' = DOMAIN events \cup {Last'} /\ Last' \notin DOMAIN events
         /\ Shows(events'[Last'], e) /\ events'[Last'].cycle = Old
         /\ \A i \in DOMAIN events :
              /\ Shows(events'[i], events[i])
              /\ events'[i].cycle = IF events[i].cycle = Cur THEN Old ELSE events[i].cycle
         /\ \A k \in DOMAIN samples :
              /\ k \in DOMAIN samples'
              /\ samples'[k].cycle = IF samples[k].cycle = Cur THEN Old ELSE samples[k].cycle
         /\ \A k \in DOMAIN samples' : samples'[k].cycle = Old =>
              Total(db', Old, samples'[k].at) \subseteq samples'[k].total \cup {Last'}
<1> DEFINE first == events[FirstRequest(db, OriginalRun(e))]
           s == Rejoined
           K == InRegime(s, Old, first.reset, first.window)
           known == \E k \in K : s.samples[k].at = first.requested
           d == IF known THEN s ELSE AddSample(s, Old, first)
           sampled == TRUE
           r == Recorded(d, Old, e, sampled)
           p == Old
           m == Len(r.events)
<1>1. HasCycle /\ ShowsOriginal(e) /\ RecoveryConfirmed(e) /\ Commit(r)
  BY DEF Recover, Informed
<1>2. Old \in DOMAIN cycles /\ Old # Cur
  BY <1>1, OldFacts DEF ShowsOriginal
<1>3. Reading(first)
  BY <1>1, OriginalRunFacts, EventReading
<1>4. /\ OneOpen(s, p) /\ DOMAIN s.cycles = DOMAIN cycles \ {Cur}
      /\ DOMAIN s.events = DOMAIN events /\ DOMAIN s.samples = DOMAIN samples
      /\ \A i \in DOMAIN events :
           /\ Shows(s.events[i], events[i])
           /\ s.events[i].cycle = IF events[i].cycle = Cur THEN p ELSE events[i].cycle
      /\ \A k \in DOMAIN samples :
           /\ s.samples[k].at = samples[k].at
           /\ s.samples[k].cycle = IF samples[k].cycle = Cur THEN p ELSE samples[k].cycle
           /\ s.samples[k].cycle = p => s.samples[k].total = Total(s, p, samples[k].at)
  BY <1>1, <1>2, RejoinedFacts
<1> HIDE DEF s, known, first, p
<1>5. /\ OneOpen(d, p) /\ d.events = s.events /\ DOMAIN d.cycles = DOMAIN s.cycles
      /\ MoreSamples(s, d, p)
  <2>1. CASE known
    BY <1>4, <2>1 DEF MoreSamples
  <2>2. CASE ~known
    <3>1. d = AddSample(s, p, first)
      BY <2>2 DEF p
    <3>2. Good(d, p)
      BY <1>3, <1>4, <3>1, AddSampleGood
    <3> QED BY <1>3, <1>4, <3>1, <3>2, AddSampleRows DEF Good
  <2> QED BY <2>1, <2>2
<1> HIDE DEF d
<1>6. /\ DOMAIN r.events = DOMAIN d.events \cup {m} /\ m \notin DOMAIN d.events
      /\ \A i \in DOMAIN d.events : r.events[i] = d.events[i]
      /\ Shows(r.events[m], e) /\ r.events[m].cycle = p
      /\ DOMAIN r.cycles = DOMAIN d.cycles
      /\ MoreSamples(d, r, p)
  <2>1. sampled \in BOOLEAN
    OBVIOUS
  <2>2. r = Recorded(d, p, e, sampled)
    BY DEF p
  <2> HIDE DEF sampled, r
  <2> QED BY <1>5, <2>1, <2>2, RecordedRows
<1> HIDE DEF r
<1>7. /\ r.events = events' /\ r.cycles = cycles' /\ r.samples = samples' /\ Last' = m
      /\ db'.events = events'
  BY <1>1 DEF Commit, Last, db
<1> HIDE DEF m
<1>8. ASSUME NEW at
      PROVE  /\ Total(r, p, at) = Total(db', p, at)
             /\ Total(r, p, at) \subseteq Total(d, p, at) \cup {m}
             /\ Total(d, p, at) = Total(s, p, at)
  BY <1>5, <1>6, <1>7 DEF Total, EventsOf
<1>9. ASSUME NEW k \in DOMAIN samples', samples'[k].cycle = p
      PROVE  Total(db', p, samples'[k].at) \subseteq samples'[k].total \cup {m}
  <2>1. CASE k \notin DOMAIN d.samples
    BY <1>6, <1>7, <1>8, <2>1 DEF MoreSamples
  <2>2. CASE k \in DOMAIN d.samples /\ k \notin DOMAIN s.samples
    <3>1. samples'[k] = d.samples[k] /\ d.samples[k].total = Total(d, p, d.samples[k].at)
      BY <1>5, <1>6, <1>7, <2>2 DEF MoreSamples
    <3> QED BY <1>8, <3>1
  <2>3. CASE k \in DOMAIN s.samples
    <3>1. samples'[k] = s.samples[k]
      BY <1>5, <1>6, <1>7, <2>3 DEF MoreSamples
    <3>2. s.samples[k].total = Total(s, p, s.samples[k].at)
      BY <1>4, <1>9, <2>3, <3>1
    <3> QED BY <1>8, <3>1, <3>2
  <2> QED BY <2>1, <2>2, <2>3
<1>10. \A k \in DOMAIN samples :
         /\ k \in DOMAIN samples'
         /\ samples'[k].cycle = IF samples[k].cycle = Cur THEN p ELSE samples[k].cycle
  BY <1>4, <1>5, <1>6, <1>7 DEF MoreSamples
<1>11. /\ DOMAIN events' = DOMAIN events \cup {Last'} /\ Last' \notin DOMAIN events
       /\ Shows(events'[Last'], e) /\ events'[Last'].cycle = p
       /\ \A i \in DOMAIN events :
            /\ Shows(events'[i], events[i])
            /\ events'[i].cycle = IF events[i].cycle = Cur THEN p ELSE events[i].cycle
  BY <1>4, <1>5, <1>6, <1>7
<1>12. DOMAIN cycles' = DOMAIN cycles \ {Cur}
  BY <1>4, <1>5, <1>6, <1>7
<1> QED BY <1>7, <1>9, <1>10, <1>11, <1>12 DEF p

\* Only the resets close a cycle, each with its reason.
LEMMA ResetStep ==
  ASSUME IInv, NEW e \in Observations, InsertEvent(e), NEW c \in DOMAIN cycles,
         NEW reason \in {"early_reset", "scheduled_reset"}, Closes(c, reason)
  PROVE  /\ c = Cur
         /\ \/ reason = "early_reset" /\ EarlyReset(e)
            \/ reason = "scheduled_reset" /\ ScheduledReset(e)
            \/ reason = "scheduled_reset" /\ C.peak >= Full
<1>1. HasCycle
  BY DEF Closes, HasCycle
<1>2. /\ c = Cur /\ Sound(db) /\ OpenIds(db) = {Cur} /\ C \in Cycle /\ Cur \in DOMAIN cycles
      /\ db.cycles = cycles
  BY <1>1, Current DEF Closes
<1>3. c \in DOMAIN cycles' /\ cycles'[c].reason = reason
  BY DEF Closes, Kept
<1>4. ASSUME IInv', OpenIds(db') = {Cur} PROVE FALSE
  <2>1. Sound(db') /\ db'.cycles = cycles'
    BY <1>4 DEF IInv, Fresh, Good, OneOpen, db
  <2>2. cycles'[Cur].reason = ""
    BY <1>4, <2>1, OpenHasNoReason
  <2> QED BY <1>2, <1>3, <2>2
<1>5. ASSUME NEW sampled \in BOOLEAN, Keep(e, sampled) PROVE FALSE
  BY <1>1, <1>4, <1>5, KeepInv
<1>6. C.reset \in Nat \ {0} /\ C.reset \in Nat /\ Reading(e) /\ C.started \in Nat
  BY <1>2, ObservationFacts DEF Cycle
<1>7. CASE RecordFirst(e)
  BY <1>1, <1>7 DEF RecordFirst
<1>8. CASE RecordPlain(e)
  BY <1>5, <1>8 DEF RecordPlain
<1>9. CASE Recover(e)
  BY <1>2, <1>3, <1>9, RecoverRows
<1>10. CASE AwaitRecovery(e)
  BY <1>5, <1>10 DEF AwaitRecovery
<1>11. CASE RecordPending(e)
  BY <1>4, <1>11, RecordPendingInv
<1>12. CASE RepairCarryover(e)
  <2>1. C.peak >= Full
    BY <1>12 DEF RepairCarryover, Carryover
  <2> QED BY <1>2, <1>3, <1>12, <2>1, RepairCarryoverInv
<1>13. CASE StartAdvanced(e)
  <2>1. C.peak >= Full
    BY <1>13 DEF StartAdvanced, Exhausted
  <2> QED BY <1>2, <1>3, <1>13, <2>1, StartAdvancedInv
<1>14. CASE ScheduledReset(e)
  BY <1>2, <1>3, <1>14, ScheduledResetInv
<1>15. CASE AwaitScheduledReset(e)
  BY <1>5, <1>15 DEF AwaitScheduledReset
<1>16. CASE RecordFailedChange(e)
  BY <1>5, <1>16 DEF RecordFailedChange
<1>17. CASE EarlyReset(e)
  BY <1>2, <1>3, <1>17, EarlyResetRows
<1>18. CASE AwaitEarlyReset(e)
  BY <1>5, <1>18 DEF AwaitEarlyReset
<1>19. CASE RecordInRegime(e)
  BY <1>4, <1>19, RecordInRegimeInv
<1> QED BY <1>7, <1>8, <1>9, <1>10, <1>11, <1>12, <1>13, <1>14, <1>15, <1>16, <1>17,
           <1>18, <1>19 DEF InsertEvent

\* No early reset without a run of low readings, and no scheduled one of a window that
\* was not exhausted without two observations, made no earlier than Tolerance before
\* its deadline: whatever other path ensureEventCycle takes, it closes no cycle.
THEOREM ResetsRestOnEvidence == Spec => ResetsConfirmed
<1> DEFINE Step == \A c \in DOMAIN cycles :
      /\ Closes(c, "early_reset") => LowEvidence(c)
      /\ Closes(c, "scheduled_reset") /\ cycles[c].peak < Full => DeadlineEvidence(c)
<1>1. IInv /\ [Next]_vars => [Step]_vars
  <2> SUFFICES ASSUME IInv, NEW e \in Observations, InsertEvent(e), NEW c \in DOMAIN cycles
               PROVE  /\ Closes(c, "early_reset") => LowEvidence(c)
                      /\ Closes(c, "scheduled_reset") /\ cycles[c].peak < Full
                           => DeadlineEvidence(c)
    BY DEF Next
  <2>1. ASSUME Closes(c, "early_reset") PROVE LowEvidence(c)
    <3>1. c = Cur /\ EarlyReset(e)
      BY <2>1, ResetStep
    <3> QED BY <3>1, EarlyEvidence
  <2>2. ASSUME Closes(c, "scheduled_reset"), cycles[c].peak < Full PROVE DeadlineEvidence(c)
    <3>1. c = Cur /\ (ScheduledReset(e) \/ C.peak >= Full)
      BY <2>2, ResetStep
    <3>2. cycles[c].peak \in 0..Full
      <4>1. cycles[c] \in Cycle
        BY InvSound, SoundFacts
      <4> QED BY <4>1 DEF Cycle
    <3>3. ScheduledReset(e)
      BY <2>2, <3>1, <3>2 DEF Full, C
    <3> QED BY <3>1, <3>3, ScheduleEvidence
  <2> QED BY <2>1, <2>2
<1> QED BY <1>1, Inductive, PTL DEF Spec, ResetsConfirmed

(***************************************************************************)
(* The evidence for a recovery.                                            *)
(***************************************************************************)

\* Some events have a newest one.
LEMMA NewestFacts ==
  ASSUME NEW d, Sound(d), NEW I, I \subseteq DOMAIN d.events, I # {},
         NEW b \in Nat, \A i \in I : d.events[i].observed <= b
  PROVE  \E i \in I : \A j \in I \ {i} : Newer(d, i, j)
<1> DEFINE T == {d.events[i].observed : i \in I}
<1>1. /\ \A i \in I : i \in Nat /\ i <= Len(d.events) /\ d.events[i].observed \in Nat
      /\ Len(d.events) \in Nat
  <2>1. Len(d.events) \in Nat /\ DOMAIN d.events = 1..Len(d.events)
    BY SoundFacts
  <2>2. \A i \in I : d.events[i] \in Event
    BY SoundFacts
  <2> QED BY <2>1, <2>2 DEF Event
<1>2. PICK t \in T : \A x \in T : x <= t
  <2>1. T \subseteq Nat /\ T # {} /\ Bounded(T)
    BY <1>1 DEF Bounded
  <2> HIDE DEF T
  <2> QED BY <2>1, GreatestNatural
<1> DEFINE J == {i \in I : d.events[i].observed = t}
<1>3. PICK i \in J : \A j \in J : j <= i
  <2>1. J \subseteq Nat /\ J # {} /\ Bounded(J)
    BY <1>1, <1>2 DEF Bounded
  <2> HIDE DEF J
  <2> QED BY <2>1, GreatestNatural
<1>4. ASSUME NEW j \in I \ {i} PROVE Newer(d, i, j)
  <2>1. /\ d.events[i].observed = t /\ d.events[j].observed <= t
        /\ d.events[j].observed \in Nat /\ t \in Nat /\ i \in Nat /\ j \in Nat
    BY <1>1, <1>2, <1>3
  <2>2. CASE d.events[j].observed = t
    <3>1. j <= i
      BY <1>3, <2>2
    <3> QED BY <2>1, <2>2, <3>1 DEF Newer
  <2>3. CASE d.events[j].observed # t
    BY <2>1, <2>3 DEF Newer
  <2> QED BY <2>2, <2>3
<1> QED BY <1>3, <1>4

\* Recover: the newest recorded observation and the one just recorded show the old
\* schedule near its peak, and everything goes back to the old cycle.
LEMMA RecoverEvidence ==
  ASSUME IInv, NEW o \in Observations, Recover(o)
  PROVE  RecoveryEvidence(Old)
<1> DEFINE m == Last'
           e == events'[m]
           I == QuotaEvents(db, Cur)
           R == OriginalRun(o)
           old == cycles[Old]
           original(r) == ~r.failed /\ r.reset = old.reset /\ r.used >= old.peak - PercentSlack
           shows(i) == ~events[i].failed /\ SameRegime(events[i], o)
<1>1. HasCycle /\ ShowsOriginal(o) /\ RecoveryConfirmed(o) /\ o.quota
  BY DEF Recover, Informed
<1>2. /\ Sound(db) /\ OpenIds(db) = {Cur} /\ db.events = events /\ db.samples = samples
      /\ db'.events = events' /\ db'.samples = samples'
  BY <1>1, Current DEF db
<1>3. /\ Old \in DOMAIN cycles /\ Old # Cur
  BY <1>1, OldFacts DEF ShowsOriginal
<1>4. /\ DOMAIN cycles' = DOMAIN cycles \ {Cur}
      /\ DOMAIN events' = DOMAIN events \cup {m} /\ m \notin DOMAIN events
      /\ Shows(e, o) /\ e.cycle = Old
      /\ \A i \in DOMAIN events :
           /\ Shows(events'[i], events[i])
           /\ events'[i].cycle = IF events[i].cycle = Cur THEN Old ELSE events[i].cycle
      /\ \A k \in DOMAIN samples :
           /\ k \in DOMAIN samples'
           /\ samples'[k].cycle = IF samples[k].cycle = Cur THEN Old ELSE samples[k].cycle
      /\ \A k \in DOMAIN samples' : samples'[k].cycle = Old =>
           Total(db', Old, samples'[k].at) \subseteq samples'[k].total \cup {m}
  BY RecoverRows
<1>5. /\ o.reset = old.reset /\ o.observed < old.reset /\ ~o.failed
      /\ o.used >= old.peak - PercentSlack
      /\ ~Overtaken(o) /\ RecoveryPossible(o)
  BY <1>1 DEF ShowsOriginal, RecoveryConfirmed
<1>6. /\ R # {} /\ R \subseteq I
      /\ \A i \in R : shows(i) /\ events[i].used >= old.peak - PercentSlack
      /\ \A i \in I : i \in R <=> (shows(i) /\ \A j \in I : Newer(db, j, i) => shows(j))
  <2>1. R # {}
    BY <1>1, OriginalRunFacts
  <2>2. /\ R \subseteq I /\ \A i \in R : shows(i)
        /\ \A i \in I : i \in R <=> (shows(i) /\ \A j \in I : Newer(db, j, i) => shows(j))
    BY DEF OriginalRun, Run
  <2>3. \A i \in R : events[i].used >= old.peak - PercentSlack
    BY <1>5 DEF RecoveryPossible
  <2> QED BY <2>1, <2>2, <2>3
<1>7. \A i \in I : i \in DOMAIN events /\ i \in Nat
                   /\ events[i].observed \in Nat /\ events[i].observed <= o.observed
  <2>1. \A i \in I : i \in DOMAIN events /\ i \in Nat /\ events[i] \in Event
    BY <1>2, SoundFacts DEF QuotaEvents, EventsOf
  <2>2. o.observed \in Nat
    BY ObservationFacts
  <2> QED BY <1>5, <2>1, <2>2 DEF Overtaken, Event
<1> HIDE DEF R, shows, I, m
<1>8. PICK i \in I : \A j \in I \ {i} : Newer(db, i, j)
  <2>1. I \subseteq DOMAIN db.events /\ I # {} /\ o.observed \in Nat
        /\ \A j \in I : db.events[j].observed <= o.observed
    BY <1>2, <1>6, <1>7, ObservationFacts
  <2> QED BY <1>2, <2>1, NewestFacts
<1>9. i \in R
  <2>1. PICK r \in R : TRUE
    BY <1>6
  <2>2. shows(i)
    BY <1>6, <1>8, <2>1
  <2>3. ASSUME NEW j \in I, Newer(db, j, i) PROVE shows(j)
    <3>1. CASE j = i
      BY <2>2, <3>1
    <3>2. CASE j # i
      <4>1. Newer(db, i, j)
        BY <1>8, <3>2
      <4> QED BY <1>2, <1>7, <2>3, <4>1 DEF Newer
    <3> QED BY <3>1, <3>2
  <2> QED BY <1>6, <2>2, <2>3
<1>10. original(events[i]) /\ original(e)
  <2>1. original(events[i])
    BY <1>5, <1>6, <1>9 DEF shows, SameRegime
  <2>2. original(e)
    BY <1>4, <1>5 DEF Shows
  <2> QED BY <2>1, <2>2
<1>11. e.reset = old.reset /\ e.observed < old.reset
  BY <1>4, <1>5 DEF Shows
<1>12. EventsOf(db', Old) = EventsOf(db, Old) \cup EventsOf(db, Cur) \cup {m}
  BY <1>2, <1>3, <1>4 DEF EventsOf
<1>13. SamplesOf(db, Old) \cup SamplesOf(db, Cur) \subseteq SamplesOf(db', Old)
  BY <1>2, <1>4 DEF SamplesOf
<1>14. \A k \in SamplesOf(db', Old) :
         Total(db', Old, samples'[k].at) \subseteq samples'[k].total \cup {m}
  BY <1>2, <1>4 DEF SamplesOf
<1>15. (CHOOSE c \in OpenIds(db) : TRUE) = Cur /\ Cur \notin DOMAIN cycles'
  BY <1>2, <1>4
<1> HIDE DEF original
<1>16. /\ \E x \in I :
            /\ \A j \in I \ {x} : Newer(db, x, j)
            /\ \A r \in {events[x], e} : original(r)
  BY <1>8, <1>10
<1> QED BY <1>11, <1>12, <1>13, <1>14, <1>15, <1>16 DEF RecoveryEvidence, original, I, m

\* Only a recovery opens a cycle again.
LEMMA RecoverStep ==
  ASSUME IInv, NEW e \in Observations, InsertEvent(e),
         NEW c \in DOMAIN cycles \ OpenIds(db), Kept(c), cycles'[c].ended = 0
  PROVE  c = Old /\ Recover(e)
<1>1. c \in OpenIds(db')
  BY DEF OpenIds, Kept, db
<1>2. HasCycle
  <2>1. DOMAIN cycles # {}
    OBVIOUS
  <2> QED BY <2>1, InvSound DEF HasCycle
<1>3. /\ c # Cur /\ Sound(db) /\ OpenIds(db) = {Cur} /\ C \in Cycle
      /\ db.cycles = cycles
  BY <1>2, Current
<1>4. c # NewId(db)
  <2>1. Bounded(DOMAIN cycles) /\ DOMAIN cycles \subseteq Nat \ {0}
    BY <1>3, SoundFacts DEF Sound
  <2>2. NewId(db) \notin DOMAIN cycles
    BY <1>3, <2>1, NextIdFacts DEF NewId
  <2> QED BY <2>2
<1>5. ASSUME NEW sampled \in BOOLEAN, Keep(e, sampled) PROVE FALSE
  BY <1>1, <1>2, <1>3, <1>5, KeepInv
<1>6. C.reset \in Nat \ {0} /\ C.reset \in Nat /\ Reading(e) /\ C.started \in Nat
  BY <1>3, ObservationFacts DEF Cycle
<1>7. CASE RecordFirst(e)
  BY <1>2, <1>7 DEF RecordFirst
<1>8. CASE RecordPlain(e)
  BY <1>5, <1>8 DEF RecordPlain
<1>9. CASE Recover(e)
  BY <1>1, <1>9, RecoverInv
<1>10. CASE AwaitRecovery(e)
  BY <1>5, <1>10 DEF AwaitRecovery
<1>11. CASE RecordPending(e)
  BY <1>1, <1>3, <1>11, RecordPendingInv
<1>12. CASE RepairCarryover(e)
  BY <1>1, <1>4, <1>12, RepairCarryoverInv
<1>13. CASE StartAdvanced(e)
  BY <1>1, <1>4, <1>13, StartAdvancedInv
<1>14. CASE ScheduledReset(e)
  BY <1>1, <1>4, <1>14, ScheduledResetInv
<1>15. CASE AwaitScheduledReset(e)
  BY <1>5, <1>15 DEF AwaitScheduledReset
<1>16. CASE RecordFailedChange(e)
  BY <1>5, <1>16 DEF RecordFailedChange
<1>17. CASE EarlyReset(e)
  BY <1>1, <1>4, <1>17, EarlyResetInv
<1>18. CASE AwaitEarlyReset(e)
  BY <1>5, <1>18 DEF AwaitEarlyReset
<1>19. CASE RecordInRegime(e)
  BY <1>1, <1>3, <1>19, RecordInRegimeInv
<1> QED BY <1>7, <1>8, <1>9, <1>10, <1>11, <1>12, <1>13, <1>14, <1>15, <1>16, <1>17,
           <1>18, <1>19 DEF InsertEvent

\* No closed cycle is opened again without two consecutive observations of its
\* schedule near its peak, and when one is, no request and no sample of the
\* cycle after it is left behind or dropped from the totals.
THEOREM RecoveriesRestOnEvidence == Spec => RecoveriesConfirmed
<1> DEFINE Step == \A c \in DOMAIN cycles \ OpenIds(db) :
      Kept(c) /\ cycles'[c].ended = 0 => RecoveryEvidence(c)
<1>1. IInv /\ [Next]_vars => [Step]_vars
  <2> SUFFICES ASSUME IInv, NEW e \in Observations, InsertEvent(e),
                      NEW c \in DOMAIN cycles \ OpenIds(db), Kept(c), cycles'[c].ended = 0
               PROVE  RecoveryEvidence(c)
    BY DEF Next
  <2>1. c = Old /\ Recover(e)
    BY RecoverStep
  <2> QED BY <2>1, RecoverEvidence
<1> QED BY <1>1, Inductive, PTL DEF Spec, RecoveriesConfirmed
=============================================================================
