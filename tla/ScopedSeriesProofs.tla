-------------------------- MODULE ScopedSeriesProofs --------------------------
(***************************************************************************)
(* Proofs about ScopedSeries: whatever the headers of a scope say and in   *)
(* whatever order its requests are recorded, the cycles derived from them  *)
(* share out the readings, no moment belongs to two of them, each reset    *)
(* rests on its evidence, and months add up.                               *)
(***************************************************************************)
EXTENDS ScopedSeries, CommonLemmas, SequenceTheorems

(***************************************************************************)
(* The readings.                                                           *)
(***************************************************************************)
\* What SeriesAssumption says of one reading.
LEMMA ReadingType ==
  ASSUME NEW r \in Observations
  PROVE  /\ r.observed \in Nat \ {0} /\ r.reset \in Nat \ {0} /\ r.window \in Nat \ {0}
         /\ r.used \in 0..100 /\ r.shown \in BOOLEAN /\ r.failed \in BOOLEAN
BY SeriesAssumption

\* The readings of a log are events of it, in the order of observation.
LEMMA ReadingsFacts ==
  ASSUME NEW log \in Seq(Observations)
  PROVE  /\ Readings(log) \in Seq(Observations)
         /\ \A n \in 1..Len(Readings(log)) : \E i \in DOMAIN log : Readings(log)[n] = log[i]
<1> DEFINE kept == {i \in DOMAIN log : log[i].shown /\ ~log[i].failed}
           at == [i \in kept |-> log[i].observed]
           ids == InOrder(at)
           N == Cardinality(DOMAIN at)
<1>1. DOMAIN log = 1..Len(log) /\ Len(log) \in Nat /\ \A i \in DOMAIN log : log[i] \in Observations
  OBVIOUS
<1>2. IsFiniteSet(kept) /\ kept \subseteq Nat
  <2>1. kept \in SUBSET (1..Len(log)) /\ 1..Len(log) \subseteq Nat
    BY <1>1
  <2>2. IsFiniteSet(1..Len(log))
    BY <1>1, FS_Interval
  <2> QED BY ONLY <2>1, <2>2, FS_Subset
<1>3. Observed(at)
  <2>1. \A i \in kept : at[i] \in Nat
    BY <1>1, ReadingType
  <2>2. DOMAIN at = kept /\ at \in [kept -> Nat]
    BY <2>1
  <2> QED BY <1>2, <2>2 DEF Observed
<1>4. N \in Nat /\ ids \in [1..N -> kept]
  BY <1>3, InOrderFacts
<1>5. Readings(log) = [n \in DOMAIN ids |-> log[ids[n]]]
  BY DEF Readings
<1> HIDE DEF ids, N
<1>6. Readings(log) = [n \in 1..N |-> log[ids[n]]] /\ \A n \in 1..N : ids[n] \in DOMAIN log
  BY <1>4, <1>5
<1>7. Readings(log) \in [1..N -> Observations]
  BY <1>1, <1>6
<1>8. Readings(log) \in Seq(Observations) /\ Len(Readings(log)) = N
  BY <1>4, <1>7
<1> QED BY <1>6, <1>8

\* The events are those that were recorded.
Typing == events \in Seq(Observations)

LEMMA TypingHolds == Spec => []Typing
<1>1. Init => Typing
  BY DEF Init, Typing
<1>2. Typing /\ [Next]_events => Typing'
  <2> SUFFICES ASSUME Typing, [Next]_events PROVE events' \in Seq(Observations)
    BY DEF Typing
  <2>1. CASE UNCHANGED events
    BY <2>1 DEF Typing
  <2>2. CASE \E o \in Observations : Record(o)
    <3>1. PICK o \in Observations : events' = Append(events, o)
      BY <2>2 DEF Record
    <3> QED BY <3>1, AppendProperties DEF Typing
  <2> QED BY <2>1, <2>2 DEF Next
<1> QED BY <1>1, <1>2, PTL DEF Spec

(***************************************************************************)
(* The scan is a recursive function: it exists.                            *)
(***************************************************************************)
Scans(o, g, N) ==
  g = [n \in 1..N |-> IF n = 1 THEN Begin(o) ELSE Step(o, g[n - 1], n)]

LEMMA ScanExists ==
  ASSUME NEW o, NEW N \in Nat
  PROVE  \E g : Scans(o, g, N)
<1> DEFINE Bad == {n \in Nat : ~\E g : Scans(o, g, n)}
<1> SUFFICES ASSUME Bad # {} PROVE FALSE
  OBVIOUS
<1>1. PICK m \in Bad : \A n \in Bad : m <= n
  BY LeastNatural
<1>2. CASE m = 0
  <2> DEFINE g == [n \in 1..0 |-> 0]
  <2>1. Scans(o, g, 0)
    BY DEF Scans
  <2> QED BY <1>1, <1>2, <2>1
<1>3. CASE m # 0
  <2>1. m - 1 \in Nat /\ m - 1 \notin Bad
    BY <1>1, <1>3
  <2>2. PICK h : Scans(o, h, m - 1)
    BY <2>1
  <2> DEFINE g == [n \in 1..m |-> IF n < m THEN h[n]
                                  ELSE IF m = 1 THEN Begin(o) ELSE Step(o, h[m - 1], m)]
  <2>3. ASSUME NEW n \in 1..m
        PROVE  g[n] = IF n = 1 THEN Begin(o) ELSE Step(o, g[n - 1], n)
    <3>1. CASE n = m
      <4>1. n # 1 => g[n - 1] = h[m - 1]
        BY <1>1, <3>1
      <4> QED BY <1>1, <3>1, <4>1
    <3>2. CASE n < m
      <4>1. n \in 1..(m - 1) /\ g[n] = h[n]
        BY <1>1, <3>2
      <4>2. h[n] = IF n = 1 THEN Begin(o) ELSE Step(o, h[n - 1], n)
        BY <2>2, <4>1 DEF Scans
      <4>3. n # 1 => g[n - 1] = h[n - 1]
        BY <1>1, <3>2
      <4> QED BY <4>1, <4>2, <4>3
    <3> QED BY <1>1, <3>1, <3>2
  <2>4. Scans(o, g, m)
    BY <2>3 DEF Scans
  <2> QED BY <1>1, <2>4
<1> QED BY <1>2, <1>3

LEMMA ScanRecursive ==
  ASSUME NEW o, o \in Seq(Observations)
  PROVE  Scan(o) = [n \in 1..Len(o) |-> IF n = 1 THEN Begin(o) ELSE Step(o, Scan(o)[n - 1], n)]
<1>1. DOMAIN o = 1..Len(o) /\ Len(o) \in Nat
  OBVIOUS
<1>2. Scan(o) = CHOOSE g : Scans(o, g, Len(o))
  BY <1>1 DEF Scan, Scans
<1>3. Scans(o, Scan(o), Len(o))
  BY <1>1, <1>2, ScanExists
<1> QED BY <1>3 DEF Scans

(***************************************************************************)
(* What the loop is made of.                                               *)
(***************************************************************************)
Plans == {r.plan : r \in Observations}

Reasons == {"", "scheduled_reset", "early_reset"}

CycleType ==
  [start : Nat, ended : Nat, reset : Nat \ {0}, window : Nat \ {0}, plan : Plans,
   reason : Reasons, from : Nat, to : Nat, peak : 0..100,
   seen : Nat, current : BOOLEAN]

LocalsType ==
  [closed : Seq(CycleType), from : Nat, start : Nat, reset : Nat \ {0}, window : Nat \ {0},
   plan : Plans, fixed : BOOLEAN, peak : 0..100, candidate : Nat, low : Nat, lows : Nat,
   lastLow : 0..100]

LEMMA HighestFacts ==
  ASSUME NEW S, S \subseteq Nat, S # {}, Bounded(S)
  PROVE  Highest(S) \in S /\ \A m \in S : m <= Highest(S)
BY GreatestNatural DEF Highest

\* The highest percent of some readings is one of theirs.
LEMMA HighestUsed ==
  ASSUME NEW o \in Seq(Observations), NEW N, N \subseteq 1..Len(o), N # {}
  PROVE  LET top == Highest({o[n].used : n \in N}) IN
         /\ top \in 0..100
         /\ \E n \in N : o[n].used = top
<1> DEFINE S == {o[n].used : n \in N}
<1>1. \A n \in N : o[n] \in Observations
  OBVIOUS
<1>2. S \subseteq 0..100 /\ S # {}
  BY <1>1, ReadingType
<1> HIDE DEF S
<1>3. \A m \in 0..100 : m \in Nat /\ m <= 100
  OBVIOUS
<1>4. Bounded(S)
  BY <1>2, <1>3 DEF Bounded
<1>5. S \subseteq Nat
  BY <1>2, <1>3
<1>6. Highest(S) \in S
  BY <1>2, <1>4, <1>5, HighestFacts
<1> QED BY <1>2, <1>6 DEF S

\* What is known of a cycle that is built.
IsCycle(c, s, to, ended, reason) ==
  /\ c \in CycleType
  /\ c.start = s.start /\ c.ended = ended /\ c.reset = s.reset /\ c.reason = reason
  /\ c.from = s.from /\ c.to = to /\ c.current = FALSE

LEMMA CycleFacts ==
  ASSUME NEW o \in Seq(Observations), NEW s \in LocalsType, NEW to, to \in 1..Len(o),
         s.from \in 1..to, NEW ended \in Nat,
         NEW reason \in Reasons
  PROVE  IsCycle(Cycle(o, s, to, ended, reason), s, to, ended, reason)
<1> DEFINE inside == {n \in s.from..to : o[n].observed >= s.start}
           first == IF inside = {} THEN s.from
                    ELSE CHOOSE n \in inside : \A m \in inside : n <= m
           after == {n \in (first + 1)..to : ended > 0 /\ o[n].observed >= ended}
           last == IF after = {} THEN to
                   ELSE (CHOOSE n \in after : \A m \in after : n <= m) - 1
<1>0. s.from \in Nat \ {0} /\ to \in Nat /\ s.from <= to /\ to <= Len(o) /\ Len(o) \in Nat
  <2>1. Len(o) \in Nat
    BY LenProperties
  <2> QED BY <2>1
<1>1. first \in s.from..to
  <2>1. inside \subseteq s.from..to /\ inside \subseteq Nat
    BY <1>0
  <2> HIDE DEF inside
  <2>2. CASE inside = {}
    <3>1. first = s.from
      BY <2>2
    <3> HIDE DEF first
    <3> QED BY <1>0, <3>1
  <2>3. CASE inside # {}
    <3>1. \E n \in inside : \A m \in inside : n <= m
      BY <2>1, <2>3, LeastNatural
    <3>2. first = CHOOSE n \in inside : \A m \in inside : n <= m
      BY <2>3
    <3> HIDE DEF first
    <3>3. first \in inside
      BY <3>1, <3>2
    <3> QED BY <2>1, <3>3
  <2> QED BY <2>2, <2>3
<1> HIDE DEF first, inside
<1>2. last \in first..to
  <2>0. first \in Nat /\ s.from <= first /\ first <= to
    BY <1>0, <1>1
  <2>1. after \subseteq (first + 1)..to /\ after \subseteq Nat
    BY <1>0, <2>0
  <2> HIDE DEF after
  <2>2. CASE after = {}
    <3>1. last = to
      BY <2>2
    <3> HIDE DEF last
    <3> QED BY <1>0, <2>0, <3>1
  <2>3. CASE after # {}
    <3> DEFINE n == CHOOSE n \in after : \A m \in after : n <= m
    <3>1. \E x \in after : \A m \in after : x <= m
      BY <2>1, <2>3, LeastNatural
    <3>2. n \in after
      BY <3>1
    <3>3. last = n - 1
      BY <2>3
    <3> HIDE DEF n, last
    <3>4. n \in (first + 1)..to
      BY <2>1, <3>2
    <3> QED BY <1>0, <2>0, <3>3, <3>4
  <2> QED BY <2>2, <2>3
<1> HIDE DEF last, after
<1>3. first..last \subseteq 1..Len(o) /\ first..last # {}
  <2>1. first \in Nat /\ last \in Nat /\ 1 <= first /\ first <= last /\ last <= Len(o)
    BY <1>0, <1>1, <1>2
  <2>2. first \in first..last
    BY <2>1
  <2> QED BY <1>0, <2>1, <2>2
<1>4. Highest({o[n].used : n \in first..last}) \in 0..100
  BY <1>3, HighestUsed
<1>5. (IF last = first THEN to ELSE last) \in 1..Len(o)
  BY <1>0, <1>1, <1>2
<1>6. o[IF last = first THEN to ELSE last].observed \in Nat
  <2>1. o[IF last = first THEN to ELSE last] \in Observations
    BY ONLY <1>5, o \in Seq(Observations), ElementOfSeq
  <2> QED BY <2>1, ReadingType
<1>7. Cycle(o, s, to, ended, reason) =
        [start |-> s.start, ended |-> ended, reset |-> s.reset, window |-> s.window,
         plan |-> s.plan, reason |-> reason, from |-> s.from, to |-> to,
         peak |-> Highest({o[n].used : n \in first..last}),
         seen |-> o[IF last = first THEN to ELSE last].observed, current |-> FALSE]
  BY DEF Cycle, first, last, inside, after
<1>8. /\ s.start \in Nat /\ s.reset \in Nat \ {0} /\ s.window \in Nat \ {0}
      /\ s.plan \in Plans /\ s.from \in Nat /\ to \in Nat
  BY <1>0 DEF LocalsType
<1> DEFINE peak == Highest({o[n].used : n \in first..last})
           seen == o[IF last = first THEN to ELSE last].observed
<1>9. Cycle(o, s, to, ended, reason) =
        [start |-> s.start, ended |-> ended, reset |-> s.reset, window |-> s.window,
         plan |-> s.plan, reason |-> reason, from |-> s.from, to |-> to,
         peak |-> peak, seen |-> seen, current |-> FALSE]
  BY <1>7
<1>10. peak \in 0..100 /\ seen \in Nat
  BY <1>4, <1>6
<1> HIDE DEF peak, seen
<1> QED BY <1>8, <1>9, <1>10 DEF CycleType, IsCycle

\* And of the locals when a cycle is opened with the readings from..n.
IsOpened(s, o, closed, from, n, start) ==
  /\ s \in LocalsType
  /\ s.closed = closed /\ s.from = from /\ s.start = start /\ s.reset = o[n].reset
  /\ s.fixed = TRUE /\ s.candidate = 0 /\ s.low = 0
  /\ \E q \in from..n : o[q].used = s.peak

LEMMA OpenedFacts ==
  ASSUME NEW o \in Seq(Observations), NEW closed \in Seq(CycleType), NEW n, n \in 1..Len(o),
         NEW from, from \in 1..n, NEW start \in Nat
  PROVE  IsOpened(Opened(o, closed, from, n, start), o, closed, from, n, start)
<1>1. from..n \subseteq 1..Len(o) /\ from..n # {}
  <2>1. Len(o) \in Nat /\ n \in Nat /\ n <= Len(o) /\ from \in Nat /\ 1 <= from /\ from <= n
    OBVIOUS
  <2>2. from \in from..n
    BY ONLY <2>1
  <2> QED BY ONLY <2>1, <2>2
<1>2. Highest({o[i].used : i \in from..n}) \in 0..100
  BY <1>1, HighestUsed
<1>3. \E q \in from..n : o[q].used = Highest({o[i].used : i \in from..n})
  BY <1>1, HighestUsed
<1>4. o[n] \in Observations
  OBVIOUS
<1>5. o[n].reset \in Nat \ {0} /\ o[n].window \in Nat \ {0} /\ o[n].plan \in Plans
  BY <1>4, ReadingType DEF Plans
<1> DEFINE s == Opened(o, closed, from, n, start)
           peak == Highest({o[i].used : i \in from..n})
<1>6. s = [closed |-> closed, from |-> from, start |-> start, reset |-> o[n].reset,
           window |-> o[n].window, plan |-> o[n].plan, fixed |-> TRUE, peak |-> peak,
           candidate |-> 0, low |-> 0, lows |-> 0, lastLow |-> 0]
  BY DEF Opened
<1>7. peak \in 0..100 /\ \E q \in from..n : o[q].used = peak
  BY <1>2, <1>3
<1>8. from \in Nat /\ 0 \in 0..100
  OBVIOUS
<1> HIDE DEF peak, s
<1> QED BY <1>5, <1>6, <1>7, <1>8 DEF LocalsType, IsOpened, s

(***************************************************************************)
(* The invariant of the loop.                                              *)
(***************************************************************************)
\* Cycle c ends where another one begins, with reading from, at the time start.
Link(o, c, from, start) ==
  /\ c.from \in 1..c.to /\ c.to + 1 = from /\ c.ended = start /\ c.current = FALSE
  /\ Confirmed(o, c, from)

\* The cycles closed so far share out the readings before from.
Chained(o, cs, from, start) ==
  /\ IF cs = <<>> THEN from = 1 ELSE cs[1].from = 1
  /\ \A k \in 1..Len(cs) :
       IF k = Len(cs) THEN Link(o, cs[k], from, start)
       ELSE Link(o, cs[k], cs[k + 1].from, cs[k + 1].start)

\* The peak is that of a reading of the cycle, made before the low ones.
PeakRead(o, s, n) == \E q \in s.from..n : o[q].used = s.peak /\ (s.low > 0 => q < s.low)

\* Reading n is the candidate for a scheduled reset.
Waiting(o, s, n) ==
  s.candidate = n /\ s.from < n /\ o[n].reset # s.reset /\ ShowsNextWindow(s.reset, o[n])

\* The low readings up to n, and what came in between.
LowRun(o, s, n) ==
  LET run == Run(o, s.low, n) IN
  /\ s.low \in (s.from + 1)..n /\ s.reset = o[s.low].reset
  /\ s.lows = Cardinality(run)
  /\ \A m \in run : IsLow(s.peak, o[m])
  /\ Nondecreasing(o, run)
  /\ \E z \in run : o[z].used = s.lastLow /\ \A m \in run : m <= z
  /\ \A m \in (s.low..n) \ run : ShowsNextWindow(s.reset, o[m])

\* What holds of the locals but for the run.
Base(o, s, n) ==
  /\ s \in LocalsType /\ s.from \in 1..n
  /\ Chained(o, s.closed, s.from, s.start) /\ (s.closed # <<>> => s.fixed)
  /\ PeakRead(o, s, n)

ScanInv(o, s, n) ==
  /\ Base(o, s, n)
  /\ s.candidate = 0 \/ Waiting(o, s, n)
  /\ s.low = 0 \/ LowRun(o, s, n)

LEMMA ChainAppend ==
  ASSUME NEW o, NEW cs \in Seq(CycleType), NEW c \in CycleType, NEW from, NEW start,
         Chained(o, cs, c.from, c.start), Link(o, c, from, start)
  PROVE  Append(cs, c) \in Seq(CycleType) /\ Chained(o, Append(cs, c), from, start)
<1> DEFINE ds == Append(cs, c)
<1>1. /\ ds \in Seq(CycleType) /\ Len(ds) = Len(cs) + 1 /\ Len(cs) \in Nat
      /\ ds[Len(cs) + 1] = c /\ \A k \in 1..Len(cs) : ds[k] = cs[k]
  BY AppendProperties, LenProperties
<1>2. ds # <<>> /\ ds[1].from = 1
  <2>1. CASE cs = <<>>
    BY <1>1, <2>1 DEF Chained
  <2>2. CASE cs # <<>>
    <3>1. 1 \in 1..Len(cs)
      BY <1>1, <2>2, EmptySeq
    <3> QED BY <1>1, <2>2, <3>1 DEF Chained
  <2> QED BY <2>1, <2>2
<1> HIDE DEF ds
<1>3. ASSUME NEW k \in 1..Len(ds)
      PROVE  IF k = Len(ds) THEN Link(o, ds[k], from, start)
             ELSE Link(o, ds[k], ds[k + 1].from, ds[k + 1].start)
  <2>1. CASE k = Len(ds)
    BY <1>1, <2>1
  <2>2. CASE k = Len(cs)
    <3>1. k # Len(ds) /\ ds[k] = cs[k] /\ ds[k + 1] = c /\ k \in 1..Len(cs)
      BY <1>1, <2>2
    <3> QED BY <2>2, <3>1 DEF Chained
  <2>3. CASE k < Len(cs)
    <3>1. k # Len(ds) /\ ds[k] = cs[k] /\ ds[k + 1] = cs[k + 1] /\ k \in 1..Len(cs) /\ k # Len(cs)
      BY <1>1, <2>3
    <3> QED BY <3>1 DEF Chained
  <2> QED BY <1>1, <2>1, <2>2, <2>3
<1> QED BY <1>1, <1>2, <1>3 DEF Chained, ds

LEMMA DeclaredType ==
  ASSUME NEW r \in Observations, NEW fallback \in Nat
  PROVE  DeclaredStart(r, fallback) \in Nat
BY ReadingType DEF DeclaredStart

LEMMA BeginInv ==
  ASSUME NEW o \in Seq(Observations), o # <<>>
  PROVE  ScanInv(o, Begin(o), 1)
<1>1. Len(o) \in Nat /\ 1 \in 1..Len(o) /\ o[1] \in Observations
  BY LenProperties, EmptySeq
<1> DEFINE start == DeclaredStart(o[1], o[1].observed)
           s == Opened(o, <<>>, 1, 1, start)
           t == [s EXCEPT !.fixed = FALSE]
<1>2. start \in Nat
  BY <1>1, DeclaredType, ReadingType
<1>3. <<>> \in Seq(CycleType)
  OBVIOUS
<1>4. 1 \in 1..1
  OBVIOUS
<1>5. /\ s \in LocalsType /\ s.closed = <<>> /\ s.from = 1 /\ s.candidate = 0 /\ s.low = 0
      /\ \E q \in 1..1 : o[q].used = s.peak
  <2> HIDE DEF start
  <2>1. IsOpened(Opened(o, <<>>, 1, 1, start), o, <<>>, 1, 1, start)
    BY ONLY o \in Seq(Observations), <1>1, <1>2, <1>3, <1>4, OpenedFacts
  <2> QED BY <2>1 DEF IsOpened
<1>6. Begin(o) = t
  BY DEF Begin
<1> HIDE DEF s, start
<1>7. /\ t \in LocalsType /\ t.closed = <<>> /\ t.from = 1 /\ t.candidate = 0 /\ t.low = 0
      /\ t.peak = s.peak
  BY <1>5 DEF LocalsType
<1>8. Chained(o, t.closed, t.from, t.start)
  BY <1>7 DEF Chained
<1>9. PeakRead(o, t, 1)
  BY <1>5, <1>7 DEF PeakRead
<1> QED BY <1>4, <1>6, <1>7, <1>8, <1>9 DEF ScanInv, Base

\* A reset closes the cycle before reading from and opens one with the readings from..n.
LEMMA ResetInv ==
  ASSUME NEW o \in Seq(Observations), NEW s, NEW i \in 1..Len(o), Base(o, s, i),
         NEW n, n \in 1..Len(o), NEW from, from \in 1..n, s.from < from,
         NEW start \in Nat, NEW reason \in Reasons,
         Confirmed(o, Cycle(o, s, from - 1, start, reason), from)
  PROVE  ScanInv(o, Opened(o, Closed(o, s, from - 1, start, reason), from, n, start), n)
<1> DEFINE c == Cycle(o, s, from - 1, start, reason)
           cs == Append(s.closed, c)
           t == Opened(o, cs, from, n, start)
<1>1. /\ s \in LocalsType /\ s.from \in Nat \ {0} /\ s.closed \in Seq(CycleType)
      /\ n \in Nat /\ from \in Nat /\ from <= n /\ n <= Len(o) /\ Len(o) \in Nat
  <2>1. Len(o) \in Nat
    BY LenProperties
  <2>2. s \in LocalsType /\ s.from \in 1..i
    BY DEF Base
  <2> QED BY <2>1, <2>2 DEF LocalsType
<1>2. from - 1 \in 1..Len(o) /\ s.from \in 1..(from - 1)
  BY <1>1
<1>3. /\ c \in CycleType /\ c.start = s.start /\ c.ended = start /\ c.from = s.from
      /\ c.to = from - 1 /\ c.current = FALSE
  <2> DEFINE to == from - 1
  <2>1. to \in 1..Len(o) /\ s.from \in 1..to
    BY <1>2
  <2> HIDE DEF to
  <2>2. IsCycle(Cycle(o, s, to, start, reason), s, to, start, reason)
    BY ONLY o \in Seq(Observations), start \in Nat, reason \in Reasons, <1>1, <2>1, CycleFacts
  <2> QED BY <2>2 DEF to, IsCycle
<1>4. Closed(o, s, from - 1, start, reason) = cs
  BY <1>1, <1>2 DEF Closed
<1> HIDE DEF c
<1>5. Link(o, c, from, start)
  BY <1>1, <1>2, <1>3 DEF Link, c
<1>6. Chained(o, s.closed, c.from, c.start)
  BY <1>3 DEF Base
<1>7. cs \in Seq(CycleType) /\ Chained(o, cs, from, start)
  BY <1>1, <1>3, <1>5, <1>6, ChainAppend
<1> HIDE DEF cs
<1>8. /\ t \in LocalsType /\ t.closed = cs /\ t.from = from /\ t.start = start /\ t.fixed = TRUE
      /\ t.candidate = 0 /\ t.low = 0 /\ \E q \in from..n : o[q].used = t.peak
  <2>1. IsOpened(Opened(o, cs, from, n, start), o, cs, from, n, start)
    BY ONLY o \in Seq(Observations), n \in 1..Len(o), from \in 1..n, start \in Nat, <1>7, OpenedFacts
  <2> QED BY <2>1 DEF IsOpened
<1> HIDE DEF t
<1>9. Base(o, t, n)
  BY <1>1, <1>7, <1>8 DEF Base, PeakRead
<1>10. ScanInv(o, t, n)
  BY <1>8, <1>9 DEF ScanInv
<1> QED BY <1>4, <1>10 DEF t

\* The second reading in a row that shows the next window.
LEMMA ScheduledInv ==
  ASSUME NEW o \in Seq(Observations), NEW n \in 2..Len(o), NEW s, ScanInv(o, s, n - 1),
         s.candidate > 0, n = s.candidate + 1, SameRegime(o[s.candidate], o[n]),
         ShowsNextWindow(s.reset, o[n])
  PROVE  ScanInv(o, ScheduledReset(o, s, n), n)
<1> DEFINE from == s.candidate
<1>1. s \in LocalsType /\ Base(o, s, n - 1)
  BY DEF ScanInv, Base
<1>2. from \in Nat /\ from # 0 /\ s.reset \in Nat /\ Len(o) \in Nat
  BY <1>1, LenProperties DEF LocalsType
<1>3. Waiting(o, s, n - 1)
  BY <1>2 DEF ScanInv
<1>4. from = n - 1 /\ s.from < from /\ from \in 1..n /\ n \in 1..Len(o) /\ n - 1 \in 1..Len(o)
  BY <1>2, <1>3 DEF Waiting
<1> HIDE DEF from
<1>5. Confirmed(o, Cycle(o, s, from - 1, s.reset, "scheduled_reset"), from)
  <2> DEFINE c == Cycle(o, s, from - 1, s.reset, "scheduled_reset")
  <2>1. c.reason = "scheduled_reset" /\ c.reset = s.reset
    BY DEF Cycle
  <2> HIDE DEF c
  <2>2. DOMAIN o = 1..Len(o)
    OBVIOUS
  <2>3. SameRegime(o[from], o[from])
    BY DEF SameRegime
  <2>4. from + 1 = n /\ SameRegime(o[from], o[n])
    BY <1>4 DEF from
  <2>5. ShowsNextWindow(s.reset, o[from])
    BY <1>3, <1>4 DEF Waiting
  <2>6. ScheduleConfirmed(o, c, from)
    BY <1>4, <2>1, <2>2, <2>3, <2>4, <2>5 DEF ScheduleConfirmed
  <2> QED BY <2>1, <2>6 DEF Confirmed, c
<1>6. "scheduled_reset" \in Reasons
  BY DEF Reasons
<1>7. ScanInv(o, Opened(o, Closed(o, s, from - 1, s.reset, "scheduled_reset"), from, n, s.reset), n)
  BY ONLY o \in Seq(Observations), <1>1, <1>2, <1>4, <1>5, <1>6, ResetInv
<1> QED BY <1>7 DEF ScheduledReset, from

\* The parts of the locals are of their types.
LEMMA BaseTypes ==
  ASSUME NEW o \in Seq(Observations), NEW n \in Nat, NEW s, Base(o, s, n)
  PROVE  /\ s \in LocalsType
         /\ s.from \in Nat \ {0} /\ s.from <= n /\ s.start \in Nat /\ s.reset \in Nat \ {0}
         /\ s.peak \in Nat /\ s.candidate \in Nat /\ s.low \in Nat /\ s.lows \in Nat
         /\ s.lastLow \in Nat /\ s.closed \in Seq(CycleType)
<1>1. s \in LocalsType /\ s.from \in 1..n
  BY DEF Base
<1>2. /\ s.start \in Nat /\ s.reset \in Nat \ {0} /\ s.peak \in 0..100 /\ s.candidate \in Nat
      /\ s.low \in Nat /\ s.lows \in Nat /\ s.lastLow \in 0..100 /\ s.closed \in Seq(CycleType)
  BY <1>1 DEF LocalsType
<1>3. \A m \in 0..100 : m \in Nat
  OBVIOUS
<1>4. s.peak \in Nat /\ s.lastLow \in Nat
  BY <1>2, <1>3
<1>5. s.from \in Nat \ {0} /\ s.from <= n
  BY <1>1
<1> QED BY <1>1, <1>2, <1>4, <1>5

\* The first reading that shows the next window: the cycle and the run go on.
LEMMA CandidateInv ==
  ASSUME NEW o \in Seq(Observations), NEW n \in 2..Len(o), NEW s, ScanInv(o, s, n - 1),
         o[n].reset # s.reset, ShowsNextWindow(s.reset, o[n])
  PROVE  ScanInv(o, [s EXCEPT !.candidate = n], n)
<1> DEFINE t == [s EXCEPT !.candidate = n]
<1>1. n \in Nat /\ n - 1 \in Nat /\ n <= Len(o) /\ Base(o, s, n - 1)
  BY LenProperties DEF ScanInv
<1>2. s \in LocalsType /\ s.from \in Nat \ {0} /\ s.from <= n - 1 /\ s.low \in Nat
  BY <1>1, BaseTypes
<1>3. /\ t \in LocalsType /\ t.closed = s.closed /\ t.from = s.from /\ t.start = s.start
      /\ t.reset = s.reset /\ t.fixed = s.fixed /\ t.peak = s.peak /\ t.candidate = n
      /\ t.low = s.low /\ t.lows = s.lows /\ t.lastLow = s.lastLow
  BY <1>1, <1>2 DEF LocalsType
<1> HIDE DEF t
<1>4. Base(o, t, n)
  <2>1. PeakRead(o, t, n)
    BY <1>1, <1>2, <1>3 DEF Base, PeakRead
  <2> QED BY <1>1, <1>2, <1>3, <2>1 DEF Base
<1>5. Waiting(o, t, n)
  BY <1>1, <1>2, <1>3 DEF Waiting
<1>6. t.low = 0 \/ LowRun(o, t, n)
  <2> SUFFICES ASSUME s.low # 0 PROVE LowRun(o, t, n)
    BY <1>3
  <2>1. LowRun(o, s, n - 1)
    BY DEF ScanInv
  <2>2. s.low \in (s.from + 1)..(n - 1) /\ s.reset = o[s.low].reset
    BY <2>1 DEF LowRun
  <2>3. s.low..n = (s.low..(n - 1)) \cup {n}
    BY <1>1, <1>2, <2>2
  <2>4. ~SameRegime(o[s.low], o[n])
    BY <2>2 DEF SameRegime
  <2>5. Run(o, s.low, n) = Run(o, s.low, n - 1)
    BY <2>3, <2>4 DEF Run
  <2>6. \A m \in (s.low..n) \ Run(o, s.low, n) : ShowsNextWindow(s.reset, o[m])
    BY <2>1, <2>3, <2>5 DEF LowRun
  <2>7. s.low \in (s.from + 1)..n
    BY <1>1, <1>2, <2>2
  <2> QED BY <1>3, <2>1, <2>2, <2>5, <2>6, <2>7 DEF LowRun
<1> QED BY <1>4, <1>5, <1>6 DEF ScanInv, t

\* The run of s, if it is still one of its schedule.
Going(o, s, n) == s.low = 0 \/ s.reset # o[s.low].reset \/ LowRun(o, s, n)

\* Any other reading may correct the schedule, which ends a run of low readings.
LEMMA CorrectedFacts ==
  ASSUME NEW o \in Seq(Observations), NEW n \in 2..Len(o), NEW s, ScanInv(o, s, n - 1)
  PROVE  LET t == Corrected(s, o[n]) IN
         /\ Base(o, t, n - 1) /\ t.candidate = 0 /\ t.reset = o[n].reset
         /\ Going(o, t, n - 1)
<1> DEFINE r == o[n]
           t == Corrected(s, r)
<1>1. n \in Nat /\ n - 1 \in Nat /\ n <= Len(o) /\ Base(o, s, n - 1) /\ r \in Observations
  BY LenProperties DEF ScanInv
<1>2. /\ r.reset \in Nat \ {0} /\ r.window \in Nat \ {0} /\ r.plan \in Plans
  BY <1>1, ReadingType DEF Plans
<1>3. s \in LocalsType /\ s.start \in Nat
  BY <1>1, BaseTypes
<1>4. DeclaredStart(r, s.start) \in Nat
  BY <1>1, <1>3, DeclaredType
<1> HIDE DEF r
<1>5. /\ t \in LocalsType /\ t.closed = s.closed /\ t.from = s.from
      /\ t.reset = r.reset /\ t.fixed = s.fixed /\ t.peak = s.peak /\ t.candidate = 0
      /\ t.low = s.low /\ t.lows = s.lows /\ t.lastLow = s.lastLow
      /\ s.fixed => t.start = s.start
  BY <1>2, <1>3, <1>4 DEF LocalsType, Corrected
<1> HIDE DEF t
<1>6. Base(o, t, n - 1)
  <2>1. Chained(o, t.closed, t.from, t.start)
    <3>1. CASE s.closed = <<>>
      BY <1>1, <1>5, <3>1 DEF Base, Chained
    <3>2. CASE s.closed # <<>>
      BY <1>1, <1>5, <3>2 DEF Base
    <3> QED BY <3>1, <3>2
  <2>2. PeakRead(o, t, n - 1)
    BY <1>1, <1>5 DEF Base, PeakRead
  <2> QED BY <1>1, <1>5, <2>1, <2>2 DEF Base
<1>7. Going(o, t, n - 1)
  <2> SUFFICES ASSUME t.low # 0, t.reset = o[t.low].reset PROVE LowRun(o, t, n - 1)
    BY DEF Going
  <2>1. LowRun(o, s, n - 1)
    BY <1>5 DEF ScanInv
  <2>2. s.reset = t.reset
    BY <1>5, <2>1 DEF LowRun
  <2> QED BY <1>5, <2>1, <2>2 DEF LowRun
<1> QED BY <1>5, <1>6, <1>7 DEF t, r

\* A reading that is not low ends the run.
LEMMA PlainInv ==
  ASSUME NEW o \in Seq(Observations), NEW n \in 2..Len(o), NEW t, Base(o, t, n - 1),
         t.candidate = 0
  PROVE  ScanInv(o, [t EXCEPT !.low = 0, !.lows = 0, !.peak = Highest({@, o[n].used})], n)
<1> DEFINE top == Highest({t.peak, o[n].used})
           u == [t EXCEPT !.low = 0, !.lows = 0, !.peak = top]
<1>1. n \in Nat /\ n - 1 \in Nat /\ n <= Len(o) /\ o[n] \in Observations
  BY LenProperties
<1>2. t \in LocalsType /\ t.from \in Nat \ {0} /\ t.from <= n - 1
  BY <1>1, BaseTypes
<1>3. o[n].used \in 0..100 /\ t.peak \in 0..100
  BY <1>1, <1>2, ReadingType DEF LocalsType
<1>4. top \in {t.peak, o[n].used}
  <2>1. {t.peak, o[n].used} \subseteq 0..100 /\ {t.peak, o[n].used} # {}
    BY <1>3
  <2>2. \A m \in 0..100 : m \in Nat /\ m <= 100
    OBVIOUS
  <2>3. {t.peak, o[n].used} \subseteq Nat
    BY <2>1, <2>2
  <2>4. \A m \in {t.peak, o[n].used} : m <= 100
    BY <2>1, <2>2
  <2>5. Bounded({t.peak, o[n].used})
    <3>1. 100 \in Nat
      OBVIOUS
    <3> QED BY <2>4, <3>1, Zenon DEF Bounded
  <2> QED BY <2>1, <2>3, <2>5, HighestFacts
<1> HIDE DEF top
<1>5. top \in 0..100 /\ 0 \in Nat
  BY <1>3, <1>4
<1>6. /\ u \in LocalsType /\ u.closed = t.closed /\ u.from = t.from /\ u.start = t.start
      /\ u.fixed = t.fixed /\ u.peak = top /\ u.candidate = 0 /\ u.low = 0
  BY <1>2, <1>5, t.candidate = 0 DEF LocalsType
<1> HIDE DEF u
<1>7. PeakRead(o, u, n)
  <2>1. PICK q \in t.from..(n - 1) : o[q].used = t.peak
    BY DEF Base, PeakRead
  <2>2. q \in t.from..n /\ n \in t.from..n
    BY <1>1, <1>2
  <2> QED BY <1>4, <1>6, <2>1, <2>2 DEF PeakRead
<1>8. Base(o, u, n)
  BY <1>1, <1>2, <1>6, <1>7 DEF Base
<1>9. ScanInv(o, u, n)
  BY <1>6, <1>8 DEF ScanInv
<1> QED BY <1>9 DEF u, top

\* The run goes on with reading n.
LEMMA RunGoesOn ==
  ASSUME NEW o \in Seq(Observations), NEW n \in 2..Len(o), NEW t \in LocalsType,
         LowRun(o, t, n - 1), t.from \in Nat, SameRegime(o[t.low], o[n]),
         IsLow(t.peak, o[n]), o[n].used + PercentSlack >= t.lastLow,
         NEW u, u.low = t.low, u.lows = t.lows + 1, u.lastLow = o[n].used,
         u.from = t.from, u.reset = t.reset, u.peak = t.peak
  PROVE  LowRun(o, u, n)
<1> DEFINE old == Run(o, t.low, n - 1)
           run == Run(o, t.low, n)
<1>1. n \in Nat /\ n - 1 \in Nat /\ t.low \in Nat /\ t.low <= n - 1 /\ t.low \in (t.from + 1)..n
  BY LenProperties DEF LowRun
<1>2. t.low..n = (t.low..(n - 1)) \cup {n} /\ n \notin t.low..(n - 1)
  BY <1>1
<1>3. run = old \cup {n} /\ n \notin old /\ old \subseteq t.low..(n - 1)
  BY <1>2 DEF Run
<1>4. IsFiniteSet(old)
  <2>1. t.low \in Int /\ n - 1 \in Int
    BY <1>1
  <2>2. IsFiniteSet(t.low..(n - 1))
    BY ONLY <2>1, FS_Interval
  <2> HIDE DEF old
  <2> QED BY ONLY <1>3, <2>2, FS_Subset
<1>5. /\ t.lows = Cardinality(old) /\ Nondecreasing(o, old)
      /\ \A m \in old : IsLow(t.peak, o[m])
      /\ \A m \in (t.low..(n - 1)) \ old : ShowsNextWindow(t.reset, o[m])
      /\ t.reset = o[t.low].reset
  BY DEF LowRun
<1>6. PICK z \in old : o[z].used = t.lastLow /\ \A m \in old : m <= z
  BY DEF LowRun
<1> HIDE DEF old, run
<1>7. Cardinality(run) = t.lows + 1
  BY <1>3, <1>4, <1>5, FS_AddElement
<1>8. Nondecreasing(o, run)
  <2> SUFFICES ASSUME NEW m \in run, NEW q \in run, m < q, \A p \in run : p <= m \/ q <= p
               PROVE  o[q].used + PercentSlack >= o[m].used
    BY DEF Nondecreasing
  <2>1. \A p \in old : p \in Nat /\ p < n
    BY <1>1, <1>3
  <2>2. m \in old
    BY <1>1, <1>3, <2>1
  <2>3. CASE q = n
    <3>1. z <= m /\ m <= z
      BY <1>3, <1>6, <2>1, <2>2, <2>3
    <3>2. m = z
      BY <1>6, <2>1, <2>2, <3>1
    <3> QED BY <1>6, <2>3, <3>2
  <2>4. CASE q \in old
    BY <1>3, <1>5, <2>2, <2>4 DEF Nondecreasing
  <2> QED BY <1>3, <2>3, <2>4
<1>9. \A m \in run : IsLow(u.peak, o[m])
  BY <1>3, <1>5
<1>10. \E y \in run : o[y].used = u.lastLow /\ \A m \in run : m <= y
  <2>1. \A m \in run : m <= n
    BY <1>1, <1>3
  <2> QED BY <1>3, <2>1
<1>11. \A m \in (u.low..n) \ run : ShowsNextWindow(u.reset, o[m])
  BY <1>2, <1>3, <1>5
<1>12. run = Run(o, u.low, n)
  BY DEF run
<1> QED BY <1>1, <1>5, <1>7, <1>8, <1>9, <1>10, <1>11, <1>12 DEF LowRun

\* Reading n begins a run.
LEMMA RunBegins ==
  ASSUME NEW o \in Seq(Observations), NEW n \in 2..Len(o),
         NEW u, u.low = n, u.lows = 1, u.lastLow = o[n].used,
         u.from \in Nat, u.from <= n - 1, u.reset = o[n].reset, IsLow(u.peak, o[n])
  PROVE  LowRun(o, u, n)
<1>1. n \in Nat /\ n \in (u.from + 1)..n
  BY LenProperties
<1>2. n..n = {n} /\ SameRegime(o[n], o[n])
  BY <1>1 DEF SameRegime
<1>3. Run(o, n, n) = {n}
  BY <1>2 DEF Run
<1>4. Cardinality({n}) = 1
  BY FS_Singleton
<1>5. Nondecreasing(o, {n})
  BY <1>1 DEF Nondecreasing
<1>6. \A m \in (n..n) \ {n} : ShowsNextWindow(u.reset, o[m])
  BY <1>2
<1> QED BY <1>1, <1>3, <1>4, <1>5, <1>6 DEF LowRun

LEMMA CountedInv ==
  ASSUME NEW o \in Seq(Observations), NEW n \in 2..Len(o), NEW t, Base(o, t, n - 1),
         t.candidate = 0, t.reset = o[n].reset, Going(o, t, n - 1), IsLow(t.peak, o[n])
  PROVE  LET u == Counted(o, t, n) IN
         ScanInv(o, u, n) /\ u.low > 0 /\ u.candidate = 0 /\ u.reset = o[u.low].reset
<1> DEFINE goesOn == /\ t.low > 0 /\ SameRegime(o[t.low], o[n])
                     /\ o[n].used + PercentSlack >= t.lastLow
           u == Counted(o, t, n)
<1>1. n \in Nat /\ n - 1 \in Nat /\ n - 1 \in 1..Len(o) /\ n <= Len(o) /\ o[n] \in Observations
  BY LenProperties
<1>2. /\ t \in LocalsType /\ t.from \in Nat \ {0} /\ t.from <= n - 1
      /\ t.low \in Nat /\ t.lows \in Nat
  BY <1>1, BaseTypes
<1>3. o[n].used \in 0..100
  BY <1>1, ReadingType
<1>4. /\ u \in LocalsType /\ u.closed = t.closed /\ u.from = t.from /\ u.start = t.start
      /\ u.fixed = t.fixed /\ u.peak = t.peak /\ u.candidate = 0 /\ u.reset = t.reset
      /\ u.low = (IF goesOn THEN t.low ELSE n) /\ u.lows = (IF goesOn THEN t.lows + 1 ELSE 1)
      /\ u.lastLow = o[n].used
  <2> DEFINE low == IF goesOn THEN t.low ELSE n
             lows == IF goesOn THEN t.lows + 1 ELSE 1
             lastLow == o[n].used
  <2>1. u = [t EXCEPT !.low = low, !.lows = lows, !.lastLow = lastLow]
    BY <1>2 DEF Counted, LocalsType
  <2>2. low \in Nat /\ lows \in Nat /\ lastLow \in 0..100
    BY <1>1, <1>2, <1>3
  <2> HIDE DEF low, lows, lastLow, u, goesOn
  <2>3. /\ u \in LocalsType /\ u.closed = t.closed /\ u.from = t.from /\ u.start = t.start
        /\ u.fixed = t.fixed /\ u.peak = t.peak /\ u.candidate = t.candidate
        /\ u.reset = t.reset /\ u.low = low /\ u.lows = lows /\ u.lastLow = lastLow
    <3>1. t \in LocalsType
      BY <1>2
    <3> QED BY ONLY <2>1, <2>2, <3>1 DEF LocalsType
  <2> QED BY <2>3, t.candidate = 0 DEF low, lows, lastLow
<1> HIDE DEF u
<1>5. LowRun(o, u, n)
  <2>1. CASE goesOn
    <3>1. LowRun(o, t, n - 1)
      BY <1>2, <2>1 DEF Going, SameRegime
    <3> QED BY <1>2, <1>4, <2>1, <3>1, RunGoesOn
  <2>2. CASE ~goesOn
    BY <1>2, <1>4, <2>2, RunBegins
  <2> QED BY <2>1, <2>2
<1>6. u.low > 0 /\ u.low \in (t.from + 1)..n /\ u.reset = o[u.low].reset
  <2>1. u.low \in (t.from + 1)..n /\ u.reset = o[u.low].reset
    BY <1>4, <1>5 DEF LowRun
  <2> QED BY <1>2, <2>1
<1>7. PeakRead(o, u, n)
  <2>1. PICK q \in t.from..(n - 1) : o[q].used = t.peak /\ (t.low > 0 => q < t.low)
    BY DEF Base, PeakRead
  <2>2. q \in t.from..n /\ q < u.low
    BY <1>1, <1>2, <1>4, <2>1
  <2> QED BY <1>4, <2>1, <2>2 DEF PeakRead
<1>8. Base(o, u, n)
  BY <1>1, <1>2, <1>4, <1>7 DEF Base
<1> QED BY <1>4, <1>5, <1>6, <1>8 DEF ScanInv, u

\* A run that is long enough is the evidence of an early reset.
LEMMA EarlyInv ==
  ASSUME NEW o \in Seq(Observations), NEW n \in 2..Len(o), NEW u, ScanInv(o, u, n), u.low > 0
  PROVE  ScanInv(o, AfterLow(o, u, n), n)
<1> DEFINE boundary == o[u.low].observed
           c == Cycle(o, u, u.low - 1, boundary, "early_reset")
<1> SUFFICES ASSUME u.lows >= ResetSamples, o[n].observed - o[u.low].observed >= Span
             PROVE  ScanInv(o, Opened(o, Closed(o, u, u.low - 1, boundary, "early_reset"),
                                      u.low, n, boundary), n)
  BY DEF AfterLow
<1>1. n \in 1..Len(o) /\ Base(o, u, n) /\ LowRun(o, u, n)
  BY LenProperties DEF ScanInv
<1>2. u.from \in Nat \ {0} /\ u.low \in Nat
  BY <1>1, BaseTypes
<1>3. u.low \in 1..n /\ u.from < u.low /\ u.low \in 1..Len(o)
  <2>1. u.low \in (u.from + 1)..n
    BY <1>1 DEF LowRun
  <2> QED BY <1>1, <1>2, <2>1
<1>4. boundary \in Nat
  BY <1>3, ReadingType
<1>5. "early_reset" \in Reasons
  BY DEF Reasons
<1>6. Confirmed(o, c, u.low)
  <2>1. c.reason = "early_reset" /\ c.reset = u.reset /\ c.from = u.from /\ c.to = u.low - 1
    BY DEF Cycle
  <2> HIDE DEF c
  <2> DEFINE run == Run(o, u.low, n)
  <2>2. /\ u.lows = Cardinality(run) /\ \A m \in run : IsLow(u.peak, o[m])
        /\ Nondecreasing(o, run)
        /\ \A m \in (u.low..n) \ run : ShowsNextWindow(c.reset, o[m])
    BY <1>1, <2>1 DEF LowRun
  <2>3. PICK q \in c.from..c.to : o[q].used = u.peak
    <3>1. PICK p \in u.from..n : o[p].used = u.peak /\ p < u.low
      BY <1>1 DEF Base, PeakRead
    <3>2. p \in u.from..(u.low - 1)
      BY <1>2, <3>1
    <3> QED BY <2>1, <3>1, <3>2
  <2>4. \A m \in run : o[m].used <= LowPercent /\ o[m].used < o[q].used - PercentSlack
    BY <2>2, <2>3 DEF IsLow
  <2>5. n \in u.low..Len(o)
    BY <1>1, <1>3
  <2>6. RefillConfirmed(o, c, u.low)
    BY <2>2, <2>3, <2>4, <2>5 DEF RefillConfirmed
  <2> QED BY <2>1, <2>6 DEF Confirmed
<1> QED BY ONLY o \in Seq(Observations), <1>1, <1>3, <1>4, <1>5, <1>6, ResetInv

\* The body of the loop keeps the invariant.
LEMMA StepInv ==
  ASSUME NEW o \in Seq(Observations), NEW n \in 2..Len(o), NEW s, ScanInv(o, s, n - 1)
  PROVE  ScanInv(o, Step(o, s, n), n)
<1> DEFINE r == o[n]
           t == Corrected(s, r)
<1>1. CASE r.reset # s.reset /\ ShowsNextWindow(s.reset, r)
  <2>1. CASE s.candidate > 0 /\ n = s.candidate + 1 /\ SameRegime(o[s.candidate], r)
    <3>1. Step(o, s, n) = ScheduledReset(o, s, n)
      BY <1>1, <2>1 DEF Step
    <3> QED BY <1>1, <2>1, <3>1, ScheduledInv
  <2>2. CASE ~(s.candidate > 0 /\ n = s.candidate + 1 /\ SameRegime(o[s.candidate], r))
    <3>1. Step(o, s, n) = [s EXCEPT !.candidate = n]
      BY <1>1, <2>2 DEF Step
    <3> QED BY <1>1, <3>1, CandidateInv
  <2> QED BY <2>1, <2>2
<1>2. CASE ~(r.reset # s.reset /\ ShowsNextWindow(s.reset, r))
  <2>1. Base(o, t, n - 1) /\ t.candidate = 0 /\ t.reset = r.reset /\ Going(o, t, n - 1)
    BY CorrectedFacts
  <2>2. CASE IsLow(t.peak, r)
    <3>1. Step(o, s, n) = AfterLow(o, Counted(o, t, n), n)
      BY <1>2, <2>2 DEF Step
    <3> HIDE DEF t
    <3>2. ScanInv(o, Counted(o, t, n), n) /\ Counted(o, t, n).low > 0
      BY <2>1, <2>2, CountedInv
    <3> QED BY <3>1, <3>2, EarlyInv
  <2>3. CASE ~IsLow(t.peak, r)
    <3>1. Step(o, s, n) = [t EXCEPT !.low = 0, !.lows = 0, !.peak = Highest({@, r.used})]
      BY <1>2, <2>3 DEF Step
    <3> HIDE DEF t
    <3>2. ScanInv(o, [t EXCEPT !.low = 0, !.lows = 0, !.peak = Highest({@, o[n].used})], n)
      BY ONLY o \in Seq(Observations), n \in 2..Len(o), <2>1, PlainInv
    <3> QED BY ONLY <3>1, <3>2
  <2> QED BY <2>2, <2>3
<1> QED BY <1>1, <1>2

\* It holds after every reading.
LEMMA ScanAlways ==
  ASSUME NEW o \in Seq(Observations)
  PROVE  \A n \in 1..Len(o) : ScanInv(o, Scan(o)[n], n)
<1> DEFINE Bad == {n \in 1..Len(o) : ~ScanInv(o, Scan(o)[n], n)}
<1> SUFFICES ASSUME Bad # {} PROVE FALSE
  OBVIOUS
<1>1. Len(o) \in Nat /\ Bad \subseteq Nat
  BY LenProperties
<1>2. PICK m \in Bad : \A n \in Bad : m <= n
  BY <1>1, LeastNatural
<1>3. m \in 1..Len(o) /\ m \in Nat /\ ~ScanInv(o, Scan(o)[m], m)
  BY <1>1, <1>2
<1>4. Scan(o)[m] = IF m = 1 THEN Begin(o) ELSE Step(o, Scan(o)[m - 1], m)
  BY <1>3, ScanRecursive
<1>5. CASE m = 1
  BY <1>1, <1>3, <1>4, <1>5, EmptySeq, BeginInv
<1>6. CASE m # 1
  <2>1. m - 1 \in 1..Len(o) /\ m - 1 < m /\ m \in 2..Len(o)
    BY <1>1, <1>3, <1>6
  <2>2. ScanInv(o, Scan(o)[m - 1], m - 1)
    BY <1>2, <1>3, <2>1
  <2> QED BY <1>3, <1>4, <1>6, <2>1, <2>2, StepInv
<1> QED BY <1>5, <1>6

(***************************************************************************)
(* The cycles that the scan leaves.                                        *)
(***************************************************************************)
Derived(o, cs) ==
  /\ cs \in Seq(CycleType) /\ cs # <<>> /\ cs[1].from = 1
  /\ \A k \in 1..(Len(cs) - 1) : Link(o, cs[k], cs[k + 1].from, cs[k + 1].start)
  /\ LET c == cs[Len(cs)] IN
     c.from \in 1..c.to /\ c.to = Len(o) /\ c.current = TRUE /\ c.ended = 0

LEMMA DefinitionsFacts ==
  ASSUME NEW o \in Seq(Observations), o # <<>>
  PROVE  Derived(o, Definitions(o))
<1> DEFINE N == Len(o)
           s == Scan(o)[N]
           c == Cycle(o, s, N, 0, "")
           d == [c EXCEPT !.current = TRUE]
           cs == Append(s.closed, d)
<1>1. N \in Nat /\ N \in 1..N /\ N \in 1..Len(o)
  BY LenProperties, EmptySeq
<1>2. Base(o, s, N)
  BY <1>1, ScanAlways DEF ScanInv
<1>3. Definitions(o) = cs
  BY DEF Definitions
<1> HIDE DEF s
<1>4. s \in LocalsType /\ s.closed \in Seq(CycleType) /\ s.from \in 1..N
  BY <1>1, <1>2, BaseTypes
<1>5. "" \in Reasons /\ 0 \in Nat
  BY DEF Reasons
<1>6. /\ c \in CycleType /\ c.start = s.start /\ c.from = s.from /\ c.to = N /\ c.ended = 0
  <2> HIDE DEF N
  <2>1. \A reason \in Reasons :
          IsCycle(Cycle(o, s, N, 0, reason), s, N, 0, reason)
    BY ONLY o \in Seq(Observations), <1>1, <1>4, <1>5, CycleFacts
  <2>2. IsCycle(c, s, N, 0, "")
    BY ONLY <1>5, <2>1
  <2> QED BY ONLY <2>2 DEF IsCycle
<1> HIDE DEF c
<1>7. d \in CycleType /\ d.start = s.start /\ d.from = s.from /\ d.to = N /\ d.ended = 0
      /\ d.current = TRUE
  <2> HIDE DEF N
  <2>1. TRUE \in BOOLEAN
    OBVIOUS
  <2> QED BY ONLY <1>6, <2>1 DEF CycleType, d
<1> HIDE DEF d
<1>8. /\ cs \in Seq(CycleType) /\ Len(cs) = Len(s.closed) + 1 /\ Len(s.closed) \in Nat
      /\ cs[Len(s.closed) + 1] = d /\ \A k \in 1..Len(s.closed) : cs[k] = s.closed[k]
  BY <1>4, <1>7, AppendProperties, LenProperties
<1> HIDE DEF cs
<1>9. cs # <<>> /\ cs[1].from = 1
  <2>1. cs # <<>>
    BY <1>8, EmptySeq
  <2>2. CASE s.closed = <<>>
    <3>1. s.from = 1
      BY <1>2, <2>2 DEF Base, Chained
    <3>2. Len(s.closed) = 0
      BY <2>2
    <3>3. cs[1] = d
      BY ONLY <1>8, <3>2
    <3> QED BY <1>7, <2>1, <3>1, <3>3
  <2>3. CASE s.closed # <<>>
    <3>1. 1 \in 1..Len(s.closed)
      BY <1>4, <1>8, <2>3, EmptySeq
    <3> QED BY <1>2, <1>8, <2>3, <3>1 DEF Base, Chained
  <2> QED BY <2>1, <2>2, <2>3
<1>10. ASSUME NEW k \in 1..(Len(cs) - 1)
       PROVE  Link(o, cs[k], cs[k + 1].from, cs[k + 1].start)
  <2>1. k \in 1..Len(s.closed) /\ cs[k] = s.closed[k]
    BY <1>8
  <2>2. CASE k = Len(s.closed)
    BY <1>2, <1>7, <1>8, <2>1, <2>2 DEF Base, Chained
  <2>3. CASE k # Len(s.closed)
    <3>1. k + 1 \in 1..Len(s.closed) /\ cs[k + 1] = s.closed[k + 1]
      BY <1>8, <2>1, <2>3
    <3> QED BY <1>2, <2>1, <2>3, <3>1 DEF Base, Chained
  <2> QED BY <2>2, <2>3
<1> QED BY <1>3, <1>4, <1>7, <1>8, <1>9, <1>10 DEF Derived

\* Every reset rests on its evidence, where the readings of the next window count from
\* Tolerance before the boundary on (scope_series.go:424).
THEOREM ResetsAreConfirmed == Spec => []ResetsConfirmed
<1>1. Typing => ResetsConfirmed
  <2> DEFINE o == Readings(events)
             cs == Definitions(o)
  <2> SUFFICES ASSUME Typing, NEW k \in 1..(Len(cs) - 1)
               PROVE  Confirmed(o, cs[k], cs[k + 1].from)
    BY DEF ResetsConfirmed
  <2>1. o \in Seq(Observations)
    BY ReadingsFacts DEF Typing
  <2> HIDE DEF o
  <2>2. o # <<>>
    <3> SUFFICES ASSUME o = <<>> PROVE FALSE
      OBVIOUS
    <3>1. cs = <<>>
      BY DEF Definitions
    <3> HIDE DEF cs
    <3>2. Len(cs) = 0
      BY <3>1
    <3> QED BY <3>2
  <2>3. Derived(o, cs)
    BY <2>1, <2>2, DefinitionsFacts
  <2> QED BY <2>3 DEF Derived, Link
<1> QED BY <1>1, TypingHolds, PTL

(***************************************************************************)
(* The cycles that a report sees.                                          *)
(***************************************************************************)
\* A cycle ends before the next one starts, if not at the same time.
Ordered(cs) ==
  /\ cs \in Seq(CycleType)
  /\ \A k \in 1..(Len(cs) - 1) : ~cs[k].current /\ cs[k].ended <= cs[k + 1].start

\* Whole windows after a reset.
LEMMA WholeWindows ==
  ASSUME NEW w \in Nat \ {0}, NEW t \in Nat
  PROVE  (t \div w) * w \in Nat
<1> DEFINE j == t \div w
<1>1. j \in Nat
  OBVIOUS
<1> HIDE DEF j
<1>2. j * w \in Nat
  BY <1>1
<1> QED BY <1>2 DEF j

LEMMA DefinitionsOrdered ==
  ASSUME NEW o \in Seq(Observations)
  PROVE  Ordered(Definitions(o))
<1>1. CASE o = <<>>
  <2>1. Definitions(o) = <<>>
    BY <1>1 DEF Definitions
  <2> QED BY <2>1 DEF Ordered
<1>2. CASE o # <<>>
  <2> DEFINE cs == Definitions(o)
  <2>1. Derived(o, cs)
    BY <1>2, DefinitionsFacts
  <2> HIDE DEF cs
  <2>2. cs \in Seq(CycleType)
    BY <2>1 DEF Derived
  <2>3. ASSUME NEW k \in 1..(Len(cs) - 1)
        PROVE  ~cs[k].current /\ cs[k].ended <= cs[k + 1].start
    <3>1. k + 1 \in 1..Len(cs)
      BY <2>2, LenProperties
    <3>2. cs[k + 1] \in CycleType
      BY <2>2, <3>1
    <3>3. cs[k].ended = cs[k + 1].start /\ cs[k].current = FALSE
      BY <2>1 DEF Derived, Link
    <3>4. cs[k + 1].start \in Nat
      BY <3>2 DEF CycleType
    <3> QED BY <3>3, <3>4
  <2>4. Ordered(cs)
    BY <2>2, <2>3 DEF Ordered
  <2> QED BY <2>4 DEF cs
<1> QED BY <1>1, <1>2

LEMMA AdvancedOrdered ==
  ASSUME NEW ds, Ordered(ds), NEW now \in Nat
  PROVE  Ordered(Advanced(ds, now))
<1> DEFINE L == Len(ds)
           c == ds[L]
           start == c.reset + ((now - c.reset) \div c.window) * c.window
           e == [c EXCEPT !.current = FALSE, !.ended = c.reset, !.reason = "scheduled_reset"]
           d == [c EXCEPT !.start = start, !.reset = start + c.window, !.reason = "",
                          !.from = 0, !.to = 0, !.peak = 0, !.seen = 0]
           es == [ds EXCEPT ![L] = e]
           cs == Append(es, d)
<1>1. CASE ds = <<>> \/ now < c.reset
  <2>1. Advanced(ds, now) = ds
    BY <1>1 DEF Advanced
  <2> QED BY <2>1
<1>2. CASE ds # <<>> /\ ~(now < c.reset)
  <2>1. ds \in Seq(CycleType) /\ L \in Nat /\ L \in 1..L /\ c \in CycleType
    BY <1>2, LenProperties, EmptySeq DEF Ordered
  <2>2. Advanced(ds, now) = cs
    <3>1. es = [ds EXCEPT ![L].current = FALSE, ![L].ended = c.reset,
                          ![L].reason = "scheduled_reset"]
      BY <2>1
    <3> HIDE DEF es
    <3> QED BY <1>2, <3>1 DEF Advanced
  <2>3. c.reset \in Nat /\ c.window \in Nat \ {0} /\ start \in Nat /\ c.reset <= start
    <3>1. c.reset \in Nat /\ c.window \in Nat \ {0}
      BY <2>1 DEF CycleType
    <3> HIDE DEF c
    <3>2. now - c.reset \in Nat
      BY <1>2, <3>1
    <3>3. ((now - c.reset) \div c.window) * c.window \in Nat
      BY ONLY <3>1, <3>2, WholeWindows
    <3> QED BY <3>1, <3>3
  <2> HIDE DEF start, c
  <2>4. e \in CycleType /\ e.current = FALSE /\ e.ended = c.reset /\ e.start = c.start
    <3>1. "scheduled_reset" \in Reasons /\ FALSE \in BOOLEAN
      BY DEF Reasons
    <3> QED BY ONLY <2>1, <2>3, <3>1 DEF CycleType, e
  <2>5. d \in CycleType /\ d.start = start
    <3> DEFINE none == ""
               reset == start + c.window
    <3>1. none \in Reasons /\ 0 \in 0..100 /\ 0 \in Nat
      BY DEF Reasons
    <3>2. reset \in Nat \ {0}
      BY <2>3
    <3>3. d = [c EXCEPT !.start = start, !.reset = reset, !.reason = none,
                        !.from = 0, !.to = 0, !.peak = 0, !.seen = 0]
      OBVIOUS
    <3> HIDE DEF none, reset, d
    <3> QED BY ONLY <2>1, <2>3, <3>1, <3>2, <3>3 DEF CycleType
  <2> HIDE DEF d, e
  <2>6. es \in Seq(CycleType) /\ Len(es) = L /\ es[L] = e
        /\ \A k \in 1..(L - 1) : es[k] = ds[k]
    <3> HIDE DEF L
    <3>1. es \in [1..L -> CycleType]
      BY <2>1, <2>4 DEF L
    <3>2. es \in Seq(CycleType) /\ Len(es) = L
      BY <2>1, <3>1
    <3> QED BY <2>1, <3>2
  <2> HIDE DEF es
  <2>7. /\ cs \in Seq(CycleType) /\ Len(cs) = L + 1 /\ cs[L + 1] = d
        /\ \A k \in 1..L : cs[k] = es[k]
    BY <2>5, <2>6, AppendProperties
  <2> HIDE DEF cs, L
  <2>8. ASSUME NEW k \in 1..(Len(cs) - 1)
        PROVE  ~cs[k].current /\ cs[k].ended <= cs[k + 1].start
    <3>1. k \in 1..L
      BY <2>1, <2>7
    <3>2. CASE k = L
      <4>1. cs[k] = e /\ cs[k + 1] = d
        BY <2>6, <2>7, <3>1, <3>2
      <4> QED BY <2>3, <2>4, <2>5, <4>1
    <3>3. CASE k # L /\ k + 1 = L
      <4>1. k \in 1..(L - 1)
        BY <2>1, <3>1, <3>3
      <4>2. cs[k] = ds[k] /\ cs[k + 1] = e /\ e.start = ds[k + 1].start
        BY <2>1, <2>4, <2>6, <2>7, <3>3, <4>1 DEF c
      <4> QED BY <4>1, <4>2 DEF Ordered, L
    <3>4. CASE k # L /\ k + 1 # L
      <4>1. k \in 1..(L - 1) /\ k + 1 \in 1..(L - 1)
        BY <2>1, <3>1, <3>4
      <4>2. cs[k] = ds[k] /\ cs[k + 1] = ds[k + 1]
        BY <2>1, <2>6, <2>7, <4>1
      <4> QED BY <4>1, <4>2 DEF Ordered, L
    <3> QED BY <3>2, <3>3, <3>4
  <2>9. Ordered(cs)
    BY <2>7, <2>8 DEF Ordered
  <2> QED BY <2>2, <2>9
<1> QED BY <1>1, <1>2

\* The first of two cycles ends before the other one starts.
LEMMA OrderedDisjoint ==
  ASSUME NEW cs, Ordered(cs), NEW j \in 1..Len(cs), NEW k \in 1..Len(cs), j < k,
         \A i \in j..(k - 1) : ~Collapsed(cs[i])
  PROVE  End(cs[j]) <= cs[k].start
<1>1. Len(cs) \in Nat /\ j \in Nat /\ k \in Nat
  BY LenProperties DEF Ordered
<1>2. ASSUME NEW i \in j..(k - 1)
      PROVE  /\ End(cs[i]) \in Nat /\ cs[i].start < End(cs[i]) /\ End(cs[i]) <= cs[i + 1].start
             /\ cs[i].start \in Nat /\ cs[i + 1].start \in Nat
  <2>1. i \in 1..Len(cs) /\ i + 1 \in 1..Len(cs) /\ i \in 1..(Len(cs) - 1)
    BY <1>1
  <2>2. cs[i] \in CycleType /\ cs[i + 1] \in CycleType
    BY <2>1 DEF Ordered
  <2>3. cs[i].start \in Nat /\ cs[i].ended \in Nat /\ cs[i + 1].start \in Nat
    BY <2>2 DEF CycleType
  <2>4. ~cs[i].current /\ cs[i].ended <= cs[i + 1].start
    BY <2>1 DEF Ordered
  <2>5. cs[i].start < cs[i].ended
    BY <2>3, <2>4 DEF Collapsed
  <2>6. End(cs[i]) = cs[i].ended
    BY <2>5 DEF End
  <2> QED BY <2>3, <2>4, <2>5, <2>6
<1> DEFINE Bad == {n \in (j + 1)..k : ~(End(cs[j]) <= cs[n].start)}
<1> SUFFICES ASSUME Bad # {} PROVE FALSE
  BY <1>1
<1>3. Bad \subseteq Nat
  BY <1>1
<1>4. PICK n \in Bad : \A m \in Bad : n <= m
  BY <1>3, LeastNatural
<1>5. n \in (j + 1)..k /\ n \in Nat /\ ~(End(cs[j]) <= cs[n].start)
  BY <1>3, <1>4
<1>6. CASE n = j + 1
  <2>1. j \in j..(k - 1)
    BY <1>1
  <2> QED BY <1>2, <1>5, <1>6, <2>1
<1>7. CASE n # j + 1
  <2>1. n - 1 \in (j + 1)..k /\ n - 1 \in j..(k - 1) /\ n - 1 < n /\ j \in j..(k - 1)
        /\ (n - 1) + 1 = n
    BY <1>1, <1>5, <1>7
  <2>2. End(cs[j]) <= cs[n - 1].start
    <3>1. n - 1 \notin Bad
      BY <1>3, <1>4, <2>1
    <3> QED BY <2>1, <3>1
  <2> DEFINE i == n - 1
  <2>3. /\ End(cs[i]) \in Nat /\ cs[i].start < End(cs[i]) /\ End(cs[i]) <= cs[i + 1].start
        /\ cs[i].start \in Nat /\ cs[i + 1].start \in Nat
    BY <1>2, <2>1
  <2>4. End(cs[j]) \in Nat
    BY <1>2, <2>1
  <2>5. cs[i + 1] = cs[n]
    BY <2>1
  <2> DEFINE a == End(cs[j])
             b == cs[i].start
             c == End(cs[i])
             e == cs[n].start
  <2>6. a \in Nat /\ b \in Nat /\ c \in Nat /\ e \in Nat /\ a <= b /\ b < c /\ c <= e
    BY <2>2, <2>3, <2>4, <2>5
  <2> HIDE DEF a, b, c, e
  <2>7. a <= e
    BY <2>6
  <2> QED BY <1>5, <2>7 DEF a, e
<1> QED BY <1>6, <1>7

\* The cycles share out the readings and no moment belongs to two of them.
THEOREM CyclesAreDisjoint == Spec => []CyclesDisjoint
<1>1. Typing => CyclesDisjoint
  <2> DEFINE o == Readings(events)
             defined == Definitions(o)
  <2> SUFFICES ASSUME Typing
               PROVE  /\ \A k \in DOMAIN defined :
                           /\ defined[k].from \in 1..defined[k].to
                           /\ defined[k].from = (IF k = 1 THEN 1 ELSE defined[k - 1].to + 1)
                           /\ defined[k].current <=> k = Len(defined)
                      /\ defined # <<>> => defined[Len(defined)].to = Len(o)
                      /\ \A now \in Now : LET cs == Reported(now) IN
                           \A j, k \in DOMAIN cs :
                             j < k /\ (\A i \in j..(k - 1) : ~Collapsed(cs[i])) =>
                               End(cs[j]) <= cs[k].start
    BY DEF CyclesDisjoint
  <2>1. o \in Seq(Observations)
    BY ReadingsFacts DEF Typing
  <2>2. ASSUME NEW now \in Now, NEW j \in DOMAIN Reported(now), NEW k \in DOMAIN Reported(now),
               j < k, \A i \in j..(k - 1) : ~Collapsed(Reported(now)[i])
        PROVE  End(Reported(now)[j]) <= Reported(now)[k].start
    <3> DEFINE cs == Reported(now)
    <3>1. now \in Nat
      BY SeriesAssumption DEF Now
    <3>2. Ordered(cs)
      BY <2>1, <3>1, DefinitionsOrdered, AdvancedOrdered DEF Reported
    <3> HIDE DEF cs
    <3>3. DOMAIN cs = 1..Len(cs)
      BY <3>2 DEF Ordered
    <3> QED BY <2>2, <3>2, <3>3, OrderedDisjoint DEF cs
  <2> HIDE DEF o, defined
  <2>3. o # <<>> => Derived(o, defined)
    BY <2>1, DefinitionsFacts DEF defined
  <2>4. o = <<>> => defined = <<>>
    BY DEF defined, Definitions
  <2>5. CASE o = <<>>
    <3>1. defined = <<>> /\ DOMAIN defined = {}
      BY <2>4, <2>5
    <3> QED BY <2>2, <3>1 DEF defined, o
  <2>6. CASE o # <<>>
    <3>1. Derived(o, defined) /\ defined \in Seq(CycleType)
      BY <2>3, <2>6 DEF Derived
    <3>2. DOMAIN defined = 1..Len(defined) /\ Len(defined) \in Nat
      BY <3>1
    <3>3. ASSUME NEW k \in DOMAIN defined
          PROVE  /\ defined[k].from \in 1..defined[k].to
                 /\ defined[k].from = (IF k = 1 THEN 1 ELSE defined[k - 1].to + 1)
                 /\ defined[k].current <=> k = Len(defined)
      <4>1. defined[k].from \in 1..defined[k].to /\ (defined[k].current <=> k = Len(defined))
        <5>1. CASE k = Len(defined)
          BY <3>1, <5>1 DEF Derived
        <5>2. CASE k # Len(defined)
          <6>1. k \in 1..(Len(defined) - 1)
            BY <3>2, <5>2
          <6>2. Link(o, defined[k], defined[k + 1].from, defined[k + 1].start)
            BY <3>1, <6>1 DEF Derived
          <6> QED BY <5>2, <6>2 DEF Link
        <5> QED BY <5>1, <5>2
      <4>2. CASE k = 1
        BY <3>1, <4>1, <4>2 DEF Derived
      <4>3. CASE k # 1
        <5>1. k - 1 \in 1..(Len(defined) - 1) /\ (k - 1) + 1 = k
          BY <3>2, <4>3
        <5>2. Link(o, defined[k - 1], defined[k].from, defined[k].start)
          BY <3>1, <5>1 DEF Derived
        <5> QED BY <4>1, <4>3, <5>2 DEF Link
      <4> QED BY <4>2, <4>3
    <3>4. defined[Len(defined)].to = Len(o)
      BY <3>1 DEF Derived
    <3> QED BY <2>2, <3>3, <3>4 DEF defined, o
  <2> QED BY <2>5, <2>6
<1> QED BY <1>1, TypingHolds, PTL

(***************************************************************************)
(* Months.                                                                 *)
(***************************************************************************)
\* When a cycle ends for a month, whether a month meets it, what it adds to the
\* month, and whether what the month knows of it is complete.
EndsFor(c, now) == IF c.current /\ c.reset > now THEN now + 1 ELSE End(c)

Meets(c, from, before, now) == c.start < before /\ EndsFor(c, now) > from

Part(c, o, from, before, now) ==
  IF Meets(c, from, before, now) THEN Growth(c, o, from, before).consumed ELSE 0

Whole(c, o, from, before, now) ==
  Meets(c, from, before, now) => Growth(c, o, from, before).complete

LEMMA HighestPercent ==
  ASSUME NEW o \in Seq(Observations), NEW c, NEW from, NEW before,
         Percents(c, o, from, before) # {}
  PROVE  Highest(Percents(c, o, from, before)) \in Nat
<1> DEFINE N == {n \in DOMAIN o : /\ o[n].observed >= c.start /\ o[n].observed < End(c)
                                  /\ o[n].observed >= from /\ o[n].observed < before}
<1>1. Percents(c, o, from, before) = {o[n].used : n \in N} /\ N \subseteq 1..Len(o)
  BY DEF Percents
<1> HIDE DEF N
<1>2. N # {}
  BY <1>1
<1>3. Highest({o[n].used : n \in N}) \in 0..100
  BY <1>1, <1>2, HighestUsed
<1>4. \A x \in 0..100 : x \in Nat
  OBVIOUS
<1> QED BY <1>1, <1>3, <1>4

\* A growth that is complete is the difference of two peaks.
LEMMA GrowthComplete ==
  ASSUME NEW o \in Seq(Observations), NEW c, NEW from, NEW before,
         Growth(c, o, from, before).complete
  PROVE  LET P(t) == Percents(c, o, 0, t)
             grown == Growth(c, o, from, before).consumed
         IN /\ P(before) # {} /\ Highest(P(before)) \in Nat
            /\ c.start >= from => grown = Highest(P(before))
            /\ ~(c.start >= from) => /\ P(from) # {} /\ Highest(P(from)) \in Nat
                                     /\ grown = Highest(P(before)) - Highest(P(from))
<1> DEFINE U == Percents(c, o, 0, before)
           E == Percents(c, o, 0, from)
           D == Percents(c, o, from, before)
<1>1. Growth(c, o, from, before) =
        IF U = {} THEN [consumed |-> 0, complete |-> FALSE]
        ELSE IF c.start >= from THEN [consumed |-> Highest(U), complete |-> TRUE]
        ELSE IF E # {} THEN [consumed |-> Highest(U) - Highest(E), complete |-> TRUE]
        ELSE IF D = {} THEN [consumed |-> 0, complete |-> FALSE]
        ELSE [consumed |-> Highest({0, Highest(U) - FirstIn(c, o, from, before)}),
              complete |-> FALSE]
  BY DEF Growth
<1>2. U # {} => Highest(U) \in Nat
  BY HighestPercent
<1>3. E # {} => Highest(E) \in Nat
  BY HighestPercent
<1> HIDE DEF U, E, D
<1>4. /\ U # {}
      /\ c.start >= from => Growth(c, o, from, before).consumed = Highest(U)
      /\ ~(c.start >= from) =>
           E # {} /\ Growth(c, o, from, before).consumed = Highest(U) - Highest(E)
  BY <1>1
<1> QED BY <1>2, <1>3, <1>4 DEF U, E

\* What one cycle adds to two months is what it adds to their union.
LEMMA PartsAdd ==
  ASSUME NEW o \in Seq(Observations), NEW c \in CycleType, NEW now \in Nat,
         \A n \in DOMAIN o : o[n].observed <= now,
         NEW a \in Nat, NEW m \in Nat, NEW b \in Nat, a < m, m < b,
         Whole(c, o, a, m, now), Whole(c, o, m, b, now), Whole(c, o, a, b, now)
  PROVE  LET x == Part(c, o, a, m, now)
             y == Part(c, o, m, b, now)
             z == Part(c, o, a, b, now)
         IN x \in Int /\ y \in Int /\ z \in Int /\ x + y = z
<1> DEFINE s == c.start
           e == EndsFor(c, now)
           P(t) == Percents(c, o, 0, t)
<1>1. s \in Nat /\ c.ended \in Nat /\ c.reset \in Nat /\ c.seen \in Nat
  BY DEF CycleType
<1>2. End(c) \in Nat
  BY <1>1 DEF End
<1>3. e \in Nat
  BY <1>2 DEF EndsFor
<1>4. \A n \in DOMAIN o : o[n].observed \in Nat
  BY ReadingType
\* No reading of the cycle was made after it ended for the month.
<1>5. ASSUME NEW n \in DOMAIN o, o[n].observed < End(c) PROVE o[n].observed < e
  BY <1>2, <1>4, <1>5 DEF EndsFor
<1> HIDE DEF e
<1>6. CASE b <= s \/ e <= a
  <2>1. ~Meets(c, a, m, now) /\ ~Meets(c, m, b, now) /\ ~Meets(c, a, b, now)
    BY <1>1, <1>3, <1>6 DEF Meets, e
  <2> QED BY <2>1 DEF Part
<1>7. CASE s < b /\ a < e
  <2> DEFINE both == Growth(c, o, a, b).consumed
  <2>1. Meets(c, a, b, now) /\ Part(c, o, a, b, now) = both
    BY <1>3, <1>7 DEF Meets, e, Part
  <2>2. /\ P(b) # {} /\ Highest(P(b)) \in Nat
        /\ s >= a => both = Highest(P(b))
        /\ ~(s >= a) => P(a) # {} /\ Highest(P(a)) \in Nat /\ both = Highest(P(b)) - Highest(P(a))
    BY <2>1, GrowthComplete DEF Whole
  <2> HIDE DEF both
  <2>3. CASE m <= s
    <3>1. ~Meets(c, a, m, now) /\ s >= a
      BY <1>1, <2>3 DEF Meets
    <3>2. m < e
      <4> SUFFICES ASSUME e <= m PROVE FALSE
        BY <1>3
      <4>1. PICK n \in DOMAIN o : o[n].observed >= s /\ o[n].observed < End(c)
        BY <2>2 DEF Percents
      <4> QED BY <1>1, <1>3, <1>4, <1>5, <2>3, <4>1
    <3>3. Meets(c, m, b, now)
      BY <1>3, <1>7, <3>2 DEF Meets, e
    <3>4. Part(c, o, m, b, now) = Highest(P(b))
      <4>1. Growth(c, o, m, b).complete
        BY <3>3 DEF Whole
      <4>2. s >= m
        BY <1>1, <2>3
      <4>3. Growth(c, o, m, b).consumed = Highest(P(b))
        BY <4>1, <4>2, GrowthComplete
      <4> QED BY <3>3, <4>3 DEF Part
    <3>5. Part(c, o, a, m, now) = 0
      BY <3>1 DEF Part
    <3> QED BY <2>1, <2>2, <3>1, <3>4, <3>5
  <2>4. CASE s < m
    <3> DEFINE first == Growth(c, o, a, m).consumed
    <3>1. Meets(c, a, m, now) /\ Part(c, o, a, m, now) = first
      BY <1>3, <1>7, <2>4 DEF Meets, e, Part
    <3>2. /\ P(m) # {} /\ Highest(P(m)) \in Nat
          /\ s >= a => first = Highest(P(m))
          /\ ~(s >= a) => first = Highest(P(m)) - Highest(P(a))
      BY <3>1, GrowthComplete DEF Whole
    <3> HIDE DEF first
    <3>3. CASE m < e
      <4>1. Meets(c, m, b, now)
        BY <1>3, <1>7, <3>3 DEF Meets, e
      <4>2. Growth(c, o, m, b).complete /\ ~(s >= m)
        BY <1>1, <2>4, <4>1 DEF Whole
      <4>3. Growth(c, o, m, b).consumed = Highest(P(b)) - Highest(P(m))
        BY <4>2, GrowthComplete
      <4>4. Part(c, o, m, b, now) = Highest(P(b)) - Highest(P(m))
        BY <4>1, <4>3 DEF Part
      <4> HIDE DEF P
      <4> QED BY <1>1, <2>1, <2>2, <3>1, <3>2, <4>4
    <3>4. CASE e <= m
      <4>1. ~Meets(c, m, b, now)
        BY <1>3, <3>4 DEF Meets, e
      <4>2. Part(c, o, m, b, now) = 0
        BY <4>1 DEF Part
      <4>3. P(m) = P(b)
        <5>1. \A n \in DOMAIN o : o[n].observed < End(c) =>
                (o[n].observed < m) /\ (o[n].observed < b)
          BY <1>3, <1>4, <1>5, <3>4
        <5> QED BY <5>1 DEF Percents
      <4> HIDE DEF P
      <4> QED BY <1>1, <2>1, <2>2, <3>1, <3>2, <4>2, <4>3
    <3> QED BY <1>3, <3>3, <3>4
  <2> QED BY <1>1, <2>3, <2>4
<1> QED BY <1>1, <1>3, <1>6, <1>7

\* The cycles that were reset in a month.
ResetIn(cs, from, before, now) ==
  {k \in DOMAIN cs : /\ Meets(cs[k], from, before, now) /\ ~cs[k].current
                     /\ cs[k].ended >= from /\ cs[k].ended < before}

LEMMA MonthFacts ==
  ASSUME NEW cs, NEW o, NEW from, NEW before, NEW now
  PROVE  LET month == Month(cs, o, from, before, now) IN
         /\ month.consumed = SumFunction([k \in DOMAIN cs |-> Part(cs[k], o, from, before, now)])
         /\ month.complete <=> \A k \in DOMAIN cs : Whole(cs[k], o, from, before, now)
         /\ month.resets = Cardinality(ResetIn(cs, from, before, now))
<1> DEFINE shared == {k \in DOMAIN cs : Meets(cs[k], from, before, now)}
           growth == [k \in shared |-> Growth(cs[k], o, from, before)]
           parts == [k \in DOMAIN cs |-> IF k \in shared THEN growth[k].consumed ELSE 0]
           whole == \A k \in shared : growth[k].complete
           reset == {k \in shared : /\ ~cs[k].current
                                    /\ cs[k].ended >= from /\ cs[k].ended < before}
<1>1. Month(cs, o, from, before, now) =
        [consumed |-> SumFunction(parts), complete |-> whole, resets |-> Cardinality(reset)]
  BY DEF Month, Meets, EndsFor
<1>2. parts = [k \in DOMAIN cs |-> Part(cs[k], o, from, before, now)]
  BY DEF Part
<1>3. whole <=> \A k \in DOMAIN cs : Whole(cs[k], o, from, before, now)
  BY DEF Whole
<1>4. reset = ResetIn(cs, from, before, now)
  BY DEF ResetIn
<1> HIDE DEF parts, whole, reset
<1> QED BY <1>1, <1>2, <1>3, <1>4

\* What two months consumed.
LEMMA ConsumedAdds ==
  ASSUME NEW o \in Seq(Observations), NEW cs \in Seq(CycleType), NEW now \in Nat,
         \A n \in DOMAIN o : o[n].observed <= now,
         NEW a \in Nat, NEW m \in Nat, NEW b \in Nat, a < m, m < b,
         Month(cs, o, a, m, now).complete, Month(cs, o, m, b, now).complete,
         Month(cs, o, a, b, now).complete
  PROVE  Month(cs, o, a, m, now).consumed + Month(cs, o, m, b, now).consumed =
           Month(cs, o, a, b, now).consumed
<1> DEFINE S == DOMAIN cs
           f == [k \in S |-> Part(cs[k], o, a, m, now)]
           g == [k \in S |-> Part(cs[k], o, m, b, now)]
           h == [k \in S |-> Part(cs[k], o, a, b, now)]
<1>1. IsFiniteSet(S) /\ \A k \in S : cs[k] \in CycleType
  <2>1. S = 1..Len(cs) /\ Len(cs) \in Nat /\ \A k \in S : cs[k] \in CycleType
    BY LenProperties
  <2> HIDE DEF S
  <2>2. IsFiniteSet(1..Len(cs))
    BY <2>1, FS_Interval
  <2> QED BY ONLY <2>1, <2>2
<1>2. ASSUME NEW k \in S
      PROVE  f[k] \in Int /\ g[k] \in Int /\ h[k] \in Int /\ h[k] = f[k] + g[k]
  <2>1. /\ Whole(cs[k], o, a, m, now) /\ Whole(cs[k], o, m, b, now)
        /\ Whole(cs[k], o, a, b, now)
    BY MonthFacts
  <2> DEFINE x == Part(cs[k], o, a, m, now)
             y == Part(cs[k], o, m, b, now)
             z == Part(cs[k], o, a, b, now)
  <2>2. x \in Int /\ y \in Int /\ z \in Int /\ x + y = z
    BY <1>1, <2>1, PartsAdd
  <2>3. f[k] = x /\ g[k] = y /\ h[k] = z
    OBVIOUS
  <2> HIDE DEF x, y, z
  <2> QED BY <2>2, <2>3
<1>3. /\ Month(cs, o, a, m, now).consumed = SumFunction(f)
      /\ Month(cs, o, m, b, now).consumed = SumFunction(g)
      /\ Month(cs, o, a, b, now).consumed = SumFunction(h)
  BY MonthFacts
<1>4. f \in [S -> Int] /\ g \in [S -> Int] /\ h \in [S -> Int]
  <2>1. /\ f = [k \in S |-> f[k]] /\ g = [k \in S |-> g[k]] /\ h = [k \in S |-> h[k]]
    OBVIOUS
  <2> HIDE DEF f, g, h, S
  <2> QED BY <1>2, <2>1
<1> HIDE DEF f, g, h, S
<1>5. SumFunction(f) + SumFunction(g) = SumFunction(h)
  <2>1. \A k \in S : h[k] = f[k] + g[k]
    BY ONLY <1>2
  <2>2. Adding(S, f, g, h)
    BY ONLY <1>1, <1>4, <2>1 DEF Adding
  <2> QED BY ONLY <2>2, SumAdds
<1> QED BY <1>3, <1>5

\* And how many of the cycles were reset in them.
LEMMA ResetsAdd ==
  ASSUME NEW o, NEW cs \in Seq(CycleType), NEW now \in Nat,
         NEW a \in Nat, NEW m \in Nat, NEW b \in Nat, a < m, m < b,
         \A k \in DOMAIN cs : cs[k].ended # m /\ ~Collapsed(cs[k])
  PROVE  Month(cs, o, a, m, now).resets + Month(cs, o, m, b, now).resets =
           Month(cs, o, a, b, now).resets
<1> DEFINE R1 == ResetIn(cs, a, m, now)
           R2 == ResetIn(cs, m, b, now)
           R == ResetIn(cs, a, b, now)
<1>1. DOMAIN cs = 1..Len(cs) /\ Len(cs) \in Nat /\ \A k \in DOMAIN cs : cs[k] \in CycleType
  BY LenProperties
<1>2. IsFiniteSet(R1) /\ IsFiniteSet(R2)
  <2>1. IsFiniteSet(1..Len(cs))
    BY <1>1, FS_Interval
  <2>2. R1 \subseteq 1..Len(cs) /\ R2 \subseteq 1..Len(cs)
    BY <1>1 DEF ResetIn
  <2> QED BY ONLY <2>1, <2>2, FS_Subset
<1>3. ASSUME NEW k \in DOMAIN cs
      PROVE  /\ k \in R <=> k \in R1 \/ k \in R2
             /\ ~(k \in R1 /\ k \in R2)
  <2> DEFINE c == cs[k]
             e == EndsFor(c, now)
  <2>1. /\ c.start \in Nat /\ c.ended \in Nat /\ c.reset \in Nat /\ c.seen \in Nat
        /\ c.current \in BOOLEAN
    BY <1>1 DEF CycleType
  <2>2. e \in Nat
    BY <2>1 DEF EndsFor, End
  <2>3. ~c.current => c.start < c.ended /\ e = c.ended
    <3>1. ~Collapsed(c)
      OBVIOUS
    <3> QED BY <2>1, <3>1 DEF Collapsed, EndsFor, End
  <2>4. c.ended # m
    OBVIOUS
  <2> DEFINE In(from, before) ==
               /\ c.start < before /\ e > from /\ ~c.current
               /\ c.ended >= from /\ c.ended < before
  <2>5. /\ (k \in R1) <=> In(a, m)
        /\ (k \in R2) <=> In(m, b)
        /\ (k \in R) <=> In(a, b)
    BY DEF ResetIn, Meets
  <2> HIDE DEF R1, R2, R, c, e
  <2> QED BY <2>1, <2>2, <2>3, <2>4, <2>5
<1>4. R = R1 \cup R2 /\ R1 \cap R2 = {}
  <2>1. R \subseteq DOMAIN cs /\ R1 \subseteq DOMAIN cs /\ R2 \subseteq DOMAIN cs
    BY DEF ResetIn
  <2> HIDE DEF R, R1, R2
  <2> QED BY <1>3, <2>1
<1>5. /\ Month(cs, o, a, m, now).resets = Cardinality(R1)
      /\ Month(cs, o, m, b, now).resets = Cardinality(R2)
      /\ Month(cs, o, a, b, now).resets = Cardinality(R)
  BY MonthFacts
<1> HIDE DEF R, R1, R2
<1>6. Cardinality(R) = Cardinality(R1) + Cardinality(R2) - Cardinality({})
  BY <1>2, <1>4, FS_Union
<1>7. Cardinality({}) = 0 /\ Cardinality(R1) \in Nat /\ Cardinality(R2) \in Nat
  BY <1>2, FS_EmptySet, FS_CardinalityType
<1> QED BY <1>5, <1>6, <1>7

\* A cycle that lasts over the end of a month is neither lost nor counted twice.
THEOREM ScopedMonthsAddUp == Spec => []MonthsAddUp
<1>1. Typing => MonthsAddUp
  <2> DEFINE o == Readings(events)
             defined == Definitions(o)
  <2> SUFFICES ASSUME Typing, NEW now \in Now, NEW a \in Times, NEW m \in Times, NEW b \in Times,
                      a < m, m < b
               PROVE  LET cs == Advanced(defined, now)
                          first == Month(cs, o, a, m, now)
                          second == Month(cs, o, m, b, now)
                          both == Month(cs, o, a, b, now)
                      IN /\ first.complete /\ second.complete /\ both.complete =>
                              first.consumed + second.consumed = both.consumed
                         /\ (\A k \in DOMAIN cs : cs[k].ended # m /\ ~Collapsed(cs[k])) =>
                              first.resets + second.resets = both.resets
    BY DEF MonthsAddUp
  <2> DEFINE cs == Advanced(defined, now)
  <2>1. events \in Seq(Observations)
    BY DEF Typing
  <2>2. /\ o \in Seq(Observations)
        /\ \A n \in 1..Len(o) : \E i \in DOMAIN events : o[n] = events[i]
    BY <2>1, ReadingsFacts
  <2>3. now \in Nat /\ a \in Nat /\ m \in Nat /\ b \in Nat
    BY SeriesAssumption DEF Now
  <2>4. \A n \in DOMAIN o : o[n].observed <= now
    <3>1. DOMAIN o = 1..Len(o)
      BY <2>2
    <3> QED BY <2>2, <3>1 DEF Now
  <2> HIDE DEF o
  <2>5. cs \in Seq(CycleType)
    BY <2>2, <2>3, DefinitionsOrdered, AdvancedOrdered DEF Ordered
  <2> HIDE DEF cs
  <2>6. ASSUME Month(cs, o, a, m, now).complete, Month(cs, o, m, b, now).complete,
               Month(cs, o, a, b, now).complete
        PROVE  Month(cs, o, a, m, now).consumed + Month(cs, o, m, b, now).consumed =
                 Month(cs, o, a, b, now).consumed
    BY <2>2, <2>3, <2>4, <2>5, <2>6, ConsumedAdds
  <2>7. ASSUME \A k \in DOMAIN cs : cs[k].ended # m /\ ~Collapsed(cs[k])
        PROVE  Month(cs, o, a, m, now).resets + Month(cs, o, m, b, now).resets =
                 Month(cs, o, a, b, now).resets
    BY <2>3, <2>5, <2>7, ResetsAdd
  <2> QED BY <2>6, <2>7 DEF cs
<1> QED BY <1>1, TypingHolds, PTL

=============================================================================
