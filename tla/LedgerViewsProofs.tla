-------------------------- MODULE LedgerViewsProofs --------------------------
(***************************************************************************)
(* Proofs about what is derived from the ledger of cycles.  QuotaSegments: *)
(* whatever events an account has, segments that agree with them go on     *)
(* agreeing while events and the steps of a rebuild come between each      *)
(* other, and however often the process stopped in the middle of a         *)
(* rebuild, a start that rebuilds leaves the segments of exactly those     *)
(* events.  MonthlyReport: months add up.                                  *)
(***************************************************************************)
EXTENDS QuotaSegments, MonthlyReport, QuotaCyclesProofs

(***************************************************************************)
(* The keys of the events, and those that stand for them.                  *)
(***************************************************************************)
Key == [cycle : Nat, reset : Nat]

\* p stands for k.
Covers(p, k) == p.cycle = k.cycle /\ p.reset < k.reset /\ k.reset - p.reset <= Slack

\* A key is kept exactly when no kept one covers it.
Clusters(kept, K) == \A k \in K : k \in kept <=> ~\E p \in kept : Covers(p, k)

\* Keys can be clustered, from the least reset on: clusteredSegmentKeys is not stuck.
LEMMA ClusteringExists ==
  ASSUME NEW K, K \subseteq Key, NEW b \in Nat, \A k \in K : k.reset <= b
  PROVE  \E kept \in SUBSET K : Clusters(kept, K)
<1> DEFINE Under(n) == {k \in K : k.reset < n}
           Done(n) == \E kept \in SUBSET Under(n) : Clusters(kept, Under(n))
           Undone == {n \in Nat : ~Done(n)}
<1>0. \A k \in K : k.reset \in Nat
  BY DEF Key
<1>1. Undone = {}
  <2> SUFFICES ASSUME Undone # {} PROVE FALSE
    OBVIOUS
  <2>1. PICK m \in Undone : \A n \in Undone : m <= n
    <3>1. Undone \subseteq Nat
      OBVIOUS
    <3> HIDE DEF Undone
    <3> QED BY <3>1, LeastNatural
  <2>2. m # 0
    <3>1. Under(0) = {}
      BY <1>0
    <3>2. Clusters({}, {})
      BY DEF Clusters
    <3>3. Done(0)
      BY <3>1, <3>2
    <3> HIDE DEF Done
    <3> QED BY <2>1, <3>3
  <2>3. m - 1 \in Nat /\ m \in Nat
    BY <2>1, <2>2
  <2>4. Done(m - 1)
    <3> HIDE DEF Undone
    <3>1. m - 1 \notin Undone
      BY <2>1, <2>3
    <3> USE DEF Undone
    <3> HIDE DEF Done
    <3> QED BY <2>3, <3>1
  <2>5. PICK kept \in SUBSET Under(m - 1) : Clusters(kept, Under(m - 1))
    BY <2>4
  <2> DEFINE more == {k \in K : k.reset = m - 1 /\ ~\E p \in kept : Covers(p, k)}
  <2>6. ASSUME NEW k \in Under(m)
        PROVE  (k \in kept \cup more) <=> ~\E p \in kept \cup more : Covers(p, k)
    <3>1. /\ k \in K /\ k.reset \in Nat /\ k.reset <= m - 1
          /\ \A p \in kept : p \in K /\ p.reset \in Nat /\ p.reset < m - 1
          /\ \A p \in more : p.reset = m - 1
      BY <1>0, <2>3
    <3>2. (\E p \in kept \cup more : Covers(p, k)) <=> \E p \in kept : Covers(p, k)
      BY <2>3, <3>1 DEF Covers
    <3>3. CASE k.reset < m - 1
      <4>1. k \in Under(m - 1) /\ k \notin more
        BY <3>1, <3>3
      <4> QED BY <2>5, <3>2, <4>1 DEF Clusters
    <3>4. CASE k.reset = m - 1
      <4>1. k \notin kept
        BY <3>1, <3>4
      <4> QED BY <3>1, <3>2, <3>4, <4>1
    <3> QED BY <2>3, <3>1, <3>3, <3>4
  <2>7. kept \cup more \in SUBSET Under(m)
    BY <1>0, <2>3
  <2>8. Clusters(kept \cup more, Under(m))
    <3> HIDE DEF more
    <3> QED BY <2>6 DEF Clusters
  <2>9. Done(m)
    <3> HIDE DEF more, Under
    <3> QED BY <2>7, <2>8
  <2> HIDE DEF Done
  <2> QED BY <2>1, <2>9
<1>2. Done(b + 1)
  <2>1. b + 1 \in Nat
    OBVIOUS
  <2> HIDE DEF Done
  <2> QED BY <1>1, <2>1
<1>3. Under(b + 1) = K
  BY <1>0
<1> HIDE DEF Under
<1> QED BY <1>2, <1>3

\* The resets that the events of a sound database show have a last one.
LEMMA ResetsBounded ==
  ASSUME NEW d, Sound(d)
  PROVE  \E b \in Nat : \A i \in DOMAIN d.events : d.events[i].reset <= b
<1>1. Len(d.events) \in Nat /\ DOMAIN d.events = 1..Len(d.events)
  BY SoundFacts
<1>2. \A i \in DOMAIN d.events : d.events[i].reset \in Nat
  BY SoundFacts DEF Event
<1> DEFINE f == [i \in 1..Len(d.events) |-> d.events[i].reset]
<1>3. f \in [1..Len(d.events) -> Nat]
  BY <1>1, <1>2
<1>4. \E b \in Nat : \A i \in 1..Len(d.events) : f[i] <= b
  <2> HIDE DEF f
  <2> QED BY <1>1, <1>3, ListBounded
<1> QED BY <1>1, <1>4

\* The keys of the events, and the clusters of some of them.
LEMMA KeysFacts ==
  ASSUME NEW d, Sound(d)
  PROVE  Keys(d) \subseteq Key /\ Clustered(Keys(d)) \subseteq Keys(d)
<1>1. Keys(d) \subseteq Key
  <2>1. \A i \in DOMAIN d.events : d.events[i] \in Event
    BY SoundFacts
  <2>2. \A i \in DOMAIN d.events : d.events[i].cycle \in Nat /\ d.events[i].reset \in Nat
    BY <2>1 DEF Event
  <2> QED BY <2>2 DEF Keys, KeyOf, Key
<1>2. PICK b \in Nat : \A i \in DOMAIN d.events : d.events[i].reset <= b
  BY ResetsBounded
<1>3. \A k \in Keys(d) : k.reset <= b
  BY <1>2 DEF Keys, KeyOf
<1> DEFINE K == Keys(d)
<1> HIDE DEF K
<1>4. \E kept \in SUBSET K : Clusters(kept, K)
  BY <1>1, <1>3, ClusteringExists DEF K
<1>5. Clustered(K) = CHOOSE kept \in SUBSET K : Clusters(kept, K)
  BY DEF Clustered, Clusters, Covers
<1>6. Clustered(K) \in SUBSET K
  BY <1>4, <1>5
<1> QED BY <1>1, <1>6 DEF K

\* Of some keys there is a first one to write.
LEMMA FirstKeyFacts ==
  ASSUME NEW K, K \subseteq Key, K # {}
  PROVE  FirstKey(K) \in K
<1>1. \A k \in K : k.cycle \in Nat /\ k.reset \in Nat
  BY DEF Key
<1>2. PICK c \in {k.cycle : k \in K} : \A x \in {k.cycle : k \in K} : c <= x
  <2>1. {k.cycle : k \in K} \subseteq Nat /\ {k.cycle : k \in K} # {}
    BY <1>1
  <2> QED BY <2>1, LeastNatural
<1> DEFINE R == {k.reset : k \in {k \in K : k.cycle = c}}
<1>3. PICK r \in R : \A x \in R : r <= x
  <2>1. R \subseteq Nat /\ R # {}
    BY <1>1, <1>2
  <2> HIDE DEF R
  <2> QED BY <2>1, LeastNatural
<1>4. PICK k \in K : k.cycle = c /\ k.reset = r
  BY <1>3
<1>5. ASSUME NEW q \in K \ {k}
      PROVE  k.cycle < q.cycle \/ (k.cycle = q.cycle /\ k.reset < q.reset)
  <2>1. c <= q.cycle /\ q.cycle \in Nat /\ c \in Nat /\ q.reset \in Nat /\ r \in Nat
    BY <1>1, <1>2, <1>4
  <2>2. q.cycle = c => r <= q.reset
    BY <1>3
  <2>3. q.cycle = c => q.reset # r
    <3> SUFFICES ASSUME q.cycle = c, q.reset = r PROVE FALSE
      OBVIOUS
    <3>1. k = [cycle |-> k.cycle, reset |-> k.reset] /\ q = [cycle |-> q.cycle, reset |-> q.reset]
      BY DEF Key
    <3> QED BY <1>4, <3>1
  <2> QED BY <1>4, <2>1, <2>2, <2>3
<1> QED BY <1>5 DEF FirstKey

(***************************************************************************)
(* The rebuild of a start.                                                 *)
(***************************************************************************)
\* What the events imply for key k.
Implied(k) == Entry(Prepared(db, k))

\* Where the rebuild of a start is: no event is recorded meanwhile, so what it has
\* written agrees with the events, and what it has still to remove is nobody's.
Rebuilding ==
  LET K == Clustered(Keys(db)) IN
  /\ todo \subseteq K
  /\ job \in {"read_stale", "clear"} => todo = K
  /\ job = "clear" => stale = DOMAIN table \ K
  /\ job \in {"prepare", "write"} =>
       /\ stale \cap K = {} /\ DOMAIN table \subseteq K \cup stale
       /\ \A k \in K \ todo : k \in DOMAIN table /\ table[k] = Implied(k)
  /\ job = "write" => todo # {} /\ prepared = Prepared(db, FirstKey(todo))

OpeningInv == store = "opening" => Rebuilding

\* The events and cycles of a database with segments are those of a database.
LEMMA LedgerInv == SegSpec => []IInv
<1>1. SegInit => IInv
  BY InitInv DEF SegInit
<1>2. IInv /\ [SegNext]_segVars => IInv'
  <2> SUFFICES ASSUME IInv, [SegNext]_segVars PROVE IInv'
    OBVIOUS
  <2>1. [Next]_vars
    BY DEF SegNext, segVars, Insert, DailyRebuild, Open, ReadStale, ClearMarker, Prepare,
           Write, RemoveStale, SetMarker, Abort, Stop
  <2> QED BY <2>1, StepInv
<1> QED BY <1>1, <1>2, PTL DEF SegSpec

\* The keys and what they hold depend on the database only.
LEMMA SameImplied ==
  ASSUME UNCHANGED vars
  PROVE  /\ Clustered(Keys(db))' = Clustered(Keys(db))
         /\ \A k : Prepared(db, k)' = Prepared(db, k)
<1>1. db' = db
  BY DEF vars, db
<1> QED BY <1>1

\* The steps of a rebuild, the others being no part of it: a start that rebuilds is not
\* interleaved with insertions.
LEMMA OpeningStep ==
  ASSUME IInv, OpeningInv, [SegNext]_segVars
  PROVE  OpeningInv'
<1> DEFINE K == Clustered(Keys(db))
<1>1. K \subseteq Key
  BY InvSound, KeysFacts
<1> SUFFICES ASSUME store' = "opening" PROVE Rebuilding'
  BY DEF OpeningInv
<1>2. ASSUME UNCHANGED vars
      PROVE  K' = K /\ \A k : Implied(k)' = Implied(k) /\ Prepared(db, k)' = Prepared(db, k)
  BY <1>2, SameImplied DEF Implied
<1> HIDE DEF K
<1>3. CASE Open
  <2>1. UNCHANGED vars /\ job' = "read_stale" /\ todo' = K
    BY <1>3 DEF Open, ReadKeys, K
  <2>2. K' = K
    BY <1>2, <2>1
  <2> QED BY <2>1, <2>2 DEF Rebuilding, K
<1>4. ASSUME ~Open, UNCHANGED segVars \/ SegNext PROVE store = "opening"
  BY <1>4 DEF SegNext, segVars, derived, Insert, DailyRebuild, ReadStale, ClearMarker, Prepare,
              Write, RemoveStale, SetMarker, Abort, Stop
<1>5. CASE ~Open
  <2>1. store = "opening" /\ Rebuilding
    BY <1>4, <1>5 DEF OpeningInv
  <2>2. /\ todo \subseteq K
        /\ job \in {"read_stale", "clear"} => todo = K
        /\ job = "clear" => stale = DOMAIN table \ K
        /\ job \in {"prepare", "write"} =>
             /\ stale \cap K = {} /\ DOMAIN table \subseteq K \cup stale
             /\ \A k \in K \ todo : k \in DOMAIN table /\ table[k] = Implied(k)
        /\ job = "write" => todo # {} /\ prepared = Prepared(db, FirstKey(todo))
    BY <2>1 DEF Rebuilding, K
  <2>3. SUFFICES ASSUME UNCHANGED vars
                 PROVE  /\ todo' \subseteq K
                        /\ job' \in {"read_stale", "clear"} => todo' = K
                        /\ job' = "clear" => stale' = DOMAIN table' \ K
                        /\ job' \in {"prepare", "write"} =>
                             /\ stale' \cap K = {} /\ DOMAIN table' \subseteq K \cup stale'
                             /\ \A k \in K \ todo' : k \in DOMAIN table' /\ table'[k] = Implied(k)
                        /\ job' = "write" => todo' # {} /\ prepared' = Prepared(db, FirstKey(todo'))
    <3>1. UNCHANGED vars
      BY <2>1 DEF SegNext, segVars, Insert, DailyRebuild, Open, ReadStale, ClearMarker, Prepare,
                  Write, RemoveStale, SetMarker, Abort, Stop
    <3>2. K' = K /\ \A k : Implied(k)' = Implied(k) /\ Prepared(db, k)' = Prepared(db, k)
      BY <1>2, <3>1
    <3> QED BY <3>1, <3>2 DEF Rebuilding, K
  <2>4. CASE UNCHANGED segVars
    BY <2>2, <2>4 DEF segVars, derived
  <2>5. CASE Insert \/ DailyRebuild \/ SetMarker \/ Abort \/ Stop
    BY <2>1, <2>5 DEF Insert, DailyRebuild, SetMarker, Abort, Stop
  <2>6. CASE ReadStale
    BY <2>2, <2>6 DEF ReadStale
  <2>7. CASE ClearMarker
    BY <2>2, <2>7 DEF ClearMarker
  <2>8. CASE Prepare
    BY <2>2, <2>8 DEF Prepare
  <2>9. CASE Write
    <3> DEFINE k == FirstKey(todo)
    <3>1. /\ job = "write" /\ job' = "prepare" /\ stale' = stale /\ todo' = todo \ {k}
          /\ table' = IF LatestId(db, k) = prepared.max THEN Written(k, prepared) ELSE table
      BY <2>9 DEF Write
    <3>2. k \in K /\ prepared = Prepared(db, k)
      BY <1>1, <2>2, <3>1, FirstKeyFacts
    <3>3. prepared.max = LatestId(db, k)
      BY <3>2 DEF Prepared
    <3> HIDE DEF k
    <3>4. /\ DOMAIN table' = DOMAIN table \cup {k} /\ table'[k] = Implied(k)
          /\ \A q \in DOMAIN table \ {k} : table'[q] = table[q]
      BY <3>1, <3>2, <3>3 DEF Written, Implied
    <3> QED BY <2>2, <3>1, <3>2, <3>4
  <2>10. CASE RemoveStale
    <3>1. PICK k \in stale : table' = Removed(k) /\ stale' = stale \ {k}
      BY <2>10 DEF RemoveStale
    <3>2. job = "prepare" /\ job' = job /\ todo' = todo /\ k \notin K
      BY <2>2, <2>10 DEF RemoveStale
    <3>3. DOMAIN table' = DOMAIN table \ {k} /\ \A q \in DOMAIN table \ {k} : table'[q] = table[q]
      BY <3>1 DEF Removed
    <3> QED BY <2>2, <3>1, <3>2, <3>3
  <2> QED BY <1>5, <2>4, <2>5, <2>6, <2>7, <2>8, <2>9, <2>10 DEF SegNext
<1> QED BY <1>3, <1>5

\* A start that finds a rebuild unfinished, by whatever interruption, serves exactly the
\* segments that the events imply for exactly the keys they have (openStore,
\* rebuildAllQuotaSegments): the keys are all written, and no other is left.
THEOREM StartLeavesImplied == SegSpec => OpenedAgrees
<1> DEFINE Step == store = "opening" /\ store' = "open" =>
      /\ DOMAIN table = Clustered(Keys(db))
      /\ \A k \in DOMAIN table : table[k] = Entry(Prepared(db, k))
<1>1. SegInit => OpeningInv
  BY DEF SegInit, OpeningInv
<1>2. IInv /\ OpeningInv /\ [SegNext]_segVars => OpeningInv'
  BY OpeningStep
<1>3. OpeningInv /\ [SegNext]_segVars => [Step]_segVars
  <2> SUFFICES ASSUME OpeningInv, SegNext, store = "opening", store' = "open"
               PROVE  /\ DOMAIN table = Clustered(Keys(db))
                      /\ \A k \in DOMAIN table : table[k] = Entry(Prepared(db, k))
    OBVIOUS
  <2>1. SetMarker
    BY DEF SegNext, Insert, DailyRebuild, Open, ReadStale, ClearMarker, Prepare,
           Write, RemoveStale, Abort, Stop
  <2> QED BY <2>1 DEF SetMarker, OpeningInv, Rebuilding, Implied
<1> QED BY <1>1, <1>2, <1>3, LedgerInv, PTL DEF SegSpec, OpenedAgrees

(***************************************************************************)
(* What an insertion changes in the segments of a key.                     *)
(***************************************************************************)
Point ==
  [id : Nat, observed : Nat, used : 0..Full, reset : Nat, told : BOOLEAN, failed : BOOLEAN]

PointOf(d, i) ==
  [id |-> i, observed |-> d.events[i].observed, used |-> d.events[i].used,
   reset |-> d.events[i].reset, told |-> d.events[i].quota, failed |-> d.events[i].failed]

At(d, k) == [i \in Source(d, k) |-> d.events[i].observed]

\* The events of a key are listed in the order of time.
LEMMA LoadedFacts ==
  ASSUME NEW d, Sound(d), NEW k
  PROVE  /\ Observed(At(d, k)) /\ DOMAIN At(d, k) = Source(d, k)
         /\ DOMAIN Loaded(d, k) = DOMAIN InOrder(At(d, k))
         /\ \A p \in DOMAIN Loaded(d, k) : /\ InOrder(At(d, k))[p] \in Source(d, k)
                                           /\ Loaded(d, k)[p] = PointOf(d, InOrder(At(d, k))[p])
         /\ \E n \in Nat : Loaded(d, k) \in [1..n -> Point]
<1> DEFINE at == At(d, k)
           ids == InOrder(at)
<1>1. /\ Len(d.events) \in Nat /\ DOMAIN d.events = 1..Len(d.events)
      /\ \A i \in DOMAIN d.events : d.events[i] \in Event
  BY SoundFacts
<1>2. ASSUME NEW i \in Source(d, k)
      PROVE  i \in Nat /\ d.events[i].observed \in Nat /\ PointOf(d, i) \in Point
  BY <1>1 DEF Source, Event, PointOf, Point
<1>3. IsFiniteSet(Source(d, k))
  <2>1. IsFiniteSet(1..Len(d.events))
    BY <1>1, FS_Interval
  <2>2. Source(d, k) \subseteq 1..Len(d.events)
    BY <1>1 DEF Source
  <2> QED BY <2>1, <2>2, FS_Subset
<1>4. DOMAIN at = Source(d, k) /\ Observed(at)
  BY <1>2, <1>3 DEF At, Observed
<1>5. Loaded(d, k) = [p \in DOMAIN ids |-> PointOf(d, ids[p])]
  BY DEF Loaded, PointOf, At
<1>6. Cardinality(DOMAIN at) \in Nat /\ ids \in [1..Cardinality(DOMAIN at) -> DOMAIN at]
  BY <1>4, InOrderFacts
<1> HIDE DEF at, ids
<1>7. \A p \in DOMAIN ids : ids[p] \in Source(d, k)
  BY <1>4, <1>6
<1>8. Loaded(d, k) \in [1..Cardinality(DOMAIN at) -> Point]
  BY <1>2, <1>5, <1>6, <1>7
<1> QED BY <1>4, <1>5, <1>6, <1>7, <1>8 DEF at, ids

\* e holds the requests of d in the same cycles, and one more.
OneMore(d, e, x) ==
  /\ Sound(d) /\ Sound(e)
  /\ DOMAIN e.events = DOMAIN d.events \cup {x} /\ x \notin DOMAIN d.events
  /\ \A i \in DOMAIN d.events :
       /\ i < x /\ Shows(e.events[i], d.events[i])
       /\ e.events[i].cycle = d.events[i].cycle

\* Of a key that the new event is not of, nothing changes.
LEMMA OthersKept ==
  ASSUME NEW d, NEW e, NEW x, OneMore(d, e, x), NEW k, ~InSource(k, e.events[x])
  PROVE  Loaded(e, k) = Loaded(d, k) /\ LatestId(e, k) = LatestId(d, k)
         /\ Prepared(e, k) = Prepared(d, k)
<1>1. \A i \in DOMAIN d.events : InSource(k, e.events[i]) <=> InSource(k, d.events[i])
  BY DEF OneMore, Shows, InSource
<1>2. Source(e, k) = Source(d, k)
  BY <1>1 DEF Source, OneMore
<1>3. \A i \in Source(d, k) : PointOf(e, i) = PointOf(d, i)
  BY DEF Source, OneMore, Shows, PointOf
<1>4. At(e, k) = At(d, k)
  BY <1>2 DEF At, Source, OneMore, Shows
<1>5. Loaded(e, k) = Loaded(d, k)
  <2>1. Loaded(d, k) = [p \in DOMAIN InOrder(At(d, k)) |-> PointOf(d, InOrder(At(d, k))[p])]
    BY DEF Loaded, PointOf, At
  <2>2. Loaded(e, k) = [p \in DOMAIN InOrder(At(e, k)) |-> PointOf(e, InOrder(At(e, k))[p])]
    BY DEF Loaded, PointOf, At
  <2>3. \A p \in DOMAIN InOrder(At(d, k)) : InOrder(At(d, k))[p] \in Source(d, k)
    BY LoadedFacts DEF OneMore
  <2> QED BY <1>3, <1>4, <2>1, <2>2, <2>3
<1>6. LatestId(e, k) = LatestId(d, k)
  BY <1>2 DEF LatestId
<1> QED BY <1>5, <1>6 DEF Prepared

\* Of a key that it is of, it takes a place in the list: before it are those observed
\* no later.
LEMMA NewPlace ==
  ASSUME NEW d, NEW e, NEW x, OneMore(d, e, x), NEW k, InSource(k, e.events[x])
  PROVE  \E m \in Nat :
           /\ PutIn(Loaded(d, k), Loaded(e, k), PointOf(e, x), m)
           /\ \A p \in DOMAIN Loaded(d, k) :
                p < m <=> Loaded(d, k)[p].observed <= PointOf(e, x).observed
<1> DEFINE at == At(d, k)
           more == At(e, k)
           s == InOrder(at)
           t == InOrder(more)
<1>1. \A i \in DOMAIN d.events : InSource(k, e.events[i]) <=> InSource(k, d.events[i])
  BY DEF OneMore, Shows, InSource
<1>2. Source(e, k) = Source(d, k) \cup {x} /\ Source(d, k) \subseteq DOMAIN d.events
  BY <1>1 DEF Source, OneMore
<1>3. \A i \in Source(d, k) : i < x /\ PointOf(e, i) = PointOf(d, i)
  BY DEF Source, OneMore, Shows, PointOf
<1>4. \A i \in Source(d, k) : more[i] = at[i] /\ at[i] = PointOf(d, i).observed
  BY <1>2, <1>3 DEF At, PointOf
<1>5. more[x] = PointOf(e, x).observed
  BY <1>2 DEF At, PointOf
<1>6. /\ Observed(at) /\ DOMAIN at = Source(d, k)
      /\ Observed(more) /\ DOMAIN more = Source(e, k)
  BY LoadedFacts DEF OneMore
<1> HIDE DEF at, more
<1>7. PICK m \in Nat : /\ PutIn(s, t, x, m)
                       /\ \A p \in DOMAIN s : p < m <=> at[s[p]] <= more[x]
  <2>1. DOMAIN more = DOMAIN at \cup {x} /\ \A i \in DOMAIN at : i < x /\ more[i] = at[i]
    BY <1>2, <1>3, <1>4, <1>6
  <2> QED BY <1>6, <2>1, InOrderInserted
<1> DEFINE l == Loaded(d, k)
           g == Loaded(e, k)
<1>8. /\ DOMAIN l = DOMAIN s
      /\ \A p \in DOMAIN s : s[p] \in Source(d, k) /\ l[p] = PointOf(d, s[p])
      /\ DOMAIN g = DOMAIN t
      /\ \A p \in DOMAIN t : g[p] = PointOf(e, t[p])
  BY LoadedFacts DEF OneMore, at, more
<1> HIDE DEF s, t, l, g
<1>9. PutIn(l, g, PointOf(e, x), m)
  <2>1. PICK n \in Nat : DOMAIN s = 1..n /\ DOMAIN t = 1..(n + 1) /\ m \in 1..(n + 1)
    BY <1>7 DEF PutIn
  <2>2. t[m] = x /\ \A p \in DOMAIN t : (p < m => t[p] = s[p]) /\ (p > m => t[p] = s[p - 1])
    BY <1>7 DEF PutIn
  <2>3. ASSUME NEW p \in DOMAIN t, p < m PROVE g[p] = l[p]
    <3>1. p \in DOMAIN s
      BY <2>1, <2>3
    <3> QED BY <1>3, <1>8, <2>2, <2>3, <3>1
  <2>4. ASSUME NEW p \in DOMAIN t, p > m PROVE g[p] = l[p - 1]
    <3>1. p - 1 \in DOMAIN s
      BY <2>1, <2>4
    <3> QED BY <1>3, <1>8, <2>2, <2>4, <3>1
  <2>5. g[m] = PointOf(e, x)
    BY <1>8, <2>1, <2>2
  <2> QED BY <1>8, <2>1, <2>3, <2>4, <2>5 DEF PutIn
<1>10. \A p \in DOMAIN l : p < m <=> l[p].observed <= PointOf(e, x).observed
  BY <1>4, <1>5, <1>7, <1>8
<1> QED BY <1>9, <1>10 DEF l, g

LEMMA PercentIsNat == \A u \in 0..Full : u \in Nat
BY DEF Full

\* The greatest of some percents, if there are any.
LEMMA GreatestFacts ==
  ASSUME NEW U, U \subseteq 0..Full
  PROVE  /\ Greatest(U, -1) \in U \cup {-1}
         /\ \A u \in U : u <= Greatest(U, -1)
         /\ Greatest(U, -1) = -1 => U = {}
<1> DEFINE G == U \cup {-1}
<1>1. \E n \in G : \A u \in G : u <= n
  <2>1. CASE U = {}
    BY <2>1
  <2>2. CASE U # {}
    <3>1. U \subseteq Nat /\ Bounded(U)
      <4>1. 100 \in Nat /\ \A u \in U : u \in Nat /\ u <= 100
        BY DEF Full
      <4> QED BY <4>1 DEF Bounded
    <3>2. PICK n \in U : \A u \in U : u <= n
      BY <2>2, <3>1, GreatestNatural
    <3>3. n \in Nat /\ -1 <= n
      BY <3>1
    <3> QED BY <3>2, <3>3
  <2> QED BY <2>1, <2>2
<1>2. Greatest(U, -1) = CHOOSE n \in G : \A u \in G : u <= n
  BY DEF Greatest
<1> HIDE DEF G
<1>3. Greatest(U, -1) \in G /\ \A u \in G : u <= Greatest(U, -1)
  BY <1>1, <1>2
<1> QED BY <1>3 DEF G, Full

\* It is the same for more of them that are no greater.
LEMMA GreatestSame ==
  ASSUME NEW U, NEW V, U \subseteq V, V \subseteq 0..Full, \A v \in V : \E u \in U : v <= u
  PROVE  Greatest(V, -1) = Greatest(U, -1)
<1>1. /\ Greatest(U, -1) \in U \cup {-1}
      /\ \A u \in U : u <= Greatest(U, -1)
      /\ Greatest(U, -1) = -1 => U = {}
  BY GreatestFacts
<1>2. /\ Greatest(V, -1) \in V \cup {-1}
      /\ \A v \in V : v <= Greatest(V, -1)
      /\ Greatest(V, -1) = -1 => V = {}
  BY GreatestFacts
<1> DEFINE g == Greatest(U, -1)
           h == Greatest(V, -1)
<1>3. /\ g \in Int /\ h \in Int /\ \A v \in V : v \in Nat
      /\ g = -1 \/ g \in U
      /\ h = -1 \/ h \in V
  <2>1. \A v \in V : v \in Nat
    BY PercentIsNat
  <2>2. (g = -1 \/ g \in U) /\ (h = -1 \/ h \in V)
    BY <1>1, <1>2
  <2>3. \A u \in U : u \in Nat
    BY <2>1
  <2> HIDE DEF g, h
  <2>4. -1 \in Int
    OBVIOUS
  <2>5. g \in Int
    BY ONLY <2>2, <2>3, <2>4
  <2>6. h \in Int
    BY ONLY <2>1, <2>2, <2>4
  <2> QED BY ONLY <2>1, <2>2, <2>5, <2>6
<1> HIDE DEF g, h
<1>4. ASSUME h \in V PROVE h <= g
  <2>1. PICK u \in U : h <= u
    BY <1>4
  <2>2. u <= g /\ u \in Int
    BY <1>1, <1>3 DEF g
  <2> QED BY <1>3, <2>1, <2>2
<1>5. ASSUME g \in U PROVE g <= h
  <2>1. g \in V
    BY <1>5
  <2> QED BY <1>2, <2>1 DEF h
<1>6. ASSUME h = -1 PROVE g = -1
  <2>1. U = {}
    BY <1>2, <1>6 DEF h
  <2> QED BY <1>3, <2>1
<1>7. ASSUME g = -1 PROVE h = -1
  <2>1. U = {}
    BY <1>1, <1>7 DEF g
  <2> QED BY <1>3, <2>1
<1>8. h = g
  BY <1>3, <1>4, <1>5, <1>6, <1>7
<1> QED BY <1>8 DEF g, h

Usages(s) == {s[p].used : p \in {p \in DOMAIN s : Readable(s[p])}}

\* Two successive crossings, and the row between them.
Adjacent(X, c) == c[1] < c[2] /\ ~\E x \in X : c[1] < x /\ x < c[2]

RowOf(s, a, b, lag) ==
  [lag |-> lag, start |-> s[a].id, end |-> s[b].id, dp |-> s[b].used - s[a].used,
   features |-> {s[p].id : p \in Features(s, a, b, lag)}, flags |-> Flags(s, a, b, lag)]

SamePrefix(s, t, b) == \A p \in 1..b : t[p] = s[p]

\* A row is made of the events up to its second crossing.
LEMMA RowOfPrefix ==
  ASSUME NEW n \in Nat, NEW s, NEW t, NEW a \in 1..n, NEW b \in 1..n, a < b,
         NEW lag \in Lags, SamePrefix(s, t, b)
  PROVE  RowOf(t, a, b, lag) = RowOf(s, a, b, lag)
<1>0. \A p \in 1..b : t[p] = s[p]
  BY DEF SamePrefix
<1>1. Features(t, a, b, lag) = Features(s, a, b, lag) /\ Features(s, a, b, lag) \subseteq 1..b
  BY DEF Features, Lags
<1>2. {t[p].id : p \in Features(t, a, b, lag)} = {s[p].id : p \in Features(s, a, b, lag)}
  BY <1>0, <1>1
<1>3. Flags(t, a, b, lag) = Flags(s, a, b, lag)
  <2>1. (\E p \in (a + 1)..(b - 1) : Readable(t[p]) /\ t[p].used + 1 < t[a].used)
        <=> (\E p \in (a + 1)..(b - 1) : Readable(s[p]) /\ s[p].used + 1 < s[a].used)
    <3>1. t[a] = s[a] /\ \A p \in (a + 1)..(b - 1) : t[p] = s[p]
      BY <1>0
    <3> QED BY <3>1
  <2>2. (\E p \in (a + 1)..b : t[p].observed - t[p - 1].observed > Gap)
        <=> (\E p \in (a + 1)..b : s[p].observed - s[p - 1].observed > Gap)
    <3>1. \A p \in (a + 1)..b : t[p] = s[p] /\ t[p - 1] = s[p - 1]
      BY <1>0
    <3> QED BY <3>1
  <2>3. /\ (\E p \in Features(t, a, b, lag) : t[p].failed)
           <=> (\E p \in Features(s, a, b, lag) : s[p].failed)
        /\ (\E p \in Features(t, a, b, lag) : Distance(t[p].reset, t[a].reset) > Slack)
           <=> (\E p \in Features(s, a, b, lag) : Distance(s[p].reset, s[a].reset) > Slack)
    <3>1. t[a] = s[a] /\ \A p \in Features(s, a, b, lag) : t[p] = s[p]
      BY <1>0, <1>1
    <3> QED BY <1>1, <3>1
  <2> QED BY <2>1, <2>2, <2>3 DEF Flags
<1>4. t[a] = s[a] /\ t[b] = s[b]
  BY <1>0
<1> QED BY <1>2, <1>3, <1>4 DEF RowOf

\* An event after the last crossing that shows no more than one of them leaves every
\* segment and the peak: it and those after it are no crossings.
LEMMA SegmentsKept ==
  ASSUME NEW n \in Nat, NEW s \in [1..n -> Point], NEW t \in [1..(n + 1) -> Point],
         NEW x, NEW m \in Nat, PutIn(s, t, x, m),
         \A c \in Crossings(s) : c < m,
         Readable(x) => \E c \in Crossings(s) : x.used <= s[c].used
  PROVE  /\ Crossings(t) = Crossings(s) /\ \A c \in Crossings(s) : t[c] = s[c]
         /\ \A lag \in Lags : Built(t, lag) = Built(s, lag)
         /\ Greatest(Usages(t), -1) = Greatest(Usages(s), -1)
<1>1. /\ DOMAIN s = 1..n /\ DOMAIN t = 1..(n + 1) /\ m \in 1..(n + 1) /\ t[m] = x
      /\ \A p \in 1..(n + 1) : (p < m => t[p] = s[p]) /\ (p > m => t[p] = s[p - 1])
  <2>1. m \in 1..(n + 1)
    BY DEF PutIn
  <2> QED BY <2>1 DEF PutIn
<1>2. \A p \in 1..n : s[p].used \in Nat /\ s[p].used \in 0..Full
  <2>1. \A p \in 1..n : s[p] \in Point
    OBVIOUS
  <2>2. \A p \in 1..n : s[p].used \in 0..Full
    BY <2>1 DEF Point
  <2> QED BY <2>2, PercentIsNat
<1>3. \A p \in 1..(n + 1) : t[p].used \in Nat /\ t[p].used \in 0..Full
  <2>1. \A p \in 1..(n + 1) : t[p] \in Point
    OBVIOUS
  <2>2. \A p \in 1..(n + 1) : t[p].used \in 0..Full
    BY <2>1 DEF Point
  <2> QED BY <2>2, PercentIsNat
<1>4. ASSUME NEW p \in 1..(n + 1), p < m PROVE p \in Crossings(t) <=> p \in Crossings(s)
  <2>1. p \in 1..n /\ t[p] = s[p] /\ \A q \in 1..(p - 1) : t[q] = s[q]
    BY <1>1, <1>4
  <2> QED BY <1>1, <2>1 DEF Crossings
<1>5. m \notin Crossings(t)
  <2> SUFFICES ASSUME m \in Crossings(t) PROVE FALSE
    OBVIOUS
  <2>1. Readable(x) /\ \A q \in 1..(m - 1) : Readable(t[q]) => t[q].used < x.used
    BY <1>1 DEF Crossings
  <2>2. PICK c \in Crossings(s) : x.used <= s[c].used
    BY <2>1
  <2>3. c \in 1..n /\ Readable(s[c]) /\ c < m
    BY <1>1 DEF Crossings
  <2>4. c \in 1..(m - 1) /\ t[c] = s[c]
    BY <1>1, <2>3
  <2>5. s[c].used < x.used /\ x.used \in Nat /\ s[c].used \in Nat
    BY <1>1, <1>2, <1>3, <2>1, <2>3, <2>4
  <2> QED BY <2>2, <2>5
<1>6. ASSUME NEW p \in 1..(n + 1), p > m PROVE p \notin Crossings(t)
  <2> SUFFICES ASSUME p \in Crossings(t) PROVE FALSE
    OBVIOUS
  <2>1. t[p] = s[p - 1] /\ p - 1 \in 1..n /\ ~(p - 1 < m)
    BY <1>1, <1>6
  <2>2. Readable(s[p - 1]) /\ \A q \in 1..(p - 1) : Readable(t[q]) => t[q].used < s[p - 1].used
    BY <2>1 DEF Crossings
  <2>3. PICK q \in 1..((p - 1) - 1) : Readable(s[q]) /\ ~(s[q].used < s[p - 1].used)
    BY <1>1, <2>1, <2>2 DEF Crossings
  <2>4. CASE q < m
    <3>1. t[q] = s[q] /\ q \in 1..(p - 1)
      BY <1>1, <2>3, <2>4
    <3> QED BY <2>2, <2>3, <3>1
  <2>5. CASE ~(q < m)
    <3>1. q + 1 \in 1..(n + 1) /\ q + 1 > m /\ q + 1 \in 1..(p - 1) /\ (q + 1) - 1 = q
      BY <1>1, <2>3, <2>5
    <3>2. t[q + 1] = s[q]
      BY <1>1, <3>1
    <3> QED BY <2>2, <2>3, <3>1, <3>2
  <2> QED BY <2>4, <2>5
<1>7. Crossings(t) = Crossings(s)
  <2>1. Crossings(t) \subseteq 1..(n + 1) /\ Crossings(s) \subseteq 1..n
    BY <1>1 DEF Crossings
  <2>2. ASSUME NEW p \in 1..(n + 1) PROVE p \in Crossings(t) <=> p \in Crossings(s)
    <3>1. CASE p < m
      BY <1>4, <3>1
    <3>2. CASE ~(p < m)
      <4>1. p = m \/ p > m
        BY <1>1, <3>2
      <4>2. p \notin Crossings(s)
        <5>1. \A c \in Crossings(s) : c < m
          OBVIOUS
        <5> QED BY <3>2, <5>1
      <4> QED BY <1>5, <1>6, <4>1, <4>2
    <3> QED BY <3>1, <3>2
  <2>3. Crossings(s) \subseteq 1..(n + 1)
    BY <2>1
  <2> HIDE DEF Crossings
  <2> QED BY ONLY <2>1, <2>2, <2>3
<1>8. \A c \in Crossings(s) : c \in 1..n /\ c < m /\ \A p \in 1..c : t[p] = s[p]
  BY <1>1 DEF Crossings
<1>9. ASSUME NEW lag \in Lags PROVE Built(t, lag) = Built(s, lag)
  <2> DEFINE X == Crossings(s)
             pairs == {c \in X \X X : Adjacent(X, c)}
  <2>1. Built(t, lag) = {RowOf(t, c[1], c[2], lag) : c \in pairs}
    BY <1>7 DEF Built, RowOf, Adjacent
  <2>2. Built(s, lag) = {RowOf(s, c[1], c[2], lag) : c \in pairs}
    BY DEF Built, RowOf, Adjacent
  <2>3. ASSUME NEW c \in pairs PROVE RowOf(t, c[1], c[2], lag) = RowOf(s, c[1], c[2], lag)
    <3>1. c[1] \in X /\ c[2] \in X /\ c[1] < c[2]
      BY DEF Adjacent
    <3>2. c[1] \in 1..n /\ c[2] \in 1..n /\ \A p \in 1..c[2] : t[p] = s[p]
      BY <1>8, <3>1
    <3> DEFINE a == c[1]
               b == c[2]
    <3>3. a \in 1..n /\ b \in 1..n /\ a < b /\ SamePrefix(s, t, b)
      BY <3>1, <3>2 DEF SamePrefix
    <3> HIDE DEF a, b
    <3>4. RowOf(t, a, b, lag) = RowOf(s, a, b, lag)
      BY <3>3, RowOfPrefix
    <3> QED BY <3>4 DEF a, b
  <2> QED BY <2>1, <2>2, <2>3
<1>10. Greatest(Usages(t), -1) = Greatest(Usages(s), -1)
  <2>1. Usages(t) \subseteq 0..Full
    BY <1>1, <1>3 DEF Usages
  <2>2. ASSUME NEW u \in Usages(s) PROVE u \in Usages(t)
    <3>1. PICK p \in 1..n : Readable(s[p]) /\ u = s[p].used
      BY <1>1 DEF Usages
    <3>2. CASE p < m
      <4>1. p \in DOMAIN t /\ t[p] = s[p]
        BY <1>1, <3>2
      <4> QED BY <3>1, <4>1 DEF Usages
    <3>3. CASE ~(p < m)
      <4>1. p + 1 \in 1..(n + 1) /\ p + 1 > m /\ (p + 1) - 1 = p
        BY <1>1, <3>3
      <4>2. p + 1 \in DOMAIN t /\ t[p + 1] = s[p]
        BY <1>1, <4>1
      <4> QED BY <3>1, <4>2 DEF Usages
    <3> QED BY <3>2, <3>3
  <2>3. ASSUME NEW v \in Usages(t) PROVE \E u \in Usages(s) : v <= u
    <3>1. PICK p \in 1..(n + 1) : Readable(t[p]) /\ v = t[p].used
      BY <1>1 DEF Usages
    <3>2. CASE p = m
      <4>1. PICK c \in Crossings(s) : x.used <= s[c].used
        BY <1>1, <3>1, <3>2
      <4>2. s[c].used \in Usages(s)
        BY DEF Crossings, Usages
      <4> QED BY <1>1, <3>1, <3>2, <4>1, <4>2
    <3>3. CASE p # m
      <4>1. \E q \in 1..n : t[p] = s[q]
        BY <1>1, <3>3
      <4>2. v \in Usages(s)
        BY <1>1, <3>1, <4>1 DEF Usages
      <4>3. v <= v
        BY <1>3, <3>1
      <4> QED BY <4>2, <4>3
    <3> QED BY <3>2, <3>3
  <2> HIDE DEF Usages
  <2> QED BY <2>1, <2>2, <2>3, GreatestSame
<1> QED BY <1>7, <1>8, <1>9, <1>10

\* The greatest percent that is shown is first shown at a crossing.
LEMMA PeakIsCrossing ==
  ASSUME NEW n \in Nat, NEW s \in [1..n -> Point], NEW u \in Nat, u <= Greatest(Usages(s), -1)
  PROVE  \E c \in Crossings(s) : u <= s[c].used
<1> DEFINE g == Greatest(Usages(s), -1)
           P == {p \in 1..n : Readable(s[p]) /\ s[p].used = g}
<1>1. Usages(s) \subseteq 0..Full /\ \A p \in 1..n : s[p].used \in 0..Full
  BY DEF Usages, Point
<1>2. g \in Usages(s) \cup {-1} /\ \A v \in Usages(s) : v <= g
  BY <1>1, GreatestFacts
<1> HIDE DEF g
<1>3. g \in Usages(s) /\ g \in Nat /\ u <= g
  <2>1. u <= g
    BY DEF g
  <2>2. g # -1
    BY <2>1
  <2>3. g \in Usages(s) /\ g \in 0..Full
    BY <1>1, <1>2, <2>2
  <2> QED BY <2>1, <2>3 DEF Full
<1>4. PICK p \in P : \A q \in P : p <= q
  <2>1. P \subseteq Nat /\ P # {}
    BY <1>3 DEF Usages
  <2> HIDE DEF P
  <2> QED BY <2>1, LeastNatural
<1>5. ASSUME NEW q \in 1..(p - 1), Readable(s[q]) PROVE s[q].used < s[p].used
  <2>1. q \in 1..n /\ q \notin P
    BY <1>4
  <2>2. s[q].used \in Usages(s) /\ s[q].used # g /\ s[p].used = g
    BY <1>4, <1>5, <2>1 DEF Usages
  <2>3. s[q].used <= g /\ s[q].used \in 0..Full
    BY <1>1, <1>2, <2>1, <2>2
  <2> DEFINE v == s[q].used
  <2>4. v \in Nat /\ v # g /\ v <= g
    BY <2>2, <2>3, PercentIsNat
  <2> HIDE DEF v
  <2>5. v < g
    BY <1>3, <2>4
  <2> QED BY <2>2, <2>5 DEF v
<1>6. p \in Crossings(s) /\ s[p].used = g
  BY <1>4, <1>5 DEF Crossings
<1> QED BY <1>3, <1>6

\* The greatest of some numbers, 0 if there is none.
LEMMA GreatestOrZero ==
  ASSUME NEW N, N \subseteq Nat, Bounded(N)
  PROVE  Greatest(N, 0) \in N \cup {0} /\ \A n \in N : n <= Greatest(N, 0)
<1> DEFINE G == N \cup {0}
<1>1. \E n \in G : \A u \in G : u <= n
  <2>1. CASE N = {}
    BY <2>1
  <2>2. CASE N # {}
    <3>1. PICK n \in N : \A u \in N : u <= n
      BY <2>2, GreatestNatural
    <3>2. 0 <= n
      BY <3>1
    <3> QED BY <3>1, <3>2
  <2> QED BY <2>1, <2>2
<1>2. Greatest(N, 0) = CHOOSE n \in G : \A u \in G : u <= n
  BY DEF Greatest
<1> HIDE DEF G
<1>3. Greatest(N, 0) \in G /\ \A u \in G : u <= Greatest(N, 0)
  BY <1>1, <1>2
<1> QED BY <1>3 DEF G

\* What prepareSegmentEvents finds.
LEMMA PreparedFacts ==
  ASSUME NEW d, Sound(d), NEW k
  PROVE  /\ LatestId(d, k) \in Source(d, k) \cup {0}
         /\ \A i \in Source(d, k) : i <= LatestId(d, k)
         /\ Prepared(d, k).max = LatestId(d, k)
         /\ Prepared(d, k).last \in Nat
         /\ Agrees(Entry(Prepared(d, k)), d, k)
<1>1. Len(d.events) \in Nat /\ DOMAIN d.events = 1..Len(d.events)
  BY SoundFacts
<1>2. LatestId(d, k) \in Source(d, k) \cup {0} /\ \A i \in Source(d, k) : i <= LatestId(d, k)
  <2>1. Source(d, k) \subseteq Nat /\ Bounded(Source(d, k))
    BY <1>1 DEF Source, Bounded
  <2> QED BY <2>1, GreatestOrZero DEF LatestId
<1> DEFINE s == Loaded(d, k)
           O == {s[p].observed : p \in DOMAIN s}
<1>3. PICK n \in Nat : s \in [1..n -> Point]
  BY LoadedFacts
<1> HIDE DEF s
<1>4. Greatest(O, 0) \in Nat /\ \A p \in DOMAIN s : s[p].observed <= Greatest(O, 0)
  <2> DEFINE f == [p \in 1..n |-> s[p].observed]
  <2>1. f \in [1..n -> Nat] /\ DOMAIN s = 1..n
    BY <1>3 DEF Point
  <2>2. \E b \in Nat : \A p \in 1..n : f[p] <= b
    <3> HIDE DEF f
    <3> QED BY <2>1, ListBounded
  <2>3. O \subseteq Nat /\ Bounded(O)
    BY <2>1, <2>2 DEF Bounded
  <2>4. Greatest(O, 0) \in O \cup {0} /\ \A o \in O : o <= Greatest(O, 0)
    <3> HIDE DEF O
    <3> QED BY <2>3, GreatestOrZero
  <2> QED BY <2>3, <2>4
<1>5. Prepared(d, k).max = LatestId(d, k) /\ Prepared(d, k).last = Greatest(O, 0)
  BY DEF Prepared, s
<1>6. Entry(Prepared(d, k)).rows = Prepared(d, k).rows
      /\ Entry(Prepared(d, k)).peak = Prepared(d, k).peak
      /\ Entry(Prepared(d, k)).last = Greatest(O, 0)
  BY <1>5 DEF Entry
<1>7. \A c \in Crossings(s) : s[c].observed <= Entry(Prepared(d, k)).last
  BY <1>4, <1>6 DEF Crossings
<1> QED BY <1>2, <1>4, <1>5, <1>6, <1>7 DEF Agrees, s

\* Segments that are not refreshed for an event: one that shows no new percent and is no
\* earlier than they go, or one that shows the whole quota or no percent and is the latest there is.
LEMMA UnrefreshedAgrees ==
  ASSUME NEW d, NEW e, NEW x, OneMore(d, e, x), NEW k, InSource(k, e.events[x]),
         NEW t, t.last \in Nat, Agrees(t, d, k),
         \/ e.events[x].used <= t.peak /\ t.last <= e.events[x].observed
         \/ /\ ~e.events[x].quota \/ e.events[x].used = Full
            /\ \A i \in DOMAIN d.events : d.events[i].observed <= e.events[x].observed
  PROVE  Agrees(t, e, k)
<1> DEFINE s == Loaded(d, k)
           g == Loaded(e, k)
           row == PointOf(e, x)
<1>1. PICK m \in Nat : /\ PutIn(s, g, row, m)
                       /\ \A p \in DOMAIN s : p < m <=> s[p].observed <= row.observed
  BY NewPlace
<1>2. PICK n \in Nat : s \in [1..n -> Point]
  BY LoadedFacts DEF OneMore
<1>3. g \in [1..(n + 1) -> Point]
  <2>1. PICK j \in Nat : g \in [1..j -> Point]
    BY LoadedFacts DEF OneMore
  <2>2. PICK i \in Nat : DOMAIN s = 1..i /\ DOMAIN g = 1..(i + 1)
    BY <1>1 DEF PutIn
  <2>3. 1..j = 1..(i + 1) /\ 1..n = 1..i
    BY <1>2, <2>1, <2>2
  <2>4. i = n
    BY <2>3
  <2> QED BY <2>1, <2>3, <2>4
<1>4. /\ row.used = e.events[x].used /\ row.observed = e.events[x].observed
      /\ row.told = e.events[x].quota
      /\ row.used \in Nat /\ row.observed \in Nat
  <2>1. e.events[x] \in Event
    BY SoundFacts DEF OneMore
  <2>2. e.events[x].used \in 0..Full /\ e.events[x].observed \in Nat
    BY <2>1 DEF Event
  <2> QED BY <2>2, PercentIsNat DEF PointOf
<1>5. \A p \in DOMAIN s : s[p].observed \in Nat
  BY <1>2 DEF Point
<1>6. /\ t.rows = UNION {Built(s, lag) : lag \in Lags}
      /\ t.peak = Greatest(Usages(s), -1)
      /\ \A c \in Crossings(s) : s[c].observed <= t.last
  BY DEF Agrees, Prepared, Usages
<1>7. \A i \in Source(d, k) : PointOf(d, i).observed = d.events[i].observed /\ i \in DOMAIN d.events
  BY DEF PointOf, Source
<1>8. \A p \in DOMAIN s : \E i \in DOMAIN d.events : s[p].observed = d.events[i].observed
  <2>1. Sound(d)
    BY DEF OneMore
  <2> QED BY <1>7, <2>1, LoadedFacts
<1> HIDE DEF s, g, row
<1>9. /\ \A c \in Crossings(s) : c < m
      /\ Readable(row) => \E c \in Crossings(s) : row.used <= s[c].used
  <2>1. CASE e.events[x].used <= t.peak /\ t.last <= e.events[x].observed
    <3>1. ASSUME NEW c \in Crossings(s) PROVE c < m
      <4>1. c \in DOMAIN s
        BY DEF Crossings
      <4>2. s[c].observed <= t.last /\ t.last <= row.observed /\ s[c].observed \in Nat
        BY <1>4, <1>5, <1>6, <2>1, <4>1
      <4>3. s[c].observed <= row.observed
        BY <1>4, <4>2
      <4> QED BY <1>1, <4>1, <4>3
    <3>2. \E c \in Crossings(s) : row.used <= s[c].used
      BY <1>2, <1>4, <1>6, <2>1, PeakIsCrossing
    <3> QED BY <3>1, <3>2
  <2>2. CASE /\ ~e.events[x].quota \/ e.events[x].used = Full
             /\ \A i \in DOMAIN d.events : d.events[i].observed <= e.events[x].observed
    <3>1. \A p \in DOMAIN s : p < m
      BY <1>1, <1>4, <1>8, <2>2
    <3>2. ~Readable(row)
      BY <1>4, <2>2 DEF Readable, Full
    <3> QED BY <3>1, <3>2 DEF Crossings
  <2> QED BY <2>1, <2>2
<1>10. /\ Crossings(g) = Crossings(s) /\ \A c \in Crossings(s) : g[c] = s[c]
       /\ \A lag \in Lags : Built(g, lag) = Built(s, lag)
       /\ Greatest(Usages(g), -1) = Greatest(Usages(s), -1)
  BY <1>1, <1>2, <1>3, <1>9, SegmentsKept
<1>11. /\ t.rows = UNION {Built(g, lag) : lag \in Lags}
       /\ t.peak = Greatest(Usages(g), -1)
       /\ \A c \in Crossings(g) : g[c].observed <= t.last
  BY <1>6, <1>10
<1> QED BY <1>11 DEF Agrees, Prepared, Usages, g

(***************************************************************************)
(* Insertions beside a rebuild.                                            *)
(***************************************************************************)
\* The segments have times, and what a rebuild has prepared knows no event that is
\* still to come.
SegmentsTyped ==
  /\ DOMAIN table \subseteq Key /\ \A k \in DOMAIN table : table[k].last \in Nat
  /\ todo \subseteq Key
  /\ job = "write" =>
       todo # {} /\ prepared.last \in Nat /\ prepared.max \in DOMAIN events \cup {0}

\* An insertion adds one event, and refreshes the segments of the key it belongs to.
LEMMA InsertFacts ==
  ASSUME IInv, Insert
  PROVE  LET x == Last' row == events'[Last'] IN
         /\ DOMAIN events' = DOMAIN events \cup {x} /\ x \notin DOMAIN events /\ x # 0
         /\ Sound(db') /\ db'.events = events' /\ row \in Event
         /\ ~Moves => OneMore(db, db', x)
         /\ \E k \in Canonical(KeyOf(row)) :
              table' = IF row.quota /\ row.used < Full /\ NeedsRefresh(k, row)
                       THEN Written(k, Prepared(db', k)) ELSE table
         /\ UNCHANGED <<job, todo, prepared>>
<1>1. PICK e \in Observations : InsertEvent(e)
  BY DEF Insert, Next
<1>2. /\ DOMAIN events' = DOMAIN events \cup {Last'} /\ Last' \notin DOMAIN events
      /\ \A i \in DOMAIN events : i < Last' /\ Shows(events'[i], events[i])
      /\ Sound(db') /\ db'.events = events'
  BY <1>1, RecordedStep
<1>3. Sound(db) /\ db.events = events
  BY InvSound
<1>4. /\ events'[Last'] \in Event
      /\ Last' # 0
  BY <1>2, SoundFacts
<1>5. ~Moves => OneMore(db, db', Last')
  BY <1>2, <1>3 DEF Moves, OneMore
<1> QED BY <1>2, <1>4, <1>5 DEF Insert, Refresh

\* The key of an event that is stored is one of those in the table or its own.
LEMMA CanonicalIsKey ==
  ASSUME SegmentsTyped, NEW row \in Event, NEW k \in Canonical(KeyOf(row))
  PROVE  k \in Key
<1>1. KeyOf(row) \in Key
  BY DEF Event, KeyOf, Key
<1> QED BY <1>1 DEF Canonical, SegmentsTyped

\* A key that is alone is the one that an event of it refreshes.
LEMMA AloneIsCanonical ==
  ASSUME SegmentsTyped, NEW row \in Event, NEW k \in DOMAIN table, Alone(k, DOMAIN table),
         InSource(k, row), NEW q \in Canonical(KeyOf(row))
  PROVE  q = k
<1> DEFINE own == KeyOf(row)
           near == {p \in DOMAIN table : p.cycle = own.cycle /\ Distance(p.reset, own.reset) <= Slack}
<1>1. own.cycle = row.cycle /\ own.reset = row.reset /\ own.reset \in Nat
  BY DEF KeyOf, Event
<1>2. \A p \in DOMAIN table : p.reset \in Nat /\ p.cycle \in Nat
  BY DEF SegmentsTyped, Key
<1>3. k \in near
  BY <1>1, <1>2 DEF InSource, Distance
<1>4. q \in near
  BY <1>3 DEF Canonical
<1> SUFFICES ASSUME q # k PROVE FALSE
  OBVIOUS
<1>5. q.cycle = k.cycle /\ Distance(q.reset, own.reset) <= Slack /\ Distance(k.reset, own.reset) <= Slack
  BY <1>3, <1>4
<1>6. Distance(q.reset, k.reset) > 2 * Slack
  BY <1>4, <1>5 DEF Alone
<1>7. q.reset \in Nat /\ k.reset \in Nat /\ Slack \in Nat
  BY <1>2, <1>4, SegmentsAssumption
<1> HIDE DEF own
<1> QED BY <1>1, <1>5, <1>6, <1>7 DEF Distance

LEMMA SegmentsTypedStep ==
  ASSUME IInv, SegmentsTyped, [SegNext]_segVars
  PROVE  SegmentsTyped'
<1>1. CASE UNCHANGED segVars
  BY <1>1 DEF SegmentsTyped, segVars, vars, derived
<1>2. CASE Insert
  <2> DEFINE row == events'[Last']
  <2>1. /\ DOMAIN events \subseteq DOMAIN events' /\ Sound(db') /\ row \in Event
        /\ UNCHANGED <<job, todo, prepared>>
    BY <1>2, InsertFacts
  <2>2. PICK k \in Canonical(KeyOf(row)) :
          table' = IF row.quota /\ row.used < Full /\ NeedsRefresh(k, row)
                   THEN Written(k, Prepared(db', k)) ELSE table
    BY <1>2, InsertFacts
  <2> HIDE DEF row
  <2>3. k \in Key
    BY <2>1, CanonicalIsKey
  <2>4. Entry(Prepared(db', k)).last \in Nat
    BY <2>1, PreparedFacts DEF Entry
  <2>5. DOMAIN table' \subseteq Key /\ \A q \in DOMAIN table' : table'[q].last \in Nat
    <3>1. CASE table' = table
      BY <3>1 DEF SegmentsTyped
    <3>2. CASE table' = Written(k, Prepared(db', k))
      <4>1. DOMAIN table' = DOMAIN table \cup {k}
            /\ \A q \in DOMAIN table' : table'[q] = IF q = k THEN Entry(Prepared(db', k)) ELSE table[q]
        BY <3>2 DEF Written
      <4> QED BY <2>3, <2>4, <4>1 DEF SegmentsTyped
    <3> QED BY <2>2, <3>1, <3>2
  <2> QED BY <2>1, <2>5 DEF SegmentsTyped
<1>3. ASSUME DailyRebuild \/ Open PROVE SegmentsTyped'
  <2>1. UNCHANGED <<vars, table, prepared>>
    BY <1>3 DEF DailyRebuild, Open
  <2>2. \/ UNCHANGED <<todo, job>>
        \/ todo' = Clustered(Keys(db)) /\ job' # "write"
    BY <1>3 DEF DailyRebuild, Open, ReadKeys
  <2>3. Clustered(Keys(db)) \subseteq Key
    BY InvSound, KeysFacts
  <2> QED BY <2>1, <2>2, <2>3 DEF SegmentsTyped, vars
<1>4. CASE Prepare
  <2> DEFINE k == FirstKey(todo)
  <2>1. /\ UNCHANGED <<vars, table, todo>> /\ todo # {} /\ prepared' = Prepared(db, k)
    BY <1>4 DEF Prepare
  <2>2. Sound(db) /\ db.events = events
    BY InvSound
  <2>3. Prepared(db, k).last \in Nat /\ Prepared(db, k).max \in DOMAIN events \cup {0}
    <3>1. LatestId(db, k) \in Source(db, k) \cup {0} /\ Prepared(db, k).max = LatestId(db, k)
          /\ Prepared(db, k).last \in Nat
      BY <2>2, PreparedFacts
    <3> QED BY <2>2, <3>1 DEF Source
  <2> HIDE DEF k
  <2> QED BY <2>1, <2>3 DEF SegmentsTyped, vars
<1>5. CASE Write
  <2> DEFINE k == FirstKey(todo)
  <2>1. /\ job = "write" /\ job' = "prepare" /\ todo' = todo \ {k}
        /\ table' = IF LatestId(db, k) = prepared.max THEN Written(k, prepared) ELSE table
    BY <1>5 DEF Write
  <2>2. k \in Key /\ prepared.last \in Nat
    <3>1. k \in todo
      BY <2>1, FirstKeyFacts DEF SegmentsTyped
    <3> QED BY <2>1, <3>1 DEF SegmentsTyped
  <2> HIDE DEF k
  <2>3. DOMAIN table' \subseteq Key /\ \A q \in DOMAIN table' : table'[q].last \in Nat
    <3>1. CASE table' = table
      BY <3>1 DEF SegmentsTyped
    <3>2. CASE table' = Written(k, prepared)
      <4>1. DOMAIN table' = DOMAIN table \cup {k}
            /\ \A q \in DOMAIN table' : table'[q] = IF q = k THEN Entry(prepared) ELSE table[q]
        BY <3>2 DEF Written
      <4>2. Entry(prepared).last \in Nat
        BY <2>2 DEF Entry
      <4> QED BY <2>2, <4>1, <4>2 DEF SegmentsTyped
    <3> QED BY <2>1, <3>1, <3>2
  <2> QED BY <2>1, <2>3 DEF SegmentsTyped
<1>6. CASE RemoveStale
  <2>1. PICK k \in stale : table' = Removed(k)
    BY <1>6 DEF RemoveStale
  <2>2. DOMAIN table' \subseteq DOMAIN table /\ \A q \in DOMAIN table' : table'[q] = table[q]
    BY <2>1 DEF Removed
  <2>3. UNCHANGED <<vars, job, todo, prepared>>
    BY <1>6 DEF RemoveStale
  <2> QED BY <2>2, <2>3 DEF SegmentsTyped, vars
<1>7. CASE ReadStale \/ ClearMarker \/ SetMarker \/ Abort \/ Stop
  <2>1. UNCHANGED <<vars, table>> /\ job' # "write" /\ (todo' = todo \/ todo' = {})
    BY <1>7 DEF ReadStale, ClearMarker, SetMarker, Abort, Stop
  <2> QED BY <2>1 DEF SegmentsTyped, vars
<1> QED BY <1>1, <1>2, <1>3, <1>4, <1>5, <1>6, <1>7 DEF SegNext

\* What an insertion does to segments that agree, and to what a rebuild has prepared.
LEMMA InsertKeepsAgreement ==
  ASSUME IInv, SegmentsTyped, Insert, ~Moves, ~OvertakenSilent
  PROVE  /\ \A k \in Writing' : (k \in Writing => UpToDate(prepared, db, k)) =>
                                  UpToDate(prepared', db', k)
         /\ \A k \in DOMAIN table \cap DOMAIN table' :
              Alone(k, DOMAIN table) /\ Agrees(table[k], db, k) => Agrees(table'[k], db', k)
<1> DEFINE x == Last'
           row == events'[Last']
           e == db'
<1>1. /\ DOMAIN events' = DOMAIN events \cup {x} /\ x \notin DOMAIN events /\ x # 0
      /\ Sound(e) /\ e.events = events' /\ row \in Event
      /\ OneMore(db, e, x)
      /\ UNCHANGED <<job, todo, prepared>>
  BY InsertFacts
<1>2. PICK c \in Canonical(KeyOf(row)) :
        table' = IF row.quota /\ row.used < Full /\ NeedsRefresh(c, row)
                 THEN Written(c, Prepared(e, c)) ELSE table
  BY InsertFacts
<1>3. e.events[x] = row /\ db.events = events
  BY <1>1, InvSound
<1>4. ~OvertakenSilent => (row.quota /\ row.used # Full) \/ \A i \in DOMAIN events : events[i].observed <= row.observed
  <2>1. Len(events') > Len(events)
    <3>1. /\ Len(events) \in Nat /\ DOMAIN events = 1..Len(events)
          /\ Len(events') \in Nat /\ DOMAIN events' = 1..Len(events')
      BY <1>1, InvSound, SoundFacts
    <3>2. \A i \in 1..Len(events) : i \in 1..Len(events')
      BY <1>1, <3>1
    <3>3. x \in 1..Len(events') /\ x \notin 1..Len(events)
      BY <1>1, <3>1
    <3> QED BY <3>1, <3>3
  <2>2. \A i \in DOMAIN events : events[i].observed \in Nat
    <3>1. \A i \in DOMAIN events : events[i] \in Event
      BY InvSound, SoundFacts
    <3> QED BY <3>1 DEF Event
  <2>3. row.observed \in Nat
    BY <1>1 DEF Event
  <2>4. ASSUME ~OvertakenSilent, ~row.quota \/ row.used = Full, NEW i \in DOMAIN events
        PROVE  events[i].observed <= row.observed
    <3>1. ~(events[i].observed > row.observed)
      BY <2>1, <2>4 DEF OvertakenSilent
    <3> QED BY <2>2, <2>3, <3>1
  <2> QED BY <2>4
<1> HIDE DEF x, row, e
<1>5. ASSUME NEW k, ~InSource(k, row)
      PROVE  /\ Prepared(e, k) = Prepared(db, k) /\ LatestId(e, k) = LatestId(db, k)
             /\ Loaded(e, k) = Loaded(db, k)
  BY <1>1, <1>3, <1>5, OthersKept
<1>6. ASSUME NEW k \in Writing', k \in Writing => UpToDate(prepared, db, k)
      PROVE  UpToDate(prepared', e, k)
  <2>1. k \in Writing /\ job = "write" /\ prepared' = prepared
    BY <1>1 DEF Writing
  <2>2. CASE InSource(k, row)
    <3>1. x \in Source(e, k) /\ Source(e, k) \subseteq DOMAIN events'
      BY <1>1, <1>3, <2>2 DEF Source
    <3>2. \A i \in Source(e, k) : i <= LatestId(e, k)
      BY <1>1, PreparedFacts
    <3>3. prepared.max \in DOMAIN events \cup {0}
      BY <2>1 DEF SegmentsTyped
    <3>4. \A i \in DOMAIN events : i < x
      BY <1>1, <1>3 DEF OneMore
    <3>5. x \in Nat /\ \A i \in DOMAIN events : i \in Nat
      <4>1. DOMAIN events' = 1..Len(events')
        BY <1>1, SoundFacts
      <4>2. \A i \in DOMAIN events' : i \in Nat
        BY <4>1
      <4> QED BY <1>1, <4>2
    <3>6. LatestId(e, k) \in Nat
      BY <1>1, <3>1, <3>5, PreparedFacts
    <3>7. prepared.max # LatestId(e, k)
      BY <1>1, <3>1, <3>2, <3>3, <3>4, <3>5, <3>6
    <3> QED BY <2>1, <3>7 DEF UpToDate
  <2>3. CASE ~InSource(k, row)
    BY <1>5, <1>6, <2>1, <2>3 DEF UpToDate
  <2> QED BY <2>2, <2>3
<1>7. ASSUME NEW k \in DOMAIN table \cap DOMAIN table', Alone(k, DOMAIN table), Agrees(table[k], db, k)
      PROVE  Agrees(table'[k], e, k)
  <2>1. CASE table' # table /\ c = k
    <3>1. table'[k] = Entry(Prepared(e, k))
      BY <1>2, <2>1 DEF Written
    <3> QED BY <1>1, <3>1, PreparedFacts
  <2>2. CASE ~(table' # table /\ c = k)
    <3>1. table'[k] = table[k]
      BY <1>2, <2>2 DEF Written
    <3>2. CASE ~InSource(k, row)
      <4>1. Agrees(table[k], e, k)
        BY <1>5, <1>7, <3>2 DEF Agrees
      <4> QED BY <3>1, <4>1
    <3>3. CASE InSource(k, row)
      <4>1. c = k
        BY <1>1, <1>7, <3>3, AloneIsCanonical
      <4>2. \/ ~row.quota \/ ~(row.used < Full /\ NeedsRefresh(k, row))
            \/ table' = Written(k, Prepared(e, k))
        BY <1>2, <4>1
      <4>3. CASE table' = Written(k, Prepared(e, k))
        <5>1. table'[k] = Entry(Prepared(e, k))
          BY <4>3 DEF Written
        <5> QED BY <1>1, <5>1, PreparedFacts
      <4>4. CASE ~row.quota \/ ~(row.used < Full /\ NeedsRefresh(k, row))
        <5> DEFINE t == table[k]
        <5>1. /\ row.used \in 0..Full /\ row.observed \in Nat /\ t.last \in Nat
          BY <1>1 DEF Event, SegmentsTyped
        <5>2. t.peak \in Int
          <6>1. t.peak = Greatest(Usages(Loaded(db, k)), -1)
            BY <1>7 DEF Agrees, Prepared, Usages
          <6>2. Usages(Loaded(db, k)) \subseteq 0..Full
            <7>1. PICK n \in Nat : Loaded(db, k) \in [1..n -> Point]
              BY InvSound, LoadedFacts
            <7> QED BY <7>1 DEF Usages, Point
          <6>3. Greatest(Usages(Loaded(db, k)), -1) \in Usages(Loaded(db, k)) \cup {-1}
            BY <6>2, GreatestFacts
          <6> QED BY <6>1, <6>2, <6>3 DEF Full
        <5>3. \/ row.used <= t.peak /\ t.last <= row.observed
              \/ ~row.quota \/ row.used = Full
          <6>1. CASE row.quota /\ row.used < Full
            <7>1. ~(row.used > t.peak) /\ ~(row.observed < t.last)
              BY <4>4, <6>1 DEF NeedsRefresh
            <7> HIDE DEF t
            <7> QED BY <5>1, <5>2, <7>1, PercentIsNat
          <6>2. CASE ~row.quota \/ ~(row.used < Full)
            <7> HIDE DEF t
            <7> QED BY <5>1, <6>2 DEF Full
          <6> QED BY <6>1, <6>2
        <5> HIDE DEF t
        <5>4. Agrees(t, e, k)
          <6>1. Agrees(t, db, k)
            BY <1>7 DEF t
          <6>2. \/ row.used <= t.peak /\ t.last <= row.observed
                \/ /\ ~row.quota \/ row.used = Full
                   /\ \A i \in DOMAIN events : events[i].observed <= row.observed
            BY <1>4, <5>3
          <6> QED BY <1>1, <1>3, <3>3, <5>1, <6>1, <6>2, UnrefreshedAgrees
        <5> QED BY <3>1, <5>4 DEF t
      <4> QED BY <4>2, <4>3, <4>4
    <3> QED BY <3>2, <3>3
  <2> QED BY <2>1, <2>2
<1> QED BY <1>6, <1>7 DEF e

\* Segments that agree with the events of their key go on agreeing, and what a rebuild
\* has prepared is up to date or is dropped, however insertions and the steps of the
\* rebuild come between each other (refreshSegmentsForEvent, writePreparedQuotaSegmentKey).
THEOREM SegmentsGoOnAgreeing == SegSpec => AgreementKept
<1> DEFINE kept ==
      ~Moves /\ ~OvertakenSilent =>
       /\ \A k \in Writing' : (k \in Writing => UpToDate(prepared, db, k)) =>
                               UpToDate(prepared', db', k)
       /\ \A k \in DOMAIN table \cap DOMAIN table' :
            /\ Alone(k, DOMAIN table) /\ Agrees(table[k], db, k)
            /\ k \in Writing => UpToDate(prepared, db, k)
            => Agrees(table'[k], db', k)
<1>1. SegInit => SegmentsTyped
  BY DEF SegInit, SegmentsTyped
<1>2. IInv /\ SegmentsTyped /\ [SegNext]_segVars => SegmentsTyped'
  BY SegmentsTypedStep
<1>3. IInv /\ SegmentsTyped /\ [SegNext]_segVars => [kept]_<<events, table, prepared>>
  <2> SUFFICES ASSUME IInv, SegmentsTyped, SegNext, ~UNCHANGED <<events, table, prepared>>
               PROVE  kept
    BY DEF segVars, vars, derived
  <2>1. CASE Insert
    BY <2>1, InsertKeepsAgreement
  <2>2. CASE ~Insert
    <3>1. UNCHANGED vars /\ db' = db
      BY <2>2 DEF SegNext, DailyRebuild, Open, ReadStale, ClearMarker, Prepare, Write,
                  RemoveStale, SetMarker, Abort, Stop, vars, db
    <3>2. ASSUME NEW k \in Writing' PROVE UpToDate(prepared', db', k)
      <4>1. job' = "write"
        BY DEF Writing
      <4>2. CASE Prepare
        <5>1. k = FirstKey(todo) /\ prepared' = Prepared(db, k)
          BY <4>1, <4>2 DEF Prepare, Writing
        <5> QED BY <3>1, <5>1 DEF UpToDate
      <4>3. CASE ~Prepare
        <5>1. FALSE
          BY <2>2, <4>1, <4>3 DEF SegNext, DailyRebuild, Open, ReadKeys, ReadStale, ClearMarker,
                                 Write, RemoveStale, SetMarker, Abort, Stop, vars
        <5> QED BY <5>1
      <4> QED BY <4>2, <4>3
    <3>3. ASSUME NEW k \in DOMAIN table \cap DOMAIN table', Agrees(table[k], db, k),
                 k \in Writing => UpToDate(prepared, db, k)
          PROVE  Agrees(table'[k], db', k)
      <4>1. CASE Write /\ table' # table /\ k = FirstKey(todo)
        <5>1. LatestId(db, k) = prepared.max /\ table'[k] = Entry(prepared) /\ k \in Writing
          BY <4>1 DEF Write, Written, Writing
        <5>2. prepared = Prepared(db, k)
          BY <3>3, <5>1 DEF UpToDate
        <5> QED BY <3>1, <5>1, <5>2, InvSound, PreparedFacts
      <4>2. CASE ~(Write /\ table' # table /\ k = FirstKey(todo))
        <5>1. table'[k] = table[k]
          <6>1. CASE Write
            BY <4>2, <6>1 DEF Write, Written
          <6>2. CASE RemoveStale
            BY <6>2 DEF RemoveStale, Removed
          <6>3. CASE ~Write /\ ~RemoveStale
            BY <2>2, <6>3 DEF SegNext, DailyRebuild, Open, ReadStale, ClearMarker, Prepare,
                              SetMarker, Abort, Stop
          <6> QED BY <6>1, <6>2, <6>3
        <5> QED BY <3>1, <3>3, <5>1
      <4> QED BY <4>1, <4>2
    <3> QED BY <3>2, <3>3
  <2> QED BY <2>1, <2>2
<1> QED BY <1>1, <1>2, <1>3, LedgerInv, PTL DEF SegSpec, AgreementKept

(***************************************************************************)
(* Months.                                                                 *)
(***************************************************************************)
\* Whether a month meets a cycle, what the cycle adds to it, and whether what the
\* month knows of it is complete.
Meets(c, from, before, now) == cycles[c].started < before /\ EndsAt(c, now) > from

Part(c, from, before, now) ==
  IF Meets(c, from, before, now) THEN Growth(c, from, before).consumed ELSE 0

Whole(c, from, before, now) == Meets(c, from, before, now) => Growth(c, from, before).complete

\* The samples of a cycle that were made before a time, and the highest of them.
Until(c, t) == {k \in SamplesOf(db, c) : samples[k].at < t}

Top(c, t) == Peak(db, Until(c, t))

\* What the report reads is of its type.
LEMMA LedgerTypes ==
  ASSUME IInv
  PROVE  /\ IsFiniteSet(DOMAIN cycles)
         /\ \A c \in DOMAIN cycles : \A t, now \in Nat :
              /\ cycles[c].started \in Nat /\ cycles[c].ended \in Nat
              /\ EndsAt(c, now) \in Nat /\ Top(c, t) \in Int
         /\ \A k \in DOMAIN samples : samples[k].at \in Nat
<1>1. Sound(db) /\ db.cycles = cycles /\ db.samples = samples
  BY InvSound
<1>2. /\ DOMAIN cycles \subseteq Nat \ {0} /\ \A c \in DOMAIN cycles : cycles[c] \in Cycle
      /\ samples \in Table(Sample)
  BY <1>1, SoundFacts
<1>3. IsFiniteSet(DOMAIN cycles)
  <2>1. PICK n \in Nat : \A c \in DOMAIN cycles : c <= n
    BY <1>1 DEF Sound, Bounded
  <2>2. IsFiniteSet(1..n)
    BY FS_Interval
  <2>3. DOMAIN cycles \subseteq 1..n
    BY <1>2, <2>1
  <2> QED BY ONLY <2>2, <2>3, FS_Subset
<1>4. ASSUME NEW c \in DOMAIN cycles, NEW t \in Nat, NEW now \in Nat
      PROVE  /\ cycles[c].started \in Nat /\ cycles[c].ended \in Nat
             /\ EndsAt(c, now) \in Nat /\ Top(c, t) \in Int
  <2>1. cycles[c].started \in Nat /\ cycles[c].ended \in Nat /\ cycles[c].reset \in Nat
    BY <1>2 DEF Cycle
  <2>2. EndsAt(c, now) \in Nat
    BY <2>1 DEF EndsAt
  <2>3. Until(c, t) \subseteq DOMAIN samples
    BY <1>1 DEF Until, SamplesOf
  <2>4. Top(c, t) \in 0..Full
    BY <1>1, <1>2, <2>3, PeakIsPeakIn, PeakInFacts DEF Top
  <2>5. \A x \in 0..Full : x \in Int
    BY DEF Full
  <2> QED BY <2>1, <2>2, <2>4, <2>5
<1>5. ASSUME NEW k \in DOMAIN samples PROVE samples[k].at \in Nat
  <2>1. samples[k] \in Sample
    BY <1>2, TableFacts
  <2> QED BY <2>1 DEF Sample
<1> QED BY <1>3, <1>4, <1>5

\* A growth that is complete is the difference of two peaks.
LEMMA GrowthComplete ==
  ASSUME NEW c, NEW from, NEW before, Growth(c, from, before).complete
  PROVE  /\ Until(c, before) # {}
         /\ cycles[c].started >= from => Growth(c, from, before).consumed = Top(c, before)
         /\ ~(cycles[c].started >= from) =>
              /\ Until(c, from) # {}
              /\ Growth(c, from, before).consumed = Top(c, before) - Top(c, from)
<1> DEFINE U == Until(c, before)
           E == Until(c, from)
           D == U \ E
<1>1. Growth(c, from, before) =
        IF U = {} THEN [consumed |-> 0, complete |-> FALSE]
        ELSE IF cycles[c].started >= from THEN [consumed |-> Peak(db, U), complete |-> TRUE]
        ELSE IF E # {} THEN [consumed |-> Peak(db, U) - Peak(db, E), complete |-> TRUE]
        ELSE [consumed |-> Peak(db, U) - samples[FirstSample(db, D)].used, complete |-> FALSE]
  BY DEF Growth, Until
<1> HIDE DEF U, E, D
<1>2. /\ U # {}
      /\ cycles[c].started >= from => Growth(c, from, before).consumed = Peak(db, U)
      /\ ~(cycles[c].started >= from) =>
           E # {} /\ Growth(c, from, before).consumed = Peak(db, U) - Peak(db, E)
  BY <1>1
<1> QED BY <1>2 DEF U, E, Top

\* What one cycle adds to two months is what it adds to their union.
LEMMA PartsAdd ==
  ASSUME IInv, NEW c \in DOMAIN cycles, NEW now \in Nat,
         NEW a \in Nat, NEW m \in Nat, NEW b \in Nat, a < m, m < b,
         EndsAt(c, now) <= m => Settled(c, now),
         Whole(c, a, m, now), Whole(c, m, b, now), Whole(c, a, b, now)
  PROVE  LET x == Part(c, a, m, now)
             y == Part(c, m, b, now)
             z == Part(c, a, b, now)
         IN x \in Int /\ y \in Int /\ z \in Int /\ x + y = z
<1> DEFINE s == cycles[c].started
           e == EndsAt(c, now)
<1>1. /\ s \in Nat /\ e \in Nat /\ Top(c, a) \in Int /\ Top(c, m) \in Int /\ Top(c, b) \in Int
  BY LedgerTypes
<1>2. CASE b <= s \/ e <= a
  <2>1. ~Meets(c, a, m, now) /\ ~Meets(c, m, b, now) /\ ~Meets(c, a, b, now)
    BY <1>1, <1>2 DEF Meets
  <2> QED BY <2>1 DEF Part
<1>3. CASE s < b /\ a < e
  <2> DEFINE both == Part(c, a, b, now)
  <2>1. Meets(c, a, b, now) /\ Growth(c, a, b).complete
    BY <1>3 DEF Meets, Whole
  <2>2. both = IF s >= a THEN Top(c, b) ELSE Top(c, b) - Top(c, a)
    BY <2>1, GrowthComplete DEF Part
  <2> HIDE DEF both
  <2>3. CASE m <= s
    <3>1. m < e
      BY <1>1, <2>3 DEF Settled
    <3>2. ~Meets(c, a, m, now) /\ Meets(c, m, b, now) /\ s >= a /\ s >= m
      BY <1>1, <1>3, <2>3, <3>1 DEF Meets
    <3>3. Part(c, a, m, now) = 0
      BY <3>2 DEF Part
    <3>4. Part(c, m, b, now) = Top(c, b)
      BY <3>2, GrowthComplete DEF Part, Whole
    <3> QED BY <1>1, <2>2, <3>2, <3>3, <3>4 DEF both
  <2>4. CASE s < m
    <3>1. Meets(c, a, m, now)
      BY <1>1, <1>3, <2>4 DEF Meets
    <3>2. Part(c, a, m, now) = IF s >= a THEN Top(c, m) ELSE Top(c, m) - Top(c, a)
      BY <3>1, GrowthComplete DEF Part, Whole
    <3>3. Part(c, m, b, now) = Top(c, b) - Top(c, m)
      <4>1. CASE m < e
        <5>1. Meets(c, m, b, now) /\ ~(s >= m)
          BY <1>1, <1>3, <2>4, <4>1 DEF Meets
        <5> QED BY <5>1, GrowthComplete DEF Part, Whole
      <4>2. CASE e <= m
        <5>1. ~Meets(c, m, b, now)
          BY <1>1, <4>2 DEF Meets
        <5>2. \A k \in SamplesOf(db, c) : samples[k].at < m /\ samples[k].at < b
          <6>1. Settled(c, now)
            BY <4>2
          <6>2. \A k \in SamplesOf(db, c) : samples[k].at \in Nat
            BY InvSound, LedgerTypes DEF SamplesOf
          <6> QED BY <1>1, <4>2, <6>1, <6>2 DEF Settled
        <5>3. Until(c, m) = Until(c, b)
          BY <5>2 DEF Until
        <5>4. Top(c, m) = Top(c, b)
          BY <5>3 DEF Top
        <5> QED BY <1>1, <5>1, <5>4 DEF Part
      <4> QED BY <1>1, <4>1, <4>2
    <3> QED BY <1>1, <2>2, <3>2, <3>3 DEF both
  <2> QED BY <1>1, <2>3, <2>4
<1> QED BY <1>1, <1>2, <1>3

\* The cycles that were reset in a month.
ResetIn(from, before, now) ==
  {c \in DOMAIN cycles :
     /\ Meets(c, from, before, now) /\ cycles[c].ended >= from /\ cycles[c].ended < before
     /\ cycles[c].reason \in {"scheduled_reset", "early_reset"}}

LEMMA MonthFacts ==
  ASSUME NEW from, NEW before, NEW now
  PROVE  LET month == Month(from, before, now) IN
         /\ month.consumed = SumFunction([c \in DOMAIN cycles |-> Part(c, from, before, now)])
         /\ month.complete <=> \A c \in DOMAIN cycles : Whole(c, from, before, now)
         /\ month.resets = Cardinality(ResetIn(from, before, now))
<1> DEFINE shown == Shown(from, before, now)
           growth == [c \in shown |-> Growth(c, from, before)]
           parts == [c \in DOMAIN cycles |-> IF c \in shown THEN growth[c].consumed ELSE 0]
           whole == \A c \in shown : growth[c].complete
           reset == {c \in shown : cycles[c].ended >= from /\ cycles[c].ended < before
                                     /\ cycles[c].reason \in {"scheduled_reset", "early_reset"}}
<1>1. Month(from, before, now) =
        [consumed |-> SumFunction(parts), complete |-> whole, resets |-> Cardinality(reset)]
  BY DEF Month
<1>2. parts = [c \in DOMAIN cycles |-> Part(c, from, before, now)]
  BY DEF Part, Shown, Meets
<1>3. whole <=> \A c \in DOMAIN cycles : Whole(c, from, before, now)
  BY DEF Whole, Shown, Meets
<1>4. reset = ResetIn(from, before, now)
  BY DEF ResetIn, Shown, Meets
<1> HIDE DEF parts, whole, reset
<1> QED BY <1>1, <1>2, <1>3, <1>4

\* What two months consumed.
LEMMA ConsumedAdds ==
  ASSUME IInv, NEW now \in Nat, NEW a \in Nat, NEW m \in Nat, NEW b \in Nat, a < m, m < b,
         \A c \in DOMAIN cycles : EndsAt(c, now) <= m => Settled(c, now),
         Month(a, m, now).complete, Month(m, b, now).complete, Month(a, b, now).complete
  PROVE  Month(a, m, now).consumed + Month(m, b, now).consumed = Month(a, b, now).consumed
<1> DEFINE S == DOMAIN cycles
           f == [c \in S |-> Part(c, a, m, now)]
           g == [c \in S |-> Part(c, m, b, now)]
           h == [c \in S |-> Part(c, a, b, now)]
<1>1. IsFiniteSet(S)
  BY LedgerTypes
<1>2. ASSUME NEW c \in S
      PROVE  f[c] \in Int /\ g[c] \in Int /\ h[c] \in Int /\ h[c] = f[c] + g[c]
  <2>1. Whole(c, a, m, now) /\ Whole(c, m, b, now) /\ Whole(c, a, b, now)
    BY MonthFacts
  <2> DEFINE x == Part(c, a, m, now)
             y == Part(c, m, b, now)
             z == Part(c, a, b, now)
  <2>2. x \in Int /\ y \in Int /\ z \in Int /\ x + y = z
    BY <2>1, PartsAdd
  <2>3. f[c] = x /\ g[c] = y /\ h[c] = z
    OBVIOUS
  <2> HIDE DEF x, y, z
  <2> QED BY <2>2, <2>3
<1>3. /\ Month(a, m, now).consumed = SumFunction(f)
      /\ Month(m, b, now).consumed = SumFunction(g)
      /\ Month(a, b, now).consumed = SumFunction(h)
  BY MonthFacts
<1>4. f \in [S -> Int] /\ g \in [S -> Int] /\ h \in [S -> Int]
  <2>1. f = [c \in S |-> f[c]] /\ g = [c \in S |-> g[c]] /\ h = [c \in S |-> h[c]]
    OBVIOUS
  <2> HIDE DEF f, g, h, S
  <2> QED BY <1>2, <2>1
<1> HIDE DEF f, g, h, S
<1>5. SumFunction(f) + SumFunction(g) = SumFunction(h)
  <2>1. \A c \in S : h[c] = f[c] + g[c]
    BY ONLY <1>2
  <2>2. Adding(S, f, g, h)
    BY ONLY <1>1, <1>4, <2>1 DEF Adding
  <2> QED BY ONLY <2>2, SumAdds
<1> QED BY <1>3, <1>5

\* And how many cycles were reset in them.
LEMMA ResetsAdd ==
  ASSUME IInv, NEW now \in Nat, NEW a \in Nat, NEW m \in Nat, NEW b \in Nat, a < m, m < b,
         \A c \in DOMAIN cycles : EndsAt(c, now) <= m => Settled(c, now),
         \A c \in DOMAIN cycles : cycles[c].ended # m
  PROVE  Month(a, m, now).resets + Month(m, b, now).resets = Month(a, b, now).resets
<1> DEFINE R1 == ResetIn(a, m, now)
           R2 == ResetIn(m, b, now)
           R == ResetIn(a, b, now)
<1>1. IsFiniteSet(R1) /\ IsFiniteSet(R2)
  <2>1. IsFiniteSet(DOMAIN cycles)
    BY LedgerTypes
  <2>2. R1 \subseteq DOMAIN cycles /\ R2 \subseteq DOMAIN cycles
    BY DEF ResetIn
  <2> QED BY ONLY <2>1, <2>2, FS_Subset
<1>2. ASSUME NEW c \in DOMAIN cycles
      PROVE  /\ c \in R <=> c \in R1 \/ c \in R2
             /\ ~(c \in R1 /\ c \in R2)
  <2> DEFINE s == cycles[c].started
             n == cycles[c].ended
             e == EndsAt(c, now)
             why == cycles[c].reason \in {"scheduled_reset", "early_reset"}
  <2>1. s \in Nat /\ n \in Nat /\ e \in Nat
    BY LedgerTypes
  <2>2. n # 0 => e = n
    BY DEF EndsAt
  <2>3. n # m
    OBVIOUS
  <2>4. e <= m => s < e
    BY DEF Settled
  <2>5. why => n # 0
    <3>1. Explained(cycles[c])
      BY InvSound DEF Sound
    <3> QED BY <3>1 DEF Explained
  <2> DEFINE In(from, before) == s < before /\ e > from /\ n >= from /\ n < before /\ why
  <2>6. /\ (c \in R1) <=> In(a, m)
        /\ (c \in R2) <=> In(m, b)
        /\ (c \in R) <=> In(a, b)
    BY DEF ResetIn, Meets
  <2> HIDE DEF R1, R2, R, s, n, e, why
  <2> QED BY <2>1, <2>2, <2>3, <2>4, <2>5, <2>6
<1>3. R = R1 \cup R2 /\ R1 \cap R2 = {}
  <2>1. R \subseteq DOMAIN cycles /\ R1 \subseteq DOMAIN cycles /\ R2 \subseteq DOMAIN cycles
    BY DEF ResetIn
  <2> HIDE DEF R, R1, R2
  <2> QED BY <1>2, <2>1
<1>4. /\ Month(a, m, now).resets = Cardinality(R1)
      /\ Month(m, b, now).resets = Cardinality(R2)
      /\ Month(a, b, now).resets = Cardinality(R)
  BY MonthFacts
<1> HIDE DEF R, R1, R2
<1>5. Cardinality(R) = Cardinality(R1) + Cardinality(R2) - Cardinality({})
  BY <1>1, <1>3, FS_Union
<1>6. Cardinality({}) = 0 /\ Cardinality(R1) \in Nat /\ Cardinality(R2) \in Nat
  BY <1>1, FS_EmptySet, FS_CardinalityType
<1> QED BY <1>4, <1>5, <1>6

\* A cycle that lasts over the end of a month is neither lost nor counted twice,
\* whatever resets and recoveries have moved between its cycles.
THEOREM ReportedMonthsAddUp == Spec => []MonthsAddUp
<1>1. IInv => MonthsAddUp
  <2> SUFFICES ASSUME IInv, NEW now \in Now, NEW a \in Times, NEW m \in Times, NEW b \in Times,
                      a < m, m < b,
                      \A c \in DOMAIN cycles : EndsAt(c, now) <= m => Settled(c, now)
               PROVE  LET month == [span \in Spans |-> Month(span[1], span[2], now)]
                          first == month[<<a, m>>]
                          second == month[<<m, b>>]
                          both == month[<<a, b>>]
                      IN /\ first.complete /\ second.complete /\ both.complete =>
                              first.consumed + second.consumed = both.consumed
                         /\ (\A c \in DOMAIN cycles : cycles[c].ended # m) =>
                              first.resets + second.resets = both.resets
    BY DEF MonthsAddUp
  <2> DEFINE month == [span \in Spans |-> Month(span[1], span[2], now)]
  <2>1. now \in Nat /\ a \in Nat /\ m \in Nat /\ b \in Nat
    BY MonthsAssumption DEF Now
  <2>2. /\ month[<<a, m>>] = Month(a, m, now)
        /\ month[<<m, b>>] = Month(m, b, now)
        /\ month[<<a, b>>] = Month(a, b, now)
    <3>1. <<a, m>> \in Spans /\ <<m, b>> \in Spans /\ <<a, b>> \in Spans
      BY <2>1 DEF Spans
    <3> QED BY <3>1
  <2> HIDE DEF month
  <2>3. ASSUME Month(a, m, now).complete, Month(m, b, now).complete, Month(a, b, now).complete
        PROVE  Month(a, m, now).consumed + Month(m, b, now).consumed = Month(a, b, now).consumed
    BY <2>1, <2>3, ConsumedAdds
  <2>4. ASSUME \A c \in DOMAIN cycles : cycles[c].ended # m
        PROVE  Month(a, m, now).resets + Month(m, b, now).resets = Month(a, b, now).resets
    BY <2>1, <2>4, ResetsAdd
  <2> QED BY <2>2, <2>3, <2>4 DEF month
<1> QED BY <1>1, Inductive, PTL
=============================================================================
