---------------------------- MODULE QuotaSegments ----------------------------
(***************************************************************************)
(* The quota segments of one account in the main scope                     *)
(* (quota_segments.go), beside the cycle ledger they are derived from: a   *)
(* segment lies between two successive crossings of an integer percent,    *)
(* and holds the requests that consumed the quota in between.              *)
(*                                                                         *)
(* insertEvent refreshes the segments of one key in its own transaction.   *)
(* A rebuild, once a day or when the database is opened, reads and writes  *)
(* them key by key while events are recorded.                              *)
(***************************************************************************)
EXTENDS QuotaCycles, TimeOrder

CONSTANTS
  Slack,         (* segmentResetSlack, 120 s                                    *)
  Gap,           (* segmentGapSeconds, 2 h                                      *)
  MaxRebuilds    (* bounds the daily rebuilds and the starts of the process     *)

ASSUME SegmentsAssumption == {Slack, Gap, MaxRebuilds} \subseteq Nat

Lags == 0..2

VARIABLES
  table,     (* quota_segments and quota_segment_progress: key -> rows, peak, last *)
  marker,    (* the metadata row quota_segments_v3 is "complete"                *)
  store,     (* "closed", "opening" (openStore is at work), "open"              *)
  job,       (* where rebuildAllQuotaSegments is                                *)
  todo,      (* current: the keys it has still to write                         *)
  stale,     (* stale: the keys it has still to remove                          *)
  prepared,  (* what it has prepared for the key it writes next                 *)
  rebuilds   (* the rebuilds and the starts so far                              *)

derived == <<table, marker, store, job, todo, stale, prepared, rebuilds>>

segVars == <<vars, derived>>

Nothing == [rows |-> {}, peak |-> -1, last |-> 0, max |-> 0]

\* A new database: openStore had nothing to rebuild and set the marker.
SegInit ==
  /\ Init
  /\ table = <<>> /\ marker = TRUE /\ store = "open"
  /\ job = "idle" /\ todo = {} /\ stale = {} /\ prepared = Nothing /\ rebuilds = 0

(***************************************************************************)
(* From events to segments.                                                *)
(***************************************************************************)
\* segmentSource: the events of a key are those of its cycle that show its reset,
\* those too whose headers told no percent.
InSource(k, e) == e.cycle = k.cycle /\ Distance(e.reset, k.reset) <= Slack

Source(d, k) == {i \in DOMAIN d.events : InSource(k, d.events[i])}

\* loadSegmentEvents: in the order of pointTime, then id.
Loaded(d, k) ==
  LET ids == InOrder([i \in Source(d, k) |-> d.events[i].observed])
      point(i) == [id |-> i, observed |-> d.events[i].observed, used |-> d.events[i].used,
                   reset |-> d.events[i].reset, told |-> d.events[i].quota,
                   failed |-> d.events[i].failed]
  IN [p \in DOMAIN ids |-> point(ids[p])]

\* An observation that buildQuotaSegments looks at.
Readable(e) == e.told /\ ~e.failed /\ e.used < Full

\* The positions that show a new integer percent.
Crossings(s) ==
  {p \in DOMAIN s : Readable(s[p]) /\ \A q \in 1..(p - 1) : Readable(s[q]) => s[q].used < s[p].used}

\* The requests that are charged with the segment from a to b.
Features(s, a, b, lag) == IF a + 1 - lag < 1 THEN {} ELSE (a + 1 - lag)..(b - lag)

Flags(s, a, b, lag) ==
  LET features == Features(s, a, b, lag)
      raised(flag, condition) == IF condition THEN {flag} ELSE {}
  IN UNION {
       raised("quota_drop", \E p \in (a + 1)..(b - 1) :
                              Readable(s[p]) /\ s[p].used + 1 < s[a].used),
       raised("long_gap", \E p \in (a + 1)..b : s[p].observed - s[p - 1].observed > Gap),
       raised("lag_incomplete", a + 1 - lag < 1),
       raised("failed_request", \E p \in features : s[p].failed),
       raised("regime_change", \E p \in features : Distance(s[p].reset, s[a].reset) > Slack)}

\* buildQuotaSegments: a row for every two successive crossings.
Built(s, lag) ==
  LET X == Crossings(s)
      row(a, b) ==
        [lag |-> lag, start |-> s[a].id, end |-> s[b].id, dp |-> s[b].used - s[a].used,
         features |-> {s[p].id : p \in Features(s, a, b, lag)}, flags |-> Flags(s, a, b, lag)]
  IN {row(c[1], c[2]) : c \in {c \in X \X X : c[1] < c[2] /\ ~\E x \in X : c[1] < x /\ x < c[2]}}

Greatest(N, default) == CHOOSE n \in N \cup {default} : \A m \in N \cup {default} : m <= n

\* segmentMaxEventID
LatestId(d, k) == Greatest(Source(d, k), 0)

\* prepareSegmentEvents
Prepared(d, k) ==
  LET s == Loaded(d, k) IN
  [rows |-> UNION {Built(s, lag) : lag \in Lags},
   peak |-> Greatest({s[p].used : p \in {p \in DOMAIN s : Readable(s[p])}}, -1),
   last |-> Greatest({s[p].observed : p \in DOMAIN s}, 0),
   max  |-> LatestId(d, k)]

Entry(p) == [rows |-> p.rows, peak |-> p.peak, last |-> p.last]

\* writePreparedSegmentEvents
Written(k, p) == [q \in DOMAIN table \cup {k} |-> IF q = k THEN Entry(p) ELSE table[q]]

\* The same with a prepared key that is not valid.
Removed(k) == [q \in DOMAIN table \ {k} |-> table[q]]

(***************************************************************************)
(* refreshSegmentsForEvent, in the transaction of insertEvent.             *)
(***************************************************************************)
\* segmentKeysForEvent
KeyOf(row) == [cycle |-> row.cycle, reset |-> row.reset]

\* The key that the event's reset belongs to: the nearest one there is.
Canonical(k) ==
  LET near == {p \in DOMAIN table : p.cycle = k.cycle /\ Distance(p.reset, k.reset) <= Slack}
  IN IF near = {} THEN {k}
     ELSE {p \in near : \A q \in near : Distance(p.reset, k.reset) <= Distance(q.reset, k.reset)}

NeedsRefresh(k, row) ==
  k \notin DOMAIN table \/ row.used > table[k].peak \/ row.observed < table[k].last

\* row is the event just inserted.
Refresh(row) ==
  \E k \in Canonical(KeyOf(row)) :
    table' = IF row.quota /\ row.used < Full /\ NeedsRefresh(k, row)
             THEN Written(k, Prepared(db', k)) ELSE table

Insert ==
  /\ store = "open"
  /\ Next
  /\ Refresh(events'[Last'])
  /\ UNCHANGED <<marker, store, job, todo, stale, prepared, rebuilds>>

(***************************************************************************)
(* rebuildAllQuotaSegments.                                                *)
(***************************************************************************)
Keys(d) == {KeyOf(d.events[i]) : i \in {i \in DOMAIN d.events : d.events[i].quota}}

\* clusteredSegmentKeys: the first reset of each cluster stands for it.
Clustered(K) ==
  CHOOSE kept \in SUBSET K : \A k \in K :
    k \in kept <=> ~\E p \in kept : /\ p.cycle = k.cycle /\ p.reset < k.reset
                                    /\ k.reset - p.reset <= Slack

\* The order in which they are written.
FirstKey(K) ==
  CHOOSE k \in K : \A q \in K \ {k} :
    k.cycle < q.cycle \/ (k.cycle = q.cycle /\ k.reset < q.reset)

ReadKeys == job' = "read_stale" /\ todo' = Clustered(Keys(db))

\* The cleanup ticker of the background loop.
DailyRebuild ==
  /\ store = "open" /\ job = "idle" /\ rebuilds < MaxRebuilds
  /\ ReadKeys /\ rebuilds' = rebuilds + 1
  /\ UNCHANGED <<vars, table, marker, store, stale, prepared>>

\* openStore: migrateSegments rebuilds unless the marker is there.
Open ==
  /\ store = "closed" /\ rebuilds < MaxRebuilds
  /\ rebuilds' = rebuilds + 1
  /\ IF marker THEN store' = "open" /\ UNCHANGED <<job, todo>>
     ELSE store' = "opening" /\ ReadKeys
  /\ UNCHANGED <<vars, table, marker, stale, prepared>>

\* Mutant: the keys that no event has any more are not looked for.
ReadStaleNone ==
  /\ job = "read_stale"
  /\ stale' = {} /\ job' = "clear"
  /\ UNCHANGED <<vars, table, marker, store, todo, prepared, rebuilds>>

\* In a statement of its own, after the one that reads the keys.
ReadStale ==
  /\ job = "read_stale"
  /\ stale' = DOMAIN table \ todo /\ job' = "clear"
  /\ UNCHANGED <<vars, table, marker, store, todo, prepared, rebuilds>>

ClearMarker ==
  /\ job = "clear"
  /\ marker' = FALSE /\ job' = "prepare"
  /\ UNCHANGED <<vars, table, store, todo, stale, prepared, rebuilds>>

\* prepareQuotaSegmentKey, in a read transaction of its own.
Prepare ==
  /\ job = "prepare" /\ todo # {}
  /\ prepared' = Prepared(db, FirstKey(todo)) /\ job' = "write"
  /\ UNCHANGED <<vars, table, marker, store, todo, stale, rebuilds>>

\* Mutant: what was prepared is written whatever was inserted since.
WriteAnyway ==
  /\ job = "write"
  /\ LET k == FirstKey(todo) IN table' = Written(k, prepared) /\ todo' = todo \ {k}
  /\ job' = "prepare" /\ prepared' = Nothing
  /\ UNCHANGED <<vars, marker, store, stale, rebuilds>>

\* writePreparedQuotaSegmentKey: not when a newer event of the key was inserted.
Write ==
  /\ job = "write"
  /\ LET k == FirstKey(todo) IN
     /\ table' = IF LatestId(db, k) = prepared.max THEN Written(k, prepared) ELSE table
     /\ todo' = todo \ {k}
  /\ job' = "prepare" /\ prepared' = Nothing
  /\ UNCHANGED <<vars, marker, store, stale, rebuilds>>

RemoveStale ==
  /\ job = "prepare" /\ todo = {}
  /\ \E k \in stale : table' = Removed(k) /\ stale' = stale \ {k}
  /\ UNCHANGED <<vars, marker, store, job, todo, prepared, rebuilds>>

SetMarker ==
  /\ job = "prepare" /\ todo = {} /\ stale = {}
  /\ marker' = TRUE /\ job' = "idle" /\ store' = "open"
  /\ UNCHANGED <<vars, table, todo, stale, prepared, rebuilds>>

\* A statement fails or its context is cancelled: the daily rebuild is over, a
\* store that was to be opened stays closed.
Abort ==
  /\ job # "idle"
  /\ store' = (IF store = "opening" THEN "closed" ELSE store)
  /\ job' = "idle" /\ todo' = {} /\ stale' = {} /\ prepared' = Nothing
  /\ UNCHANGED <<vars, table, marker, rebuilds>>

\* The process ends, or the store is replaced.
Stop ==
  /\ store # "closed"
  /\ store' = "closed"
  /\ job' = "idle" /\ todo' = {} /\ stale' = {} /\ prepared' = Nothing
  /\ UNCHANGED <<vars, table, marker, rebuilds>>

SegNext ==
  \/ Insert \/ DailyRebuild \/ Open \/ ReadStale \/ ClearMarker
  \/ Prepare \/ Write \/ RemoveStale \/ SetMarker \/ Abort \/ Stop

SegSpec == SegInit /\ [][SegNext]_segVars

-----------------------------------------------------------------------------

\* The entry t of key k holds what the events of k imply, and no crossing of a
\* percent was observed after its last time.
Agrees(t, d, k) ==
  LET p == Prepared(d, k)  s == Loaded(d, k) IN
  /\ t.rows = p.rows /\ t.peak = p.peak
  /\ \A c \in Crossings(s) : s[c].observed <= t.last

\* What was prepared for k is what its events imply, unless it will be dropped.
UpToDate(p, d, k) == LatestId(d, k) = p.max => p = Prepared(d, k)

Writing == IF job = "write" THEN {FirstKey(todo)} ELSE {}

Moves == \E i \in DOMAIN events : events'[i].cycle # events[i].cycle

\* An event that shows the whole quota or no percent, and was overtaken: it is a
\* feature of the segment it falls into, but it refreshes none.
OvertakenSilent ==
  /\ Len(events') > Len(events)
  /\ ~events'[Last'].quota \/ events'[Last'].used = Full
  /\ \E i \in DOMAIN events : events[i].observed > events'[Last'].observed

\* No other key of the cycle is near.
Alone(k, K) == \A q \in K \ {k} : q.cycle = k.cycle => Distance(q.reset, k.reset) > 2 * Slack

\* Segments that agree with the events of their key go on agreeing, however
\* events and the steps of a rebuild come between each other: an insertion
\* refreshes what it changes, and a rebuild does not put back what it prepared
\* before ("A concurrent insert rebuilt this key from newer events. Preserve it.").
\* What it has prepared is up to date, or is dropped.
\* Excepted are an insertion that moves events between cycles, a rebuild that has met
\* one, and an insertion that finds two keys in the table for the same events.
AgreementKept ==
  [][~Moves /\ ~OvertakenSilent =>
       /\ \A k \in Writing' : (k \in Writing => UpToDate(prepared, db, k)) =>
                               UpToDate(prepared', db', k)
       /\ \A k \in DOMAIN table \cap DOMAIN table' :
            /\ Alone(k, DOMAIN table) /\ Agrees(table[k], db, k)
            /\ k \in Writing => UpToDate(prepared, db, k)
            => Agrees(table'[k], db', k)]_<<events, table, prepared>>

\* A start that finds a rebuild unfinished leaves exactly the segments that the
\* events imply, for exactly the keys they have: nothing of an interrupted rebuild
\* or of a cycle that is gone is left.
OpenedAgrees ==
  [][store = "opening" /\ store' = "open" =>
       /\ DOMAIN table = Clustered(Keys(db))
       /\ \A k \in DOMAIN table : table[k] = Entry(Prepared(db, k))]_segVars

\* "Segments already belong to one cycle/reset regime": a segment is kept in the
\* cycle its last event belongs to.
RowsStayInCycle ==
  \A k \in DOMAIN table : \A r \in table[k].rows : events[r.end].cycle = k.cycle

=============================================================================
