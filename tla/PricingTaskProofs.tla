-------------------------- MODULE PricingTaskProofs --------------------------
(***************************************************************************)
(* Proofs about PricingTask: whatever usage, failures, quiesces and        *)
(* crashes come between the batches of a task, a sample is the sum of the  *)
(* costs of its events, a task that fails leaves the history it found, and *)
(* one that succeeds leaves none of it behind.                             *)
(***************************************************************************)
EXTENDS PricingTask, SequenceTheorems, TLAPS

(***************************************************************************)
(* The parts of the inductive invariant.                                   *)
(***************************************************************************)
Event == [basis : Settings, at : Times, cycle : Cycles]

\* A cost: the bases of the events it sums.
Costs == UNION {[I -> Settings] : I \in SUBSET (Nat \ {0})}

Sample == [at : Times, cycle : Cycles, value : Costs]

Labels == {"none", "queued", "snapshot", "events", "samples", "catch_up", "succeeded",
           "restore_events", "restore_late", "restore_samples", "restore_fresh", "abort",
           "half_restored"}

TypesOK ==
  /\ up \in BOOLEAN /\ cfg \in Settings /\ saved \in Settings \cup {None}
  /\ mark \in {"no_formula", "old_mode", "applied"}
  /\ events \in Seq(Event) /\ samples \in Seq(Sample)
  /\ conf \in {"none", "checked", "loaded", "sealed", "migrate"} /\ confCfg \in Settings
  /\ migrated \in BOOLEAN
  /\ task \in Labels /\ live \in BOOLEAN
  /\ target \in Settings /\ previous \in Settings
  /\ plan \in [basis : Seq(Settings), samples : Seq(Sample)]
  /\ next \in Nat /\ todo \subseteq Cycles /\ wrote \in BOOLEAN
  /\ DOMAIN values \subseteq Nat \ {0} /\ \A k \in DOMAIN values : values[k] \in Costs
  /\ outcome \in {"none", "succeeded", "failed", "half_restored"} /\ tasks \in Nat
  /\ before \in Seq(Settings) /\ intact \in BOOLEAN
  /\ late \in Seq([at : Times, cycle : Cycles])
  /\ behind \subseteq {"loaded", "active", "history"}

\* A task that has not begun to switch back.
Forward == {"queued", "snapshot", "events", "samples", "catch_up", "succeeded"}

Restoring == {"restore_events", "restore_late", "restore_samples", "restore_fresh"}

\* Which settings price new events, and which are saved.
SettingsOK ==
  /\ ~Active /\ up /\ "active" \notin behind => cfg = Effective
  /\ task \in Forward => cfg = target
  /\ Active /\ task # "succeeded" /\ "active" \notin behind => previous = Effective
  /\ task = "succeeded" => saved = target /\ "active" \notin behind
  /\ up /\ (task \in Restoring \/ (task = "abort" /\ wrote)) => cfg = previous
  /\ conf \in {"loaded", "sealed"} /\ "loaded" \notin behind => confCfg = Effective
  /\ conf = "sealed" => ~up
  /\ conf = "migrate" => up
  /\ "active" \in behind => "history" \in behind
  /\ task \in {"none", "queued", "snapshot"} => ~wrote
  /\ task \in Restoring => wrote

\* The positions of b that the sequence a has, too, are as they are in a.
Extends(a, b) == \A i \in DOMAIN a : i \in DOMAIN b /\ b[i] = a[i]

\* A task that has its snapshot and has not come to its end.
Planned == {"events", "samples", "catch_up"} \cup Restoring

\* The costs b of the events, while a task is under way.
HistoryOK(b) ==
  /\ task \in {"queued", "snapshot", "abort"} => Extends(before, b)
  /\ task \in Planned => Extends(before, plan.basis) /\ DOMAIN plan.basis \subseteq DOMAIN b
  /\ task \in Planned /\ ~wrote => Extends(plan.basis, b)
  /\ task = "events" =>
       /\ \A i \in DOMAIN plan.basis : i < next => b[i] = target
       /\ \A i \in DOMAIN b \ DOMAIN plan.basis : b[i] = target
  /\ task \in {"samples", "catch_up", "succeeded"} => \A i \in DOMAIN b : b[i] = target
  /\ task = "restore_events" =>
       \A i \in DOMAIN plan.basis : i < next => b[i] = plan.basis[i]
  /\ task = "restore_late" =>
       /\ Extends(plan.basis, b)
       /\ Len(plan.basis) < next /\ Len(plan.basis) + Len(late) <= Len(b)
       /\ \A i \in DOMAIN b \ DOMAIN plan.basis :
            i < next \/ i > Len(plan.basis) + Len(late) => b[i] = previous
  /\ task \in {"restore_samples", "restore_fresh"} => Extends(plan.basis, b)
  /\ task \in {"restore_samples", "restore_fresh"} \/ (task = "abort" /\ wrote) =>
       \A i \in DOMAIN b \ DOMAIN plan.basis : b[i] = previous
  /\ outcome = "succeeded" =>
       /\ ~Active /\ saved # None
       /\ "history" \notin behind => \A i \in DOMAIN b : b[i] = saved

\* The sample k is the sum of the costs b, or is about to become it: its cycle is
\* still to be read, or was read and is still to be written.
Agrees(k, b) == Extends(samples[k].value, b)

Coming(k, b) == samples[k].cycle \in todo \/ k \in DOMAIN values \/ Agrees(k, b)

Snapped == DOMAIN plan.samples

\* The cycles of the samples smps after the snapshot: the catch-up pass reads them.
FreshCycles(smps) == {smps[k].cycle : k \in DOMAIN smps \ Snapped}

\* The samples, while a task is under way.
SamplesOK(b) ==
  /\ \A k \in DOMAIN samples : DOMAIN samples[k].value \subseteq DOMAIN b
  /\ \A k \in DOMAIN values : DOMAIN values[k] \subseteq DOMAIN b
  /\ task \in Planned =>
       /\ Snapped \subseteq DOMAIN samples
       /\ \A k \in Snapped : DOMAIN plan.samples[k].value \subseteq DOMAIN plan.basis
  /\ intact /\ ~wrote => \A k \in DOMAIN samples : Agrees(k, b)
  /\ task \in Planned /\ intact =>
       \A k \in Snapped : Extends(plan.samples[k].value, plan.basis)
  /\ task = "events" =>
       values = <<>> /\ \A k \in DOMAIN samples : samples[k].cycle \in todo \cup FreshCycles(samples)
  /\ task \in {"samples", "catch_up"} \/ (task \in {"restore_samples", "restore_fresh"} /\ intact) =>
       \A k \in DOMAIN values : Extends(values[k], b)
  /\ task = "samples" =>
       \A k \in Snapped : Coming(k, b) \/ samples[k].cycle \in FreshCycles(samples)
  /\ task = "catch_up" => \A k \in DOMAIN samples : Coming(k, b)
  /\ task = "restore_samples" /\ intact =>
       \A k \in Snapped : k \in DOMAIN values \/ Agrees(k, b)
  /\ task = "restore_fresh" /\ intact =>
       /\ \A k \in Snapped : Agrees(k, b)
       /\ \A k \in DOMAIN samples : Coming(k, b)
  /\ task = "succeeded" \/ (task = "abort" /\ intact) =>
       \A k \in DOMAIN samples : Agrees(k, b)

History == HistoryOK(Bases(events))

Sums == SamplesOK(Bases(events))

IInv == TypesOK /\ SettingsOK /\ History /\ Sums

(***************************************************************************)
(* Sequences, and the costs of a sequence of events.                       *)
(***************************************************************************)

\* A function on 1..n is a sequence.
LEMMA FunctionIsSeq ==
  ASSUME NEW T, NEW n \in Nat, NEW f \in [1..n -> T]
  PROVE  f \in Seq(T) /\ Len(f) = n /\ DOMAIN f = 1..n
<1>1. f \in UNION {[1..m -> T] : m \in Nat}
  OBVIOUS
<1>2. f \in Seq(T)
  BY <1>1, SeqDef
<1>3. DOMAIN f = 1..Len(f) /\ Len(f) \in Nat
  BY <1>2, LenProperties
<1> QED BY <1>2, <1>3

\* What is known of a sequence by its type.
LEMMA SeqFacts ==
  ASSUME NEW T, NEW s \in Seq(T)
  PROVE  /\ Len(s) \in Nat /\ DOMAIN s = 1..Len(s)
         /\ \A i \in DOMAIN s : s[i] \in T /\ i \in Nat \ {0}
BY LenProperties

\* The costs of events, one by one.
LEMMA BasesFacts ==
  ASSUME NEW evs \in Seq(Event)
  PROVE  /\ Bases(evs) \in Seq(Settings) /\ Len(Bases(evs)) = Len(evs)
         /\ DOMAIN Bases(evs) = DOMAIN evs
         /\ \A i \in DOMAIN evs : Bases(evs)[i] = evs[i].basis
<1>1. /\ Len(evs) \in Nat /\ DOMAIN evs = 1..Len(evs)
      /\ \A i \in DOMAIN evs : evs[i] \in Event
  BY SeqFacts
<1>2. Bases(evs) \in [1..Len(evs) -> Settings]
  BY <1>1 DEF Bases, Event
<1> QED BY <1>1, <1>2, FunctionIsSeq DEF Bases

\* A cost is computed from the events there are, and agrees with them.
LEMMA CostFacts ==
  ASSUME NEW evs \in Seq(Event), NEW c, NEW t
  PROVE  /\ CostUntil(evs, c, t) \in Costs
         /\ Extends(CostUntil(evs, c, t), Bases(evs))
<1>1. /\ DOMAIN evs \subseteq Nat \ {0}
      /\ \A i \in DOMAIN evs : evs[i] \in Event
  BY SeqFacts
<1> DEFINE I == {i \in DOMAIN evs : evs[i].cycle = c /\ evs[i].at <= t}
<1>2. CostUntil(evs, c, t) = [i \in I |-> evs[i].basis]
  BY DEF CostUntil
<1>3. CostUntil(evs, c, t) \in [I -> Settings]
  BY <1>1, <1>2 DEF Event
<1>4. I \in SUBSET (Nat \ {0})
  BY <1>1
<1>5. CostUntil(evs, c, t) \in Costs
  BY <1>3, <1>4 DEF Costs
<1>6. Extends(CostUntil(evs, c, t), Bases(evs))
  BY <1>2, BasesFacts DEF Extends
<1> QED BY <1>5, <1>6

\* Events appended do not change the costs of those before.
LEMMA BasesAppend ==
  ASSUME NEW evs \in Seq(Event), NEW e \in Event
  PROVE  /\ Append(evs, e) \in Seq(Event)
         /\ DOMAIN Bases(Append(evs, e)) = DOMAIN Bases(evs) \cup {Len(evs) + 1}
         /\ Len(evs) + 1 \notin DOMAIN Bases(evs)
         /\ Extends(Bases(evs), Bases(Append(evs, e)))
         /\ Bases(Append(evs, e))[Len(evs) + 1] = e.basis
<1> DEFINE new == Append(evs, e)
<1>1. /\ new \in Seq(Event) /\ Len(new) = Len(evs) + 1
      /\ \A i \in 1..Len(evs) : new[i] = evs[i]
      /\ new[Len(evs) + 1] = e
  BY AppendProperties
<1>2. Len(evs) \in Nat /\ DOMAIN evs = 1..Len(evs) /\ DOMAIN new = 1..Len(new)
  BY <1>1, SeqFacts
<1>3. DOMAIN Bases(evs) = 1..Len(evs) /\ DOMAIN Bases(new) = 1..(Len(evs) + 1)
  BY <1>1, <1>2, BasesFacts
<1>4. /\ \A i \in 1..(Len(evs) + 1) : Bases(new)[i] = new[i].basis
      /\ \A i \in 1..Len(evs) : Bases(evs)[i] = evs[i].basis
  BY <1>1, <1>2, BasesFacts
<1> QED BY <1>1, <1>2, <1>3, <1>4 DEF Extends

\* Events that are rewritten in place.
LEMMA BasesRewritten ==
  ASSUME NEW evs \in Seq(Event), NEW new \in [DOMAIN evs -> Event]
  PROVE  /\ new \in Seq(Event) /\ DOMAIN Bases(new) = DOMAIN Bases(evs)
         /\ DOMAIN Bases(evs) = DOMAIN evs
         /\ \A i \in DOMAIN evs : Bases(new)[i] = new[i].basis /\ Bases(evs)[i] = evs[i].basis
<1>1. Len(evs) \in Nat /\ DOMAIN evs = 1..Len(evs)
  BY SeqFacts
<1>2. new \in Seq(Event) /\ DOMAIN new = DOMAIN evs
  BY <1>1, FunctionIsSeq
<1> QED BY <1>2, BasesFacts

\* Costs that agree with a history agree with one that extends it.
LEMMA ExtendsTransitive ==
  ASSUME NEW a, NEW b, NEW c, Extends(a, b), Extends(b, c)
  PROVE  Extends(a, c)
BY DEF Extends

(***************************************************************************)
(* Every step keeps the invariant.                                         *)
(***************************************************************************)

\* The shape of the state that TypesOK gives.
LEMMA Shapes ==
  ASSUME TypesOK
  PROVE  /\ Bases(events) \in Seq(Settings) /\ DOMAIN Bases(events) = DOMAIN events
         /\ Len(events) \in Nat /\ DOMAIN events = 1..Len(events)
         /\ \A i \in DOMAIN events : events[i] \in Event
         /\ Len(samples) \in Nat /\ DOMAIN samples = 1..Len(samples)
         /\ \A k \in DOMAIN samples : samples[k] \in Sample
         /\ Len(plan.basis) \in Nat /\ DOMAIN plan.basis = 1..Len(plan.basis)
         /\ \A i \in DOMAIN plan.basis : plan.basis[i] \in Settings
         /\ Len(plan.samples) \in Nat /\ DOMAIN plan.samples = 1..Len(plan.samples)
         /\ \A k \in DOMAIN plan.samples : plan.samples[k] \in Sample
BY SeqFacts, BasesFacts DEF TypesOK

\* The empty database, and that of an older version.
LEMMA InitInv == Init => IInv
<1> SUFFICES ASSUME Init PROVE IInv
  OBVIOUS
<1>1. \A S : <<>> \in Seq(S) /\ DOMAIN <<>> = {}
  BY EmptySeq
<1>2. PICK n \in 0 .. MaxEvents : \E at \in [1 .. n -> Times], cycle \in [1 .. n -> Cycles] :
        /\ events = [i \in 1 .. n |-> [basis |-> Legacy, at |-> at[i], cycle |-> cycle[i]]]
        /\ samples = [i \in 1 .. n |-> [at |-> at[i], cycle |-> cycle[i],
                                       value |-> CostUntil(events, cycle[i], at[i])]]
  BY DEF Init
<1>3. PICK at \in [1 .. n -> Times], cycle \in [1 .. n -> Cycles] :
        /\ events = [i \in 1 .. n |-> [basis |-> Legacy, at |-> at[i], cycle |-> cycle[i]]]
        /\ samples = [i \in 1 .. n |-> [at |-> at[i], cycle |-> cycle[i],
                                       value |-> CostUntil(events, cycle[i], at[i])]]
  BY <1>2
<1>4. n \in Nat
  BY ConstantsAssumption
<1>5. events \in Seq(Event)
  <2>1. events \in [1 .. n -> Event]
    BY <1>3, ConstantsAssumption DEF Event
  <2> QED BY <1>4, <2>1, FunctionIsSeq
<1>6. \A c, t : CostUntil(events, c, t) \in Costs /\ Extends(CostUntil(events, c, t), Bases(events))
  BY <1>5, CostFacts
<1>7. samples \in Seq(Sample)
  <2>1. samples \in [1 .. n -> Sample]
    BY <1>3, <1>6 DEF Sample
  <2> QED BY <1>4, <2>1, FunctionIsSeq
<1>8. \A k \in DOMAIN samples : Agrees(k, Bases(events))
  BY <1>3, <1>6 DEF Agrees
<1>9. /\ up = FALSE /\ cfg = Default /\ saved \in Settings \cup {None}
      /\ mark \in {"no_formula", "old_mode"} /\ conf = "none" /\ confCfg = Default
      /\ migrated = FALSE /\ task = "none" /\ live = FALSE /\ target = Default
      /\ previous = Default /\ plan = Empty /\ next = 1 /\ todo = {} /\ values = <<>>
      /\ late = <<>> /\ wrote = FALSE /\ before = <<>> /\ outcome = "none" /\ tasks = 0
      /\ intact = TRUE /\ behind = {}
  BY DEF Init
<1>10. TypesOK
  BY <1>1, <1>5, <1>7, <1>9, ConstantsAssumption DEF TypesOK, Labels, Empty
<1>11. SettingsOK
  BY <1>9 DEF SettingsOK, Active, Effective, Forward, Restoring
<1>12. History
  BY <1>9 DEF History, HistoryOK, Planned, Restoring
<1>13. Sums
  <2>1. DOMAIN values = {}
    BY <1>1, <1>9
  <2>2. \A k \in DOMAIN samples : DOMAIN samples[k].value \subseteq DOMAIN Bases(events)
    BY <1>8 DEF Agrees, Extends
  <2> QED BY <1>8, <1>9, <2>1, <2>2 DEF Sums, SamplesOK, Planned, Restoring
<1> QED BY <1>10, <1>11, <1>12, <1>13 DEF IInv

LEMMA RecordedInv ==
  ASSUME IInv, NEW t \in Times, NEW c \in Cycles, NEW sampled \in BOOLEAN,
         NEW evs \in [DOMAIN events -> Event], NEW smps \in [DOMAIN samples -> Sample],
         \A i \in DOMAIN events : evs[i].basis = events[i].basis,
         \A k \in DOMAIN samples :
           smps[k] = samples[k] \/ Extends(smps[k].value, Bases(events)),
         \A j, k \in DOMAIN samples :
           samples[j].cycle = samples[k].cycle => smps[j].cycle = smps[k].cycle,
         \A k \in DOMAIN samples : \E j \in DOMAIN samples :
           smps[k].cycle = samples[j].cycle /\ smps[j].cycle = samples[j].cycle,
         Recorded(evs, smps, t, c, sampled)
  PROVE  IInv'
<1> DEFINE e == [basis |-> cfg, at |-> t, cycle |-> c]
           old == Bases(events)
           new == Bases(events')
           s == [at |-> t, cycle |-> c, value |-> CostUntil(events', c, t)]
<1>1. TypesOK /\ SettingsOK /\ HistoryOK(old) /\ SamplesOK(old)
  BY DEF IInv, History, Sums
<1>2. /\ up /\ events' = Append(evs, e)
      /\ samples' = IF sampled THEN Append(smps, s) ELSE smps
      /\ UNCHANGED <<config, saved, mark, task, live, locals, ends>>
  BY DEF Recorded
<1>3. e \in Event
  BY <1>1 DEF TypesOK, Event
<1>11. evs \in Seq(Event) /\ Len(evs) = Len(events) /\ Bases(evs) = old
  <2>1. events \in Seq(Event) /\ Len(events) \in Nat /\ DOMAIN events = 1 .. Len(events)
    BY <1>1, SeqFacts DEF TypesOK
  <2>2. evs \in Seq(Event) /\ Len(evs) = Len(events)
    BY <2>1, FunctionIsSeq
  <2>3. DOMAIN evs = DOMAIN events
    OBVIOUS
  <2> QED BY <2>2, <2>3 DEF Bases
<1>12. smps \in Seq(Sample) /\ Len(smps) = Len(samples) /\ DOMAIN smps = DOMAIN samples
  <2>1. samples \in Seq(Sample) /\ Len(samples) \in Nat /\ DOMAIN samples = 1 .. Len(samples)
    BY <1>1, SeqFacts DEF TypesOK
  <2> QED BY <2>1, FunctionIsSeq
<1>4. /\ events' \in Seq(Event)
      /\ DOMAIN new = DOMAIN old \cup {Len(events) + 1} /\ Len(events) + 1 \notin DOMAIN old
      /\ Extends(old, new) /\ new[Len(events) + 1] = cfg
  BY <1>1, <1>2, <1>3, <1>11, BasesAppend
<1>13. /\ Len(old) = Len(events) /\ Len(new) = Len(events) + 1 /\ Len(events) \in Nat
       /\ DOMAIN old = 1 .. Len(events)
  <2>1. events \in Seq(Event) /\ Len(events) \in Nat
    BY <1>1, SeqFacts DEF TypesOK
  <2>2. Len(events') = Len(events) + 1
    BY <1>2, <1>3, <1>11, AppendProperties
  <2> QED BY <1>4, <2>1, <2>2, BasesFacts, SeqFacts
<1>5. s \in Sample /\ Extends(s.value, new)
  BY <1>4, CostFacts DEF Sample
<1>6. /\ samples' \in Seq(Sample) /\ DOMAIN samples \subseteq DOMAIN samples'
      /\ \A k \in DOMAIN samples : samples'[k] = smps[k]
      /\ \A k \in DOMAIN samples' \ DOMAIN samples : samples'[k] = s
  <2>1. CASE sampled
    <3>1. /\ samples' \in Seq(Sample) /\ Len(samples') = Len(smps) + 1
          /\ \A k \in 1..Len(smps) : samples'[k] = smps[k]
          /\ samples'[Len(smps) + 1] = s
      BY <1>2, <1>5, <1>12, <2>1, AppendProperties
    <3>2. /\ DOMAIN samples' = 1..Len(samples') /\ DOMAIN smps = 1..Len(smps)
          /\ Len(smps) \in Nat
      BY <1>12, <3>1, SeqFacts
    <3> QED BY <1>12, <3>1, <3>2
  <2>2. CASE ~sampled
    BY <1>2, <1>12, <2>2
  <2> QED BY <2>1, <2>2
<1>7. TypesOK'
  BY <1>1, <1>2, <1>4, <1>6 DEF TypesOK, config, locals, ends
<1>8. SettingsOK'
  BY <1>1, <1>2 DEF SettingsOK, Active, Effective, config, locals, ends
<1>9. HistoryOK(old)'
  <2> USE <1>1, <1>2 DEF config, locals, ends
  <2>1. \A a : Extends(a, old) => Extends(a, new)
    BY <1>4, ExtendsTransitive
  <2>2. \A i \in DOMAIN old : i \in DOMAIN new /\ new[i] = old[i]
    BY <1>4 DEF Extends
  <2>3. \A i \in DOMAIN new \ DOMAIN old : new[i] = cfg
    BY <1>4
  <2>4. task \in Forward => cfg = target
    BY DEF SettingsOK
  <2>5. task \in Restoring \/ (task = "abort" /\ wrote) => cfg = previous
    BY DEF SettingsOK
  <2>6. outcome = "succeeded" /\ "history" \notin behind => cfg = saved
    BY DEF SettingsOK, HistoryOK, Effective
  <2>7. Len(plan.basis) + Len(late) <= Len(old) => Len(plan.basis) + Len(late) <= Len(new)
    <3>1. Len(plan.basis) \in Nat /\ Len(late) \in Nat
      BY SeqFacts DEF TypesOK
    <3> QED BY <3>1, <1>13
  <2> HIDE DEF old, new
  <2>8. UNCHANGED <<task, before, plan, wrote, next, target, previous, late, outcome, saved, behind>>
    OBVIOUS
  <2> HIDE <1>2
  <2>9. (task = "restore_late" =>
          /\ Extends(plan.basis, new)
          /\ Len(plan.basis) < next /\ Len(plan.basis) + Len(late) <= Len(new)
          /\ \A i \in DOMAIN new \ DOMAIN plan.basis :
               i < next \/ i > Len(plan.basis) + Len(late) => new[i] = previous)
    BY <2>1, <2>2, <2>3, <2>5, <2>7 DEF HistoryOK, Restoring
  <2> QED BY <2>1, <2>2, <2>3, <2>4, <2>5, <2>6, <2>8, <2>9
          DEF HistoryOK, Forward, Planned, Restoring, Active, old, new
<1>10. SamplesOK(old)'
  <2> USE <1>1
  <2>0. UNCHANGED <<task, plan, todo, values, wrote, intact, Snapped>>
    BY <1>2 DEF locals, ends, Snapped
  <2>1. \A a : Extends(a, old) => Extends(a, new)
    BY <1>4, ExtendsTransitive
  <2>2. \A k \in DOMAIN samples : Agrees(k, old) => Agrees(k, old)'
    BY <1>6, <2>1 DEF Agrees
  <2>3. \A k \in DOMAIN samples : Coming(k, old) => Coming(k, old)'
    <3> SUFFICES ASSUME NEW k \in DOMAIN samples, Coming(k, old), ~Agrees(k, old)'
                 PROVE  Coming(k, old)'
      BY DEF Coming
    <3>1. samples'[k] = samples[k]
      BY <1>6, <2>1 DEF Agrees
    <3> QED BY <2>0, <2>2, <3>1 DEF Coming
  <2>4. \A k \in DOMAIN samples' \ DOMAIN samples : Agrees(k, old)' /\ Coming(k, old)'
    BY <1>5, <1>6 DEF Agrees, Coming
  <2>5. \A k \in DOMAIN samples' : DOMAIN samples'[k].value \subseteq DOMAIN new
    <3>1. \A k \in DOMAIN samples : DOMAIN smps[k].value \subseteq DOMAIN old
      BY DEF SamplesOK, Extends
    <3> QED BY <1>4, <1>5, <1>6, <3>1 DEF Extends
  <2>6. \A k \in DOMAIN values : DOMAIN values[k] \subseteq DOMAIN new
    BY <1>4 DEF SamplesOK
  <2>7. ASSUME NEW k \in DOMAIN samples, samples[k].cycle \in FreshCycles(samples)
        PROVE  smps[k].cycle \in FreshCycles(samples')
    <3>1. PICK m \in DOMAIN samples \ Snapped : samples[m].cycle = samples[k].cycle
      BY <2>7 DEF FreshCycles
    <3>2. samples'[m].cycle = smps[k].cycle /\ m \in DOMAIN samples' \ Snapped
      BY <1>6, <3>1
    <3> QED BY <3>2 DEF FreshCycles
  <2>8. task = "events" =>
          \A k \in DOMAIN samples' : samples'[k].cycle \in todo \cup FreshCycles(samples')
    <3> SUFFICES ASSUME task = "events", NEW k \in DOMAIN samples'
                 PROVE  samples'[k].cycle \in todo \cup FreshCycles(samples')
      OBVIOUS
    <3>1. CASE k \in DOMAIN samples
      <4>1. PICK j \in DOMAIN samples :
              smps[k].cycle = samples[j].cycle /\ smps[j].cycle = samples[j].cycle
        BY <3>1
      <4>2. samples[j].cycle \in todo \/ samples[j].cycle \in FreshCycles(samples)
        BY DEF SamplesOK
      <4>3. smps[k].cycle \in todo \/ smps[k].cycle \in FreshCycles(samples')
        BY <2>7, <4>1, <4>2
      <4> QED BY <1>6, <3>1, <4>3
    <3>2. CASE k \notin DOMAIN samples
      <4>1. k \notin Snapped
        BY <3>2 DEF SamplesOK, Planned
      <4> QED BY <4>1 DEF FreshCycles
    <3> QED BY <3>1, <3>2
  <2>9. ASSUME task = "samples", NEW k \in Snapped
        PROVE  Coming(k, old)' \/ samples'[k].cycle \in FreshCycles(samples')
    <3>1. k \in DOMAIN samples
      BY <2>9 DEF SamplesOK, Planned
    <3>2. CASE Coming(k, old)
      BY <2>3, <3>1, <3>2
    <3>3. CASE samples[k].cycle \in FreshCycles(samples)
      BY <1>6, <2>7, <3>1, <3>3
    <3> QED BY <2>9, <3>2, <3>3 DEF SamplesOK
  <2>10. FreshCycles(samples)' = FreshCycles(samples')
    BY <2>0 DEF FreshCycles
  <2> HIDE DEF old, new, s
  <2> QED BY <1>6, <2>0, <2>1, <2>2, <2>3, <2>4, <2>5, <2>6, <2>8, <2>9, <2>10
          DEF SamplesOK, Planned, Restoring, old, new
<1> QED BY <1>7, <1>8, <1>9, <1>10 DEF IInv, History, Sums

\* Events that go to another cycle keep their costs.
LEMMA MovedEvents ==
  ASSUME TypesOK, NEW M, NEW to \in Cycles
  PROVE  LET evs == [i \in DOMAIN events |->
                       IF i \in M THEN [events[i] EXCEPT !.cycle = to] ELSE events[i]]
         IN  /\ evs \in [DOMAIN events -> Event]
             /\ \A i \in DOMAIN events : evs[i].basis = events[i].basis
BY Shapes DEF Event

LEMMA RecordUsageInv ==
  ASSUME IInv, NEW t \in Times, NEW c \in Cycles, NEW sampled \in BOOLEAN,
         RecordUsage(t, c, sampled)
  PROVE  IInv'
<1>1. /\ events \in [DOMAIN events -> Event] /\ samples \in [DOMAIN samples -> Sample]
  BY LenProperties DEF IInv, TypesOK
<1>2. Recorded(events, samples, t, c, sampled)
  BY DEF RecordUsage
<1> QED BY <1>1, <1>2, RecordedInv

LEMMA RecordResetInv ==
  ASSUME IInv, NEW t \in Times, NEW from \in Cycles, NEW to \in Cycles, NEW since \in Times,
         RecordReset(t, from, to, since)
  PROVE  IInv'
<1> DEFINE M == {i \in DOMAIN events : events[i].cycle = from /\ events[i].at >= since}
           evs == [i \in DOMAIN events |->
                     IF i \in M THEN [events[i] EXCEPT !.cycle = to] ELSE events[i]]
<1>1. Recorded(evs, samples, t, to, TRUE)
  <2>1. evs = [i \in DOMAIN events |->
                 IF events[i].cycle = from /\ events[i].at >= since
                 THEN [events[i] EXCEPT !.cycle = to] ELSE events[i]]
    OBVIOUS
  <2> QED BY <2>1 DEF RecordReset
<1>2. evs \in [DOMAIN events -> Event] /\ \A i \in DOMAIN events : evs[i].basis = events[i].basis
  <2>1. TypesOK
    BY DEF IInv
  <2> HIDE DEF M
  <2> QED BY <2>1, MovedEvents
<1>3. samples \in [DOMAIN samples -> Sample]
  BY LenProperties DEF IInv, TypesOK
<1> HIDE DEF evs
<1> QED BY <1>1, <1>2, <1>3, RecordedInv

LEMMA RecordRecoveryInv ==
  ASSUME IInv, NEW t \in Times, NEW from \in Cycles, NEW to \in Cycles,
         RecordRecovery(t, from, to)
  PROVE  IInv'
<1> DEFINE M == {i \in DOMAIN events : events[i].cycle = from}
           evs == [i \in DOMAIN events |->
                     IF i \in M THEN [events[i] EXCEPT !.cycle = to] ELSE events[i]]
           back == [k \in DOMAIN samples |->
                 IF samples[k].cycle \in {from, to}
                 THEN [samples[k] EXCEPT !.cycle = to, !.value = CostUntil(evs, to, samples[k].at)]
                 ELSE samples[k]]
<1>1. Recorded(evs, back, t, to, TRUE) /\ In(samples, to) # {}
  <2>1. evs = [i \in DOMAIN events |->
                 IF events[i].cycle = from THEN [events[i] EXCEPT !.cycle = to] ELSE events[i]]
    OBVIOUS
  <2> QED BY <2>1 DEF RecordRecovery
<1>2. evs \in [DOMAIN events -> Event] /\ \A i \in DOMAIN events : evs[i].basis = events[i].basis
  <2>1. TypesOK
    BY DEF IInv
  <2> HIDE DEF M
  <2> QED BY <2>1, MovedEvents
<1>3. samples \in [DOMAIN samples -> Sample]
  BY LenProperties DEF IInv, TypesOK
<1>4. evs \in Seq(Event) /\ Bases(evs) = Bases(events)
  <2>1. events \in Seq(Event) /\ Len(events) \in Nat /\ DOMAIN events = 1 .. Len(events)
    BY SeqFacts DEF IInv, TypesOK
  <2>2. evs \in Seq(Event)
    BY <1>2, <2>1, FunctionIsSeq
  <2>3. DOMAIN evs = DOMAIN events
    BY <1>2
  <2> QED BY <1>2, <2>2, <2>3 DEF Bases
<1>5. \A u : CostUntil(evs, to, u) \in Costs /\ Extends(CostUntil(evs, to, u), Bases(events))
  BY <1>4, CostFacts
<1> HIDE DEF evs
<1>6. back \in [DOMAIN samples -> Sample]
  BY <1>3, <1>5 DEF Sample
<1>7. \A k \in DOMAIN samples :
        back[k] = samples[k] \/ Extends(back[k].value, Bases(events))
  BY <1>3, <1>5 DEF Sample
<1>8. \A k \in DOMAIN samples :
        back[k].cycle = IF samples[k].cycle \in {from, to} THEN to ELSE samples[k].cycle
  BY <1>3 DEF Sample
<1>9. PICK m \in DOMAIN samples : samples[m].cycle = to
  BY <1>1 DEF In
<1> HIDE DEF back
<1>10. \A k \in DOMAIN samples : \E j \in DOMAIN samples :
         back[k].cycle = samples[j].cycle /\ back[j].cycle = samples[j].cycle
  BY <1>8, <1>9
<1>11. \A j, k \in DOMAIN samples :
         samples[j].cycle = samples[k].cycle => back[j].cycle = back[k].cycle
  BY <1>8
<1> QED BY <1>1, <1>2, <1>6, <1>7, <1>10, <1>11, RecordedInv

\* A task starts from the settings that are saved.
LEMMA SavePricingSettingsInv ==
  ASSUME IInv, NEW settings \in Settings, SavePricingSettings(settings)
  PROVE  IInv'
<1>1. TypesOK /\ SettingsOK /\ HistoryOK(Bases(events)) /\ SamplesOK(Bases(events))
  BY DEF IInv, History, Sums
<1> USE <1>1 DEF SavePricingSettings, config, db, locals, ends, StartTask
<1>2. TypesOK'
  BY Shapes DEF TypesOK, Labels, Effective
<1>3. SettingsOK'
  BY DEF SettingsOK, Active, Effective, Forward, Restoring
<1>4. HistoryOK(Bases(events))'
  BY DEF HistoryOK, SettingsOK, Active, Extends, Planned, Restoring, Forward
<1>5. SamplesOK(Bases(events))'
  BY DEF SamplesOK, SettingsOK, Agrees, Coming, Snapped, FreshCycles, Active, Planned, Restoring, Forward
<1> QED BY <1>2, <1>3, <1>4, <1>5 DEF IInv, History, Sums

\* The fit of another reference is computed, or fails.
LEMMA TaskFitInv ==
  ASSUME IInv, TaskFit
  PROVE  IInv'
<1>1. TypesOK /\ SettingsOK /\ HistoryOK(Bases(events)) /\ SamplesOK(Bases(events))
  BY DEF IInv, History, Sums
<1> USE <1>1 DEF TaskFit, config, db, locals, ends, TaskGoto
<1>2. TypesOK'
  BY DEF TypesOK, Labels
<1>3. SettingsOK'
  BY DEF SettingsOK, Active, Effective, Forward, Restoring
<1>4. HistoryOK(Bases(events))'
  BY DEF HistoryOK, SettingsOK, Active, Extends, Planned, Restoring, Forward
<1>5. SamplesOK(Bases(events))'
  BY DEF SamplesOK, SettingsOK, Agrees, Coming, Snapped, FreshCycles, Active, Planned, Restoring, Forward
<1> QED BY <1>2, <1>3, <1>4, <1>5 DEF IInv, History, Sums

\* The store is detached, and the task is cancelled.
LEMMA QuiesceInv ==
  ASSUME IInv, Quiesce
  PROVE  IInv'
<1>1. TypesOK /\ SettingsOK /\ HistoryOK(Bases(events)) /\ SamplesOK(Bases(events))
  BY DEF IInv, History, Sums
<1> USE <1>1 DEF Quiesce, config, db, locals, ends
<1>2. TypesOK'
  <2>1. /\ up' \in BOOLEAN /\ live' \in BOOLEAN
        /\ UNCHANGED <<cfg, conf, confCfg, migrated, saved, mark, events, samples,
                         task, target, previous, plan, next, todo, values, late, wrote,
                         before, outcome, tasks, intact, behind>>
    BY ConstantsAssumption DEF TypesOK
  <2>2. TypesOK
    BY <1>1
  <2> QED BY ONLY <2>1, <2>2 DEF TypesOK, Labels
<1>3. SettingsOK'
  BY DEF SettingsOK, Active, Effective, Forward, Restoring
<1>4. HistoryOK(Bases(events))'
  BY DEF HistoryOK, SettingsOK, Active, Extends, Planned, Restoring, Forward
<1>5. SamplesOK(Bases(events))'
  BY DEF SamplesOK, SettingsOK, Agrees, Coming, Snapped, FreshCycles, Active, Planned, Restoring, Forward
<1> QED BY <1>2, <1>3, <1>4, <1>5 DEF IInv, History, Sums

\* configure begins while no task is active.
LEMMA ConfigureCheckInv ==
  ASSUME IInv, ConfigureCheck
  PROVE  IInv'
<1>1. TypesOK /\ SettingsOK /\ HistoryOK(Bases(events)) /\ SamplesOK(Bases(events))
  BY DEF IInv, History, Sums
<1> USE <1>1 DEF ConfigureCheck, config, db, locals, ends
<1>2. TypesOK'
  BY DEF TypesOK, Labels
<1>3. SettingsOK'
  BY DEF SettingsOK, Active, Effective, Forward, Restoring
<1>4. HistoryOK(Bases(events))'
  BY DEF HistoryOK, SettingsOK, Active, Extends, Planned, Restoring, Forward
<1>5. SamplesOK(Bases(events))'
  BY DEF SamplesOK, SettingsOK, Agrees, Coming, Snapped, FreshCycles, Active, Planned, Restoring, Forward
<1> QED BY <1>2, <1>3, <1>4, <1>5 DEF IInv, History, Sums

\* The saved settings are loaded.
LEMMA ConfigureLoadInv ==
  ASSUME IInv, ConfigureLoad
  PROVE  IInv'
<1>1. TypesOK /\ SettingsOK /\ HistoryOK(Bases(events)) /\ SamplesOK(Bases(events))
  BY DEF IInv, History, Sums
<1> USE <1>1 DEF ConfigureLoad, ConfigureDone, config, db, locals, ends
<1>2. TypesOK'
  <2>1. /\ conf' \in {"none", "loaded"} /\ confCfg' \in Settings /\ migrated' \in BOOLEAN
        /\ behind' \subseteq {"loaded", "active", "history"}
        /\ UNCHANGED <<up, cfg, saved, mark, events, samples, task, live, target,
                         previous, plan, next, todo, values, late, wrote, before,
                         outcome, tasks, intact>>
    BY ConstantsAssumption DEF TypesOK
  <2>2. TypesOK
    BY <1>1
  <2> QED BY ONLY <2>1, <2>2 DEF TypesOK, Labels
<1>3. SettingsOK'
  BY DEF SettingsOK, Active, Effective, Forward, Restoring
<1>4. HistoryOK(Bases(events))'
  BY DEF HistoryOK, SettingsOK, Active, Extends, Planned, Restoring, Forward
<1>5. SamplesOK(Bases(events))'
  BY DEF SamplesOK, SettingsOK, Agrees, Coming, Snapped, FreshCycles, Active, Planned, Restoring, Forward
<1> QED BY <1>2, <1>3, <1>4, <1>5 DEF IInv, History, Sums

\* The loaded settings are given up.
LEMMA ConfigureFailInv ==
  ASSUME IInv, ConfigureFail
  PROVE  IInv'
<1>1. TypesOK /\ SettingsOK /\ HistoryOK(Bases(events)) /\ SamplesOK(Bases(events))
  BY DEF IInv, History, Sums
<1> USE <1>1 DEF ConfigureFail, ConfigureDone, config, db, locals, ends
<1>2. TypesOK'
  <2>1. /\ conf' = "none" /\ confCfg' \in Settings /\ migrated' \in BOOLEAN
        /\ UNCHANGED <<up, cfg, saved, mark, events, samples, task, live, target,
                         previous, plan, next, todo, values, late, wrote, before,
                         outcome, tasks, intact, behind>>
    BY ConstantsAssumption DEF TypesOK
  <2>2. TypesOK
    BY <1>1
  <2> QED BY ONLY <2>1, <2>2 DEF TypesOK, Labels
<1>3. SettingsOK'
  BY DEF SettingsOK, Active, Effective, Forward, Restoring
<1>4. HistoryOK(Bases(events))'
  BY DEF HistoryOK, SettingsOK, Active, Extends, Planned, Restoring, Forward
<1>5. SamplesOK(Bases(events))'
  BY DEF SamplesOK, SettingsOK, Agrees, Coming, Snapped, FreshCycles, Active, Planned, Restoring, Forward
<1> QED BY <1>2, <1>3, <1>4, <1>5 DEF IInv, History, Sums

\* The old store is sealed.
LEMMA ConfigureSealInv ==
  ASSUME IInv, ConfigureSeal
  PROVE  IInv'
<1>1. TypesOK /\ SettingsOK /\ HistoryOK(Bases(events)) /\ SamplesOK(Bases(events))
  BY DEF IInv, History, Sums
<1> USE <1>1 DEF ConfigureSeal, config, db, locals, ends
<1>2. TypesOK'
  <2>1. /\ conf' = "sealed" /\ up' \in BOOLEAN /\ live' \in BOOLEAN
        /\ UNCHANGED <<cfg, confCfg, migrated, saved, mark, events, samples, task,
                         target, previous, plan, next, todo, values, late, wrote,
                         before, outcome, tasks, intact, behind>>
    BY ConstantsAssumption DEF TypesOK
  <2>2. TypesOK
    BY <1>1
  <2> QED BY ONLY <2>1, <2>2 DEF TypesOK, Labels
<1>3. SettingsOK'
  BY DEF SettingsOK, Active, Effective, Forward, Restoring
<1>4. HistoryOK(Bases(events))'
  BY DEF HistoryOK, SettingsOK, Active, Extends, Planned, Restoring, Forward
<1>5. SamplesOK(Bases(events))'
  BY DEF SamplesOK, SettingsOK, Agrees, Coming, Snapped, FreshCycles, Active, Planned, Restoring, Forward
<1> QED BY <1>2, <1>3, <1>4, <1>5 DEF IInv, History, Sums

\* The loaded settings are still those that are saved, or were overtaken.
LEMMA ConfigurePublishInv ==
  ASSUME IInv, ConfigurePublish
  PROVE  IInv'
<1>1. TypesOK /\ SettingsOK /\ HistoryOK(Bases(events)) /\ SamplesOK(Bases(events))
  BY DEF IInv, History, Sums
<1> USE <1>1 DEF ConfigurePublish, ConfigureDone, config, db, locals, ends
<1>2. TypesOK'
  <2>1. /\ conf' \in {"none", "migrate"} /\ confCfg' \in Settings /\ migrated' \in BOOLEAN
        /\ up' \in BOOLEAN /\ cfg' \in Settings
        /\ behind' \subseteq {"loaded", "active", "history"}
        /\ UNCHANGED <<saved, mark, events, samples, task, live, target, previous,
                         plan, next, todo, values, late, wrote, before, outcome, tasks,
                         intact>>
    BY ConstantsAssumption DEF TypesOK
  <2>2. TypesOK
    BY <1>1
  <2> QED BY ONLY <2>1, <2>2 DEF TypesOK, Labels
<1>3. SettingsOK'
  BY DEF SettingsOK, Active, Effective, Forward, Restoring
<1>4. HistoryOK(Bases(events))'
  BY DEF HistoryOK, SettingsOK, Active, Extends, Planned, Restoring, Forward
<1>5. SamplesOK(Bases(events))'
  BY DEF SamplesOK, SettingsOK, Agrees, Coming, Snapped, FreshCycles, Active, Planned, Restoring, Forward
<1> QED BY <1>2, <1>3, <1>4, <1>5 DEF IInv, History, Sums

\* A migration starts a task for the settings that are active.
LEMMA ConfigureMigrateInv ==
  ASSUME IInv, ConfigureMigrate
  PROVE  IInv'
<1>1. TypesOK /\ SettingsOK /\ HistoryOK(Bases(events)) /\ SamplesOK(Bases(events))
  BY DEF IInv, History, Sums
<1> USE <1>1 DEF ConfigureMigrate, ConfigureDone, config, db, locals, ends, StartTask
<1>2. TypesOK'
  <2>1. Bases(events) \in Seq(Settings)
    BY Shapes
  <2>2. CASE StartTask(confCfg)
    <3>1. /\ cfg' = confCfg /\ target' = confCfg /\ previous' = cfg /\ before' = Bases(events)
          /\ task' = "queued" /\ live' = TRUE /\ outcome' = "none"
          /\ conf' = "none" /\ migrated' = FALSE /\ confCfg' = Default
          /\ UNCHANGED <<up, saved, mark, events, samples, plan, next, todo, values, late,
                         wrote, tasks, intact, behind>>
      BY <2>2
    <3>2. TypesOK
      BY <1>1
    <3> QED BY ONLY <2>1, <3>1, <3>2, ConstantsAssumption DEF TypesOK, Labels
  <2>3. CASE Active /\ UNCHANGED <<cfg, task, live, locals, outcome, intact, behind>>
    <3>1. /\ conf' = "none" /\ migrated' = FALSE /\ confCfg' = Default
          /\ UNCHANGED <<up, cfg, saved, mark, events, samples, task, live, target, previous, plan,
                         next, todo, values, late, wrote, before, outcome, tasks, intact, behind>>
      BY <2>3
    <3>2. TypesOK
      BY <1>1
    <3> QED BY ONLY <3>1, <3>2, ConstantsAssumption DEF TypesOK
  <2> QED BY <2>2, <2>3
<1>3. SettingsOK'
  BY DEF SettingsOK, Active, Effective, Forward, Restoring
<1>4. HistoryOK(Bases(events))'
  BY DEF HistoryOK, SettingsOK, Active, Extends, Planned, Restoring, Forward
<1>5. SamplesOK(Bases(events))'
  BY DEF SamplesOK, SettingsOK, Agrees, Coming, Snapped, FreshCycles, Active, Planned, Restoring, Forward
<1> QED BY <1>2, <1>3, <1>4, <1>5 DEF IInv, History, Sums

\* What is left is a history that may have been cut off.
LEMMA CrashInv ==
  ASSUME IInv, Crash
  PROVE  IInv'
<1>1. TypesOK /\ SettingsOK /\ HistoryOK(Bases(events)) /\ SamplesOK(Bases(events))
  BY DEF IInv, History, Sums
<1> USE <1>1 DEF Crash, ConfigureDone, NoLocals, config, db, locals, ends
<1>2. TypesOK'
  <2>1. \A S : <<>> \in Seq(S)
    BY EmptySeq
  <2>2. /\ plan' \in [basis : Seq(Settings), samples : Seq(Sample)] /\ DOMAIN values' = {}
        /\ todo' = {} /\ late' = <<>> /\ before' = <<>>
    BY <2>1 DEF Empty
  <2>3. /\ up' = FALSE /\ cfg' = Default /\ conf' = "none" /\ confCfg' = Default
        /\ migrated' = FALSE /\ task' = "none" /\ live' = FALSE /\ target' = Default
        /\ previous' = Default /\ next' = 1 /\ wrote' = FALSE /\ outcome' = "none"
        /\ behind' = {} /\ UNCHANGED <<saved, mark, events, samples, tasks>>
    OBVIOUS
  <2>4. intact' \in BOOLEAN
    BY DEF TypesOK
  <2>5. TypesOK
    BY <1>1
  <2> QED BY ONLY <2>1, <2>2, <2>3, <2>4, <2>5, ConstantsAssumption DEF TypesOK, Labels
<1>3. SettingsOK'
  BY DEF SettingsOK, Active, Effective, Forward, Restoring
<1>4. HistoryOK(Bases(events))'
  BY DEF HistoryOK, SettingsOK, Active, Extends, Planned, Restoring, Forward
<1>5. SamplesOK(Bases(events))'
  <2>1. DOMAIN values' = {}
    OBVIOUS
  <2> QED BY <2>1 DEF SamplesOK, SettingsOK, Agrees, Coming, Snapped, FreshCycles, Active, Planned, Restoring, Forward
<1> QED BY <1>2, <1>3, <1>4, <1>5 DEF IInv, History, Sums

\* The snapshot remembers a history nothing has been written to.
LEMMA TaskSnapshotInv ==
  ASSUME IInv, TaskSnapshot
  PROVE  IInv'
<1>1. TypesOK /\ SettingsOK /\ HistoryOK(Bases(events)) /\ SamplesOK(Bases(events))
  BY DEF IInv, History, Sums
<1> USE <1>1 DEF TaskSnapshot, config, db, locals, ends, TaskGoto
<1>2. TypesOK'
  <2>1. Bases(events) \in Seq(Settings) /\ {samples[k].cycle : k \in DOMAIN samples} \subseteq Cycles
    BY Shapes DEF Sample
  <2>2. plan' \in [basis : Seq(Settings), samples : Seq(Sample)] /\ todo' \subseteq Cycles
    BY <2>1 DEF TypesOK
  <2>3. DOMAIN <<>> = {}
    OBVIOUS
  <2>4. task' \in {"events", "abort"} /\ (next' = 1 \/ next' = next) /\ (wrote' = FALSE \/ wrote' = wrote)
    OBVIOUS
  <2>5. DOMAIN values' \subseteq Nat \ {0} /\ \A k \in DOMAIN values' : values'[k] \in Costs
    BY <2>3 DEF TypesOK
  <2>6. UNCHANGED <<config, db, live, target, previous, before, late, ends>>
    OBVIOUS
  <2> HIDE DEF TaskSnapshot, TaskGoto
  <2>7. next' \in Nat /\ task' \in Labels
    BY <2>4 DEF TypesOK, Labels
  <2>8. wrote' \in BOOLEAN
    BY <2>4, Zenon DEF TypesOK
  <2> QED BY <2>2, <2>5, <2>6, <2>7, <2>8 DEF TypesOK
<1>3. SettingsOK'
  BY DEF SettingsOK, Active, Effective, Forward, Restoring
<1>4. HistoryOK(Bases(events))'
  BY DEF HistoryOK, SettingsOK, Active, Extends, Planned, Restoring, Forward
<1>5. SamplesOK(Bases(events))'
  BY DEF SamplesOK, SettingsOK, Agrees, Coming, Snapped, FreshCycles, Active, Planned, Restoring, Forward
<1> QED BY <1>2, <1>3, <1>4, <1>5 DEF IInv, History, Sums

\* Every event has the new cost when the last batch is written.
LEMMA TaskEventsDoneInv ==
  ASSUME IInv, TaskEventsDone
  PROVE  IInv'
<1>1. TypesOK /\ SettingsOK /\ HistoryOK(Bases(events)) /\ SamplesOK(Bases(events))
  BY DEF IInv, History, Sums
<1> USE <1>1 DEF TaskEventsDone, config, db, locals, ends, TaskGoto
<1>2. TypesOK'
  BY DEF TypesOK, Labels
<1>3. SettingsOK'
  BY DEF SettingsOK, Active, Effective, Forward, Restoring
<1>4. HistoryOK(Bases(events))'
  <2>1. \A i \in DOMAIN plan.basis : i < next
    BY Shapes DEF TypesOK
  <2>2. \A i \in DOMAIN Bases(events) : Bases(events)[i] = target
    BY <2>1 DEF HistoryOK
  <2>3. task = "events" /\ task' = "samples" /\ UNCHANGED <<events, plan, wrote, before, outcome, target, saved, previous, behind>>
    OBVIOUS
  <2> HIDE DEF TaskEventsDone, TaskGoto
  <2> QED BY <2>2, <2>3 DEF HistoryOK, Planned, Restoring, Active
<1>5. SamplesOK(Bases(events))'
  BY DEF SamplesOK, SettingsOK, Agrees, Coming, Snapped, FreshCycles, Active, Planned, Restoring, Forward
<1> QED BY <1>2, <1>3, <1>4, <1>5 DEF IInv, History, Sums

\* The costs that are read for the samples of K.
LEMMA ReadFacts ==
  ASSUME TypesOK, NEW K, K \subseteq DOMAIN samples
  PROVE  LET v == [k \in K |-> CostUntil(events, samples[k].cycle, samples[k].at)]
         IN  /\ DOMAIN v = K /\ K \subseteq Nat \ {0}
             /\ \A k \in K : v[k] \in Costs /\ Extends(v[k], Bases(events))
<1>1. K \subseteq Nat \ {0}
  BY Shapes
<1>2. \A c, t : CostUntil(events, c, t) \in Costs /\ Extends(CostUntil(events, c, t), Bases(events))
  BY CostFacts DEF TypesOK
<1> QED BY <1>1, <1>2

\* The samples of the cycle that is read are about to be written.
LEMMA TaskReadCycleInv ==
  ASSUME IInv, TaskReadCycle
  PROVE  IInv'
<1>1. TypesOK /\ SettingsOK /\ HistoryOK(Bases(events)) /\ SamplesOK(Bases(events))
  BY DEF IInv, History, Sums
<1> USE <1>1 DEF TaskReadCycle, config, db, locals, ends, TaskGoto, ReadCycle
<1>2. TypesOK'
  <2>1. SamplesOf(FirstTodo) \subseteq DOMAIN samples
    BY DEF SamplesOf
  <2>2. DOMAIN values' \subseteq Nat \ {0} /\ \A k \in DOMAIN values' : values'[k] \in Costs
    BY <2>1, ReadFacts
  <2> QED BY <2>2 DEF TypesOK, Labels
<1>3. SettingsOK'
  BY DEF SettingsOK, Active, Effective, Forward, Restoring
<1>4. HistoryOK(Bases(events))'
  BY DEF HistoryOK, SettingsOK, Active, Extends, Planned, Restoring, Forward
<1>5. SamplesOK(Bases(events))'
  <2> DEFINE b == Bases(events)
  <2>1. SamplesOf(FirstTodo) \subseteq DOMAIN samples
    BY DEF SamplesOf
  <2>2. /\ DOMAIN values' = SamplesOf(FirstTodo)
        /\ \A k \in DOMAIN values' : Extends(values'[k], b)
    BY <2>1, ReadFacts
  <2>5. \A k \in DOMAIN values' : DOMAIN values'[k] \subseteq DOMAIN b
    BY <2>2 DEF Extends
  <2>3. ASSUME NEW k \in DOMAIN samples, Coming(k, b) PROVE Coming(k, b)'
    <3>1. CASE samples[k].cycle = FirstTodo
      BY <2>2, <3>1 DEF Coming, SamplesOf
    <3>2. CASE samples[k].cycle # FirstTodo
      BY <2>3, <3>2 DEF Coming, Agrees
    <3> QED BY <3>1, <3>2
  <2>4. /\ task \in {"samples", "catch_up"} /\ task' = task
        /\ UNCHANGED <<events, samples, plan, wrote, intact, FreshCycles(samples)>>
    BY DEF FreshCycles, Snapped
  <2>6. Snapped \subseteq DOMAIN samples
    BY DEF SamplesOK, Planned
  <2> HIDE DEF TaskReadCycle, ReadCycle, TaskGoto
  <2> QED BY <2>2, <2>3, <2>4, <2>5, <2>6 DEF SamplesOK, Agrees, Snapped, Planned, Restoring
<1> QED BY <1>2, <1>3, <1>4, <1>5 DEF IInv, History, Sums

\* The cycles touched since the snapshot cover all samples after it.
LEMMA TaskCatchUpInv ==
  ASSUME IInv, TaskCatchUp
  PROVE  IInv'
<1>1. TypesOK /\ SettingsOK /\ HistoryOK(Bases(events)) /\ SamplesOK(Bases(events))
  BY DEF IInv, History, Sums
<1> USE <1>1 DEF TaskCatchUp, config, db, locals, ends, TaskGoto
<1>2. TypesOK'
  <2>1. /\ \A i \in (Len(plan.basis) + 1) .. Len(events) : events[i].cycle \in Cycles
        /\ \A k \in (Len(plan.samples) + 1) .. Len(samples) : samples[k].cycle \in Cycles
    BY Shapes DEF Event, Sample
  <2>2. todo' \subseteq Cycles
    BY <2>1
  <2> QED BY <2>2 DEF TypesOK, Labels
<1>3. SettingsOK'
  BY DEF SettingsOK, Active, Effective, Forward, Restoring
<1>4. HistoryOK(Bases(events))'
  BY DEF HistoryOK, SettingsOK, Active, Extends, Planned, Restoring, Forward
<1>5. SamplesOK(Bases(events))'
  <2> DEFINE b == Bases(events)
  <2>1. DOMAIN values = {}
    OBVIOUS
  <2>2. \A k \in DOMAIN samples \ Snapped : samples[k].cycle \in todo'
    BY Shapes DEF Snapped
  <2>3. \A k \in DOMAIN samples \ Snapped : Coming(k, b)'
    BY <2>2 DEF Coming
  <2>6. FreshCycles(samples) \subseteq todo'
    BY <2>2 DEF FreshCycles
  <2>4. \A k \in Snapped : Agrees(k, b) \/ samples[k].cycle \in todo'
    BY <2>1, <2>6 DEF SamplesOK, Coming
  <2>5. Snapped \subseteq DOMAIN samples
    BY DEF SamplesOK, Planned, Restoring
  <2> QED BY <2>1, <2>3, <2>4, <2>5 DEF SamplesOK, Coming, Agrees, Snapped, Planned, Restoring
<1> QED BY <1>2, <1>3, <1>4, <1>5 DEF IInv, History, Sums

\* The settings are saved when events and samples are in their basis.
LEMMA TaskPersistInv ==
  ASSUME IInv, TaskPersist
  PROVE  IInv'
<1>1. TypesOK /\ SettingsOK /\ HistoryOK(Bases(events)) /\ SamplesOK(Bases(events))
  BY DEF IInv, History, Sums
<1> USE <1>1 DEF TaskPersist, config, db, locals, ends, TaskGoto
<1>2. TypesOK'
  BY DEF TypesOK, Labels
<1>3. SettingsOK'
  BY DEF SettingsOK, Active, Effective, Forward, Restoring
<1>4. HistoryOK(Bases(events))'
  BY DEF HistoryOK, SettingsOK, Active, Extends, Planned, Restoring, Forward
<1>5. SamplesOK(Bases(events))'
  BY DEF SamplesOK, SettingsOK, Agrees, Coming, Snapped, FreshCycles, Active, Planned, Restoring, Forward
<1> QED BY <1>2, <1>3, <1>4, <1>5 DEF IInv, History, Sums

\* A failure switches back before it restores.
LEMMA TaskFailsInv ==
  ASSUME IInv, TaskFails
  PROVE  IInv'
<1>1. TypesOK /\ SettingsOK /\ HistoryOK(Bases(events)) /\ SamplesOK(Bases(events))
  BY DEF IInv, History, Sums
<1> USE <1>1 DEF TaskFails, config, db, locals, ends, RollBack, RollbackCfg
<1>2. TypesOK'
  BY DEF TypesOK, Labels
<1>3. SettingsOK'
  BY DEF SettingsOK, Active, Effective, Forward, Restoring
<1>4. HistoryOK(Bases(events))'
  <2>1. Extends(before, plan.basis) /\ DOMAIN plan.basis \subseteq DOMAIN Bases(events)
    BY DEF HistoryOK, Planned
  <2>2. ~wrote => Extends(before, Bases(events))
    BY <2>1, ExtendsTransitive DEF HistoryOK, Planned
  <2>3. \A i \in DOMAIN plan.basis : ~(i < 1)
    BY Shapes
  <2>4. /\ task' = IF wrote THEN "restore_events" ELSE "abort"
        /\ next' = 1 /\ Active
        /\ UNCHANGED <<events, plan, wrote, before, outcome, target, saved, previous, behind>>
    BY DEF Active
  <2>5. outcome # "succeeded"
    BY <2>4 DEF HistoryOK
  <2> HIDE DEF TaskFails, RollBack, RollbackCfg
  <2> QED BY <2>1, <2>2, <2>3, <2>4, <2>5 DEF HistoryOK, Planned, Restoring
<1>5. SamplesOK(Bases(events))'
  BY DEF SamplesOK, SettingsOK, Agrees, Coming, Snapped, FreshCycles, Active, Planned, Restoring, Forward
<1> QED BY <1>2, <1>3, <1>4, <1>5 DEF IInv, History, Sums

\* The old samples are restored, and the new ones are to be computed.
LEMMA RestoreFreshCyclesInv ==
  ASSUME IInv, RestoreFreshCycles
  PROVE  IInv'
<1>1. TypesOK /\ SettingsOK /\ HistoryOK(Bases(events)) /\ SamplesOK(Bases(events))
  BY DEF IInv, History, Sums
<1> USE <1>1 DEF RestoreFreshCycles, config, db, locals, ends, TaskGoto
<1>2. TypesOK'
  <2>1. /\ \A i \in (Len(plan.basis) + 1) .. Len(events) : events[i].cycle \in Cycles
        /\ \A k \in (Len(plan.samples) + 1) .. Len(samples) : samples[k].cycle \in Cycles
    BY Shapes DEF Event, Sample
  <2>2. todo' \subseteq Cycles
    BY <2>1
  <2> QED BY <2>2 DEF TypesOK, Labels
<1>3. SettingsOK'
  BY DEF SettingsOK, Active, Effective, Forward, Restoring
<1>4. HistoryOK(Bases(events))'
  BY DEF HistoryOK, SettingsOK, Active, Extends, Planned, Restoring, Forward
<1>5. SamplesOK(Bases(events))'
  <2> DEFINE b == Bases(events)
  <2>1. DOMAIN values = {}
    OBVIOUS
  <2>2. \A k \in DOMAIN samples \ Snapped : samples[k].cycle \in todo'
    BY Shapes DEF Snapped
  <2>3. \A k \in DOMAIN samples \ Snapped : Coming(k, b)'
    BY <2>2 DEF Coming
  <2>4. \A k \in Snapped : intact => Agrees(k, b)
    BY <2>1 DEF SamplesOK, Coming
  <2>5. Snapped \subseteq DOMAIN samples
    BY DEF SamplesOK, Planned, Restoring
  <2> QED BY <2>1, <2>3, <2>4, <2>5 DEF SamplesOK, Coming, Agrees, Snapped, Planned, Restoring
<1> QED BY <1>2, <1>3, <1>4, <1>5 DEF IInv, History, Sums

\* The new samples of a cycle are read from restored events.
LEMMA RestoreFreshReadInv ==
  ASSUME IInv, RestoreFreshRead
  PROVE  IInv'
<1>1. TypesOK /\ SettingsOK /\ HistoryOK(Bases(events)) /\ SamplesOK(Bases(events))
  BY DEF IInv, History, Sums
<1> USE <1>1 DEF RestoreFreshRead, config, db, locals, ends, TaskGoto
<1>2. TypesOK'
  <2>1. {k \in SamplesOf(FirstTodo) : k > Len(plan.samples)} \subseteq DOMAIN samples
    BY DEF SamplesOf
  <2>2. DOMAIN values' \subseteq Nat \ {0} /\ \A k \in DOMAIN values' : values'[k] \in Costs
    BY <2>1, ReadFacts
  <2> QED BY <2>2 DEF TypesOK, Labels
<1>3. SettingsOK'
  BY DEF SettingsOK, Active, Effective, Forward, Restoring
<1>4. HistoryOK(Bases(events))'
  BY DEF HistoryOK, SettingsOK, Active, Extends, Planned, Restoring, Forward
<1>5. SamplesOK(Bases(events))'
  <2> DEFINE b == Bases(events)
             K == {k \in SamplesOf(FirstTodo) : k > Len(plan.samples)}
  <2>1. K \subseteq DOMAIN samples
    BY DEF SamplesOf
  <2>2. /\ DOMAIN values' = K
        /\ \A k \in K : Extends(values'[k], b)
    BY <2>1, ReadFacts
  <2>5. \A k \in DOMAIN values' : DOMAIN values'[k] \subseteq DOMAIN b
    BY <2>2 DEF Extends
  <2>3. ASSUME NEW k \in DOMAIN samples, Coming(k, b), k \in Snapped => Agrees(k, b)
        PROVE  Coming(k, b)'
    <3>1. CASE k \in K
      BY <2>2, <3>1 DEF Coming
    <3>2. CASE k \notin K /\ k \in Snapped
      BY <2>3, <3>2 DEF Coming, Agrees
    <3>3. CASE k \notin K /\ k \notin Snapped
      <4>1. k > Len(plan.samples)
        BY <3>3, Shapes DEF Snapped
      <4>2. samples[k].cycle # FirstTodo
        BY <3>3, <4>1 DEF SamplesOf
      <4> QED BY <2>3, <4>2 DEF Coming, Agrees
    <3> QED BY <3>1, <3>2, <3>3
  <2>4. /\ task = "restore_fresh" /\ task' = task
        /\ UNCHANGED <<events, samples, plan, wrote, intact>>
    OBVIOUS
  <2> HIDE DEF RestoreFreshRead, TaskGoto
  <2> QED BY <2>2, <2>3, <2>4, <2>5 DEF SamplesOK, Agrees, Snapped, Planned, Restoring
<1> QED BY <1>2, <1>3, <1>4, <1>5 DEF IInv, History, Sums

\* The restoration ends, or is given up.
LEMMA RestoreEndsInv ==
  ASSUME IInv, RestoreEnds
  PROVE  IInv'
<1>1. TypesOK /\ SettingsOK /\ HistoryOK(Bases(events)) /\ SamplesOK(Bases(events))
  BY DEF IInv, History, Sums
<1> USE <1>1 DEF RestoreEnds, config, db, locals, ends, TaskGoto
<1>2. TypesOK'
  BY DEF TypesOK, Labels
<1>3. SettingsOK'
  BY DEF SettingsOK, Active, Effective, Forward, Restoring
<1>4. HistoryOK(Bases(events))'
  BY DEF HistoryOK, SettingsOK, Active, Extends, Planned, Restoring, Forward
<1>5. SamplesOK(Bases(events))'
  BY DEF SamplesOK, SettingsOK, Agrees, Coming, Snapped, FreshCycles, Active, Planned, Restoring, Forward
<1> QED BY <1>2, <1>3, <1>4, <1>5 DEF IInv, History, Sums

\* The end of a task forgets its snapshot.
LEMMA TaskEndInv ==
  ASSUME IInv, TaskEnd
  PROVE  IInv'
<1>1. TypesOK /\ SettingsOK /\ HistoryOK(Bases(events)) /\ SamplesOK(Bases(events))
  BY DEF IInv, History, Sums
<1> USE <1>1 DEF TaskEnd, NoLocals, config, db, locals, ends, RollbackCfg
<1>2. TypesOK'
  <2>1. <<>> \in Seq(Settings) /\ <<>> \in Seq(Sample) /\ DOMAIN <<>> = {}
    BY EmptySeq
  <2>2. plan' \in [basis : Seq(Settings), samples : Seq(Sample)]
    BY <2>1 DEF Empty
  <2>3. outcome' \in {"succeeded", "failed", "half_restored"} /\ intact' \in BOOLEAN
    BY DEF TypesOK
  <2>4. cfg' \in Settings
    BY DEF TypesOK
  <2>5. DOMAIN values' = {}
    BY <2>1
  <2>6. /\ task' = "none" /\ live' = FALSE /\ next' = 1 /\ todo' = {} /\ wrote' = FALSE
        /\ late' = <<>> /\ before' = <<>> /\ target' = Default /\ previous' = Default
        /\ UNCHANGED <<up, conf, confCfg, migrated, saved, mark, events, samples, tasks, behind>>
    OBVIOUS
  <2>7. \A S : <<>> \in Seq(S)
    BY EmptySeq
  <2> HIDE DEF TaskEnd, RollbackCfg, NoLocals
  <2> QED BY ConstantsAssumption, <2>7, <2>2, <2>3, <2>4, <2>5, <2>6 DEF TypesOK, Labels
<1>3. SettingsOK'
  <2>1. /\ Effective' = Effective /\ task' = "none" /\ wrote' = FALSE
        /\ UNCHANGED <<up, conf, confCfg, behind>>
    BY DEF Effective
  <2>2. CASE task = "succeeded"
    <3>1. cfg' = cfg /\ cfg = target /\ saved = target
      BY <2>2 DEF SettingsOK, Forward
    <3>2. Effective = target
      BY <3>1, ConstantsAssumption DEF Effective, TypesOK
    <3> QED BY <2>1, <3>1, <3>2 DEF SettingsOK, Active, Forward, Restoring
  <2>3. CASE task # "succeeded"
    <3>1. "active" \notin behind => previous = Effective
      BY <2>3 DEF SettingsOK, Active
    <3>2. up => cfg' = previous
      BY <2>3
    <3> QED BY <2>1, <3>1, <3>2 DEF SettingsOK, Active, Forward, Restoring
  <2> QED BY <2>2, <2>3
<1>4. HistoryOK(Bases(events))'
  <2>1. ~Active' /\ task' = "none" /\ wrote' = FALSE /\ UNCHANGED <<events, saved, behind>>
    BY DEF Active
  <2>2. outcome' = "succeeded" => task = "succeeded"
    OBVIOUS
  <2>3. task = "succeeded" =>
          saved # None /\ \A i \in DOMAIN Bases(events) : Bases(events)[i] = saved
    BY ConstantsAssumption DEF HistoryOK, SettingsOK, TypesOK
  <2> HIDE DEF TaskEnd, RollbackCfg, NoLocals
  <2> QED BY <2>1, <2>2, <2>3 DEF HistoryOK, Planned, Restoring
<1>5. SamplesOK(Bases(events))'
  <2>1. DOMAIN values' = {}
    OBVIOUS
  <2> QED BY <2>1 DEF SamplesOK, SettingsOK, Agrees, Coming, Snapped, FreshCycles, Active, Planned, Restoring, Forward
<1> QED BY <1>2, <1>3, <1>4, <1>5 DEF IInv, History, Sums

\* Samples that are written get the costs that were read for them.
LEMMA WriteFacts ==
  ASSUME TypesOK, WriteSamples
  PROVE  /\ samples' \in Seq(Sample) /\ DOMAIN samples' = DOMAIN samples
         /\ DOMAIN values' \subseteq DOMAIN values
         /\ \A k \in DOMAIN values' : values'[k] = values[k]
         /\ \A k \in DOMAIN samples :
              /\ samples'[k].cycle = samples[k].cycle
              /\ IF k \in DOMAIN values \ DOMAIN values'
                 THEN samples'[k].value = values[k]
                 ELSE samples'[k].value = samples[k].value
<1> DEFINE I == FirstValues
<1>1. I \subseteq DOMAIN values
  BY DEF FirstValues
<1>2. /\ samples' = [k \in DOMAIN samples |->
                       IF k \in I THEN [samples[k] EXCEPT !.value = values[k]] ELSE samples[k]]
      /\ values' = [k \in DOMAIN values \ I |-> values[k]]
  BY DEF WriteSamples
<1> HIDE DEF I
<1>3. /\ Len(samples) \in Nat /\ DOMAIN samples = 1..Len(samples)
      /\ \A k \in DOMAIN samples : samples[k] \in Sample
  BY Shapes
<1>4. \A k \in DOMAIN samples :
        /\ samples'[k] \in Sample /\ samples'[k].cycle = samples[k].cycle
        /\ samples'[k].value = IF k \in I THEN values[k] ELSE samples[k].value
  BY <1>1, <1>2, <1>3 DEF Sample, TypesOK
<1>5. samples' \in [1..Len(samples) -> Sample]
  BY <1>2, <1>3, <1>4
<1>6. samples' \in Seq(Sample) /\ DOMAIN samples' = DOMAIN samples
  BY <1>3, <1>5, FunctionIsSeq
<1> QED BY <1>1, <1>2, <1>4, <1>6

\* A sample whose cost was read and agrees, agrees when it is written.
LEMMA WrittenAgrees ==
  ASSUME TypesOK, WriteSamples, UNCHANGED <<events, todo>>,
         \A k \in DOMAIN values : Extends(values[k], Bases(events)),
         NEW k \in DOMAIN samples
  PROVE  /\ Coming(k, Bases(events)) => Coming(k, Bases(events))'
         /\ Agrees(k, Bases(events)) => Agrees(k, Bases(events))'
         /\ k \in DOMAIN values \/ Agrees(k, Bases(events)) =>
              k \in DOMAIN values' \/ Agrees(k, Bases(events))'
BY WriteFacts DEF Coming, Agrees

\* What is written stays within the events there are.
LEMMA WrittenWithin ==
  ASSUME TypesOK, WriteSamples, UNCHANGED events,
         \A k \in DOMAIN samples : DOMAIN samples[k].value \subseteq DOMAIN Bases(events),
         \A k \in DOMAIN values : DOMAIN values[k] \subseteq DOMAIN Bases(events)
  PROVE  /\ \A k \in DOMAIN samples' : DOMAIN samples'[k].value \subseteq DOMAIN Bases(events)'
         /\ \A k \in DOMAIN values' : DOMAIN values'[k] \subseteq DOMAIN Bases(events)'
BY WriteFacts

\* A batch of samples gets the costs that were read.
LEMMA TaskSamplesInv ==
  ASSUME IInv, TaskSamples
  PROVE  IInv'
<1>1. TypesOK /\ SettingsOK /\ HistoryOK(Bases(events)) /\ SamplesOK(Bases(events))
  BY DEF IInv, History, Sums
<1>2. /\ WriteSamples /\ task \in {"samples", "catch_up"} /\ task' = task /\ wrote'
      /\ UNCHANGED <<config, saved, mark, events, live, target, previous, plan, next, todo, late,
                     before, ends>>
  BY DEF TaskSamples, TaskGoto, ends
<1>3. \A k \in DOMAIN values : Extends(values[k], Bases(events))
  BY <1>1, <1>2 DEF SamplesOK
<1>4. TypesOK'
  BY <1>1, <1>2, WriteFacts DEF TypesOK, TaskSamples, config, ends
<1>5. SettingsOK'
  BY <1>1, <1>2 DEF SettingsOK, Active, Effective, Forward, Restoring, config, ends
<1>6. HistoryOK(Bases(events))'
  BY <1>1, <1>2 DEF HistoryOK, Planned, Restoring, Active, config, ends
<1>7. SamplesOK(Bases(events))'
  <2>1. /\ \A k \in DOMAIN samples' : DOMAIN samples'[k].value \subseteq DOMAIN Bases(events)'
        /\ \A k \in DOMAIN values' : DOMAIN values'[k] \subseteq DOMAIN Bases(events)'
    BY <1>1, <1>2, WrittenWithin DEF SamplesOK
  <2>2. \A k \in DOMAIN samples : Coming(k, Bases(events)) => Coming(k, Bases(events))'
    BY <1>1, <1>2, <1>3, WrittenAgrees
  <2>3. DOMAIN samples' = DOMAIN samples /\ \A k \in DOMAIN values' : Extends(values'[k], Bases(events))
    BY <1>1, <1>2, <1>3, WriteFacts
  <2>4. \A k \in DOMAIN samples : samples'[k].cycle = samples[k].cycle
    BY <1>1, <1>2, WriteFacts
  <2>5. FreshCycles(samples)' = FreshCycles(samples)
    BY <1>2, <2>3, <2>4 DEF FreshCycles, Snapped
  <2>6. Snapped \subseteq DOMAIN samples
    BY <1>1, <1>2 DEF SamplesOK, Planned
  <2> QED BY <1>1, <1>2, <2>1, <2>2, <2>3, <2>4, <2>5, <2>6 DEF SamplesOK, Snapped, Planned, Restoring, ends
<1> QED BY <1>4, <1>5, <1>6, <1>7 DEF IInv, History, Sums

\* A batch begins at next and goes on for BatchSize events, unless they end before.
LEMMA BatchFacts ==
  ASSUME NEW from \in Nat, NEW to \in Nat
  PROVE  /\ Batch(from, to) \subseteq Nat
         /\ \A i \in Batch(from, to) : from <= i /\ i <= to
         /\ \A i \in 1..to : i < from + BatchSize => i < from \/ i \in Batch(from, to)
         /\ from + BatchSize \in Nat
BY ConstantsAssumption DEF Batch

\* A batch of events of the snapshot gets the new basis.
LEMMA TaskEventsInv ==
  ASSUME IInv, TaskEvents
  PROVE  IInv'
<1> DEFINE b == Bases(events)
           I == Batch(next, Len(plan.basis))
           x == [i \in I |-> target]
<1>1. TypesOK /\ SettingsOK /\ HistoryOK(b) /\ SamplesOK(b)
  BY DEF IInv, History, Sums
<1>2. /\ task = "events" /\ task' = task /\ wrote' = TRUE /\ next' = next + BatchSize
      /\ UNCHANGED <<config, saved, mark, samples, live, target, previous, plan, todo, values, late,
                     before, ends>>
  BY DEF TaskEvents, TaskGoto, ends
<1>3. events' = [i \in DOMAIN events |->
                   IF i \in I THEN [events[i] EXCEPT !.basis = x[i]] ELSE events[i]]
  BY DEF TaskEvents
<1>4. \A i \in I : x[i] = target
  OBVIOUS
<1> HIDE DEF I, x
<1>5. /\ events' \in Seq(Event) /\ DOMAIN b' = DOMAIN b
      /\ \A i \in DOMAIN b : b'[i] = IF i \in I THEN target ELSE b[i]
  <2>1. events \in Seq(Event) /\ \A i \in I \cap DOMAIN events : x[i] \in Settings
    BY <1>1, <1>4 DEF TypesOK
  <2>2. /\ events' \in Seq(Event) /\ DOMAIN b' = DOMAIN b
        /\ \A i \in DOMAIN b : b'[i] = IF i \in I THEN x[i] ELSE b[i]
    <3>1. \A i \in DOMAIN events : events[i] \in Event
      BY <1>1, Shapes
    <3>2. /\ events' \in [DOMAIN events -> Event]
          /\ \A i \in DOMAIN events :
               events'[i].basis = IF i \in I THEN x[i] ELSE events[i].basis
      BY <1>3, <2>1, <3>1 DEF Event
    <3> QED BY <2>1, <3>2, BasesRewritten
  <2> QED BY <1>4, <2>2
<1>6. /\ next' \in Nat
      /\ \A i \in DOMAIN plan.basis : i < next' => i < next \/ i \in I
  BY <1>1, <1>2, Shapes, BatchFacts DEF TypesOK, I
<1>7. TypesOK'
  BY <1>1, <1>2, <1>5, <1>6 DEF TypesOK, Labels, config, ends
<1>8. SettingsOK'
  BY <1>1, <1>2 DEF SettingsOK, Active, Effective, Forward, Restoring, config, ends
<1>9. HistoryOK(b)'
  <2>1. \A i \in DOMAIN plan.basis : i < next' => b'[i] = target
    BY <1>1, <1>2, <1>5, <1>6 DEF HistoryOK, Planned
  <2>2. \A i \in DOMAIN b \ DOMAIN plan.basis : b'[i] = target
    BY <1>1, <1>2, <1>5 DEF HistoryOK
  <2> QED BY <1>1, <1>2, <1>5, <2>1, <2>2 DEF HistoryOK, Planned, Restoring, Active, ends
<1>10. SamplesOK(b)'
  BY <1>1, <1>2, <1>5 DEF SamplesOK, Snapped, FreshCycles, Planned, Restoring, ends
<1> QED BY <1>7, <1>8, <1>9, <1>10 DEF IInv, History, Sums

\* A batch of events of the snapshot gets its old cost.
LEMMA RestoreEventsInv ==
  ASSUME IInv, RestoreEvents
  PROVE  IInv'
<1> DEFINE b == Bases(events)
           I == Batch(next, Len(plan.basis))
           x == plan.basis
<1>1. TypesOK /\ SettingsOK /\ HistoryOK(b) /\ SamplesOK(b)
  BY DEF IInv, History, Sums
<1>2. /\ task = "restore_events" /\ task' = task /\ next' = next + BatchSize
      /\ UNCHANGED <<config, saved, mark, samples, live, target, previous, plan, todo, values,
                     late, wrote, before, ends>>
  BY DEF RestoreEvents, TaskGoto, ends
<1>3. events' = [i \in DOMAIN events |->
                   IF i \in I THEN [events[i] EXCEPT !.basis = x[i]] ELSE events[i]]
  BY DEF RestoreEvents
<1>4. ASSUME NEW i \in I, i \in DOMAIN events PROVE x[i] \in Settings
  <2>1. /\ next \in Nat /\ Len(x) \in Nat /\ DOMAIN x = 1..Len(x)
        /\ \A j \in DOMAIN x : x[j] \in Settings
        /\ DOMAIN events \subseteq Nat \ {0}
    <3>1. TypesOK
      BY <1>1
    <3>2. DOMAIN events = 1..Len(events) /\ Len(events) \in Nat
      BY <3>1, Shapes
    <3> QED BY <3>1, <3>2, Shapes DEF TypesOK
  <2>2. i \in Nat /\ i <= Len(x) /\ i # 0
    BY <1>4, <2>1, BatchFacts
  <2> QED BY <2>1, <2>2
<1> HIDE DEF I
<1>5. /\ events' \in Seq(Event) /\ DOMAIN b' = DOMAIN b
      /\ \A i \in DOMAIN b : b'[i] = IF i \in I THEN x[i] ELSE b[i]
  <2>1. events \in Seq(Event) /\ \A i \in I \cap DOMAIN events : x[i] \in Settings
    BY <1>1, <1>4 DEF TypesOK
  <2>2. /\ events' \in Seq(Event) /\ DOMAIN b' = DOMAIN b
        /\ \A i \in DOMAIN b : b'[i] = IF i \in I THEN x[i] ELSE b[i]
    <3>1. \A i \in DOMAIN events : events[i] \in Event
      BY <1>1, Shapes
    <3>2. /\ events' \in [DOMAIN events -> Event]
          /\ \A i \in DOMAIN events :
               events'[i].basis = IF i \in I THEN x[i] ELSE events[i].basis
      BY <1>3, <2>1, <3>1 DEF Event
    <3> QED BY <2>1, <3>2, BasesRewritten
  <2> QED BY <1>4, <2>2
<1>6. /\ next' \in Nat
      /\ \A i \in DOMAIN plan.basis : i < next' => i < next \/ i \in I
  BY <1>1, <1>2, Shapes, BatchFacts DEF TypesOK, I
<1>7. TypesOK'
  BY <1>1, <1>2, <1>5, <1>6 DEF TypesOK, Labels, config, ends
<1>8. SettingsOK'
  BY <1>1, <1>2 DEF SettingsOK, Active, Effective, Forward, Restoring, config, ends
<1>9. HistoryOK(b)'
  <2>1. \A i \in DOMAIN plan.basis : i < next' => b'[i] = plan.basis[i]
    BY <1>1, <1>2, <1>5, <1>6 DEF HistoryOK, Planned, Restoring
  <2> QED BY <1>1, <1>2, <1>5, <2>1 DEF HistoryOK, SettingsOK, Planned, Restoring, Active, ends
<1>10. SamplesOK(b)'
  <2>1. wrote
    BY <1>1, <1>2 DEF SettingsOK, Restoring
  <2> QED BY <1>1, <1>2, <1>5, <2>1 DEF SamplesOK, Snapped, Planned, Restoring, ends
<1> QED BY <1>7, <1>8, <1>9, <1>10 DEF IInv, History, Sums

\* What the restoration reads of the late events.
LEMMA RestoreReadLateInv ==
  ASSUME IInv, RestoreReadLate
  PROVE  IInv'
<1> DEFINE b == Bases(events)
           n == Len(events) - Len(plan.basis)
<1>1. TypesOK /\ SettingsOK /\ HistoryOK(b) /\ SamplesOK(b)
  BY DEF IInv, History, Sums
<1>2. /\ task = "restore_events" /\ next > Len(plan.basis) /\ task' = "restore_late"
      /\ next' = Len(plan.basis) + 1
      /\ UNCHANGED <<config, db, live, target, previous, plan, todo, values, wrote, before, ends>>
  BY DEF RestoreReadLate, TaskGoto, ends
<1>3. late' = [i \in 1 .. n |->
                LET e == events[Len(plan.basis) + i] IN [at |-> e.at, cycle |-> e.cycle]]
  BY DEF RestoreReadLate
<1>4. /\ Len(plan.basis) \in Nat /\ DOMAIN plan.basis = 1 .. Len(plan.basis)
      /\ Len(events) \in Nat /\ DOMAIN events = 1 .. Len(events) /\ Len(b) = Len(events)
      /\ DOMAIN b = DOMAIN events
      /\ \A i \in DOMAIN events : events[i] \in Event
  BY <1>1, Shapes, BasesFacts DEF TypesOK
<1>5. DOMAIN plan.basis \subseteq DOMAIN b
  BY <1>1, <1>2 DEF HistoryOK, Planned, Restoring
<1>6. Len(plan.basis) <= Len(events) /\ n \in Nat
  <2>1. CASE Len(plan.basis) = 0
    BY <1>4, <2>1
  <2>2. CASE Len(plan.basis) # 0
    <3>1. Len(plan.basis) \in DOMAIN plan.basis
      BY <1>4, <2>2
    <3> QED BY <1>4, <1>5, <3>1
  <2> QED BY <2>1, <2>2
<1>7. late' \in Seq([at : Times, cycle : Cycles]) /\ Len(late') = n
  <2>1. \A i \in 1 .. n : Len(plan.basis) + i \in DOMAIN events
    BY <1>4, <1>6
  <2>2. late' \in [1 .. n -> [at : Times, cycle : Cycles]]
    BY <1>3, <1>4, <2>1 DEF Event
  <2> QED BY <1>6, <2>2, FunctionIsSeq
<1>8. TypesOK'
  <2>1. task' \in Labels /\ next' \in Nat
    BY <1>2, <1>4 DEF Labels
  <2>4. late' \in Seq([at : Times, cycle : Cycles])
    BY ONLY <1>7
  <2>2. TypesOK
    BY <1>1
  <2>3. /\ UNCHANGED <<up, cfg, conf, confCfg, migrated, saved, mark, events, samples, live,
                       target, previous, plan, todo, values, wrote, before, outcome, tasks,
                       intact, behind>>
    BY <1>2 DEF config, db, ends
  <2> QED BY ONLY <2>1, <2>2, <2>3, <2>4 DEF TypesOK
<1>9. SettingsOK'
  BY <1>1, <1>2 DEF SettingsOK, Active, Effective, Forward, Restoring, config, db, ends
<1>10. HistoryOK(b)'
  <2>1. \A i \in DOMAIN plan.basis : i < next
    BY <1>1, <1>2, <1>4 DEF TypesOK
  <2>2. Extends(plan.basis, b)
    BY <1>1, <1>2, <1>5, <2>1 DEF HistoryOK, Extends
  <2>3. Len(plan.basis) + Len(late') = Len(b)
    <3>1. Len(late') = Len(events) - Len(plan.basis)
      BY <1>7
    <3>2. Len(b) = Len(events) /\ Len(plan.basis) \in Nat /\ Len(events) \in Nat
      BY <1>4
    <3> QED BY ONLY <3>1, <3>2
  <2>4. \A i \in DOMAIN b \ DOMAIN plan.basis : ~(i < next') /\ ~(i > Len(b))
    BY <1>2, <1>4
  <2>6. Len(plan.basis) < next' /\ Len(b) \in Nat
    BY <1>2, <1>4
  <2>5. UNCHANGED <<events, b, plan, wrote, before, outcome, target, saved, previous, behind>>
    BY <1>2 DEF db, ends
  <2> HIDE DEF b, n
  <2> QED BY <1>1, <1>2, <2>2, <2>3, <2>4, <2>5, <2>6 DEF HistoryOK, Planned, Restoring, Active, b
<1>11. SamplesOK(b)'
  BY <1>1, <1>2 DEF SamplesOK, SettingsOK, Agrees, Coming, Snapped, FreshCycles, Planned, Restoring, db, ends
<1> QED BY <1>8, <1>9, <1>10, <1>11 DEF IInv, History, Sums

\* A batch of the late events gets the old basis.
LEMMA RestoreLateInv ==
  ASSUME IInv, RestoreLate
  PROVE  IInv'
<1> DEFINE b == Bases(events)
           I == Batch(next, LastLate)
<1>1. TypesOK /\ SettingsOK /\ HistoryOK(b) /\ SamplesOK(b)
  BY DEF IInv, History, Sums
<1>2. /\ task = "restore_late" /\ task' = task /\ next' = next + BatchSize
      /\ UNCHANGED <<config, saved, mark, samples, live, target, previous, plan, todo, values,
                     late, wrote, before, ends>>
  BY DEF RestoreLate, TaskGoto, ends
<1>3. events' = [i \in DOMAIN events |->
                   IF i \in I THEN [events[i] EXCEPT !.basis = previous] ELSE events[i]]
  BY DEF RestoreLate
<1>4. next \in Nat /\ LastLate \in Nat /\ Len(plan.basis) \in Nat /\ Len(late) \in Nat
  BY <1>1, Shapes, SeqFacts DEF TypesOK, LastLate
<1> HIDE DEF I
<1>5. /\ events' \in Seq(Event) /\ DOMAIN b' = DOMAIN b /\ Len(b') = Len(b)
      /\ \A i \in DOMAIN b : b'[i] = IF i \in I THEN previous ELSE b[i]
  <2>1. events \in Seq(Event) /\ previous \in Settings
    BY <1>1 DEF TypesOK
  <2>2. \A i \in DOMAIN events : events[i] \in Event
    BY <1>1, Shapes
  <2>3. /\ events' \in [DOMAIN events -> Event]
        /\ \A i \in DOMAIN events :
             events'[i].basis = IF i \in I THEN previous ELSE events[i].basis
    BY <1>3, <2>1, <2>2 DEF Event
  <2>4. /\ events' \in Seq(Event) /\ DOMAIN b' = DOMAIN b
        /\ \A i \in DOMAIN b : b'[i] = IF i \in I THEN previous ELSE b[i]
    BY <2>1, <2>3, BasesRewritten
  <2>5. Len(b') = Len(b)
    <3>1. b \in Seq(Settings) /\ b' \in Seq(Settings)
      BY <2>1, <2>4, BasesFacts
    <3> HIDE DEF b
    <3> QED BY <2>4, <3>1, SeqFacts
  <2> QED BY <2>4, <2>5
<1>6. /\ next' \in Nat
      /\ \A i \in DOMAIN b \ DOMAIN plan.basis :
           i < next' \/ i > LastLate => i < next \/ i \in I \/ i > LastLate
  <2>1. DOMAIN b \subseteq Nat \ {0}
    BY <1>1, Shapes
  <2>2. \A i \in 1 .. LastLate : i < next + BatchSize => i < next \/ i \in I
    BY <1>4, BatchFacts DEF I
  <2>3. next + BatchSize \in Nat
    BY <1>4, ConstantsAssumption
  <2> QED BY <1>2, <1>4, <2>1, <2>2, <2>3
<1>7. /\ Extends(plan.basis, b) /\ Len(plan.basis) < next /\ LastLate <= Len(b)
      /\ \A i \in DOMAIN b \ DOMAIN plan.basis : i < next \/ i > LastLate => b[i] = previous
  BY <1>1, <1>2 DEF HistoryOK, LastLate
<1>8. TypesOK'
  BY <1>1, <1>2, <1>5, <1>6 DEF TypesOK, Labels, config, ends
<1>9. SettingsOK'
  BY <1>1, <1>2 DEF SettingsOK, Active, Effective, Forward, Restoring, config, ends
<1>10. HistoryOK(b)'
  <2>1. \A i \in DOMAIN plan.basis : i \notin I
    <3>1. DOMAIN plan.basis = 1 .. Len(plan.basis)
      BY <1>1, Shapes
    <3> QED BY <1>4, <1>7, <3>1, BatchFacts DEF I
  <2>2. Extends(plan.basis, b')
    BY <1>5, <1>7, <2>1 DEF Extends
  <2>3. \A i \in DOMAIN b \ DOMAIN plan.basis : i < next' \/ i > LastLate => b'[i] = previous
    BY <1>5, <1>6, <1>7
  <2>4. LastLate' = LastLate /\ LastLate <= Len(b')
    BY <1>2, <1>5, <1>7 DEF LastLate
  <2>5. Len(plan.basis) < next'
    BY <1>2, <1>4, <1>7, ConstantsAssumption
  <2> HIDE DEF b
  <2> QED BY <1>1, <1>2, <1>5, <2>2, <2>3, <2>4, <2>5
          DEF HistoryOK, Planned, Restoring, Active, LastLate, ends, b
<1>11. SamplesOK(b)'
  BY <1>1, <1>2, <1>5 DEF SamplesOK, SettingsOK, Agrees, Coming, Snapped, FreshCycles, Planned, Restoring, ends
<1> QED BY <1>8, <1>9, <1>10, <1>11 DEF IInv, History, Sums

\* The old costs of the samples, and those of the late events they include.
LEMMA RestoreValuesInv ==
  ASSUME IInv, RestoreValues
  PROVE  IInv'
<1> DEFINE b == Bases(events)
           L == (Len(plan.basis) + 1) .. LastLate
           joined(k) == {i \in L : /\ late[i - Len(plan.basis)].cycle = plan.samples[k].cycle
                                   /\ late[i - Len(plan.basis)].at <= plan.samples[k].at}
           cost(k) == [i \in DOMAIN plan.samples[k].value \cup joined(k) |->
                         IF i \in joined(k) THEN previous ELSE plan.samples[k].value[i]]
<1>1. TypesOK /\ SettingsOK /\ HistoryOK(b) /\ SamplesOK(b)
  BY DEF IInv, History, Sums
<1>2. /\ task = "restore_late" /\ next > LastLate /\ task' = "restore_samples"
      /\ UNCHANGED <<config, db, live, target, previous, plan, next, todo, late, wrote, before,
                     ends>>
  BY DEF RestoreValues, TaskGoto, ends
<1>3. values' = [k \in DOMAIN plan.samples |-> cost(k)]
  BY DEF RestoreValues
<1>4. /\ Len(plan.basis) \in Nat /\ DOMAIN plan.basis = 1 .. Len(plan.basis)
      /\ Len(late) \in Nat /\ LastLate \in Nat /\ next \in Nat
      /\ Len(b) \in Nat /\ DOMAIN b = 1 .. Len(b)
  <2>1. b \in Seq(Settings)
    BY <1>1, Shapes
  <2> HIDE DEF b
  <2> QED BY <1>1, <2>1, Shapes, SeqFacts DEF TypesOK, LastLate
<1>5. /\ Extends(plan.basis, b) /\ LastLate <= Len(b) /\ Extends(before, plan.basis)
      /\ \A i \in DOMAIN b \ DOMAIN plan.basis : i < next \/ i > LastLate => b[i] = previous
  BY <1>1, <1>2 DEF HistoryOK, LastLate, Planned, Restoring
<1>6. \A i \in DOMAIN b \ DOMAIN plan.basis : b[i] = previous
  BY <1>2, <1>4, <1>5
<1>7. L \subseteq DOMAIN b \ DOMAIN plan.basis /\ L \subseteq Nat \ {0}
  BY <1>4, <1>5
<1>8. \A k \in DOMAIN plan.samples :
        /\ joined(k) \subseteq L /\ DOMAIN cost(k) = DOMAIN plan.samples[k].value \cup joined(k)
        /\ \A i \in DOMAIN cost(k) :
             cost(k)[i] = IF i \in joined(k) THEN previous ELSE plan.samples[k].value[i]
  OBVIOUS
<1>9. \A k \in DOMAIN plan.samples : cost(k) \in Costs
  <2> TAKE k \in DOMAIN plan.samples
  <2>1. plan.samples[k].value \in Costs
    BY <1>1, Shapes DEF Sample
  <2>2. PICK J \in SUBSET (Nat \ {0}) : plan.samples[k].value \in [J -> Settings]
    BY <2>1 DEF Costs
  <2>3. J \cup joined(k) \in SUBSET (Nat \ {0})
    BY <1>7, <1>8
  <2>4. cost(k) \in [J \cup joined(k) -> Settings]
    BY <1>1, <2>2 DEF TypesOK
  <2> QED BY <2>3, <2>4 DEF Costs
<1> HIDE DEF L, joined, cost
<1>10. /\ DOMAIN values' = DOMAIN plan.samples /\ DOMAIN values' \subseteq Nat \ {0}
       /\ \A k \in DOMAIN values' : values'[k] = cost(k)
  BY <1>1, <1>3, Shapes
<1>11. TypesOK'
  BY <1>1, <1>2, <1>9, <1>10 DEF TypesOK, Labels, config, db, ends
<1>12. SettingsOK'
  BY <1>1, <1>2 DEF SettingsOK, Active, Effective, Forward, Restoring, config, db, ends
<1>13. HistoryOK(b)'
  BY <1>1, <1>2, <1>5, <1>6 DEF HistoryOK, Extends, Planned, Restoring, Active, db, ends
<1>14. SamplesOK(b)'
  <2>1. ASSUME intact, NEW k \in Snapped PROVE Extends(cost(k), b)
    <3>1. Extends(plan.samples[k].value, plan.basis)
      BY <1>1, <1>2, <2>1 DEF SamplesOK, Planned, Restoring
    <3>2. Extends(plan.samples[k].value, b)
      BY <1>5, <3>1, ExtendsTransitive
    <3>3. ASSUME NEW i \in DOMAIN cost(k) PROVE i \in DOMAIN b /\ b[i] = cost(k)[i]
      <4>1. CASE i \in joined(k)
        BY <1>6, <1>7, <1>8, <4>1 DEF Snapped
      <4>2. CASE i \notin joined(k)
        BY <1>8, <3>2, <4>2 DEF Extends, Snapped
      <4> QED BY <4>1, <4>2
    <3> QED BY <3>3 DEF Extends
  <2>2. intact => \A k \in DOMAIN values' : Extends(values'[k], b)
    BY <1>10, <2>1 DEF Snapped
  <2>3. \A k \in Snapped : k \in DOMAIN values'
    BY <1>10 DEF Snapped
  <2>4. \A k \in DOMAIN values' : DOMAIN values'[k] \subseteq DOMAIN b
    <3>1. \A k \in Snapped : DOMAIN plan.samples[k].value \subseteq DOMAIN plan.basis
      BY <1>1, <1>2 DEF SamplesOK, Planned, Restoring
    <3>2. ASSUME NEW k \in DOMAIN plan.samples PROVE DOMAIN cost(k) \subseteq DOMAIN b
      BY <1>5, <1>7, <1>8, <3>1 DEF Snapped, Extends
    <3> QED BY <1>10, <3>2
  <2>5. b' = b /\ UNCHANGED <<events, samples, plan, wrote, todo, intact>>
    BY <1>2 DEF db, ends
  <2>6. wrote
    BY <1>1, <1>2 DEF SettingsOK, Restoring
  <2> HIDE DEF b
  <2> QED BY <1>1, <1>2, <2>2, <2>3, <2>4, <2>5, <2>6
          DEF SamplesOK, Snapped, Planned, Restoring, b
<1> QED BY <1>11, <1>12, <1>13, <1>14 DEF IInv, History, Sums

\* A batch of samples gets the old costs.
LEMMA RestoreSamplesInv ==
  ASSUME IInv, RestoreSamples
  PROVE  IInv'
<1> DEFINE b == Bases(events)
<1>1. TypesOK /\ SettingsOK /\ HistoryOK(b) /\ SamplesOK(b)
  BY DEF IInv, History, Sums
<1>2. /\ WriteSamples /\ task \in {"restore_samples", "restore_fresh"} /\ task' = task
      /\ UNCHANGED <<config, saved, mark, events, live, target, previous, plan, next, todo, late,
                     wrote, before, ends>>
  BY DEF RestoreSamples, TaskGoto, ends
<1>3. wrote
  BY <1>1, <1>2 DEF SettingsOK, Restoring
<1>4. TypesOK'
  BY <1>1, <1>2, WriteFacts DEF TypesOK, config, ends
<1>5. SettingsOK'
  BY <1>1, <1>2 DEF SettingsOK, Active, Effective, Forward, Restoring, config, ends
<1>6. HistoryOK(b)'
  BY <1>1, <1>2 DEF HistoryOK, Planned, Restoring, Active, config, ends
<1>7. SamplesOK(b)'
  <2>1. intact => \A k \in DOMAIN values : Extends(values[k], b)
    BY <1>1, <1>2 DEF SamplesOK, Restoring
  <2>2. /\ \A k \in DOMAIN samples' : DOMAIN samples'[k].value \subseteq DOMAIN b'
        /\ \A k \in DOMAIN values' : DOMAIN values'[k] \subseteq DOMAIN b'
    BY <1>1, <1>2, WrittenWithin DEF SamplesOK
  <2>3. ASSUME intact, NEW k \in DOMAIN samples
        PROVE  /\ Coming(k, b) => Coming(k, b)'
               /\ Agrees(k, b) => Agrees(k, b)'
               /\ k \in DOMAIN values \/ Agrees(k, b) => k \in DOMAIN values' \/ Agrees(k, b)'
    BY <1>1, <1>2, <2>1, <2>3, WrittenAgrees
  <2>4. /\ DOMAIN samples' = DOMAIN samples
        /\ intact => \A k \in DOMAIN values' : Extends(values'[k], b')
    BY <1>1, <1>2, <2>1, WriteFacts
  <2>5. Snapped \subseteq DOMAIN samples
    BY <1>1, <1>2 DEF SamplesOK, Planned, Restoring
  <2> QED BY <1>1, <1>2, <1>3, <2>2, <2>3, <2>4, <2>5
          DEF SamplesOK, Snapped, Planned, Restoring, ends
<1> QED BY <1>4, <1>5, <1>6, <1>7 DEF IInv, History, Sums

\* A step that changes nothing.
LEMMA StutterInv ==
  ASSUME IInv, UNCHANGED vars
  PROVE  IInv'
<1>1. UNCHANGED <<up, cfg, conf, confCfg, migrated, saved, mark, events, samples, task, live>>
  BY DEF vars, config, db
<1>2. UNCHANGED <<target, previous, plan, next, todo, values, late, wrote, before, outcome, tasks,
                 intact, behind>>
  BY DEF vars, locals, ends
<1>3. TypesOK'
  BY <1>1, <1>2 DEF IInv, TypesOK
<1>4. SettingsOK'
  BY <1>1, <1>2 DEF IInv, SettingsOK, Active, Effective
<1>5. Bases(events)' = Bases(events)
  BY <1>1
<1>6. History'
  BY <1>1, <1>2, <1>5 DEF IInv, History, HistoryOK, Active
<1>7. Sums'
  BY <1>1, <1>2, <1>5 DEF IInv, Sums, SamplesOK, Coming, Agrees, Snapped, FreshCycles
<1> QED BY <1>3, <1>4, <1>6, <1>7 DEF IInv

\* One step for every action.
LEMMA StepInv ==
  ASSUME IInv, [Next]_vars
  PROVE  IInv'
<1>1. ASSUME Usage PROVE IInv'
  <2>1. PICK t \in Times, c \in Cycles :
          \/ \E sampled \in BOOLEAN : RecordUsage(t, c, sampled)
          \/ \E to \in Cycles, since \in Times : RecordReset(t, c, to, since)
          \/ \E to \in Cycles : RecordRecovery(t, c, to)
    BY <1>1 DEF Usage
  <2> QED BY <2>1, RecordUsageInv, RecordResetInv, RecordRecoveryInv
<1>2. ASSUME NEW settings \in Settings, SavePricingSettings(settings)
      PROVE  IInv'
  BY <1>2, SavePricingSettingsInv
<1>3. ASSUME TaskStep PROVE IInv'
  <2>1. CASE TaskFit
    BY <2>1, TaskFitInv
  <2>2. CASE TaskSnapshot
    BY <2>2, TaskSnapshotInv
  <2>3. CASE TaskEvents
    BY <2>3, TaskEventsInv
  <2>4. CASE TaskEventsDone
    BY <2>4, TaskEventsDoneInv
  <2>5. CASE TaskReadCycle
    BY <2>5, TaskReadCycleInv
  <2>6. CASE TaskSamples
    BY <2>6, TaskSamplesInv
  <2>7. CASE TaskCatchUp
    BY <2>7, TaskCatchUpInv
  <2>8. CASE TaskPersist
    BY <2>8, TaskPersistInv
  <2>9. CASE TaskFails
    BY <2>9, TaskFailsInv
  <2>10. CASE RestoreEvents
    BY <2>10, RestoreEventsInv
  <2>11. CASE RestoreLate
    BY <2>11, RestoreLateInv
  <2>12. CASE RestoreSamples
    BY <2>12, RestoreSamplesInv
  <2>13. CASE RestoreFreshCycles
    BY <2>13, RestoreFreshCyclesInv
  <2>14. CASE RestoreFreshRead
    BY <2>14, RestoreFreshReadInv
  <2>15. CASE RestoreEnds
    BY <2>15, RestoreEndsInv
  <2>16. CASE TaskEnd
    BY <2>16, TaskEndInv
  <2>17. CASE RestoreReadLate
    BY <2>17, RestoreReadLateInv
  <2>18. CASE RestoreValues
    BY <2>18, RestoreValuesInv
  <2> QED BY <1>3, <2>1, <2>2, <2>3, <2>4, <2>5, <2>6, <2>7, <2>8, <2>9, <2>10, <2>11,
             <2>12, <2>13, <2>14, <2>15, <2>16, <2>17, <2>18 DEF TaskStep
<1>4. ASSUME Quiesce \/ Configure \/ Crash PROVE IInv'
  BY <1>4, QuiesceInv, ConfigureCheckInv, ConfigureLoadInv, ConfigureFailInv,
     ConfigureSealInv, ConfigurePublishInv, ConfigureMigrateInv, CrashInv DEF Configure
<1>5. CASE UNCHANGED vars
  BY <1>5, StutterInv
<1> QED BY <1>1, <1>2, <1>3, <1>4, <1>5 DEF Next

(***************************************************************************)
(* What the invariant implies.                                             *)
(***************************************************************************)

\* A task that has succeeded leaves no history that was cut off.
Whole == outcome = "succeeded" => intact

\* Only the end of a task makes it succeed, and that ends all doubt.
LEMMA WholeInv ==
  ASSUME Whole, [Next]_vars
  PROVE  Whole'
<1> USE DEF Whole
<1>1. ASSUME Usage PROVE Whole'
  <2>1. PICK evs, smps, t, c, sampled : Recorded(evs, smps, t, c, sampled)
    BY <1>1, Zenon DEF Usage, RecordUsage, RecordReset, RecordRecovery
  <2> QED BY <2>1 DEF Recorded, ends
<1>2. ASSUME NEW settings \in Settings, SavePricingSettings(settings)
      PROVE  Whole'
  BY <1>2 DEF SavePricingSettings, StartTask
<1>3. ASSUME TaskStep PROVE Whole'
  <2>1. CASE TaskEnd
    BY <2>1 DEF TaskEnd
  <2>2. CASE TaskFails
    BY <2>2 DEF TaskFails, RollBack, ends
  <2>3. CASE ~TaskEnd /\ ~TaskFails
    BY <1>3, <2>3 DEF TaskStep, TaskFit, TaskSnapshot, TaskEvents, TaskEventsDone,
       TaskReadCycle, TaskSamples, TaskCatchUp, TaskPersist, RestoreEvents, RestoreReadLate,
       RestoreLate, RestoreValues, RestoreSamples, RestoreFreshCycles, RestoreFreshRead, RestoreEnds, TaskGoto, ends
  <2> QED BY <2>1, <2>2, <2>3
<1>4. ASSUME Quiesce \/ ConfigureCheck \/ ConfigureLoad \/ ConfigureFail
             \/ ConfigureSeal \/ ConfigurePublish
      PROVE  Whole'
  BY <1>4 DEF Quiesce, ConfigureCheck, ConfigureLoad, ConfigureFail, ConfigureSeal,
     ConfigurePublish, ends
<1>5. ASSUME ConfigureMigrate \/ Crash PROVE Whole'
  BY <1>5 DEF ConfigureMigrate, StartTask, Crash
<1>6. CASE UNCHANGED vars
  BY <1>6 DEF vars, ends
<1> QED BY <1>1, <1>2, <1>3, <1>4, <1>5, <1>6 DEF Next, Configure

\* New events are priced with the settings that a restart would load.
LEMMA ActiveIsEffective ==
  ASSUME IInv
  PROVE  SavedIsActive
BY DEF IInv, SettingsOK, Effective, SavedIsActive, Settled

\* The samples of a history that no task is rewriting or has left half written.
LEMMA SumsAgree ==
  ASSUME IInv
  PROVE  SamplesAgree
<1> SUFFICES ASSUME ~Active, intact, NEW k \in DOMAIN samples, NEW i \in DOMAIN samples[k].value
             PROVE  samples[k].value[i] = events[i].basis
  BY DEF SamplesAgree
<1>1. ~wrote
  BY DEF IInv, SettingsOK, Active
<1>2. Agrees(k, Bases(events))
  BY <1>1, Zenon DEF IInv, Sums, SamplesOK
<1>3. i \in DOMAIN Bases(events) /\ samples[k].value[i] = Bases(events)[i]
  BY <1>2 DEF Agrees, Extends
<1> QED BY <1>3, BasesFacts DEF IInv, TypesOK

\* What a failed task leaves.
LEMMA FailureRestores ==
  ASSUME IInv
  PROVE  RollbackRestores
<1> SUFFICES ASSUME task = "abort" PROVE RollbackRestores
  BY DEF RollbackRestores
<1> DEFINE b == Bases(events)
<1>1. /\ events \in Seq(Event) /\ plan.basis \in Seq(Settings)
  BY DEF IInv, TypesOK
<1>2. DOMAIN b = DOMAIN events /\ \A i \in DOMAIN events : b[i] = events[i].basis
  BY <1>1, BasesFacts
<1>3. Extends(before, b)
  BY DEF IInv, History, HistoryOK
<1>4. \A i \in DOMAIN before : events[i].basis = before[i]
  BY <1>2, <1>3 DEF Extends
<1>5. ASSUME wrote, NEW i \in (Len(plan.basis) + 1) .. Len(events)
      PROVE  events[i].basis = previous
  <2>1. i \in DOMAIN b \ DOMAIN plan.basis
    BY <1>1, <1>2, SeqFacts
  <2>2. b[i] = previous
    BY <1>5, <2>1 DEF IInv, History, HistoryOK
  <2> QED BY <1>2, <2>1, <2>2
<1>6. wrote /\ up => cfg = previous
  BY DEF IInv, SettingsOK
<1> QED BY <1>4, <1>5, <1>6 DEF RollbackRestores

\* What a task that has succeeded leaves.
LEMMA SuccessReprices ==
  ASSUME IInv, Whole
  PROVE  SucceededTaskReprices
<1> DEFINE b == Bases(events)
           AllIn(basis) ==
             /\ \A i \in DOMAIN events : events[i].basis = basis
             /\ \A k \in DOMAIN samples : \A i \in DOMAIN samples[k].value :
                  samples[k].value[i] = basis
<1>1. /\ DOMAIN b = DOMAIN events /\ \A i \in DOMAIN events : b[i] = events[i].basis
  BY BasesFacts DEF IInv, TypesOK
<1>2. ASSUME task = "succeeded" PROVE AllIn(target)
  <2>1. \A i \in DOMAIN b : b[i] = target
    BY <1>2 DEF IInv, History, HistoryOK
  <2>2. \A k \in DOMAIN samples : Extends(samples[k].value, b)
    BY <1>2 DEF IInv, Sums, SamplesOK, Agrees
  <2> QED BY <1>1, <2>1, <2>2 DEF Extends
<1>3. ASSUME Settled, outcome = "succeeded", "history" \notin behind PROVE AllIn(cfg)
  <2>1. saved # None /\ \A i \in DOMAIN b : b[i] = saved
    BY <1>3 DEF IInv, History, HistoryOK
  <2>2. "active" \notin behind
    BY <1>3 DEF IInv, SettingsOK
  <2>3. cfg = saved
    BY <1>3, <2>1, <2>2, ActiveIsEffective DEF SavedIsActive, Effective
  <2>4. \A k \in DOMAIN samples : \A i \in DOMAIN samples[k].value :
          samples[k].value[i] = events[i].basis
    BY <1>3, SumsAgree DEF SamplesAgree, Whole, Settled
  <2>5. \A k \in DOMAIN samples : DOMAIN samples[k].value \subseteq DOMAIN b
    BY DEF IInv, Sums, SamplesOK
  <2> QED BY <1>1, <2>1, <2>3, <2>4, <2>5
<1> QED BY <1>2, <1>3 DEF SucceededTaskReprices

(***************************************************************************)
(* The theorems.                                                           *)
(***************************************************************************)

\* The inductive invariant: in every reachable state the settings, the costs of
\* the events and the costs of the samples are where the task has brought them.
THEOREM Inductive == Spec => []IInv
<1>1. Init => IInv
  BY InitInv
<1>2. IInv /\ [Next]_vars => IInv'
  BY StepInv
<1> QED BY <1>1, <1>2, PTL DEF Spec

\* SavedIsActive: when the plugin serves and no task is active, usage.handle prices
\* with the settings that loadPricingSettings would load after a restart, whichever
\* tasks failed, were cancelled by a quiesce or cut off by a crash before; unless
\* a task saved settings after configure had loaded others, which are active now.
THEOREM ActiveSettingsAreSaved == Spec => []SavedIsActive
<1>1. IInv => SavedIsActive
  BY ActiveIsEffective
<1> QED BY <1>1, Inductive, PTL

\* SamplesAgree: after the batches, the catch-up pass and the restorations of
\* recalculatePricingBatches every sample is the sum of the costs its events have.
THEOREM SamplesFollowEvents == Spec => []SamplesAgree
<1>1. IInv => SamplesAgree
  BY SumsAgree
<1> QED BY <1>1, Inductive, PTL

\* RollbackRestores: when runPricingTask fails and its restoration has ended, every
\* event has the cost it had when the task was started; and if a batch had been
\* written, the late events have the cost of the settings that are active again.
THEOREM FailedTaskRestores == Spec => []RollbackRestores
<1>1. IInv => RollbackRestores
  BY FailureRestores
<1> QED BY <1>1, Inductive, PTL

\* SucceededTaskReprices: when a task succeeds no event and no sample is left in an
\* older basis, those that were recorded between its batches included, and they stay
\* in the active one until the next task, unless configure publishes settings that
\* it had loaded before the task saved its own.
THEOREM SuccessfulTaskReprices == Spec => []SucceededTaskReprices
<1>1. Init => Whole
  BY DEF Init, Whole
<1>2. Whole /\ [Next]_vars => Whole'
  BY WholeInv
<1>3. IInv /\ Whole => SucceededTaskReprices
  BY SuccessReprices
<1> QED BY <1>1, <1>2, <1>3, Inductive, PTL DEF Spec
=============================================================================
