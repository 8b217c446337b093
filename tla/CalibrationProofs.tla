-------------------------- MODULE CalibrationProofs --------------------------
(***************************************************************************)
(* Proofs about Calibration for any bounds, models and requests: its type  *)
(* invariant, the spans of the phases, the cycle they are measured in, the *)
(* single claim of a completion, the permanence of an ended session and    *)
(* what its two phases add up to.                                          *)
(***************************************************************************)
EXTENDS Calibration, TLAPS

Statuses    == {"none", "phase1", "phase2", "completed", "invalid", "cancelled"}
RefitStates == {"none", "pending", "running", "done", "failed"}
RefitPcs    == {"fit", "read", "fitted", "failed", "ended"}

EventSet == [mine : BOOLEAN, main : BOOLEAN, failed : BOOLEAN, percent : Percents, cycle : Nat]

PhaseSet == [from : Nat, to : Nat, start : 0..Full, end : 0..Full, counted : SUBSET Nat]

SessionSet == [number : Nat, status : Statuses, cycle : Nat, model : Models \union {NoModel},
               a : PhaseSet, b : PhaseSet, refit : RefitStates, after : Models \union {NoModel}]

RefitSet == [session : Nat, pc : RefitPcs, after : Models \union {NoModel}]

\* The ids of a phase are those of events, or the next one.
InRange(evs, p) ==
  /\ p.from <= Len(evs) + 1 /\ p.to <= Len(evs)
  /\ p.start <= p.end
  /\ p.counted \subseteq 1..Len(evs)

EventsType ==
  /\ events \in Seq(EventSet) /\ Len(events) <= MaxEvents
  /\ \A i \in 1..Len(events) : events[i].cycle <= Len(sampled)

CyclesType ==
  /\ sampled \in Seq(0..Full) /\ Len(sampled) <= MaxCycles
  /\ open \in 0..Len(sampled)

SessionType ==
  /\ session \in SessionSet
  /\ session.status # "none" => session.cycle \in 1..Len(sampled) /\ session.model \in Models
  /\ session.refit # "none" <=> session.status = "completed"
  /\ InRange(events, session.a) /\ InRange(events, session.b)

CallsType ==
  /\ calls \in 0..MaxCalls
  /\ refits \in Seq(RefitSet)
  /\ started \in Nat /\ session.number = started
  /\ orphaned \in BOOLEAN

Typing == EventsType /\ CyclesType /\ SessionType /\ CallsType

\* Only a completed session has refits, and none of them is there before its claim.
Claims ==
  /\ ClaimedOnce
  /\ \A i \in 1..Len(refits) :
       /\ refits[i].session <= session.number
       /\ refits[i].session = session.number => session.status = "completed" /\ session.refit # "pending"

\* What a phase has counted while it is to come, under way and ended.
Unused(p)         == p.to = 0 /\ p.counted = {}
Since(evs, n)     == {i \in 1..Len(evs) : evs[i].mine /\ evs[i].main /\ n <= i}
SpannedIn(evs, p) == {i \in DOMAIN evs : evs[i].mine /\ evs[i].main /\ p.from <= i /\ i <= p.to}
UnderWay(evs, p)  == p.to = 0 /\ p.from > 0 /\ p.counted = Since(evs, p.from)
Ended(evs, p)     == p.from > 0 /\ p.counted = SpannedIn(evs, p)
After(p, q)       == p.to < q.from /\ \A i \in q.counted : q.from <= i

Shape ==
  /\ session.status = "none" => Unused(session.a) /\ Unused(session.b)
  /\ session.status = "phase1" => UnderWay(events, session.a) /\ Unused(session.b)
  /\ session.status = "phase2" =>
       Ended(events, session.a) /\ UnderWay(events, session.b) /\ After(session.a, session.b)
  /\ session.status = "completed" =>
       Ended(events, session.a) /\ Ended(events, session.b) /\ After(session.a, session.b)
  /\ session.status \in {"invalid", "cancelled"} =>
       \/ session.a.to = 0 /\ Unused(session.b)
       \/ Ended(events, session.a) /\ session.b.to = 0 /\ After(session.a, session.b)

\* The account has a last event, or none: what LastOfAccount chooses exists.
IsLast(n) ==
  /\ n > 0 => events[n].mine
  /\ \A i \in (n + 1)..Len(events) : ~events[i].mine

LastExists == \E n \in 0..Len(events) : IsLast(n)

IInv == Typing /\ Claims /\ OneCycleMeasured /\ Shape /\ LastExists

LEMMA InitInv == Init => IInv
  <1> SUFFICES ASSUME Init PROVE IInv  OBVIOUS
  <1> USE ConstantsAssumption DEF Init
  <1>1. Phase(0, 0) \in PhaseSet  BY DEF Phase, PhaseSet
  <1>2. Typing
    <2>1. session \in SessionSet  BY <1>1 DEF NoSession, SessionSet, Statuses, RefitStates
    <2>2. InRange(events, session.a) /\ InRange(events, session.b)  BY DEF NoSession, Phase, InRange
    <2>3. EventsType  BY DEF EventsType
    <2>4. CyclesType  BY DEF CyclesType
    <2>5. SessionType  BY <2>1, <2>2 DEF SessionType, NoSession
    <2>6. CallsType
      <3>1. calls \in 0..MaxCalls /\ refits \in Seq(RefitSet) /\ started \in Nat /\ session.number = started
        BY DEF NoSession
      <3>2. orphaned \in BOOLEAN  OBVIOUS
      <3> QED  BY <3>1, <3>2, Zenon DEF CallsType
    <2> QED  BY <2>3, <2>4, <2>5, <2>6 DEF Typing
  <1>3. Claims  BY DEF Claims, ClaimedOnce
  <1>4. OneCycleMeasured  BY DEF OneCycleMeasured, NoSession, Phase
  <1>5. Shape  BY DEF Shape, NoSession, Phase, Unused
  <1>6. LastExists  BY DEF LastExists, IsLast
  <1> QED  BY <1>2, <1>3, <1>4, <1>5, <1>6 DEF IInv

\* The steps that record no event and leave what the session measured alone.
SameMeasures ==
  /\ UNCHANGED events
  /\ session'.status = session.status /\ session'.cycle = session.cycle
  /\ session'.a = session.a /\ session'.b = session.b

LEMMA SameShape ==
  ASSUME IInv, SameMeasures
  PROVE  OneCycleMeasured' /\ Shape' /\ LastExists'
  <1>1. OneCycleMeasured'  BY DEF IInv, SameMeasures, OneCycleMeasured
  <1>2. Shape'  BY DEF IInv, SameMeasures, Shape, Unused, UnderWay, Ended, After, Since, SpannedIn
  <1>3. LastExists'  BY DEF IInv, SameMeasures, LastExists, IsLast
  <1> QED  BY <1>1, <1>2, <1>3

LEMMA ClaimRefitInv == IInv /\ ClaimRefit => IInv'
  <1> SUFFICES ASSUME IInv, ClaimRefit PROVE IInv'  OBVIOUS
  <1> USE DEF IInv, ClaimRefit, Pending
  <1>1. session \in SessionSet /\ refits \in Seq(RefitSet)  BY DEF Typing, SessionType, CallsType
  <1>2. session' \in SessionSet /\ session'.refit = "running" /\ session'.number = session.number
        /\ session'.model = session.model /\ SameMeasures
    BY <1>1 DEF SessionSet, RefitStates, SameMeasures
  <1> DEFINE r == [session |-> session.number, pc |-> "fit", after |-> NoModel]
  <1>3. r \in RefitSet  BY <1>1 DEF SessionSet, RefitSet, RefitPcs
  <1>4. Typing'
    <2>1. EventsType' /\ CyclesType'  BY DEF Typing, EventsType, CyclesType
    <2>2. SessionType'  BY <1>1, <1>2 DEF Typing, SessionType, InRange, SameMeasures
    <2>3. calls' \in 0..MaxCalls /\ refits' \in Seq(RefitSet) /\ started' \in Nat /\ session'.number = started'
      BY <1>1, <1>2, <1>3, ConstantsAssumption DEF Typing, CallsType
    <2>4. orphaned' \in BOOLEAN  BY Zenon DEF Typing, CallsType
    <2> QED  BY <2>1, <2>2, <2>3, <2>4, Zenon DEF Typing, CallsType
  <1>5. Claims'
    <2>1. Len(refits') = Len(refits) + 1 /\ refits'[Len(refits) + 1] = r
          /\ \A i \in 1..Len(refits) : refits'[i] = refits[i]
      BY <1>1, <1>3
    <2>2. DOMAIN refits = 1..Len(refits) /\ DOMAIN refits' = 1..(Len(refits) + 1) /\ Len(refits) \in Nat
      BY <1>1, <1>3
    <2>3. \A i \in 1..Len(refits) : refits[i] \in RefitSet /\ refits[i].session < session.number
      <3>1. TAKE i \in 1..Len(refits)
      <3>2. refits[i] \in RefitSet  BY <1>1, <3>1
      <3>3. refits[i].session <= session.number /\ refits[i].session # session.number  BY <3>1 DEF Claims
      <3> QED  BY <3>2, <3>3, <1>1 DEF RefitSet, SessionSet
    <2>4. ClaimedOnce'  BY <2>1, <2>2, <2>3, <1>1, <1>3 DEF Claims, ClaimedOnce, RefitSet, SessionSet
    <2>5. \A i \in 1..Len(refits') : refits'[i].session <= session'.number
      BY <2>1, <2>2, <2>3, <1>1, <1>2 DEF SessionSet, RefitSet
    <2>6. session'.status = "completed" /\ session'.refit # "pending"  BY <1>2 DEF SameMeasures
    <2> QED  BY <2>4, <2>5, <2>6 DEF Claims
  <1> QED  BY <1>2, <1>4, <1>5, SameShape

LEMMA LeaveRefitInv == IInv /\ LeaveRefit => IInv'
  <1> SUFFICES ASSUME IInv, LeaveRefit PROVE IInv'  OBVIOUS
  <1> USE DEF IInv, LeaveRefit
  <1>1. SameMeasures  BY DEF SameMeasures
  <1>2. EventsType' /\ CyclesType' /\ SessionType'
    BY DEF Typing, EventsType, CyclesType, SessionType, InRange
  <1>3. CallsType'
    <2>1. calls' \in 0..MaxCalls  BY ConstantsAssumption DEF Typing, CallsType
    <2> QED  BY <2>1, Zenon DEF Typing, CallsType
  <1>4. Claims'  BY DEF Claims, ClaimedOnce
  <1> QED  BY <1>1, <1>2, <1>3, <1>4, SameShape DEF Typing

\* A refit moves on and stays the refit of its session.
LEMMA MovedRefits ==
  ASSUME IInv, NEW i \in DOMAIN refits, NEW r \in RefitSet,
         r.session = refits[i].session, refits' = [refits EXCEPT ![i] = r],
         session' \in SessionSet, session'.number = session.number,
         session'.status = session.status,
         session.refit # "pending" => session'.refit # "pending"
  PROVE  refits' \in Seq(RefitSet) /\ Claims'
  <1>1. refits \in Seq(RefitSet)  BY DEF IInv, Typing, CallsType
  <1>2. refits' \in Seq(RefitSet) /\ Len(refits') = Len(refits) /\ DOMAIN refits' = DOMAIN refits
        /\ DOMAIN refits = 1..Len(refits)
    BY <1>1
  <1>3. \A j \in 1..Len(refits) : refits'[j].session = refits[j].session  BY <1>1, <1>2
  <1>4. ClaimedOnce'  BY <1>2, <1>3 DEF IInv, Claims, ClaimedOnce
  <1> QED  BY <1>2, <1>3, <1>4 DEF IInv, Claims

\* What every step of a refit keeps.
LEMMA RefitStepInv ==
  ASSUME IInv, NEW i \in DOMAIN refits, NEW r \in RefitSet,
         r.session = refits[i].session, refits' = [refits EXCEPT ![i] = r],
         session' \in SessionSet, session'.number = session.number,
         session'.model = session.model, SameMeasures,
         session.refit # "pending" => session'.refit # "pending",
         session'.refit = "none" <=> session.refit = "none",
         UNCHANGED <<events, sampled, open, calls, started, orphaned>>
  PROVE  IInv'
  <1>1. refits' \in Seq(RefitSet) /\ Claims'  BY MovedRefits DEF SameMeasures
  <1>2. EventsType' /\ CyclesType'  BY DEF IInv, Typing, EventsType, CyclesType
  <1>3. SessionType'  BY DEF IInv, Typing, SessionType, InRange, SameMeasures
  <1>4. calls' \in 0..MaxCalls /\ started' \in Nat /\ session'.number = started'
    BY DEF IInv, Typing, CallsType
  <1>5. orphaned' \in BOOLEAN  BY Zenon DEF IInv, Typing, CallsType
  <1>6. CallsType'  BY <1>1, <1>4, <1>5, Zenon DEF CallsType
  <1> QED  BY <1>1, <1>2, <1>3, <1>6, SameShape DEF IInv, Typing

LEMMA FitInv == ASSUME IInv, NEW i \in DOMAIN refits, Fit(i) PROVE IInv'
  <1>1. PICK pc \in {"read", "failed"} : refits' = [refits EXCEPT ![i].pc = pc]  BY DEF Fit
  <1> DEFINE r == [refits[i] EXCEPT !.pc = pc]
  <1>2. refits[i] \in RefitSet  BY DEF IInv, Typing, CallsType
  <1>3. r \in RefitSet /\ r.session = refits[i].session  BY <1>2 DEF RefitSet, RefitPcs
  <1>4. refits' = [refits EXCEPT ![i] = r]  BY <1>1
  <1>5. session' = session /\ session \in SessionSet /\ SameMeasures
    BY DEF Fit, IInv, Typing, SessionType, SameMeasures
  <1> HIDE DEF r
  <1> QED  BY <1>3, <1>4, <1>5, RefitStepInv DEF Fit

LEMMA ReadTargetInv == ASSUME IInv, NEW i \in DOMAIN refits, ReadTarget(i) PROVE IInv'
  <1> DEFINE r == IF refits' = [refits EXCEPT ![i].pc = "failed"] THEN [refits[i] EXCEPT !.pc = "failed"]
                  ELSE [refits[i] EXCEPT !.pc = "fitted", !.after = session.model]
  <1>1. refits[i] \in RefitSet /\ session \in SessionSet  BY DEF IInv, Typing, CallsType, SessionType
  <1>2. r \in RefitSet /\ r.session = refits[i].session  BY <1>1 DEF RefitSet, RefitPcs, SessionSet
  <1>3. refits' = [refits EXCEPT ![i] = r]  BY DEF ReadTarget
  <1>4. session' = session /\ SameMeasures  BY DEF ReadTarget, SameMeasures
  <1> HIDE DEF r
  <1> QED  BY <1>1, <1>2, <1>3, <1>4, RefitStepInv DEF ReadTarget

LEMMA FinishInv == ASSUME IInv, NEW i \in DOMAIN refits, Finish(i) PROVE IInv'
  <1> DEFINE r == [refits[i] EXCEPT !.pc = "ended", !.after = NoModel]
  <1>1. refits[i] \in RefitSet /\ session \in SessionSet  BY DEF IInv, Typing, CallsType, SessionType
  <1>2. r \in RefitSet /\ r.session = refits[i].session  BY <1>1 DEF RefitSet, RefitPcs
  <1>3. refits' = [refits EXCEPT ![i] = r]  BY DEF Finish
  <1>4. /\ session' \in SessionSet /\ session'.number = session.number /\ session'.model = session.model
        /\ SameMeasures /\ (session.refit # "pending" => session'.refit # "pending")
        /\ (session'.refit = "none" <=> session.refit = "none")
    BY <1>1 DEF Finish, Finished, Running, SessionSet, RefitSet, RefitStates, SameMeasures
  <1> HIDE DEF r
  <1> QED  BY <1>2, <1>3, <1>4, RefitStepInv DEF Finish

LEMMA CrashInv == IInv /\ Crash => IInv'
  <1> SUFFICES ASSUME IInv, Crash PROVE IInv'  OBVIOUS
  <1> DEFINE Died(r) == [r EXCEPT !.pc = "ended", !.after = NoModel]
  <1>0. calls' = 0 /\ UNCHANGED <<events, sampled, open, session, started>>  BY Zenon DEF Crash
  <1>d. refits' = [i \in DOMAIN refits |-> Died(refits[i])]  BY Zenon DEF Crash
  <1> HIDE DEF Died
  <1>1. SameMeasures  BY <1>0 DEF SameMeasures
  <1>2. EventsType' /\ CyclesType' /\ SessionType'
    BY <1>0 DEF IInv, Typing, EventsType, CyclesType, SessionType, InRange
  <1>3. refits \in Seq(RefitSet)  BY DEF IInv, Typing, CallsType
  <1>4. /\ refits' \in Seq(RefitSet) /\ DOMAIN refits' = DOMAIN refits /\ Len(refits') = Len(refits)
        /\ \A i \in 1..Len(refits) : refits'[i].session = refits[i].session
    <2>1. DOMAIN refits' = 1..Len(refits) /\ DOMAIN refits = 1..Len(refits) /\ Len(refits) \in Nat
      <3>1. DOMAIN refits = 1..Len(refits) /\ Len(refits) \in Nat  BY <1>3
      <3>2. DOMAIN refits' = DOMAIN refits  BY <1>d
      <3> QED  BY <3>1, <3>2
    <2>2. \A i \in 1..Len(refits) : refits'[i] \in RefitSet /\ refits'[i].session = refits[i].session
      <3>1. TAKE i \in 1..Len(refits)
      <3>2. refits[i] \in RefitSet  BY <1>3, <3>1
      <3>3. refits'[i] = [refits[i] EXCEPT !.pc = "ended", !.after = NoModel]  BY <1>d, <2>1, <3>1 DEF Died
      <3> QED  BY <3>2, <3>3 DEF RefitSet, RefitPcs
    <2>3. refits' = [i \in 1..Len(refits) |-> refits'[i]]  BY <1>d, <2>1
    <2>4. refits' \in [1..Len(refits) -> RefitSet]  BY <2>2, <2>3
    <2>5. refits' \in Seq(RefitSet)  BY <2>1, <2>4
    <2> QED  BY <2>1, <2>2, <2>5
  <1>5. Claims'  BY <1>0, <1>3, <1>4 DEF IInv, Claims, ClaimedOnce
  <1>6. calls' \in 0..MaxCalls /\ started' \in Nat /\ session'.number = started'
    BY <1>0, ConstantsAssumption DEF IInv, Typing, CallsType
  <1>7. orphaned' \in BOOLEAN  BY Zenon DEF Crash, IInv, Typing, CallsType
  <1>8. CallsType'  BY <1>4, <1>6, <1>7, Zenon DEF CallsType
  <1> QED  BY <1>1, <1>2, <1>5, <1>8, SameShape DEF IInv, Typing

LEMMA StartCalibrationInv == IInv /\ StartCalibration => IInv'
  <1> SUFFICES ASSUME IInv, StartCalibration PROVE IInv'  OBVIOUS
  <1>0. /\ ~Active(session) /\ open > 0 /\ started' = started + 1
        /\ UNCHANGED <<events, sampled, open, calls, refits>>
    BY Zenon DEF StartCalibration
  <1>1. PICK m \in Models :
          session' = [NoSession EXCEPT !.number = started + 1, !.status = "phase1", !.model = m,
                                       !.cycle = open, !.a = Phase(Len(events) + 1, sampled[open])]
    BY Zenon DEF StartCalibration
  <1>2. /\ started \in Nat /\ session.number = started /\ open \in 1..Len(sampled)
        /\ sampled[open] \in 0..Full /\ Len(events) \in Nat /\ refits \in Seq(RefitSet)
    <2>1. started \in Nat /\ session.number = started /\ refits \in Seq(RefitSet)
      BY DEF IInv, Typing, CallsType
    <2>2. open \in 1..Len(sampled) /\ sampled \in Seq(0..Full)  BY <1>0 DEF IInv, Typing, CyclesType
    <2>3. \A S : sampled \in Seq(S) => sampled[open] \in S  BY <2>2
    <2>4. Len(events) \in Nat  BY DEF IInv, Typing, EventsType
    <2> QED  BY <2>1, <2>2, <2>3, <2>4, Zenon
  <1>3. Phase(Len(events) + 1, sampled[open]) \in PhaseSet /\ Phase(0, 0) \in PhaseSet
    BY <1>2, ConstantsAssumption DEF Phase, PhaseSet
  <1>4. /\ session' \in SessionSet /\ session'.number = started + 1 /\ session'.status = "phase1"
        /\ session'.refit = "none" /\ session'.cycle = open /\ session'.model = m
        /\ session'.a = Phase(Len(events) + 1, sampled[open]) /\ session'.b = Phase(0, 0)
    <2> DEFINE p == Phase(Len(events) + 1, sampled[open])
               q == Phase(0, 0)
    <2>1. session' = [number |-> started + 1, status |-> "phase1", cycle |-> open, model |-> m,
                      a |-> p, b |-> q, refit |-> "none", after |-> NoModel]
      BY <1>1 DEF NoSession
    <2>2. p \in PhaseSet /\ q \in PhaseSet /\ started + 1 \in Nat /\ open \in Nat  BY <1>2, <1>3
    <2> HIDE DEF p, q
    <2>3. session' \in SessionSet  BY <2>1, <2>2 DEF SessionSet, Statuses, RefitStates
    <2> QED  BY <2>1, <2>3 DEF p, q
  <1>5. EventsType' /\ CyclesType'  BY <1>0 DEF IInv, Typing, EventsType, CyclesType
  <1>6. SessionType'
    <2>1. InRange(events, session.a)' /\ InRange(events, session.b)'  BY <1>0, <1>2, <1>4 DEF InRange, Phase
    <2> QED  BY <1>0, <1>2, <1>4, <2>1 DEF SessionType
  <1>7. CallsType'
    <2>1. calls' \in 0..MaxCalls /\ refits' \in Seq(RefitSet)  BY <1>0 DEF IInv, Typing, CallsType
    <2>2. started' \in Nat /\ session'.number = started'  BY <1>0, <1>2, <1>4
    <2>3. orphaned' \in BOOLEAN  BY Zenon DEF StartCalibration
    <2> QED  BY <2>1, <2>2, <2>3, Zenon DEF CallsType
  <1>8. Claims'
    <2>1. ClaimedOnce'  BY <1>0 DEF IInv, Claims, ClaimedOnce
    <2>2. \A i \in 1..Len(refits) : refits[i].session \in Nat /\ refits[i].session <= started
      <3>1. TAKE i \in 1..Len(refits)
      <3>2. refits[i] \in RefitSet  BY <1>2, <3>1
      <3>3. refits[i].session <= started  BY <1>2, <3>1 DEF IInv, Claims
      <3> QED  BY <3>2, <3>3 DEF RefitSet
    <2> QED  BY <1>0, <1>2, <1>4, <2>1, <2>2 DEF Claims
  <1>9. OneCycleMeasured'  BY <1>4 DEF OneCycleMeasured, Phase
  <1>10. Shape'
    <2>1. Since(events, Len(events) + 1) = {}  BY <1>2 DEF Since
    <2>2. UnderWay(events, session.a)'  BY <1>0, <1>2, <1>4, <2>1 DEF UnderWay, Since, Phase
    <2>3. Unused(session.b)'  BY <1>4 DEF Unused, Phase
    <2> QED  BY <1>4, <2>2, <2>3 DEF Shape
  <1>11. LastExists'  BY <1>0 DEF IInv, LastExists, IsLast
  <1> QED  BY <1>5, <1>6, <1>7, <1>8, <1>9, <1>10, <1>11 DEF IInv, Typing

LEMMA CancelCalibrationInv == IInv /\ CancelCalibration => IInv'
  <1> SUFFICES ASSUME IInv, CancelCalibration PROVE IInv'  OBVIOUS
  <1> USE DEF CancelCalibration, Active
  <1>1. session \in SessionSet  BY DEF IInv, Typing, SessionType
  <1>2. /\ session' \in SessionSet /\ session'.status = "cancelled"
        /\ session'.number = session.number /\ session'.refit = session.refit
        /\ session'.cycle = session.cycle /\ session'.model = session.model
        /\ session'.a = session.a /\ session'.b = session.b
    BY <1>1 DEF SessionSet, Statuses
  <1>3. EventsType' /\ CyclesType'  BY DEF IInv, Typing, EventsType, CyclesType
  <1>4. SessionType'  BY <1>2 DEF IInv, Typing, SessionType, InRange
  <1>5. CallsType'
    <2>1. calls' \in 0..MaxCalls /\ refits' \in Seq(RefitSet) /\ started' \in Nat /\ session'.number = started'
      BY <1>2 DEF IInv, Typing, CallsType
    <2>2. orphaned' \in BOOLEAN  BY Zenon DEF IInv, Typing, CallsType
    <2> QED  BY <2>1, <2>2, Zenon DEF CallsType
  <1>6. Claims'  BY <1>2 DEF IInv, Claims, ClaimedOnce
  <1>7. OneCycleMeasured'  BY <1>2 DEF IInv, OneCycleMeasured
  <1>8. Shape'
    <2>1. session.status = "phase1" \/ session.status = "phase2"  OBVIOUS
    <2> QED  BY <1>2, <2>1 DEF IInv, Shape, UnderWay, Unused, Ended, SpannedIn, After
  <1>9. LastExists'  BY DEF IInv, LastExists, IsLast
  <1> QED  BY <1>3, <1>4, <1>5, <1>6, <1>7, <1>8, <1>9 DEF IInv, Typing

\* EndPhase, field by field.
LEMMA EndPhaseFields ==
  ASSUME NEW s \in SessionSet, Active(s), NEW last \in Nat
  PROVE  LET r == EndPhase(s, last) IN
         /\ r \in SessionSet /\ r.number = s.number /\ r.cycle = s.cycle /\ r.model = s.model
         /\ s.status = "phase1" =>
              /\ r.status = "phase2" /\ r.refit = s.refit
              /\ r.a = [s.a EXCEPT !.to = last] /\ r.b = Phase(last + 1, s.a.end)
         /\ s.status = "phase2" =>
              /\ r.status = "completed" /\ r.refit = "pending"
              /\ r.a = s.a /\ r.b = [s.b EXCEPT !.to = last]
  <1> DEFINE r == EndPhase(s, last)
  <1>0. s.a \in PhaseSet /\ s.b \in PhaseSet  BY DEF SessionSet
  <1>1. CASE s.status = "phase1"
    <2>1. Phase(last + 1, s.a.end) \in PhaseSet /\ [s.a EXCEPT !.to = last] \in PhaseSet
      BY <1>0 DEF Phase, PhaseSet
    <2>2. r = [s EXCEPT !.a = [s.a EXCEPT !.to = last], !.status = "phase2",
                        !.b = Phase(last + 1, s.a.end)]
      BY <1>1, <1>0 DEF EndPhase, BeginB, PhaseSet, SessionSet
    <2> QED  BY <1>1, <2>1, <2>2 DEF SessionSet, Statuses
  <1>2. CASE s.status = "phase2"
    <2>1. [s.b EXCEPT !.to = last] \in PhaseSet  BY <1>0 DEF PhaseSet
    <2>2. r = [s EXCEPT !.b = [s.b EXCEPT !.to = last], !.status = "completed", !.refit = "pending"]
      BY <1>2 DEF EndPhase, SessionSet
    <2> QED  BY <1>2, <2>1, <2>2 DEF SessionSet, Statuses, RefitStates
  <1> QED  BY <1>1, <1>2 DEF Active

LEMMA LastOfAccountIsLast ==
  ASSUME LastExists PROVE LastOfAccount \in 0..Len(events) /\ IsLast(LastOfAccount)
  BY DEF LastExists, IsLast, LastOfAccount

\* Ending a phase at an id behind which it counted nothing.
LEMMA EndPhaseShape ==
  ASSUME NEW evs, DOMAIN evs = 1..Len(evs),
         NEW s \in SessionSet, NEW last \in Nat, Len(evs) \in Nat,
         s.status = "phase1" => UnderWay(evs, s.a) /\ Unused(s.b),
         s.status = "phase2" => Ended(evs, s.a) /\ UnderWay(evs, s.b) /\ After(s.a, s.b),
         Active(s), InRange(evs, s.a), InRange(evs, s.b), last <= Len(evs), Since(evs, last + 1) = {}
  PROVE  LET r == EndPhase(s, last) IN
         /\ InRange(evs, r.a) /\ InRange(evs, r.b)
         /\ r.status = "phase2" => Ended(evs, r.a) /\ UnderWay(evs, r.b) /\ After(r.a, r.b)
         /\ r.status = "completed" => Ended(evs, r.a) /\ Ended(evs, r.b) /\ After(r.a, r.b)
         /\ r.status \in {"phase2", "completed"}
         /\ r.a.counted = s.a.counted /\ r.b.counted \subseteq s.b.counted
  <1> DEFINE r == EndPhase(s, last)
  <1>0. s.a \in PhaseSet /\ s.b \in PhaseSet  BY DEF SessionSet
  <1>1. CASE s.status = "phase1"
    <2>1. r.status = "phase2" /\ r.a = [s.a EXCEPT !.to = last] /\ r.b = Phase(last + 1, s.a.end)
      BY <1>1, EndPhaseFields
    <2>2. /\ r.a.to = last /\ r.a.from = s.a.from /\ r.a.counted = s.a.counted
          /\ r.a.start = s.a.start /\ r.a.end = s.a.end
          /\ r.b.from = last + 1 /\ r.b.to = 0 /\ r.b.counted = {}
          /\ r.b.start = s.a.end /\ r.b.end = s.a.end
      BY <1>0, <2>1 DEF PhaseSet, Phase
    <2> HIDE DEF r
    <2>3. InRange(evs, r.a) /\ InRange(evs, r.b)  BY <1>0, <2>2 DEF InRange, PhaseSet
    <2>4. Ended(evs, r.a)
      <3>1. Since(evs, s.a.from) = SpannedIn(evs, r.a)  BY <1>0, <2>2 DEF Since, SpannedIn, PhaseSet
      <3> QED  BY <1>1, <2>2, <3>1 DEF UnderWay, Ended
    <2>5. UnderWay(evs, r.b) /\ After(r.a, r.b)  BY <2>2 DEF UnderWay, After
    <2> QED  BY <2>1, <2>2, <2>3, <2>4, <2>5 DEF r
  <1>2. CASE s.status = "phase2"
    <2>1. r.status = "completed" /\ r.a = s.a /\ r.b = [s.b EXCEPT !.to = last]
      BY <1>2, EndPhaseFields
    <2>2. /\ r.b.to = last /\ r.b.from = s.b.from /\ r.b.counted = s.b.counted
          /\ r.b.start = s.b.start /\ r.b.end = s.b.end
      BY <1>0, <2>1 DEF PhaseSet
    <2> HIDE DEF r
    <2>3. InRange(evs, r.a) /\ InRange(evs, r.b)  BY <1>0, <2>1, <2>2 DEF InRange, PhaseSet
    <2>4. Ended(evs, r.b)
      <3>1. Since(evs, s.b.from) = SpannedIn(evs, r.b)  BY <1>0, <2>2 DEF Since, SpannedIn, PhaseSet
      <3> QED  BY <1>2, <2>2, <3>1 DEF UnderWay, Ended
    <2>5. Ended(evs, r.a) /\ After(r.a, r.b)  BY <1>2, <2>1, <2>2 DEF After
    <2> QED  BY <2>1, <2>2, <2>3, <2>4, <2>5 DEF r
  <1> QED  BY <1>1, <1>2 DEF Active

LEMMA EndCalibrationInv == IInv /\ EndCalibration => IInv'
  <1> SUFFICES ASSUME IInv, EndCalibration PROVE IInv'  OBVIOUS
  <1> DEFINE n == LastOfAccount
  <1>0. /\ Active(session) /\ session' = EndPhase(session, n)
        /\ UNCHANGED <<events, sampled, open, refits, started, orphaned>>
    BY Zenon DEF EndCalibration
  <1>c. calls' \in 0..MaxCalls
    <2>1. calls \in 0..MaxCalls /\ calls < MaxCalls /\ calls' \in {calls, calls + 1}
      BY DEF EndCalibration, IInv, Typing, CallsType
    <2> QED  BY <2>1, ConstantsAssumption
  <1>1. /\ session \in SessionSet /\ Len(events) \in Nat /\ Active(session)
        /\ InRange(events, session.a) /\ InRange(events, session.b) /\ session.refit = "none"
        /\ session.cycle \in 1..Len(sampled) /\ session.model \in Models
    BY <1>0 DEF IInv, Typing, SessionType, EventsType, Active
  <1>2. n \in 0..Len(events) /\ IsLast(n)  BY LastOfAccountIsLast DEF IInv
  <1> HIDE DEF n
  <1>3. Since(events, n + 1) = {}  BY <1>1, <1>2 DEF Since, IsLast
  <1>5. /\ InRange(events, session'.a) /\ InRange(events, session'.b)
        /\ session'.status = "phase2" =>
             Ended(events, session'.a) /\ UnderWay(events, session'.b) /\ After(session'.a, session'.b)
        /\ session'.status = "completed" =>
             Ended(events, session'.a) /\ Ended(events, session'.b) /\ After(session'.a, session'.b)
        /\ session'.status \in {"phase2", "completed"}
        /\ session'.a.counted = session.a.counted /\ session'.b.counted \subseteq session.b.counted
    BY <1>1, <1>2, <1>3, <1>0, EndPhaseShape DEF IInv, Shape, Typing, EventsType
  <1>6. /\ session' \in SessionSet /\ session'.number = session.number
        /\ session'.cycle = session.cycle /\ session'.model = session.model
        /\ (session'.refit # "none" <=> session'.status = "completed")
    <2>1. n \in Nat  BY <1>1, <1>2
    <2>2. CASE session.status = "phase1"  BY <1>1, <1>0, <2>1, <2>2, EndPhaseFields
    <2>3. CASE session.status = "phase2"  BY <1>1, <1>0, <2>1, <2>3, EndPhaseFields
    <2> QED  BY <1>1, <2>2, <2>3 DEF Active
  <1>7. EventsType' /\ CyclesType'  BY <1>0 DEF IInv, Typing, EventsType, CyclesType
  <1>8. SessionType'  BY <1>0, <1>1, <1>5, <1>6 DEF SessionType, InRange
  <1>9. CallsType'
    <2>1. refits' \in Seq(RefitSet) /\ started' \in Nat /\ session'.number = started'
      BY <1>0, <1>6 DEF IInv, Typing, CallsType
    <2>2. orphaned' \in BOOLEAN  BY <1>0, Zenon DEF IInv, Typing, CallsType
    <2> QED  BY <1>c, <2>1, <2>2, Zenon DEF CallsType
  <1>10. Claims'  BY <1>0, <1>1, <1>6 DEF IInv, Claims, ClaimedOnce, Active
  <1>11. OneCycleMeasured'  BY <1>0, <1>5, <1>6 DEF IInv, OneCycleMeasured
  <1>12. Shape'
    <2>1. /\ Ended(events, session'.a) => Ended(events, session.a)'
          /\ Ended(events, session'.b) => Ended(events, session.b)'
          /\ UnderWay(events, session'.b) => UnderWay(events, session.b)'
          /\ After(session'.a, session'.b) => After(session.a, session.b)'
      BY <1>0 DEF Ended, UnderWay, After, Since, SpannedIn
    <2> QED  BY <1>5, <2>1 DEF Shape
  <1>13. LastExists'  BY <1>0 DEF IInv, LastExists, IsLast
  <1> QED  BY <1>7, <1>8, <1>9, <1>10, <1>11, <1>12, <1>13 DEF IInv, Typing

LEMMA RecordedEvent ==
  ASSUME IInv, NEW e \in EventSet, events' = Append(events, e)
  PROVE  LET id == Len(events) + 1 IN
         /\ events' \in Seq(EventSet) /\ Len(events') = id /\ events'[id] = e
         /\ DOMAIN events = 1..Len(events) /\ DOMAIN events' = 1..id /\ Len(events) \in Nat
         /\ \A i \in 1..Len(events) : events'[i] = events[i]
         /\ \A n \in Nat : Since(events, n)' = Since(events, n) \union {i \in {id} : e.mine /\ e.main /\ n <= i}
         /\ \A p \in PhaseSet : p.to <= Len(events) => SpannedIn(events, p)' = SpannedIn(events, p)
         /\ LastExists'
  <1> DEFINE id == Len(events) + 1
  <1>1. events \in Seq(EventSet)  BY DEF IInv, Typing, EventsType
  <1>2. /\ events' \in Seq(EventSet) /\ Len(events') = id /\ events'[id] = e
        /\ DOMAIN events = 1..Len(events) /\ DOMAIN events' = 1..id /\ Len(events) \in Nat
        /\ \A i \in 1..Len(events) : events'[i] = events[i]
    BY <1>1
  <1>3. \A n \in Nat : Since(events, n)' = Since(events, n) \union {i \in {id} : e.mine /\ e.main /\ n <= i}
    BY <1>2 DEF Since
  <1>4. \A p \in PhaseSet : p.to <= Len(events) => SpannedIn(events, p)' = SpannedIn(events, p)
    BY <1>2 DEF SpannedIn, PhaseSet
  <1>5. LastExists'
    <2>1. CASE e.mine
      <3>1. \A n \in Nat : n = id => IsLast(n)'  BY <1>2, <2>1 DEF IsLast
      <3>2. \E n \in 0..Len(events') : n = id  BY <1>2
      <3> QED  BY <3>1, <3>2, <1>2 DEF LastExists
    <2>2. CASE ~e.mine
      <3>1. PICK n \in 0..Len(events) : IsLast(n)  BY DEF IInv, LastExists
      <3>2. IsLast(n)'  BY <1>2, <2>2, <3>1 DEF IsLast
      <3> QED  BY <1>2, <3>1, <3>2 DEF LastExists
    <2> QED  BY <2>1, <2>2
  <1> QED  BY <1>2, <1>3, <1>4, <1>5

\* The cycles after an event: what it is recorded for exists, and is one if it has a percent.
LEMMA RecordedCycle ==
  ASSUME IInv, NEW e \in RequestKinds, EnsureEventCycle(e)
  PROVE  /\ CyclesType'
         /\ Len(sampled) <= Len(sampled') /\ Len(sampled') \in Nat
         /\ CycleOf(e) \in 0..Len(sampled')
         /\ e.mine /\ e.main /\ e.percent # Unknown => CycleOf(e) > 0
  <1>1. sampled \in Seq(0..Full) /\ open \in 0..Len(sampled) /\ Len(sampled) \in Nat
        /\ Len(sampled) <= MaxCycles
    BY DEF IInv, Typing, CyclesType
  <1>2. e.mine /\ e.main /\ e.percent # Unknown => e.percent \in 0..Full
    BY DEF RequestKinds
  <1>3. CASE UNCHANGED <<open, sampled>> /\ ~(e.mine /\ e.main /\ e.percent # Unknown)
    BY <1>1, <1>3 DEF CyclesType, CycleOf
  <1>4. CASE /\ e.mine /\ e.main /\ e.percent # Unknown
             /\ Len(sampled) < MaxCycles
             /\ open' = Len(sampled) + 1 /\ sampled' = Append(sampled, e.percent)
    <2>1. sampled' \in Seq(0..Full) /\ Len(sampled') = Len(sampled) + 1  BY <1>1, <1>2, <1>4
    <2> QED  BY <1>1, <1>4, <2>1, ConstantsAssumption DEF CyclesType, CycleOf
  <1>5. CASE /\ e.mine /\ e.main /\ e.percent # Unknown /\ open > 0 /\ open' \in 1..open
             /\ sampled' = sampled \/ sampled' = [sampled EXCEPT ![open'] = e.percent]
    <2>1. \A S : sampled \in Seq(S) /\ e.percent \in S =>
                   sampled' \in Seq(S) /\ Len(sampled') = Len(sampled)
      BY <1>1, <1>5
    <2>2. sampled' \in Seq(0..Full) /\ Len(sampled') = Len(sampled)  BY <1>1, <1>2, <1>5, <2>1, Zenon
    <2> QED  BY <1>1, <1>5, <2>2 DEF CyclesType, CycleOf
  <1> QED  BY <1>3, <1>4, <1>5 DEF EnsureEventCycle

\* What a recorded event leaves of a phase that it does not belong to.
LEMMA OtherPhases ==
  ASSUME IInv, NEW e \in EventSet, events' = Append(events, e),
         NEW p \in PhaseSet, InRange(events, p)
  PROVE  /\ InRange(events', p)
         /\ Ended(events, p) => Ended(events', p)
         /\ ~(e.mine /\ e.main) /\ UnderWay(events, p) => UnderWay(events', p)
  <1>1. /\ Len(events') = Len(events) + 1 /\ Len(events) \in Nat
        /\ Since(events', p.from) = Since(events, p.from) \union
                                      {i \in {Len(events) + 1} : e.mine /\ e.main /\ p.from <= i}
        /\ SpannedIn(events', p) = SpannedIn(events, p)
    BY RecordedEvent DEF PhaseSet, InRange
  <1>2. InRange(events', p)  BY <1>1 DEF InRange, PhaseSet
  <1>3. Ended(events, p) => Ended(events', p)  BY <1>1 DEF Ended
  <1>4. ~(e.mine /\ e.main) /\ UnderWay(events, p) => UnderWay(events', p)  BY <1>1 DEF UnderWay
  <1> QED  BY <1>2, <1>3, <1>4

\* The current phase with the event that is recorded.
LEMMA CountedPhase ==
  ASSUME IInv, Active(session), NEW e \in EventSet, events' = Append(events, e), e.mine, e.main,
         NEW c, NEW r \in RequestKinds, r.percent = e.percent,
         UnderWay(events, Current(session))
  PROVE  LET p == Counted(r, c, Len(events) + 1) IN
         /\ p \in PhaseSet /\ p.from = Current(session).from /\ p.to = 0
         /\ p.counted = Current(session).counted \union {Len(events) + 1}
         /\ InRange(events', p) /\ UnderWay(events', p)
  <1> DEFINE q == Current(session)
             p == Counted(r, c, Len(events) + 1)
  <1>1. session \in SessionSet /\ InRange(events, session.a) /\ InRange(events, session.b)
    BY DEF IInv, Typing, SessionType
  <1>2. q \in PhaseSet /\ InRange(events, q)  BY <1>1 DEF Current, SessionSet
  <1>3. /\ Len(events') = Len(events) + 1 /\ Len(events) \in Nat
        /\ Since(events', q.from) = Since(events, q.from) \union
                                      {i \in {Len(events) + 1} : e.mine /\ e.main /\ q.from <= i}
    BY <1>2, RecordedEvent DEF PhaseSet
  <1>4. r.percent \in Int
    <2>1. r.percent = Unknown \/ r.percent \in 0..Full  BY DEF EventSet, Percents
    <2> QED  BY <2>1 DEF Unknown
  <1>5. /\ p \in PhaseSet /\ p.from = q.from /\ p.to = q.to /\ p.start = q.start
        /\ p.counted = q.counted \union {Len(events) + 1} /\ p.end >= q.end
    <2>1. p = [q EXCEPT !.counted = @ \union {Len(events) + 1},
                        !.end = IF Measures(r, c) /\ r.percent > @ THEN r.percent ELSE @]
      BY Zenon DEF Counted
    <2> DEFINE x == IF Measures(r, c) /\ r.percent > q.end THEN r.percent ELSE q.end
               k == q.counted \union {Len(events) + 1}
    <2>2. q.end \in 0..Full /\ q.from \in Nat /\ q.to \in Nat /\ q.start \in 0..Full /\ q.counted \subseteq Nat
      BY <1>2 DEF PhaseSet
    <2>3. x \in 0..Full /\ x >= q.end
      <3>1. Measures(r, c) => r.percent \in 0..Full  BY DEF Measures, EventSet, Percents
      <3> QED  BY <1>4, <2>2, <3>1, ConstantsAssumption
    <2>4. p = [q EXCEPT !.counted = k, !.end = x]
      BY <1>2, <2>1 DEF PhaseSet
    <2>5. k \in SUBSET Nat  BY <1>3, <2>2
    <2> HIDE DEF x, k, p, q
    <2>6. p \in PhaseSet /\ p.from = q.from /\ p.to = q.to /\ p.start = q.start /\ p.counted = k /\ p.end = x
      BY <1>2, <2>3, <2>4, <2>5 DEF PhaseSet
    <2> QED  BY <2>3, <2>6 DEF k
  <1> HIDE DEF p, q
  <1>6. q.to = 0 /\ q.from > 0 /\ q.counted = Since(events, q.from)  BY DEF UnderWay, q
  <1>7. InRange(events', p)  BY <1>2, <1>3, <1>5 DEF InRange, PhaseSet
  <1>8. UnderWay(events', p)  BY <1>2, <1>3, <1>5, <1>6 DEF UnderWay, InRange, PhaseSet
  <1> QED  BY <1>5, <1>6, <1>7, <1>8 DEF p, q

ShapeOf(evs, s) ==
  /\ s.status = "none" => Unused(s.a) /\ Unused(s.b)
  /\ s.status = "phase1" => UnderWay(evs, s.a) /\ Unused(s.b)
  /\ s.status = "phase2" => Ended(evs, s.a) /\ UnderWay(evs, s.b) /\ After(s.a, s.b)
  /\ s.status = "completed" => Ended(evs, s.a) /\ Ended(evs, s.b) /\ After(s.a, s.b)
  /\ s.status \in {"invalid", "cancelled"} =>
       \/ s.a.to = 0 /\ Unused(s.b)
       \/ Ended(evs, s.a) /\ s.b.to = 0 /\ After(s.a, s.b)

LEMMA ShapeIsShapeOf ==
  /\ Shape => ShapeOf(events, session)
  /\ ShapeOf(events', session') => Shape'
  <1>1. Shape => ShapeOf(events, session)  BY DEF Shape, ShapeOf
  <1>2. ShapeOf(events', session') => Shape'
    BY DEF Shape, ShapeOf, Unused, UnderWay, Ended, After, Since, SpannedIn
  <1> QED  BY <1>1, <1>2

\* What the three outcomes of an event have in common.
Advanced(e, c) ==
  /\ session' \in SessionSet
  /\ session'.number = session.number /\ session'.cycle = session.cycle /\ session'.model = session.model
  /\ session'.status # "none" => session.status # "none"
  /\ session'.refit # "none" <=> session'.status = "completed"
  /\ InRange(events', session'.a) /\ InRange(events', session'.b)
  /\ ShapeOf(events', session')
  /\ session' = session \/ Active(session)
  /\ session'.a.counted \union session'.b.counted \subseteq
       session.a.counted \union session.b.counted \union
         {i \in {Len(events) + 1} : Concerns(e) /\ ~Invalidates(e, c)}

LEMMA IgnoredAdvanced ==
  ASSUME IInv, NEW e \in RequestKinds, NEW n \in EventSet, NEW c \in Nat,
         n.mine = e.mine, n.main = e.main, events' = Append(events, n), Ignored(e)
  PROVE  Advanced(e, c)
  <1>1. /\ session \in SessionSet /\ InRange(events, session.a) /\ InRange(events, session.b)
        /\ session.refit # "none" <=> session.status = "completed"
    BY DEF IInv, Typing, SessionType
  <1>2. session.a \in PhaseSet /\ session.b \in PhaseSet  BY <1>1 DEF SessionSet
  <1>3. session' = session /\ (~(n.mine /\ n.main) \/ ~Active(session))  BY DEF Ignored, Concerns
  <1>4. /\ InRange(events', session.a) /\ InRange(events', session.b)
        /\ Ended(events, session.a) => Ended(events', session.a)
        /\ Ended(events, session.b) => Ended(events', session.b)
        /\ ~(n.mine /\ n.main) /\ UnderWay(events, session.a) => UnderWay(events', session.a)
        /\ ~(n.mine /\ n.main) /\ UnderWay(events, session.b) => UnderWay(events', session.b)
    BY <1>1, <1>2, OtherPhases
  <1>5. ShapeOf(events, session)  BY ShapeIsShapeOf DEF IInv
  <1>6. ShapeOf(events', session)  BY <1>3, <1>4, <1>5 DEF ShapeOf, Active
  <1>7. session.a.counted \union session.b.counted \subseteq
          session.a.counted \union session.b.counted \union
            {i \in {Len(events) + 1} : Concerns(e) /\ ~Invalidates(e, c)}
    OBVIOUS
  <1> QED  BY <1>1, <1>3, <1>4, <1>6, <1>7 DEF Advanced

LEMMA InvalidatedAdvanced ==
  ASSUME IInv, NEW e \in RequestKinds, NEW n \in EventSet, NEW c \in Nat,
         n.mine = e.mine, n.main = e.main, events' = Append(events, n), Invalidated(e, c)
  PROVE  Advanced(e, c)
  <1>1. /\ session \in SessionSet /\ InRange(events, session.a) /\ InRange(events, session.b)
        /\ session.refit # "none" <=> session.status = "completed"
    BY DEF IInv, Typing, SessionType
  <1>2. session.a \in PhaseSet /\ session.b \in PhaseSet  BY <1>1 DEF SessionSet
  <1>3. Active(session) /\ session' = [session EXCEPT !.status = "invalid"]
    BY DEF Invalidated, Concerns
  <1>4. /\ session' \in SessionSet /\ session'.status = "invalid" /\ session'.refit = session.refit
        /\ session'.number = session.number /\ session'.cycle = session.cycle
        /\ session'.model = session.model /\ session'.a = session.a /\ session'.b = session.b
    BY <1>1, <1>3 DEF SessionSet, Statuses
  <1>5. /\ InRange(events', session.a) /\ InRange(events', session.b)
        /\ Ended(events, session.a) => Ended(events', session.a)
    BY <1>1, <1>2, OtherPhases
  <1>6. ShapeOf(events, session)  BY ShapeIsShapeOf DEF IInv
  <1>7. ShapeOf(events', session')
    BY <1>3, <1>4, <1>5, <1>6 DEF ShapeOf, Active, UnderWay
  <1>8. session.status # "none" /\ session.refit = "none"  BY <1>1, <1>3 DEF Active
  <1> QED  BY <1>1, <1>3, <1>4, <1>5, <1>7, <1>8 DEF Advanced

\* The session with its current phase replaced.
LEMMA WithCurrentFields ==
  ASSUME NEW s \in SessionSet, NEW p \in PhaseSet, Active(s)
  PROVE  LET r == WithCurrent(s, p) IN
         /\ r \in SessionSet /\ r.status = s.status /\ r.refit = s.refit
         /\ r.number = s.number /\ r.cycle = s.cycle /\ r.model = s.model
         /\ s.status = "phase1" => r.a = p /\ r.b = s.b
         /\ s.status = "phase2" => r.a = s.a /\ r.b = p
  BY DEF SessionSet, WithCurrent, Active

LEMMA InPhaseAdvanced ==
  ASSUME IInv, NEW e \in RequestKinds, NEW n \in EventSet, NEW c \in Nat,
         n.mine = e.mine, n.main = e.main, n.percent = e.percent, events' = Append(events, n),
         InPhase(e, c, Len(events) + 1)
  PROVE  Advanced(e, c)
  <1> DEFINE id == Len(events) + 1
             q  == Current(session)
             p  == Counted(e, c, id)
             s  == WithCurrent(session, p)
  <1>1. /\ session \in SessionSet /\ InRange(events, session.a) /\ InRange(events, session.b)
        /\ session.refit # "none" <=> session.status = "completed"
    BY DEF IInv, Typing, SessionType
  <1>2. session.a \in PhaseSet /\ session.b \in PhaseSet /\ q \in {session.a, session.b}
    BY <1>1 DEF SessionSet, Current
  <1>3. /\ Concerns(e) /\ ~Invalidates(e, c) /\ Active(session) /\ n.mine /\ n.main
        /\ session.refit = "none"
    BY <1>1 DEF InPhase, Concerns, Active
  <1>4. /\ Len(events) \in Nat /\ Len(events') = id /\ DOMAIN events' = 1..Len(events')
        /\ \A m \in Nat : Since(events, m)' = Since(events, m) \union {i \in {id} : n.mine /\ n.main /\ m <= i}
    BY RecordedEvent
  <1>5. ShapeOf(events, session)  BY ShapeIsShapeOf DEF IInv
  <1>6. UnderWay(events, q)  BY <1>3, <1>5 DEF ShapeOf, Active, Current
  <1>7. /\ p \in PhaseSet /\ p.from = q.from /\ p.to = 0
        /\ p.counted = q.counted \union {id}
        /\ InRange(events', p) /\ UnderWay(events', p)
    BY <1>3, <1>6, CountedPhase
  <1>8. ~(id < q.from)  BY <1>1, <1>2, <1>4 DEF InRange, PhaseSet
  <1>9. session' = s \/ session' = EndPhase(s, id)
    BY <1>8, Zenon DEF InPhase
  <1> HIDE DEF p, q, s
  <1>10. /\ s \in SessionSet /\ s.status = session.status /\ s.refit = session.refit
         /\ s.number = session.number /\ s.cycle = session.cycle /\ s.model = session.model
         /\ session.status = "phase1" => s.a = p /\ s.b = session.b
         /\ session.status = "phase2" => s.a = session.a /\ s.b = p
    BY <1>1, <1>3, <1>7, WithCurrentFields DEF s
  <1>11. /\ InRange(events', session.a) /\ InRange(events', session.b)
         /\ Ended(events, session.a) => Ended(events', session.a)
    BY <1>1, <1>2, OtherPhases
  <1>12. InRange(events', s.a) /\ InRange(events', s.b)
    BY <1>3, <1>7, <1>10, <1>11 DEF Active
  <1>13. /\ s.status = "phase1" => q = session.a
         /\ s.status = "phase2" => q = session.b
    BY <1>10 DEF q, Current
  <1>14. s.status = "phase1" => UnderWay(events', s.a) /\ Unused(s.b)
    BY <1>5, <1>7, <1>10 DEF ShapeOf
  <1>15. s.status = "phase2" => Ended(events', s.a) /\ UnderWay(events', s.b) /\ After(s.a, s.b)
    <2> SUFFICES ASSUME s.status = "phase2" PROVE After(s.a, s.b)
      BY <1>5, <1>7, <1>10, <1>11 DEF ShapeOf
    <2>1. After(session.a, session.b)  BY <1>5, <1>10 DEF ShapeOf
    <2>2. p.from = session.b.from /\ p.counted = session.b.counted \union {id} /\ p.from <= id
      BY <1>2, <1>4, <1>7, <1>8, <1>13 DEF PhaseSet
    <2> QED  BY <1>10, <2>1, <2>2 DEF After
  <1>16. s.a.counted \union s.b.counted \subseteq session.a.counted \union session.b.counted \union {id}
    BY <1>3, <1>7, <1>10, <1>13 DEF Active
  <1>17. CASE session' = s
    <2>1. ShapeOf(events', s)  BY <1>3, <1>10, <1>14, <1>15 DEF ShapeOf, Active
    <2> QED  BY <1>1, <1>3, <1>10, <1>12, <1>16, <1>17, <2>1 DEF Advanced, Active
  <1>18. CASE session' = EndPhase(s, id)
    <2>1. Since(events', id + 1) = {}
      <3>1. Since(events', id + 1) = {i \in 1..id : events'[i].mine /\ events'[i].main /\ id + 1 <= i}
        BY <1>4 DEF Since
      <3> QED  BY <1>4, <3>1
    <2>2. Active(s)  BY <1>3, <1>10 DEF Active
    <2>3. /\ InRange(events', session'.a) /\ InRange(events', session'.b)
          /\ session'.status = "phase2" =>
               Ended(events', session'.a) /\ UnderWay(events', session'.b) /\ After(session'.a, session'.b)
          /\ session'.status = "completed" =>
               Ended(events', session'.a) /\ Ended(events', session'.b) /\ After(session'.a, session'.b)
          /\ session'.status \in {"phase2", "completed"}
          /\ session'.a.counted = s.a.counted /\ session'.b.counted \subseteq s.b.counted
      <3>1. id \in Nat /\ id <= Len(events') /\ Len(events') \in Nat /\ DOMAIN events' = 1..Len(events')
        BY <1>4
      <3> HIDE DEF id
      <3> DEFINE r == EndPhase(s, id)
      <3>2. /\ InRange(events', r.a) /\ InRange(events', r.b)
            /\ r.status = "phase2" => Ended(events', r.a) /\ UnderWay(events', r.b) /\ After(r.a, r.b)
            /\ r.status = "completed" => Ended(events', r.a) /\ Ended(events', r.b) /\ After(r.a, r.b)
            /\ r.status \in {"phase2", "completed"}
            /\ r.a.counted = s.a.counted /\ r.b.counted \subseteq s.b.counted
        <4>1. /\ s \in SessionSet /\ InRange(events', s.a) /\ InRange(events', s.b)
              /\ s.status = "phase1" => UnderWay(events', s.a) /\ Unused(s.b)
              /\ s.status = "phase2" =>
                   Ended(events', s.a) /\ UnderWay(events', s.b) /\ After(s.a, s.b)
          BY <1>10, <1>12, <1>14, <1>15
        <4> QED  BY ONLY <2>1, <2>2, <3>1, <4>1, EndPhaseShape
      <3> QED  BY <1>18, <3>2
    <2>4. /\ session' \in SessionSet /\ session'.number = s.number
          /\ session'.cycle = s.cycle /\ session'.model = s.model
          /\ (session'.refit # "none" <=> session'.status = "completed")
      <3>1. id \in Nat  BY <1>4
      <3>2. CASE s.status = "phase1"  BY <1>3, <1>10, <1>18, <2>2, <3>1, <3>2, EndPhaseFields
      <3>3. CASE s.status = "phase2"  BY <1>3, <1>10, <1>18, <2>2, <3>1, <3>3, EndPhaseFields
      <3> QED  BY <2>2, <3>2, <3>3 DEF Active
    <2>5. ShapeOf(events', session')  BY <2>3 DEF ShapeOf
    <2> QED  BY <1>3, <1>10, <1>16, <2>3, <2>4, <2>5 DEF Advanced, Active
  <1> QED  BY <1>9, <1>17, <1>18

LEMMA RecordUsageInv == IInv /\ RecordUsage => IInv'
  <1> SUFFICES ASSUME IInv, RecordUsage PROVE IInv'  OBVIOUS
  <1> DEFINE id == Len(events) + 1
  <1>1. /\ calls < MaxCalls /\ id <= MaxEvents
        /\ refits' = refits /\ started' = started
    BY Zenon DEF RecordUsage
  <1>2. orphaned' \in BOOLEAN  BY Zenon DEF IInv, Typing, CallsType, RecordUsage
  <1>3. PICK e \in Requests :
          /\ EnsureEventCycle(e)
          /\ events' = Append(events, [mine |-> e.mine, main |-> e.main, failed |-> e.failed,
                                       percent |-> e.percent, cycle |-> CycleOf(e)])
          /\ \/ Ignored(e)
             \/ Invalidated(e, CycleOf(e))
             \/ InPhase(e, CycleOf(e), Len(events) + 1)
          /\ calls' = IF e.mine THEN calls + 1 ELSE calls
    BY Zenon DEF RecordUsage
  <1>4. e \in RequestKinds  BY ConstantsAssumption
  <1>5. /\ CyclesType' /\ Len(sampled) <= Len(sampled') /\ Len(sampled') \in Nat /\ Len(sampled) \in Nat
        /\ CycleOf(e) \in 0..Len(sampled')
        /\ e.mine /\ e.main /\ e.percent # Unknown => CycleOf(e) > 0
    BY <1>3, <1>4, RecordedCycle DEF IInv, Typing, CyclesType
  <1> DEFINE n == [mine |-> e.mine, main |-> e.main, failed |-> e.failed,
                   percent |-> e.percent, cycle |-> CycleOf(e)]
  <1>6. n \in EventSet
    <2>1. CycleOf(e) \in Nat  BY <1>5
    <2>2. e.mine \in BOOLEAN /\ e.main \in BOOLEAN /\ e.failed \in BOOLEAN  BY <1>4, Zenon DEF RequestKinds
    <2>3. e.percent \in Percents  BY <1>4 DEF RequestKinds, Percents
    <2> QED  BY <2>1, <2>2, <2>3, Zenon DEF EventSet
  <1>7. /\ n.mine = e.mine /\ n.main = e.main /\ n.percent = e.percent /\ n.cycle = CycleOf(e)
        /\ events' = Append(events, n)
    BY <1>3, Zenon
  <1> HIDE DEF n
  <1>8. Advanced(e, CycleOf(e))
    <2>1. \A c : c = CycleOf(e) => Advanced(e, c)
      <3> SUFFICES ASSUME NEW c, c = CycleOf(e) PROVE Advanced(e, c)  OBVIOUS
      <3>1. c \in Nat /\ (Ignored(e) \/ Invalidated(e, c) \/ InPhase(e, c, Len(events) + 1))
        BY <1>3, <1>5
      <3>2. CASE Ignored(e)  BY <1>4, <1>6, <1>7, <3>1, <3>2, IgnoredAdvanced
      <3>3. CASE Invalidated(e, c)  BY <1>4, <1>6, <1>7, <3>1, <3>3, InvalidatedAdvanced
      <3>4. CASE InPhase(e, c, Len(events) + 1)  BY <1>4, <1>6, <1>7, <3>1, <3>4, InPhaseAdvanced
      <3> QED  BY <3>1, <3>2, <3>3, <3>4
    <2> QED  BY <2>1
  <1>9. /\ events' \in Seq(EventSet) /\ Len(events') = id /\ events'[id] = n
        /\ \A i \in 1..Len(events) : events'[i] = events[i]
        /\ Len(events) \in Nat /\ LastExists'
    BY <1>6, <1>7, RecordedEvent
  <1>10. EventsType'
    <2>1. \A i \in 1..Len(events') : events'[i].cycle <= Len(sampled')
      <3> SUFFICES ASSUME NEW i \in 1..Len(events') PROVE events'[i].cycle <= Len(sampled')
        OBVIOUS
      <3>1. CASE i = id  BY <1>5, <1>7, <1>9, <3>1
      <3>2. CASE i # id
        <4>1. i \in 1..Len(events)  BY <1>9, <3>2
        <4>2. events \in Seq(EventSet) /\ events[i].cycle <= Len(sampled)
          BY <4>1 DEF IInv, Typing, EventsType
        <4>3. events[i] \in EventSet  BY <4>1, <4>2
        <4>4. events[i].cycle \in Nat  BY <4>3 DEF EventSet
        <4> QED  BY <1>5, <1>9, <4>1, <4>2, <4>4
      <3> QED  BY <3>1, <3>2
    <2> QED  BY <1>1, <1>9, <2>1 DEF EventsType
  <1>11. SessionType'
    <2>1. session.status # "none" => session.cycle \in 1..Len(sampled) /\ session.model \in Models
      BY DEF IInv, Typing, SessionType
    <2>2. session'.status # "none" => session'.cycle \in 1..Len(sampled') /\ session'.model \in Models
      BY <1>5, <1>8, <2>1 DEF Advanced
    <2> QED  BY <1>8, <2>2 DEF SessionType, Advanced, InRange
  <1>12. CallsType'
    <2>1. calls' \in 0..MaxCalls
      <3>1. calls \in 0..MaxCalls /\ calls' \in {calls, calls + 1}  BY <1>3 DEF IInv, Typing, CallsType
      <3> QED  BY <1>1, <3>1, ConstantsAssumption
    <2>2. refits' \in Seq(RefitSet) /\ started' \in Nat /\ session'.number = started'
      BY <1>1, <1>8 DEF IInv, Typing, CallsType, Advanced
    <2> QED  BY <1>2, <2>1, <2>2, Zenon DEF CallsType
  <1>13. Claims'  BY <1>1, <1>8 DEF IInv, Claims, ClaimedOnce, Advanced, Active
  <1>14. OneCycleMeasured'
    <2> SUFFICES ASSUME NEW i \in session'.a.counted \union session'.b.counted,
                        events'[i].percent # Unknown
                 PROVE  events'[i].cycle = session'.cycle
      BY DEF OneCycleMeasured
    <2>1. \/ i \in session.a.counted \union session.b.counted
          \/ i = id /\ Concerns(e) /\ ~Invalidates(e, CycleOf(e))
      BY <1>8 DEF Advanced
    <2>2. CASE i \in session.a.counted \union session.b.counted
      <3>1. i \in 1..Len(events)  BY <2>2 DEF IInv, Typing, SessionType, InRange
      <3> QED  BY <1>8, <1>9, <2>2, <3>1 DEF IInv, OneCycleMeasured, Advanced
    <2>3. CASE i = id /\ Concerns(e) /\ ~Invalidates(e, CycleOf(e))
      <3>1. CycleOf(e) > 0 /\ e.percent # Unknown  BY <1>5, <1>7, <1>9, <2>3 DEF Concerns
      <3>2. CycleOf(e) = session.cycle  BY <2>3, <3>1 DEF Invalidates
      <3> QED  BY <1>7, <1>8, <1>9, <2>3, <3>2 DEF Advanced
    <2> QED  BY <2>1, <2>2, <2>3
  <1>15. Shape'  BY <1>8, ShapeIsShapeOf DEF Advanced
  <1> QED  BY <1>5, <1>9, <1>10, <1>11, <1>12, <1>13, <1>14, <1>15 DEF IInv, Typing

LEMMA NextInv == IInv /\ [Next]_vars => IInv'
  <1> SUFFICES ASSUME IInv, [Next]_vars PROVE IInv'  OBVIOUS
  <1>1. CASE RecordUsage  BY <1>1, RecordUsageInv
  <1>2. CASE ClaimRefit  BY <1>2, ClaimRefitInv
  <1>3. CASE LeaveRefit  BY <1>3, LeaveRefitInv
  <1>4. CASE StartCalibration  BY <1>4, StartCalibrationInv
  <1>5. CASE EndCalibration  BY <1>5, EndCalibrationInv
  <1>6. CASE CancelCalibration  BY <1>6, CancelCalibrationInv
  <1>7. ASSUME NEW i \in DOMAIN refits, Fit(i) \/ ReadTarget(i) \/ Finish(i) PROVE IInv'
    BY <1>7, FitInv, ReadTargetInv, FinishInv
  <1>8. CASE Crash  BY <1>8, CrashInv
  <1>9. CASE UNCHANGED vars
    <2>1. UNCHANGED <<events, sampled, open, session, calls, refits, started>>  BY <1>9 DEF vars
    <2>2. orphaned' \in BOOLEAN  BY <1>9, Zenon DEF vars, IInv, Typing, CallsType
    <2>3. Typing'
      <3>1. EventsType' /\ CyclesType' /\ SessionType'
        BY <2>1 DEF IInv, Typing, EventsType, CyclesType, SessionType, InRange
      <3>2. calls' \in 0..MaxCalls /\ refits' \in Seq(RefitSet) /\ started' \in Nat /\ session'.number = started'
        BY <2>1 DEF IInv, Typing, CallsType
      <3> QED  BY <2>2, <3>1, <3>2, Zenon DEF Typing, CallsType
    <2>4. Claims'  BY <2>1 DEF IInv, Claims, ClaimedOnce
    <2>5. SameMeasures  BY <2>1 DEF SameMeasures
    <2> QED  BY <2>3, <2>4, <2>5, SameShape DEF IInv
  <1> QED  BY <1>1, <1>2, <1>3, <1>4, <1>5, <1>6, <1>7, <1>8, <1>9 DEF Next

\* The invariant that everything below rests on: every reachable state is well typed, no
\* session was claimed twice, and its phases counted what their spans hold, in one cycle.
THEOREM Inductive == Spec => []IInv
  <1>1. Init => IInv  BY InitInv
  <1>2. IInv /\ [Next]_vars => IInv'  BY NextInv
  <1> QED  BY <1>1, <1>2, PTL DEF Spec

LEMMA Typed == IInv => TypeOK
  <1> SUFFICES ASSUME IInv PROVE TypeOK  OBVIOUS
  <1>1. EventsType /\ CyclesType /\ SessionType /\ CallsType  BY DEF IInv, Typing
  <1>2. open \in 0..Len(sampled) /\ Len(sampled) <= MaxCycles  BY <1>1 DEF CyclesType
  <1>3. \A i \in DOMAIN events : events[i].percent \in Percents /\ events[i].cycle \in 0..Len(sampled)
    <2> SUFFICES ASSUME NEW i \in DOMAIN events
                 PROVE  events[i].percent \in Percents /\ events[i].cycle \in 0..Len(sampled)
      OBVIOUS
    <2>1. events \in Seq(EventSet) /\ Len(sampled) \in Nat  BY <1>1 DEF EventsType, CyclesType
    <2>2. i \in 1..Len(events) /\ events[i] \in EventSet  BY <2>1
    <2>3. events[i].percent \in Percents /\ events[i].cycle \in Nat  BY <2>2 DEF EventSet
    <2> QED  BY <1>1, <2>1, <2>2, <2>3 DEF EventsType
  <1>4. /\ session.status \in Statuses /\ session.refit \in RefitStates
        /\ session.a \in PhaseSet /\ session.b \in PhaseSet
        /\ InRange(events, session.a) /\ InRange(events, session.b)
        /\ session.status # "none" => session.cycle \in 1..Len(sampled) /\ session.model \in Models
        /\ (session.refit # "none") <=> (session.status = "completed")
    BY <1>1 DEF SessionType, SessionSet
  <1>5. ASSUME NEW p \in PhaseSet, InRange(events, p) PROVE PhaseType(p)
    <2>1. Len(events) \in Nat /\ Len(events) <= MaxEvents /\ DOMAIN events = 1..Len(events)
      BY <1>1 DEF EventsType
    <2> QED  BY <1>5, <2>1, ConstantsAssumption DEF InRange, PhaseSet, PhaseType
  <1>6. PhaseType(session.a) /\ PhaseType(session.b)  BY <1>4, <1>5
  <1>7. calls \in 0..MaxCalls  BY <1>1 DEF CallsType
  <1>8. \A i \in DOMAIN refits : refits[i].pc \in RefitPcs
    <2>1. \A i \in DOMAIN refits : refits[i] \in RefitSet  BY <1>1 DEF CallsType
    <2> QED  BY <2>1 DEF RefitSet
  <1> QED  BY <1>2, <1>3, <1>4, <1>6, <1>7, <1>8 DEF TypeOK, Statuses, RefitStates, RefitPcs

\* Every value has its type, for any number of calls, events, cycles and sessions
\* (the account's events and samples, its session, the calls and the refits).
THEOREM TypeCorrect == Spec => []TypeOK
  <1>1. Spec => []IInv  BY Inductive
  <1>2. IInv => TypeOK  BY Typed
  <1> QED  BY <1>1, <1>2, PTL

LEMMA EndedCounted ==
  ASSUME NEW p, Ended(events, p) PROVE Spanned(p) = p.counted
  BY DEF Ended, Spanned, SpannedIn

LEMMA SpansCountedInv == IInv => SpansAreCounted
  <1> SUFFICES ASSUME IInv PROVE SpansAreCounted  OBVIOUS
  <1>1. /\ session \in SessionSet /\ session.a \in PhaseSet /\ session.b \in PhaseSet
    BY DEF IInv, Typing, SessionType, SessionSet
  <1>2. session.a.to > 0 => Spanned(session.a) = session.a.counted
    <2>1. session.a.to > 0 => Ended(events, session.a)
      BY <1>1 DEF IInv, Shape, SessionSet, Statuses, Unused, UnderWay
    <2> QED  BY <2>1, EndedCounted
  <1>3. session.b.to > 0 => Spanned(session.b) = session.b.counted
    <2>1. session.b.to > 0 => Ended(events, session.b)
      BY <1>1 DEF IInv, Shape, SessionSet, Statuses, Unused, UnderWay
    <2> QED  BY <2>1, EndedCounted
  <1>4. \/ session.b.counted = {}
        \/ Ended(events, session.a) /\ After(session.a, session.b)
    BY <1>1 DEF IInv, Shape, SessionSet, Statuses, Unused
  <1>5. ASSUME Ended(events, session.a), After(session.a, session.b),
               NEW i \in session.a.counted, NEW j \in session.b.counted
        PROVE  i < j
    <2>1. i <= session.a.to /\ session.a.to < session.b.from /\ session.b.from <= j
      BY <1>5 DEF Ended, SpannedIn, After
    <2>2. i \in Nat /\ j \in Nat /\ session.a.to \in Nat /\ session.b.from \in Nat
      BY <1>1 DEF PhaseSet
    <2> QED  BY <2>1, <2>2
  <1>6. \A i \in session.a.counted, j \in session.b.counted : i < j  BY <1>4, <1>5
  <1>7. session.a.counted \intersect session.b.counted = {}
    <2>1. \A i \in session.a.counted : i \in Nat  BY <1>1 DEF PhaseSet
    <2> QED  BY <1>6, <2>1
  <1> QED  BY <1>2, <1>3, <1>6, <1>7 DEF SpansAreCounted

\* The spans of ids of a session hold exactly the events its phases summed, and no event is
\* in both, whatever events of other accounts and scopes lie between them (EndPhase, the ids
\* of handleStartCalibration, endCalibrationPhase and advanceCalibrationForEvent).
THEOREM SpansCounted == Spec => []SpansAreCounted
  <1>1. Spec => []IInv  BY Inductive
  <1>2. IInv => SpansAreCounted  BY SpansCountedInv
  <1> QED  BY <1>1, <1>2, PTL

\* All readings of a session are of the cycle it was started in (advanceCalibrationForEvent).
THEOREM OneCycle == Spec => []OneCycleMeasured
  <1>1. Spec => []IInv  BY Inductive
  <1>2. IInv => OneCycleMeasured  BY DEF IInv
  <1> QED  BY <1>1, <1>2, PTL

\* No two refits are of the same session, however many calls claim (claimCalibrationRefit).
THEOREM ClaimedOnceAlways == Spec => []ClaimedOnce
  <1>1. Spec => []IInv  BY Inductive
  <1>2. IInv => ClaimedOnce  BY DEF IInv, Claims
  <1> QED  BY <1>1, <1>2, PTL

LEMMA EndedStep ==
  ASSUME IInv, [Next]_vars, session.status \in {"completed", "invalid", "cancelled"},
         session'.number = session.number
  PROVE  session'.status = session.status /\ session'.a = session.a /\ session'.b = session.b
  <1>0. session \in SessionSet /\ session.number = started /\ started \in Nat /\ ~Active(session)
    BY DEF IInv, Typing, SessionType, CallsType, Active
  <1>1. CASE RecordUsage
    <2>1. PICK e \in Requests :
            Ignored(e) \/ Invalidated(e, CycleOf(e)) \/ InPhase(e, CycleOf(e), Len(events) + 1)
      BY <1>1, Zenon DEF RecordUsage
    <2> QED  BY <1>0, <2>1 DEF Ignored, Invalidated, InPhase, Concerns
  <1>2. CASE ClaimRefit
    <2>1. session' = [session EXCEPT !.refit = "running"]  BY <1>2, Zenon DEF ClaimRefit
    <2> QED  BY <1>0, <2>1 DEF SessionSet
  <1>3. CASE LeaveRefit  BY <1>3 DEF LeaveRefit
  <1>4. CASE StartCalibration
    <2>1. session'.number = started + 1
      <3>1. PICK m \in Models :
              session' = [NoSession EXCEPT !.number = started + 1, !.status = "phase1", !.model = m,
                                           !.cycle = open, !.a = Phase(Len(events) + 1, sampled[open])]
        BY <1>4, Zenon DEF StartCalibration
      <3> QED  BY <3>1 DEF NoSession
    <2> QED  BY <1>0, <2>1
  <1>5. CASE EndCalibration  BY <1>0, <1>5 DEF EndCalibration
  <1>6. CASE CancelCalibration  BY <1>0, <1>6 DEF CancelCalibration
  <1>7. ASSUME NEW i \in DOMAIN refits, Fit(i) \/ ReadTarget(i) \/ Finish(i)
        PROVE  session'.status = session.status /\ session'.a = session.a /\ session'.b = session.b
    <2>1. CASE Fit(i) \/ ReadTarget(i)  BY <2>1 DEF Fit, ReadTarget
    <2>2. CASE Finish(i)
      <3>1. session' = Finished(refits[i])  BY <2>2, Zenon DEF Finish
      <3> QED  BY <1>0, <3>1 DEF Finished, SessionSet
    <2> QED  BY <1>7, <2>1, <2>2
  <1>8. CASE Crash  BY <1>8 DEF Crash
  <1>9. CASE UNCHANGED vars  BY <1>9 DEF vars
  <1> QED  BY <1>1, <1>2, <1>3, <1>4, <1>5, <1>6, <1>7, <1>8, <1>9 DEF Next

\* A session that is over is never measured again: whatever is recorded, ended, cancelled or
\* refitted later, its outcome and its phases stay (calibration.go, the checks of Status).
THEOREM EndedStay == Spec => EndedSessionsStay
  <1>1. Spec => []IInv  BY Inductive
  <1>2. ASSUME IInv, [Next]_vars
        PROVE  [session.status \in {"completed", "invalid", "cancelled"} /\ session'.number = session.number =>
                  /\ session'.status = session.status
                  /\ session'.a = session.a /\ session'.b = session.b]_vars
    BY <1>2, EndedStep
  <1> QED  BY <1>1, <1>2, PTL DEF Spec, EndedSessionsStay


\* The end of a phase is its start or the highest percent that it was shown.
Highest(evs, p) ==
  /\ \A i \in p.counted : ~evs[i].failed => evs[i].percent <= p.end
  /\ p.end = p.start \/ \E i \in p.counted : ~evs[i].failed /\ evs[i].percent = p.end

\* So it is of both phases of s, as far as they have begun, and b starts where a ends.
PeaksOf(evs, s) ==
  /\ s.status \in {"phase1", "phase2", "completed"} => Highest(evs, s.a)
  /\ s.status \in {"phase2", "completed"} => Highest(evs, s.b) /\ s.b.start = s.a.end

Peaks == PeaksOf(events, session)

\* Ending a phase hands its end on to the next one.
LEMMA EndPhasePeaks ==
  ASSUME NEW evs, NEW s \in SessionSet, Active(s), NEW last \in Nat, PeaksOf(evs, s)
  PROVE  PeaksOf(evs, EndPhase(s, last))
  <1> DEFINE r == EndPhase(s, last)
  <1>0. s.a \in PhaseSet /\ s.b \in PhaseSet  BY DEF SessionSet
  <1>1. CASE s.status = "phase1"
    <2>1. r.status = "phase2" /\ r.a = [s.a EXCEPT !.to = last] /\ r.b = Phase(last + 1, s.a.end)
      BY <1>1, EndPhaseFields
    <2>2. /\ r.a.counted = s.a.counted /\ r.a.start = s.a.start /\ r.a.end = s.a.end
          /\ r.b.counted = {} /\ r.b.start = s.a.end /\ r.b.end = s.a.end
      BY <1>0, <2>1 DEF PhaseSet, Phase
    <2> HIDE DEF r
    <2> QED  BY <1>1, <2>1, <2>2 DEF PeaksOf, Highest, r
  <1>2. CASE s.status = "phase2"
    <2>1. r.status = "completed" /\ r.a = s.a /\ r.b = [s.b EXCEPT !.to = last]
      BY <1>2, EndPhaseFields
    <2>2. r.b.counted = s.b.counted /\ r.b.start = s.b.start /\ r.b.end = s.b.end
      BY <1>0, <2>1 DEF PhaseSet
    <2> HIDE DEF r
    <2> QED  BY <1>2, <2>1, <2>2 DEF PeaksOf, Highest, r
  <1> QED  BY <1>1, <1>2 DEF Active

\* The steps that measure nothing.
LEMMA SamePeaks ==
  ASSUME IInv, Peaks, session'.a = session.a, session'.b = session.b,
         session'.status \in {session.status, "invalid", "cancelled"},
         \A i \in 1..Len(events) : events'[i] = events[i]
  PROVE  Peaks'
  <1>1. session.a.counted \subseteq 1..Len(events) /\ session.b.counted \subseteq 1..Len(events)
    BY DEF IInv, Typing, SessionType, InRange
  <1>2. PeaksOf(events', session')  BY <1>1 DEF Peaks, PeaksOf, Highest
  <1> QED  BY <1>2 DEF Peaks, PeaksOf, Highest

\* The current phase with the event that is recorded: a success that shows a percent of the
\* session's cycle is measured, so the end stays the highest.
LEMMA CountedHighest ==
  ASSUME IInv, Active(session), NEW e \in RequestKinds, NEW n \in EventSet, NEW c \in Nat,
         events' = Append(events, n), n.failed = e.failed, n.percent = e.percent,
         e.percent # Unknown => c = session.cycle,
         Highest(events, Current(session))
  PROVE  LET p == Counted(e, c, Len(events) + 1) IN
         p.start = Current(session).start /\ Highest(events', p)
  <1> DEFINE id == Len(events) + 1
             q == Current(session)
             x == IF Measures(e, c) /\ e.percent > q.end THEN e.percent ELSE q.end
             k == q.counted \union {id}
             p == Counted(e, c, id)
  <1>1. session \in SessionSet /\ InRange(events, session.a) /\ InRange(events, session.b)
    BY DEF IInv, Typing, SessionType
  <1>2. q \in PhaseSet /\ InRange(events, q)  BY <1>1 DEF Current, SessionSet
  <1>3. /\ events'[id] = n /\ Len(events) \in Nat
        /\ \A i \in 1..Len(events) : events'[i] = events[i] /\ events[i] \in EventSet
    <2>1. events \in Seq(EventSet)  BY DEF IInv, Typing, EventsType
    <2>2. \A i \in 1..Len(events) : events[i] \in EventSet  BY <2>1
    <2> QED  BY <2>2, RecordedEvent
  <1>4. p.start = q.start /\ p.counted = k /\ p.end = x
    <2>1. p = [q EXCEPT !.counted = @ \union {id},
                        !.end = IF Measures(e, c) /\ e.percent > @ THEN e.percent ELSE @]
      BY Zenon DEF Counted
    <2>2. p = [q EXCEPT !.counted = k, !.end = x]  BY <1>2, <2>1 DEF PhaseSet
    <2> HIDE DEF p, q, x, k
    <2> QED  BY <1>2, <2>2 DEF PhaseSet
  <1>5. /\ q.end \in Int /\ e.percent \in Int /\ (e.percent = Unknown => e.percent < q.end)
        /\ n.percent = e.percent
        /\ \A i \in 1..Len(events) : events[i].percent \in Int
    <2>1. q.end \in 0..Full /\ Full \in Nat  BY <1>2, ConstantsAssumption DEF PhaseSet
    <2>2. e.percent \in Percents  BY DEF RequestKinds, Percents
    <2>3. \A i \in 1..Len(events) : events[i].percent \in Percents  BY <1>3 DEF EventSet
    <2> QED  BY <2>1, <2>2, <2>3 DEF Percents, Unknown
  <1>6. /\ \A i \in q.counted : ~events[i].failed => events[i].percent <= q.end
        /\ q.end = q.start \/ \E i \in q.counted : ~events[i].failed /\ events[i].percent = q.end
        /\ q.counted \subseteq 1..Len(events)
    BY <1>2 DEF Highest, InRange
  <1>7. x \in Int /\ x >= q.end /\ (x = q.end \/ (~e.failed /\ x = e.percent))
        /\ (~e.failed => e.percent <= x)
    <2>1. ~e.failed /\ e.percent # Unknown => Measures(e, c)  BY DEF Measures
    <2>2. Measures(e, c) => ~e.failed  BY DEF Measures
    <2> HIDE DEF q
    <2> QED  BY <1>5, <2>1, <2>2
  <1> HIDE DEF p, q, x
  <1>8. ASSUME NEW i \in k, ~events'[i].failed PROVE events'[i].percent <= x
    <2>1. CASE i = id  BY <1>3, <1>5, <1>7, <1>8, <2>1
    <2>2. CASE i \in q.counted  BY <1>3, <1>5, <1>6, <1>7, <1>8, <2>2
    <2> QED  BY <1>8, <2>1, <2>2
  <1>9. x = q.start \/ \E i \in k : ~events'[i].failed /\ events'[i].percent = x
    <2>1. CASE x = q.end
      <3>1. CASE q.end = q.start  BY <2>1, <3>1
      <3>2. ASSUME NEW i \in q.counted, ~events[i].failed, events[i].percent = q.end
            PROVE  \E j \in k : ~events'[j].failed /\ events'[j].percent = x
        <4>1. i \in k /\ events'[i] = events[i]  BY <1>3, <1>6, <3>2
        <4> QED  BY <2>1, <3>2, <4>1
      <3> QED  BY <1>6, <3>1, <3>2
    <2>2. CASE ~e.failed /\ x = e.percent
      <3>1. id \in k /\ ~events'[id].failed /\ events'[id].percent = x  BY <1>3, <2>2
      <3> QED  BY <3>1
    <2> QED  BY <1>7, <2>1, <2>2
  <1>10. Highest(events', p)  BY <1>4, <1>8, <1>9 DEF Highest
  <1> QED  BY <1>4, <1>10 DEF p, q

\* A response that is recorded, whether it is measured, ends the session or neither.
LEMMA RecordUsagePeaks == ASSUME IInv, Peaks, RecordUsage PROVE Peaks'
  <1> DEFINE id == Len(events) + 1
  <1>1. PICK e \in Requests :
          /\ EnsureEventCycle(e)
          /\ events' = Append(events, [mine |-> e.mine, main |-> e.main, failed |-> e.failed,
                                       percent |-> e.percent, cycle |-> CycleOf(e)])
          /\ \/ Ignored(e)
             \/ Invalidated(e, CycleOf(e))
             \/ InPhase(e, CycleOf(e), id)
    BY Zenon DEF RecordUsage
  <1>2. e \in RequestKinds  BY ConstantsAssumption
  <1> DEFINE c == CycleOf(e)
             n == [mine |-> e.mine, main |-> e.main, failed |-> e.failed,
                   percent |-> e.percent, cycle |-> c]
  <1>3. c \in Nat /\ (e.mine /\ e.main /\ e.percent # Unknown => c > 0)
    <2>1. CycleOf(e) \in 0..Len(sampled') /\ (e.mine /\ e.main /\ e.percent # Unknown => CycleOf(e) > 0)
      BY <1>1, <1>2, RecordedCycle
    <2> QED  BY <2>1
  <1>4. n \in EventSet /\ n.failed = e.failed /\ n.percent = e.percent /\ events' = Append(events, n)
    <2>1. e.mine \in BOOLEAN /\ e.main \in BOOLEAN /\ e.failed \in BOOLEAN  BY <1>2, Zenon DEF RequestKinds
    <2>2. e.percent \in Percents  BY <1>2 DEF RequestKinds, Percents
    <2> HIDE DEF c
    <2>3. n \in EventSet  BY <1>3, <2>1, <2>2, Zenon DEF EventSet
    <2> QED  BY <1>1, <2>3 DEF c
  <1>5. Ignored(e) \/ Invalidated(e, c) \/ InPhase(e, c, id)  BY <1>1
  <1> HIDE DEF c, n
  <1>6. /\ \A i \in 1..Len(events) : events'[i] = events[i]
        /\ Len(events) \in Nat
    BY <1>4, RecordedEvent
  <1>7. /\ session \in SessionSet /\ InRange(events, session.a) /\ InRange(events, session.b)
        /\ session.a \in PhaseSet /\ session.b \in PhaseSet
    BY DEF IInv, Typing, SessionType, SessionSet
  <1>8. CASE Ignored(e)  BY <1>6, <1>8, SamePeaks DEF Ignored
  <1>9. CASE Invalidated(e, c)
    <2>1. session'.a = session.a /\ session'.b = session.b /\ session'.status = "invalid"
      BY <1>7, <1>9 DEF Invalidated, SessionSet
    <2> QED  BY <1>6, <2>1, SamePeaks
  <1>10. CASE InPhase(e, c, id)
    <2> DEFINE q == Current(session)
               p == Counted(e, c, id)
               s == WithCurrent(session, p)
    <2>1. Concerns(e) /\ ~Invalidates(e, c) /\ Active(session) /\ e.mine /\ e.main
      BY <1>10 DEF InPhase, Concerns
    <2>2. e.percent # Unknown => c = session.cycle  BY <1>3, <2>1 DEF Invalidates
    <2>3. Highest(events, q)  BY <2>1 DEF Peaks, PeaksOf, Active, Current
    <2>4. p.start = q.start /\ Highest(events', p)
      BY <1>2, <1>3, <1>4, <2>1, <2>2, <2>3, CountedHighest
    <2>5. q \in {session.a, session.b}  BY DEF Current
    <2>6. ~(id < q.from)  BY <1>6, <1>7, <2>5 DEF InRange, PhaseSet
    <2>7. session' = s \/ session' = EndPhase(s, id)  BY <1>10, <2>6, Zenon DEF InPhase
    <2>8. p \in PhaseSet
      <3>1. UnderWay(events, q)  BY <2>1 DEF IInv, Shape, Active, Current
      <3>2. n.mine /\ n.main  BY <2>1 DEF n
      <3>3. p \in PhaseSet
        BY <1>2, <1>4, <2>1, <3>1, <3>2, CountedPhase
      <3> QED  BY <3>3
    <2> HIDE DEF p, s
    <2>9. /\ s \in SessionSet /\ s.status = session.status
          /\ session.status = "phase1" => s.a = p /\ s.b = session.b
          /\ session.status = "phase2" => s.a = session.a /\ s.b = p
      BY <1>7, <2>1, <2>8, WithCurrentFields DEF s
    <2>10. PeaksOf(events', s)
      <3>1. CASE session.status = "phase1"  BY <2>4, <2>9, <3>1 DEF PeaksOf
      <3>2. CASE session.status = "phase2"
        <4>1. Highest(events, session.a) /\ session.b.start = session.a.end /\ q = session.b
          BY <3>2 DEF Peaks, PeaksOf, Current
        <4>2. Highest(events', session.a)
          BY <1>6, <1>7, <4>1 DEF Highest, InRange
        <4> QED  BY <2>4, <2>9, <3>2, <4>1, <4>2 DEF PeaksOf
      <3> QED  BY <2>1, <3>1, <3>2 DEF Active
    <2>11. PeaksOf(events', session')
      <3>1. CASE session' = s  BY <2>10, <3>1
      <3>2. CASE session' = EndPhase(s, id)
        <4>1. Active(s) /\ id \in Nat  BY <1>6, <2>1, <2>9 DEF Active
        <4> HIDE DEF id
        <4>2. PeaksOf(events', EndPhase(s, id))  BY <2>9, <2>10, <4>1, EndPhasePeaks
        <4> QED  BY <3>2, <4>2
      <3> QED  BY <2>7, <3>1, <3>2
    <2> QED  BY <2>11 DEF Peaks, PeaksOf, Highest
  <1> QED  BY <1>5, <1>8, <1>9, <1>10

\* Every action keeps the ends the highest percents.
LEMMA PeaksStep == ASSUME IInv, Peaks, [Next]_vars PROVE Peaks'
  <1>0. session \in SessionSet /\ session.a \in PhaseSet  BY DEF IInv, Typing, SessionType, SessionSet
  <1>1. CASE RecordUsage  BY <1>1, RecordUsagePeaks
  <1>2. CASE ClaimRefit
    <2>1. session' = [session EXCEPT !.refit = "running"] /\ events' = events
      BY <1>2, Zenon DEF ClaimRefit
    <2>2. session'.a = session.a /\ session'.b = session.b /\ session'.status = session.status
      BY <1>0, <2>1 DEF SessionSet
    <2> QED  BY <2>1, <2>2, SamePeaks
  <1>3. CASE LeaveRefit
    <2>1. session' = session /\ events' = events  BY <1>3 DEF LeaveRefit
    <2> QED  BY <2>1, SamePeaks
  <1>4. CASE StartCalibration
    <2>1. PICK m \in Models :
            session' = [NoSession EXCEPT !.number = started + 1, !.status = "phase1", !.model = m,
                                         !.cycle = open, !.a = Phase(Len(events) + 1, sampled[open])]
      BY <1>4, Zenon DEF StartCalibration
    <2> DEFINE p == Phase(Len(events) + 1, sampled[open])
    <2>2. session'.status = "phase1" /\ session'.a = p  BY <2>1 DEF NoSession
    <2>3. p.end = p.start /\ p.counted = {}  BY DEF Phase
    <2> HIDE DEF p
    <2> QED  BY <2>2, <2>3 DEF Peaks, PeaksOf, Highest
  <1>5. CASE EndCalibration
    <2> DEFINE n == LastOfAccount
    <2>1. Active(session) /\ session' = EndPhase(session, n) /\ events' = events
      BY <1>5, Zenon DEF EndCalibration
    <2>2. n \in Nat
      <3>1. n \in 0..Len(events) /\ Len(events) \in Nat
        BY LastOfAccountIsLast DEF IInv, Typing, EventsType
      <3> QED  BY <3>1
    <2> HIDE DEF n
    <2>3. PeaksOf(events, EndPhase(session, n))  BY <1>0, <2>1, <2>2, EndPhasePeaks DEF Peaks
    <2> QED  BY <2>1, <2>3 DEF Peaks, PeaksOf, Highest
  <1>6. CASE CancelCalibration
    <2>1. session' = [session EXCEPT !.status = "cancelled"] /\ events' = events
      BY <1>6 DEF CancelCalibration
    <2>2. session'.a = session.a /\ session'.b = session.b /\ session'.status = "cancelled"
      BY <1>0, <2>1 DEF SessionSet
    <2> QED  BY <2>1, <2>2, SamePeaks
  <1>7. ASSUME NEW i \in DOMAIN refits, Fit(i) \/ ReadTarget(i) \/ Finish(i) PROVE Peaks'
    <2>1. events' = events  BY <1>7 DEF Fit, ReadTarget, Finish
    <2>2. session'.a = session.a /\ session'.b = session.b /\ session'.status = session.status
      <3>1. CASE Fit(i) \/ ReadTarget(i)  BY <3>1 DEF Fit, ReadTarget
      <3>2. CASE Finish(i)
        <4>1. session' = Finished(refits[i])  BY <3>2, Zenon DEF Finish
        <4> QED  BY <1>0, <4>1 DEF Finished, SessionSet
      <3> QED  BY <1>7, <3>1, <3>2
    <2> QED  BY <2>1, <2>2, SamePeaks
  <1>8. CASE Crash
    <2>1. session' = session /\ events' = events  BY <1>8 DEF Crash
    <2> QED  BY <2>1, SamePeaks
  <1>9. CASE UNCHANGED vars
    <2>1. session' = session /\ events' = events  BY <1>9 DEF vars
    <2> QED  BY <2>1, SamePeaks
  <1> QED  BY <1>1, <1>2, <1>3, <1>4, <1>5, <1>6, <1>7, <1>8, <1>9 DEF Next

\* Two phases with a common end add up to the whole.
LEMMA PeaksShared == ASSUME IInv, Peaks PROVE ConsumptionShared
  <1> SUFFICES ASSUME session.status \in {"phase2", "completed"}
               PROVE  LET shown == {events[i].percent :
                            i \in {j \in session.a.counted \union session.b.counted : ~events[j].failed}}
                          top   == CHOOSE p \in shown \union {session.a.start} :
                                     \A q \in shown \union {session.a.start} : q <= p
                      IN (session.a.end - session.a.start) + (session.b.end - session.b.start)
                           = top - session.a.start
    BY DEF ConsumptionShared
  <1> DEFINE a == session.a
             b == session.b
             shown == {events[i].percent : i \in {j \in a.counted \union b.counted : ~events[j].failed}}
             S == shown \union {a.start}
             top == CHOOSE p \in S : \A q \in S : q <= p
  <1>1. a \in PhaseSet /\ b \in PhaseSet /\ InRange(events, a) /\ InRange(events, b)
    BY DEF IInv, Typing, SessionType, SessionSet
  <1>2. Highest(events, a) /\ Highest(events, b) /\ b.start = a.end  BY DEF Peaks, PeaksOf
  <1>3. /\ a.start \in Int /\ a.end \in Int /\ b.end \in Int
        /\ a.start <= a.end /\ a.end <= b.end
    BY <1>1, <1>2, ConstantsAssumption DEF PhaseSet, InRange
  <1>4. \A i \in a.counted \union b.counted : events[i].percent \in Int
    <2>1. events \in Seq(EventSet)  BY DEF IInv, Typing, EventsType
    <2>2. a.counted \union b.counted \subseteq 1..Len(events)  BY <1>1 DEF InRange
    <2>3. \A i \in 1..Len(events) : events[i] \in EventSet  BY <2>1
    <2>4. \A i \in 1..Len(events) : events[i].percent \in Percents  BY <2>3 DEF EventSet
    <2> QED  BY <2>2, <2>4, ConstantsAssumption DEF Percents, Unknown
  <1> HIDE DEF a, b
  <1>5. \A q \in S : q \in Int /\ q <= b.end
    <2> SUFFICES ASSUME NEW q \in shown PROVE q \in Int /\ q <= b.end
      BY <1>3
    <2>1. PICK i \in a.counted \union b.counted : ~events[i].failed /\ q = events[i].percent
      OBVIOUS
    <2> QED  BY <1>2, <1>3, <1>4, <2>1 DEF Highest
  <1>6. b.end \in S
    <2>1. CASE b.end = b.start /\ a.end = a.start  BY <1>2, <2>1
    <2>2. ASSUME NEW i \in a.counted \union b.counted, ~events[i].failed, events[i].percent = b.end
          PROVE  b.end \in S
      BY <2>2
    <2> QED  BY <1>2, <2>1, <2>2 DEF Highest
  <1> HIDE DEF S
  <1>7. top \in S /\ \A q \in S : q <= top  BY <1>5, <1>6
  <1> HIDE DEF top
  <1>8. top = b.end  BY <1>5, <1>6, <1>7
  <1>9. (a.end - a.start) + (b.end - b.start) = top - a.start  BY <1>2, <1>3, <1>8
  <1> QED  BY <1>9 DEF a, b, top, S

\* What the two phases of a session measured adds up to what the successful responses of
\* the account showed above its start: EndPhase hands the end of phase A on to phase B.
THEOREM ConsumptionSharedAlways == Spec => []ConsumptionShared
  <1>1. Spec => []IInv  BY Inductive
  <1>2. Init => Peaks
    BY DEF Init, Peaks, PeaksOf, NoSession
  <1>3. IInv /\ Peaks /\ [Next]_vars => Peaks'  BY PeaksStep
  <1>4. IInv /\ Peaks => ConsumptionShared  BY PeaksShared
  <1> QED  BY <1>1, <1>2, <1>3, <1>4, PTL DEF Spec
=============================================================================
