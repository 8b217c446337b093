----------------------------- MODULE MCLifecycle -----------------------------
(* Instances of PluginLifecycle for TLC.                                     *)
EXTENDS PluginLifecycle, TLC

CONSTANTS
  Loop, Flusher,  (* the slots of the background loop and of the drop flusher *)
  Host            (* the thread that configures and quiesces, in HostSpec     *)

\* There is at most one background loop and one flusher at a time; refits and
\* repricings share the other slots.
SharedSlots ==
  [what \in SpawnKinds |->
     CASE what = "background" -> {Loop}
       [] what = "flush"      -> {Flusher}
       [] OTHER               -> Jobs \ {Loop, Flusher}]

\* A refit shares the slot of the flusher, so that it can start a repricing.
RefitSlots ==
  [what \in SpawnKinds |->
     CASE what = "background"         -> {Loop}
       [] what \in {"flush", "refit"} -> {Flusher}
       [] OTHER                       -> Jobs \ {Loop, Flusher}]

\* Threads and store slots are interchangeable.
Symmetry == Permutations(Threads) \cup Permutations(Stores)

\* One drop per database; drops on the default database only.
OneDropEach  == [p \in Paths |-> 1]
OneDropFirst == [p \in Paths |-> IF p = DefaultPath THEN 1 ELSE 0]

\* configure and quiesce exclude each other (lifecycleMu): one thread makes
\* these calls, and the others make all the rest.
HostNext ==
  \/ Quiesce(Host) \/ Configure(Host)
  \/ \E t \in Threads \ {Host} : Call(t)
  \/ \E j \in Jobs : Worker(j)
  \/ \E s \in Stores : CheckpointDone(s)

HostSpec == Init /\ [][HostNext]_vars /\ Fairness

OnlyFalse == {FALSE}
OnlyTrue  == {TRUE}
=============================================================================
