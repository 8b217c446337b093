------------------------------ MODULE MCPricing ------------------------------
(* Instances of PricingTask for TLC.                                         *)
EXTENDS PricingTask

TwoTimes == {1, 2}
TwoCycles == {1, 2}

\* A history of at most one event, without settings or with those of an older mode.
OldInit ==
  /\ Init /\ Len(events) < 2
  /\ \A i \in DOMAIN events : events[i].cycle = 1 /\ events[i].at = 1
  /\ saved = None \/ (mark = "old_mode" /\ saved = Default)

\* The first event is the earliest.  Further ones come while the plugin serves and
\* nobody stops or configures it, and the last takes a second cycle back.
BoundedNext ==
  /\ Next
  /\ events' # <<>> => events'[1].at = 1
  /\ Len(events') > 1 => up' /\ conf' = "none"
  /\ Len(events) < MaxEvents /\ Len(events') = MaxEvents =>
       events[2].cycle = 2 /\ events'[2].cycle = 1 /\ events'[MaxEvents].at = 1

\* FairSpec within these bounds.
BoundedSpec ==
  /\ OldInit /\ [][BoundedNext]_vars
  /\ WF_vars(TaskStep)
  /\ WF_vars(ConfigureLoad \/ ConfigureSeal \/ ConfigurePublish \/ ConfigureMigrate)
=============================================================================
