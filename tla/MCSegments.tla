----------------------------- MODULE MCSegments -----------------------------
(* Instances of QuotaSegments for TLC: a window of 20 s.                     *)
EXTENDS QuotaSegments

Reading(requested, observed, used, reset) ==
  [requested |-> requested, observed |-> observed, used |-> used, reset |-> reset,
   window |-> 20, plan |-> NoPlan, quota |-> TRUE, failed |-> FALSE]

Failing(r) == [r EXCEPT !.failed = TRUE]

Unknown(r) == [r EXCEPT !.quota = FALSE]

Stream == {
  Reading(2, 2, 60, 21),          \* the first window, until 21
  Failing(Reading(3, 4, 61, 22)), \* its reset jitters
  Reading(4, 5, 20, 25),          \* a refill with a new window, until 25
  Reading(6, 6, 20, 25),
  Reading(7, 8, 21, 25),
  Unknown(Reading(8, 8, 0, 25)),  \* without a percent
  Reading(9, 9, 62, 21),          \* the first schedule again
  Reading(10, 10, 63, 21)}

\* At the scale of the code: a weekly window at 60% that is refilled at 5000.
Week == [requested |-> 0, observed |-> 0, used |-> 0, reset |-> 0,
         window |-> 604800, plan |-> NoPlan, quota |-> TRUE, failed |-> FALSE]

Refill ==
  {[Week EXCEPT !.requested = r[1], !.observed = r[2], !.used = r[3], !.reset = r[4] + 604800] :
     r \in {<<1000, 1001, 60, 1000>>, <<5000, 5001, 0, 5000>>,
            <<5300, 5301, 0, 5000>>, <<5600, 5601, 1, 5000>>, <<5900, 5901, 1, 5000>>}}

=============================================================================
