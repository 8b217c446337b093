------------------------------ MODULE MCCycles ------------------------------
(* Instances of QuotaCycles for TLC: a window of 20 s, a tolerance of 1 s.   *)
EXTENDS MonthlyReport

Reading(requested, observed, used, reset) ==
  [requested |-> requested, observed |-> observed, used |-> used, reset |-> reset,
   window |-> 20, plan |-> NoPlan, quota |-> TRUE, failed |-> FALSE]

Failing(r) == [r EXCEPT !.failed = TRUE]

Unknown(r) == [r EXCEPT !.quota = FALSE]

\* A refill and its recovery, and the deadline.
Refilled == {
  Unknown(Reading(1, 1, 0, 20)),
  Reading(2, 2, 60, 21),          \* the first window, until 21
  Reading(3, 7, 60, 21),          \* a stream
  Reading(4, 4, 2, 21),           \* a refill on the same schedule
  Reading(5, 5, 2, 21),
  Reading(7, 7, 3, 21),
  Reading(4, 5, 20, 25),          \* a refill with a new window, until 25
  Reading(6, 6, 20, 25),
  Reading(7, 8, 30, 25),
  Reading(8, 9, 30, 25),
  Reading(9, 9, 60, 21),          \* the first schedule again
  Reading(10, 11, 100, 21),
  Failing(Reading(12, 12, 0, 25)),
  Reading(21, 21, 100, 41),       \* the next window
  Reading(22, 22, 1, 41)}

\* The deadline again, and then a refill that a request from before it shows first.
Overlapping == {
  Reading(2, 2, 60, 21),
  Reading(20, 20, 30, 41),        \* just before the deadline
  Reading(21, 21, 100, 41),
  Reading(22, 22, 30, 41),
  Reading(20, 23, 1, 41),
  Reading(23, 24, 1, 41),
  Reading(24, 25, 2, 41)}

Year == Refilled \cup Overlapping

\* Spec, of ledgers that hold the readings of one of them.
YearNext ==
  \E story \in {Refilled, Overlapping} :
    /\ \A i \in DOMAIN events : Observation(events[i]) \in story
    /\ \E e \in story : Arrives(e) /\ InsertEvent(e)

YearSpec == Init /\ [][YearNext]_vars

=============================================================================
