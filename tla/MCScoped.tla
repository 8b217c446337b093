------------------------------ MODULE MCScoped ------------------------------
(* Instances of ScopedSeries for TLC: a window of 20 s, a tolerance of 1 s.  *)
EXTENDS ScopedSeries

Reading(observed, used, reset) ==
  [observed |-> observed, used |-> used, reset |-> reset, window |-> 20,
   plan |-> NoPlan, shown |-> TRUE, failed |-> FALSE]

Spark == {
  Reading(2, 60, 21),            \* the first window, until 21
  Reading(20, 2, 41),            \* the next window, a little early
  Reading(23, 3, 41),
  Reading(25, 60, 43),           \* its schedule is corrected
  Reading(26, 62, 41),
  Reading(27, 1, 41),            \* low, but alone in its regime
  Reading(28, 0, 48),            \* a refill, with a new window
  Reading(30, 0, 48),
  Reading(31, 1, 48),
  [Reading(32, 0, 48) EXCEPT !.failed = TRUE],
  Reading(33, 70, 48),
  Reading(47, 0, 68),            \* the next window
  Reading(50, 4, 68)}

Reports == {24, 29, 35, 68}

\* At the scale of the code: a weekly window that is refilled after a day.
Weekly(observed, used, reset) ==
  [Reading(observed, used, reset + 604800) EXCEPT !.window = 604800]

Refill == {
  Weekly(1003, 10, 1000), Weekly(50000, 60, 1000), Weekly(86403, 0, 86400),
  Weekly(86440, 0, 86400), Weekly(86490, 1, 86400)}

=============================================================================
