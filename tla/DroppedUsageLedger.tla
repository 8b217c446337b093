-------------------------- MODULE DroppedUsageLedger --------------------------
(***************************************************************************)
(* What the accounting of dropped usage events promises, without counters  *)
(* in memory, flushers, retries, drains or locks: every database has one   *)
(* total, a drop adds one to the total of the database being served, and   *)
(* nothing else changes a total but a write that commits and reports an    *)
(* error: it may count again what is counted for the database that was     *)
(* served last.  PluginLifecycle implements it.                            *)
(***************************************************************************)
EXTENDS Naturals

CONSTANTS
  Paths,         (* values of data_path                                       *)
  None,          (* no database is served                                     *)
  AmbiguousWrite (* whether a write may commit and still report a timeout     *)

VARIABLES
  serving,   (* the database that accepts usage events, or None               *)
  last,      (* the database that is served, or was served last               *)
  total      (* database -> usage events it had to drop                       *)

Init ==
  /\ serving = None
  /\ last \in Paths
  /\ total = [p \in Paths |-> 0]

\* A database starts to be served: never directly in the place of another.
Publish(p) ==
  /\ serving = None
  /\ serving' = p /\ last' = p
  /\ UNCHANGED total

Withdraw ==
  /\ serving' = None
  /\ UNCHANGED <<last, total>>

Drop ==
  /\ serving # None
  /\ total' = [total EXCEPT ![serving] = @ + 1]
  /\ UNCHANGED <<serving, last>>

\* Drops of the last database are counted a second time.
Recount ==
  /\ AmbiguousWrite
  /\ \E n \in 1..total[last] : total' = [total EXCEPT ![last] = @ + n]
  /\ UNCHANGED <<serving, last>>

Next == (\E p \in Paths : Publish(p)) \/ Withdraw \/ Drop \/ Recount

Spec == Init /\ [][Next]_<<serving, last, total>>
=============================================================================
