------------------------------ MODULE TimeOrder ------------------------------
(***************************************************************************)
(* The order in which the queries of the estimator go through events:      *)
(* "ORDER BY CASE WHEN observed_at>0 THEN observed_at ELSE requested_at    *)
(* END, id".  An event that was recorded late takes the place of the time  *)
(* at which its response was observed.  Ids are positions in the log, and  *)
(* observed is a function from the ids of a query to those times.          *)
(***************************************************************************)
EXTENDS Naturals, FiniteSets

Before(observed, i, j) ==
  observed[i] < observed[j] \/ (observed[i] = observed[j] /\ i < j)

\* How many rows a row has before it.
Rank(observed, i) == Cardinality({j \in DOMAIN observed : Before(observed, j, i)})

\* The ids in this order.
InOrder(observed) ==
  [n \in 1..Cardinality(DOMAIN observed) |->
     CHOOSE i \in DOMAIN observed : Rank(observed, i) + 1 = n]

=============================================================================
