------------------------------ MODULE MCCommands -----------------------------
(***************************************************************************)
(* Instances of Commands for TLC.                                          *)
(***************************************************************************)
EXTENDS Commands, TLC

CONSTANTS t1, w1, w2, p1, p2, c1, c2, c3

\* A trader's accounts alternate between the partitions, or share one.
Alternating == [a \in Accounts |-> IF a[2] = 0 THEN p1 ELSE p2]
OnePartition == [a \in Accounts |-> p1]

\* The longer the log and the more orders, the fewer the failures; c1 is drawn
\* first.  No fair action needs a failure, draws an order or makes a log longer.
Budget ==
    /\ \A p \in Partitions : Len(log[p]) + failures + 2 * Cardinality(drawn) =< 6
    /\ drawn # {} => c1 \in drawn

BudgetNext == Next /\ Budget'

BudgetSpec == Init /\ [][BudgetNext]_vars /\ Fairness
==============================================================================
