---------------------------- MODULE AtomicOrders -----------------------------
(***************************************************************************)
(* What placing orders promises one user: an order is accepted at most     *)
(* once, in one step that takes its cost from what is available, and only  *)
(* while fewer than Limit orders are open.                                 *)
(***************************************************************************)
EXTENDS Integers, FiniteSets

CONSTANTS
    ClientIds,      \* client_order_id
    Cost,           \* what each order reserves
    Limit           \* 100 open orders

VARIABLES
    orders,         \* status per client_order_id
    available

OpenOrders == {c \in ClientIds : orders[c] = "open"}

Init ==
    /\ orders = [c \in ClientIds |-> "absent"]
    /\ available \in Nat

Place(c) ==
    /\ orders[c] = "absent"
    /\ Cardinality(OpenOrders) < Limit
    /\ available >= Cost[c]
    /\ orders' = [orders EXCEPT ![c] = "open"]
    /\ available' = available - Cost[c]

\* Filled or cancelled; what it did not spend is available again.
Close(c) ==
    /\ orders[c] = "open"
    /\ orders' = [orders EXCEPT ![c] = "closed"]
    /\ \E unspent \in 0 .. Cost[c] : available' = available + unspent

Next == \E c \in ClientIds : Place(c) \/ Close(c)
Spec == Init /\ [][Next]_<<orders, available>>
==============================================================================
