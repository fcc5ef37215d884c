------------------------------ MODULE CommandLog -----------------------------
(***************************************************************************)
(* What the command path promises its traders, without saying how: the     *)
(* commands of a partition are decided in the order of the log, each at    *)
(* least once; deciding one again can do nothing that a first decision     *)
(* could not; and an order is placed at most once, leaves the book at most *)
(* once and never comes back.                                              *)
(***************************************************************************)
EXTENDS Naturals, Sequences

CONSTANTS
    Partitions,
    ClientIds,      \* client_order_id, one per order a trader wants
    Messages        \* records with a field `action`; orders with `order` too

VARIABLES
    log,            \* per partition, the messages published
    decided,        \* per partition, the offsets that have been decided
    status          \* of every order

vars == <<log, decided, status>>

Init ==
    /\ log = [p \in Partitions |-> <<>>]
    /\ decided = [p \in Partitions |-> {}]
    /\ status = [c \in ClientIds |-> "absent"]

Publish(p, m) ==
    /\ log' = [log EXCEPT ![p] = Append(@, m)]
    /\ UNCHANGED <<decided, status>>

Effect(m) ==
    \/ UNCHANGED status
    \/ /\ m.action = "place"
       /\ status[m.order] = "absent"
       /\ status' = [status EXCEPT ![m.order] = "open"]
    \/ /\ m.action = "cancel"
       /\ status[m.order] = "open"
       /\ status' = [status EXCEPT ![m.order] = "cancelled"]

\* An attempt at the k-th command, after all earlier ones are decided.  It may
\* take effect and yet not count as a decision: then it is attempted again.
Attempt(p, k) ==
    /\ k \in 1 .. Len(log[p])
    /\ 1 .. (k - 1) \subseteq decided[p]
    /\ Effect(log[p][k])
    /\ decided' \in {decided, [decided EXCEPT ![p] = @ \cup {k}]}
    /\ UNCHANGED log

\* The order trades.
Fill(c) ==
    /\ status[c] = "open"
    /\ status' = [status EXCEPT ![c] = "filled"]
    /\ UNCHANGED <<log, decided>>

\* The operator deletes all orders so far.
Reset ==
    /\ status' = [c \in ClientIds |-> IF status[c] = "absent" THEN "absent" ELSE "deleted"]
    /\ UNCHANGED <<log, decided>>

Next ==
    \/ \E p \in Partitions, m \in Messages : Publish(p, m)
    \/ \E p \in Partitions : \E k \in 1 .. Len(log[p]) : Attempt(p, k)
    \/ \E c \in ClientIds : Fill(c)
    \/ Reset

Spec == Init /\ [][Next]_vars
==============================================================================
