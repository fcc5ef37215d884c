------------------------------ MODULE Sessions -------------------------------
(***************************************************************************)
(* The pods of one autonomous trader (simulator/trader.rs).  A pod trades  *)
(* while its connection holds the trader's advisory lock: directly, by     *)
(* transactions on that connection, or through Kafka, where only its reads *)
(* use the connection.  What the rest of the exchange does to the orders   *)
(* is Age, Fill and Apply.                                                 *)
(***************************************************************************)
EXTENDS Integers, FiniteSets, Sequences

CONSTANTS
    Pods,
    Batch,          \* LIMIT of the orders expired by a tick
    Nobody,
    MaxOrders,      \* bound: orders a trader draws
    MaxCommands,    \* bound: commands published
    MaxFailures     \* bound: connections lost, pods killed, stale feeds, repeated sends

VARIABLES
    kafka,          \* whether a publisher is configured
    lock,           \* PostgreSQL: whose session holds the lock
    alive,          \* per pod: its connection works
    newest,         \* history: the pod that took the lock last
    late,           \* history: what each pod's session wrote after it was superseded
    pc,             \* where each pod is
    todo,           \* the orders it is about to cancel or place
    drawn,          \* client order IDs drawn
    opened,         \* simulated_traders: the trader has its row
    grants,         \* users that were given the opening balances
    orders,
    commands,       \* the topic
    applied,        \* how many of them have taken effect
    fresh,          \* some market has a price of the last 30 seconds
    failures

session == <<lock, alive, newest>>
pod == <<pc, todo, drawn>>
account == <<opened, grants>>
effects == <<orders, commands, applied, late>>
vars == <<kafka, session, pod, account, effects, fresh, failures>>

Orders == 1 .. MaxOrders
Places == {"down", "claimed", "funding", "idle", "expiring", "placing"}
Open == {"young", "old"}
Command == [action : {"place", "cancel"}, order : Orders]

ASSUME SessionsAssumption ==
    /\ Nobody \notin Pods
    /\ Batch \in Nat \ {0}
    /\ MaxOrders \in Nat /\ MaxCommands \in Nat

Init ==
    /\ kafka \in BOOLEAN
    /\ lock = Nobody
    /\ alive = [p \in Pods |-> FALSE]
    /\ newest = Nobody
    /\ late = [p \in Pods |-> {}]
    /\ pc = [p \in Pods |-> "down"]
    /\ todo = [p \in Pods |-> {}]
    /\ drawn = 0
    /\ opened = FALSE
    /\ grants = 0
    /\ orders = [o \in Orders |-> "new"]
    /\ commands = <<>>
    /\ applied = 0
    /\ fresh = TRUE
    /\ failures = 0

Fails == failures < MaxFailures /\ failures' = failures + 1
Goes(p, place, work) == pc' = [pc EXCEPT ![p] = place] /\ todo' = [todo EXCEPT ![p] = work]
Wrote(p, m) == late' = [late EXCEPT ![p] = IF newest = p THEN @ ELSE @ \cup {m}]
PlaceOf(o) == [action |-> "place", order |-> o]
CancelOf(o) == [action |-> "cancel", order |-> o]

-----------------------------------------------------------------------------
(* A session                                                               *)

\* Faulty: the pod goes on without the lock.
ClaimAnyway(p) ==
    /\ pc[p] = "down"
    /\ lock' = p
    /\ alive' = [alive EXCEPT ![p] = TRUE]
    /\ newest' = p
    /\ late' = [late EXCEPT ![p] = {}]
    /\ Goes(p, "claimed", {})
    /\ UNCHANGED <<kafka, drawn, account, orders, commands, applied, fresh, failures>>

\* It connects and gets the lock.  (If not, it tries again later.)
Claim(p) ==
    /\ pc[p] = "down"
    /\ lock = Nobody
    /\ lock' = p
    /\ alive' = [alive EXCEPT ![p] = TRUE]
    /\ newest' = p
    /\ late' = [late EXCEPT ![p] = {}]
    /\ Goes(p, "claimed", {})
    /\ UNCHANGED <<kafka, drawn, account, orders, commands, applied, fresh, failures>>

\* An error ends the session and drops the connection.
Ends(p) == Goes(p, "down", {}) /\ alive' = [alive EXCEPT ![p] = FALSE]

\* bootstrap: the account of an earlier session, or a new one at fresh prices.
BootstrapRead(p) ==
    /\ pc[p] = "claimed" /\ alive[p]
    /\ IF opened \/ fresh
       THEN Goes(p, IF opened THEN "idle" ELSE "funding", {}) /\ UNCHANGED alive
       ELSE Ends(p)
    /\ UNCHANGED <<kafka, lock, newest, drawn, account, effects, fresh, failures>>

\* Faulty: the row is written by a transaction of its own, after the funds.
FundedApart(p) ==
    /\ pc[p] = "funding" /\ alive[p]
    /\ \/ grants' = grants + 1 /\ UNCHANGED <<opened, pod>> /\ grants < MaxFailures
       \/ opened' = TRUE /\ Goes(p, "idle", {}) /\ UNCHANGED <<drawn, grants>>
    /\ UNCHANGED <<kafka, session, effects, fresh, failures>>

\* User, balances and the trader's unique row, in one transaction.
BootstrapCommit(p) ==
    /\ pc[p] = "funding" /\ alive[p]
    /\ ~opened
    /\ opened' = TRUE
    /\ grants' = grants + 1
    /\ Goes(p, "idle", {})
    /\ UNCHANGED <<kafka, session, drawn, effects, fresh, failures>>

Old == {o \in Orders : orders[o] = "old"}

\* Faulty: nothing is done without fresh prices.
BatchesIfFresh == IF fresh THEN {Old} ELSE {{}}

\* The orders one tick expires, those of earlier sessions included.
Batches ==
    {b \in SUBSET Old : Cardinality(b) = IF Cardinality(Old) < Batch THEN Cardinality(Old) ELSE Batch}

TickBegin(p) ==
    /\ pc[p] = "idle" /\ alive[p]
    /\ \E b \in Batches : Goes(p, "expiring", b)
    /\ UNCHANGED <<kafka, session, drawn, account, effects, fresh, failures>>

\* An order that is no longer open is passed over.
CancelDirectly(p) ==
    /\ ~kafka
    /\ pc[p] = "expiring" /\ alive[p]
    /\ \E o \in todo[p] :
        /\ Goes(p, "expiring", todo[p] \ {o})
        /\ IF orders[o] \in Open
           THEN orders' = [orders EXCEPT ![o] = "closed"] /\ Wrote(p, CancelOf(o))
           ELSE UNCHANGED <<orders, late>>
    /\ UNCHANGED <<kafka, session, drawn, account, commands, applied, fresh, failures>>

\* No fresh market or no funds, or a new order.
ReadMarkets(p) ==
    /\ pc[p] = "expiring" /\ alive[p] /\ todo[p] = {}
    /\ \/ Goes(p, "idle", {}) /\ UNCHANGED drawn
       \/ /\ fresh /\ drawn < MaxOrders
          /\ drawn' = drawn + 1
          /\ Goes(p, "placing", {drawn + 1})
    /\ UNCHANGED <<kafka, session, account, effects, fresh, failures>>

\* Faulty: placed by another connection of a pool.
PlaceByPool(p) ==
    /\ ~kafka
    /\ pc[p] = "placing"
    /\ Goes(p, "idle", {})
    /\ \E o \in todo[p] : orders' = [orders EXCEPT ![o] = "young"] /\ Wrote(p, PlaceOf(o))
    /\ UNCHANGED <<kafka, session, drawn, account, commands, applied, fresh, failures>>

\* Accepted, or refused for its funds.  Any other refusal ends the session: a
\* stale price, one order too many, an error of the database.
PlaceDirectly(p) ==
    /\ ~kafka
    /\ pc[p] = "placing" /\ alive[p]
    /\ \/ /\ fresh
          /\ \E o \in todo[p] : orders' = [orders EXCEPT ![o] = "young"] /\ Wrote(p, PlaceOf(o))
          /\ Goes(p, "idle", {}) /\ UNCHANGED alive
       \/ fresh /\ Goes(p, "idle", {}) /\ UNCHANGED <<orders, late, alive>>
       \/ Ends(p) /\ UNCHANGED <<orders, late>>
    /\ UNCHANGED <<kafka, lock, newest, drawn, account, commands, applied, fresh, failures>>

\* Publisher::send needs no database.  A delivery that is reported as failed
\* is repeated.
Publish(p) ==
    /\ kafka
    /\ Len(commands) < MaxCommands
    /\ \E o \in todo[p] :
        /\ LET m == IF pc[p] = "placing" THEN PlaceOf(o) ELSE CancelOf(o)
           IN  commands' = Append(commands, m) /\ Wrote(p, m)
        /\ \/ /\ Goes(p, IF pc[p] = "placing" THEN "idle" ELSE "expiring", todo[p] \ {o})
              /\ UNCHANGED failures
           \/ Fails /\ UNCHANGED <<pc, todo>>
    /\ UNCHANGED <<kafka, session, drawn, account, orders, applied, fresh>>

\* A statement on a broken connection fails.
Notices(p) ==
    /\ pc[p] # "down" /\ ~alive[p]
    /\ kafka => todo[p] = {}
    /\ Goes(p, "down", {})
    /\ UNCHANGED <<kafka, session, drawn, account, effects, fresh, failures>>

-----------------------------------------------------------------------------
(* What surrounds it                                                       *)

ConnectionLost(p) ==
    /\ alive[p] /\ Fails
    /\ alive' = [alive EXCEPT ![p] = FALSE]
    /\ UNCHANGED <<kafka, lock, newest, pod, account, effects, fresh>>

Killed(p) ==
    /\ pc[p] # "down" /\ Fails
    /\ Ends(p)
    /\ UNCHANGED <<kafka, lock, newest, drawn, account, effects, fresh>>

\* PostgreSQL notices that the session is gone.
Released ==
    /\ lock # Nobody /\ ~alive[lock]
    /\ lock' = Nobody
    /\ UNCHANGED <<kafka, alive, newest, pod, account, effects, fresh, failures>>

\* A worker applies the next command; it may refuse an order.
Apply ==
    /\ applied < Len(commands)
    /\ LET m == commands[applied + 1]
       IN  \/ m.action = "place" /\ orders[m.order] = "new"
              /\ orders' = [orders EXCEPT ![m.order] = "young"]
           \/ m.action = "cancel" /\ orders[m.order] \in Open
              /\ orders' = [orders EXCEPT ![m.order] = "closed"]
           \/ ~(m.action = "cancel" /\ orders[m.order] \in Open) /\ UNCHANGED orders
    /\ applied' = applied + 1
    /\ UNCHANGED <<kafka, session, pod, account, commands, late, fresh, failures>>

Age(o) ==
    /\ orders[o] = "young"
    /\ orders' = [orders EXCEPT ![o] = "old"]
    /\ UNCHANGED <<kafka, session, pod, account, commands, applied, late, fresh, failures>>

Fill(o) ==
    /\ orders[o] \in Open
    /\ orders' = [orders EXCEPT ![o] = "closed"]
    /\ UNCHANGED <<kafka, session, pod, account, commands, applied, late, fresh, failures>>

Feed ==
    /\ fresh' = ~fresh
    /\ IF fresh THEN Fails ELSE UNCHANGED failures
    /\ UNCHANGED <<kafka, session, pod, account, effects>>

PodStep(p) ==
    \/ Claim(p) \/ BootstrapRead(p) \/ BootstrapCommit(p)
    \/ TickBegin(p) \/ CancelDirectly(p) \/ ReadMarkets(p) \/ PlaceDirectly(p)
    \/ Publish(p) \/ Notices(p)

Next ==
    \/ \E p \in Pods : PodStep(p) \/ ConnectionLost(p) \/ Killed(p)
    \/ \E o \in Orders : Age(o) \/ Fill(o)
    \/ Released \/ Apply \/ Feed

Spec == Init /\ [][Next]_vars

\* Pods run `loop`s that restart their session; PostgreSQL ends dead sessions.
\* Prices need not come back.
FairSpec == Spec /\ WF_vars(Released) /\ \A p \in Pods : WF_vars(PodStep(p))

-----------------------------------------------------------------------------
(* Properties                                                              *)

TypeOK ==
    /\ kafka \in BOOLEAN
    /\ lock \in Pods \cup {Nobody}
    /\ alive \in [Pods -> BOOLEAN]
    /\ newest \in Pods \cup {Nobody}
    /\ late \in [Pods -> SUBSET Command]
    /\ pc \in [Pods -> Places]
    /\ todo \in [Pods -> SUBSET Orders]
    /\ drawn \in 0 .. MaxOrders
    /\ opened \in BOOLEAN
    /\ grants \in Nat
    /\ orders \in [Orders -> {"new", "young", "old", "closed"}]
    /\ commands \in Seq(Command)
    /\ applied \in Nat
    /\ fresh \in BOOLEAN
    /\ failures \in Nat

\* "Losing that connection stops all its writes" (trader.rs:1-2): a session that
\* was superseded writes nothing, no order and no cancellation.  It does not hold:
\* Publisher::send needs no connection (trader.rs:128, 207).
WritesStop == \A p \in Pods : late[p] = {}

\* That much of it holds: without a publisher no order and no cancellation is
\* written after another pod has become the trader's owner (trader.rs:46).
DirectlyFenced == ~kafka => \A p \in Pods : late[p] = {}

\* Whoever still has a connection is the newest owner and holds the lock.
OnlyOwnerConnected == \A p \in Pods : alive[p] => lock = p /\ newest = p

\* A trader is given its opening balances once, whenever pods die, and its row
\* says so (trader.rs:63-107).
FundedOnce == grants = IF opened THEN 1 ELSE 0

\* And through Kafka, where it does not hold: a session that was superseded while
\* it published gets at most one more order into the topic, for it reads the
\* markets before the next (trader.rs:147-150).
LatePlaces(p) == {m \in late[p] : m.action = "place"}
LateOrders == \A p \in Pods : Cardinality(LatePlaces(p)) =< 1

\* What is left of WritesStop: the late writes of a superseded session are none
\* without a publisher and one order at most with one.
LateWritesAreFew == DirectlyFenced /\ LateOrders

PlacesOne == \A p \in Pods : pc[p] = "placing" => \E o \in Orders : todo[p] = {o}

\* After its late order a pod has no connection, and nothing else to place.
LateIsOne ==
    \A p \in Pods : LatePlaces(p) # {} =>
        /\ ~alive[p]
        /\ \E o \in Orders : LatePlaces(p) = {PlaceOf(o)} /\ (pc[p] = "placing" => todo[p] = {o})

IInv ==
    /\ TypeOK
    /\ OnlyOwnerConnected
    /\ FundedOnce
    /\ PlacesOne
    /\ LateIsOne
    /\ DirectlyFenced

\* Every order that stays unfilled is expired, also one that an earlier session
\* left, and whether or not prices are fresh (trader.rs:120-146); through Kafka
\* that is also up to the workers.
OldOrdersGo == \A o \in Orders : ~kafka /\ orders[o] = "old" ~> orders[o] = "closed"
==============================================================================
