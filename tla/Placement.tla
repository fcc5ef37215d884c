------------------------------ MODULE Placement ------------------------------
(***************************************************************************)
(* place_order (exchange_trading), statement by statement.  Several        *)
(* connections place orders of one user, some with the same client order   *)
(* ID; meanwhile orders are filled and cancelled and prices grow stale.    *)
(* Every statement of a READ COMMITTED transaction sees what is committed  *)
(* when it starts.  Exchange has the same operation as one step.           *)
(***************************************************************************)
EXTENDS Integers, FiniteSets

CONSTANTS
    Connections,    \* connections of the pool that place orders
    ClientIds, Cost,
    MaxOpen,        \* 100 open orders
    Grant,          \* available at first
    Tick,           \* a transaction of the matching worker
    Unlocked        \* held by nobody

VARIABLES
    orders,         \* committed rows: status per client_order_id
    available,      \* committed balance
    lock,           \* who holds the user's advisory lock
    row,            \* who has the row of accounts locked
    at,             \* the statement each request is about to execute
    want,           \* the client_order_id of each request
    result,         \* of its last call
    fresh,          \* market_state: the price is of the last 30 seconds
    stale,          \* requests for whose now() the price is too old
    late            \* history: who had which order accepted since it grew stale

placementVars == <<orders, available, lock, row, at, want, result, fresh, stale, late>>

Statements == {"lock", "lookup", "count", "price", "reserve", "insert", "commit"}
Results == {"none", "accepted", "existing", "refused", "unavailable"}

ASSUME PlacementAssumption ==
    /\ IsFiniteSet(ClientIds)
    /\ Cost \in [ClientIds -> Nat]
    /\ MaxOpen \in Nat /\ Grant \in Nat
    /\ Tick \notin Connections /\ Unlocked \notin Connections /\ Unlocked # Tick

PlacementInit ==
    /\ orders = [c \in ClientIds |-> "absent"]
    /\ available = Grant
    /\ lock = Unlocked
    /\ row = Unlocked
    /\ at = [r \in Connections |-> "idle"]
    /\ want \in [Connections -> ClientIds]
    /\ result = [r \in Connections |-> "none"]
    /\ fresh = TRUE
    /\ stale = {}
    /\ late = {}

OpenOrders == {c \in ClientIds : orders[c] = "open"}

-----------------------------------------------------------------------------
(* A request                                                               *)

\* Faulty: another order of the statements.
CountedFirst ==
    [idle |-> "lock", lock |-> "count", count |-> "lookup", lookup |-> "price",
     price |-> "reserve", reserve |-> "insert", insert |-> "commit"]

\* The order of the statements.
Following ==
    [idle |-> "lock", lock |-> "lookup", lookup |-> "count", count |-> "price",
     price |-> "reserve", reserve |-> "insert", insert |-> "commit"]

Proceeds(r) == at' = [at EXCEPT ![r] = Following[@]] /\ UNCHANGED result

\* Faulty: a lock of the session, which an early return does not release.
FinishesLocked(r, a) ==
    /\ at' = [at EXCEPT ![r] = "idle"]
    /\ result' = [result EXCEPT ![r] = a]
    /\ row' = IF row = r THEN Unlocked ELSE row
    /\ UNCHANGED lock

\* The transaction ends, and with it what it has locked.
Finishes(r, a) ==
    /\ at' = [at EXCEPT ![r] = "idle"]
    /\ result' = [result EXCEPT ![r] = a]
    /\ row' = IF row = r THEN Unlocked ELSE row
    /\ lock' = IF lock = r THEN Unlocked ELSE lock

\* A new order, or a retry of one, by the same client or another.  The
\* transaction begins, and its now() stays what it is here until it ends.
Submit(r) ==
    /\ at[r] = "idle"
    /\ at' = [at EXCEPT ![r] = Following[@]]
    /\ \E c \in ClientIds : want' = [want EXCEPT ![r] = c]
    /\ result' = [result EXCEPT ![r] = "none"]
    /\ stale' = IF fresh THEN stale \ {r} ELSE stale \cup {r}
    /\ UNCHANGED <<orders, available, lock, row, fresh, late>>

TakeLock(r) ==
    /\ at[r] = "lock" /\ lock = Unlocked
    /\ lock' = r
    /\ Proceeds(r)
    /\ UNCHANGED <<orders, available, row, want, fresh, stale, late>>

OnlyReads(r) == UNCHANGED <<orders, available, want, fresh, stale, late>>

Lookup(r) ==
    /\ at[r] = "lookup"
    /\ IF orders[want[r]] = "absent" THEN Proceeds(r) /\ UNCHANGED <<lock, row>>
                                     ELSE Finishes(r, "existing")
    /\ OnlyReads(r)

Count(r) ==
    /\ at[r] = "count"
    /\ IF Cardinality(OpenOrders) < MaxOpen THEN Proceeds(r) /\ UNCHANGED <<lock, row>>
                                            ELSE Finishes(r, "refused")
    /\ OnlyReads(r)

\* Faulty: whatever the age of the price.
ReadPriceAnyway(r) ==
    /\ at[r] = "price"
    /\ Proceeds(r) /\ UNCHANGED <<lock, row>>
    /\ OnlyReads(r)

\* updated_at > now() - 30 seconds, with the now() of Submit: a price that has
\* grown stale while the request waited for the lock still passes.
ReadPrice(r) ==
    /\ at[r] = "price"
    /\ IF r \in stale THEN Finishes(r, "unavailable") ELSE Proceeds(r) /\ UNCHANGED <<lock, row>>
    /\ OnlyReads(r)

\* Faulty: the update is not conditional.
ReserveAnyway(r) ==
    /\ at[r] = "reserve" /\ row = Unlocked
    /\ row' = r /\ Proceeds(r) /\ UNCHANGED lock
    /\ OnlyReads(r)

\* UPDATE accounts ... AND available >= cost: waits for the row, and tests its
\* latest version.
Reserve(r) ==
    /\ at[r] = "reserve" /\ row = Unlocked
    /\ IF available >= Cost[want[r]] THEN row' = r /\ Proceeds(r) /\ UNCHANGED lock
                                     ELSE Finishes(r, "refused")
    /\ OnlyReads(r)

\* (user_id, client_order_id) is unique, and any error counts as invalid.
InsertOrder(r) ==
    /\ at[r] = "insert"
    /\ IF orders[want[r]] = "absent" THEN Proceeds(r) /\ UNCHANGED <<lock, row>>
                                     ELSE Finishes(r, "refused")
    /\ OnlyReads(r)

\* The answer may be lost.
CommitOrder(r) ==
    /\ at[r] = "commit"
    /\ orders' = [orders EXCEPT ![want[r]] = "open"]
    /\ available' = available - Cost[want[r]]
    /\ late' = IF fresh THEN late ELSE late \cup {<<r, want[r]>>}
    /\ \E a \in {"accepted", "unavailable"} : Finishes(r, a)
    /\ UNCHANGED <<want, fresh, stale>>

\* An error of a statement, a timeout of the request or a broken connection.
Breaks(r) ==
    /\ at[r] # "idle"
    /\ Finishes(r, "unavailable")
    /\ OnlyReads(r)

-----------------------------------------------------------------------------
(* What goes on meanwhile                                                  *)

\* The worker updates the account, by a fill of this order or another one.
TickLocksRow ==
    /\ row = Unlocked
    /\ row' = Tick
    /\ UNCHANGED <<orders, available, lock, at, want, result, fresh, stale, late>>

TickCommit ==
    /\ row = Tick
    /\ row' = Unlocked
    /\ \/ UNCHANGED <<orders, available>>
       \/ \E c \in OpenOrders, unspent \in {0, 1} :
            /\ orders' = [orders EXCEPT ![c] = "closed"]
            /\ unspent =< Cost[c]
            /\ available' = available + unspent
    /\ UNCHANGED <<lock, at, want, result, fresh, stale, late>>

\* cancel_orders takes the same advisory lock and the row.
Cancel(c) ==
    /\ lock = Unlocked /\ row = Unlocked
    /\ orders[c] = "open"
    /\ orders' = [orders EXCEPT ![c] = "closed"]
    /\ available' = available + Cost[c]
    /\ UNCHANGED <<lock, row, at, want, result, fresh, stale, late>>

\* Transactions that have begun before still take the price for fresh.  (A
\* switch of the source ages it by 31 seconds at once, which refuses those of
\* the last second as well; they fail then.)
GrowsStale ==
    /\ fresh /\ fresh' = FALSE
    /\ UNCHANGED <<orders, available, lock, row, at, want, result, stale, late>>

\* A new price is fresh for every transaction.
Recovers ==
    /\ ~fresh /\ fresh' = TRUE
    /\ stale' = {} /\ late' = {}
    /\ UNCHANGED <<orders, available, lock, row, at, want, result>>

Executes(r) ==
    \/ TakeLock(r) \/ Lookup(r) \/ Count(r) \/ ReadPrice(r)
    \/ Reserve(r) \/ InsertOrder(r) \/ CommitOrder(r)

PlacementNext ==
    \/ \E r \in Connections : Submit(r) \/ Executes(r) \/ Breaks(r)
    \/ TickLocksRow \/ TickCommit
    \/ \E c \in ClientIds : Cancel(c)
    \/ GrowsStale \/ Recovers

PlacementSpec == PlacementInit /\ [][PlacementNext]_placementVars

\* Who waits for a lock of PostgreSQL is queued and gets it in turn.
PlacementFairness ==
    WF_placementVars(TickCommit) /\ \A r \in Connections : SF_placementVars(Executes(r))

-----------------------------------------------------------------------------
(* Properties                                                              *)

PlacementTypeOK ==
    /\ orders \in [ClientIds -> {"absent", "open", "closed"}]
    /\ available \in Nat
    /\ lock \in Connections \cup {Unlocked}
    /\ row \in Connections \cup {Unlocked, Tick}
    /\ at \in [Connections -> Statements \cup {"idle"}]
    /\ want \in [Connections -> ClientIds]
    /\ result \in [Connections -> Results]
    /\ fresh \in BOOLEAN
    /\ stale \in SUBSET Connections
    /\ late \in SUBSET (Connections \X ClientIds)

\* A user has at most MaxOpen open orders, however many requests race for the last
\* (trading/lib.rs:53).
OpenWithinLimit == Cardinality(OpenOrders) =< MaxOpen

\* What a request has found out stays true until it commits.
Found(r) ==
    /\ at[r] \in Statements \ {"lock"} => lock = r
    /\ at[r] \in {"count", "price", "reserve", "insert", "commit"} => orders[want[r]] = "absent"
    /\ at[r] \in {"price", "reserve", "insert", "commit"} => Cardinality(OpenOrders) < MaxOpen
    /\ at[r] \in {"insert", "commit"} => row = r /\ available >= Cost[want[r]]

\* While a price is stale each connection gets at most one order accepted: the
\* one whose transaction had begun before.  No other follows, however long the
\* queue for the lock (trading/lib.rs:63).
LateOrdersHadBegun == \A p, q \in late : p[1] = q[1] => p = q

\* Who has had an order accepted at a stale price has not begun another one, or
\* has begun it too late.
LateInv ==
    /\ \A r \in stale : ~fresh /\ at[r] \notin {"reserve", "insert", "commit"}
    /\ \A p \in late : ~fresh /\ (at[p[1]] = "idle" \/ p[1] \in stale)
    /\ LateOrdersHadBegun

PlacementInv == PlacementTypeOK /\ (\A r \in Connections : Found(r)) /\ LateInv /\ OpenWithinLimit

\* The unique key is never what stops a retry: its error would answer a client
\* that its accepted order is invalid (trading/lib.rs:143).
InsertIsNew == \A r \in Connections : at[r] = "insert" => orders[want[r]] = "absent"

\* Who is refused has no such order, who is told of one has it, whatever retries
\* raced with the call.
AnswersAreTrue ==
    [][\A r \in Connections : result'[r] # result[r] =>
          /\ result'[r] = "refused" => orders'[want[r]] = "absent"
          /\ result'[r] \in {"accepted", "existing"} => orders'[want[r]] # "absent"]_placementVars

\* An order is accepted in one step, with the guards all true in that step.
A == INSTANCE AtomicOrders WITH Limit <- MaxOpen
Atomic == A!Spec

\* Every call is answered, with ticks and other requests in the way.
Answered == \A r \in Connections : at[r] = "lock" ~> at[r] = "idle"
==============================================================================
