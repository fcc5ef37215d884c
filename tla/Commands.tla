------------------------------- MODULE Commands ------------------------------
(***************************************************************************)
(* The traders' orders on their way through Kafka: a publisher per trader  *)
(* (config/kafka.rs), the partitions of the command topic, and the workers'*)
(* consumers (worker/commands.rs), which apply a command to the database   *)
(* and only then commit its offset.                                        *)
(*                                                                         *)
(* Offsets count from 1, so committed[p] is the number of messages         *)
(* committed.  An order reserves one unit of its account's funds, whatever *)
(* its size: enough for placements to be refused and for a second charge   *)
(* or refund to show.  Matching appears as Settle only; module Exchange    *)
(* has the database in full.                                               *)
(***************************************************************************)
EXTENDS Naturals, Sequences, FiniteSets

CONSTANTS
    Traders, Workers, Partitions,
    ClientIds,          \* UUIDs the traders draw
    Malformed,          \* those whose orders NewOrder::validate refuses
    PartitionOf,        \* Kafka's partition of a key, per account
    Nobody, NoOrder,    \* no owner of a partition; no row
    Idle,               \* a publisher without a command
    Stopped, Waiting,   \* a worker without a consumer; one without a command
    Grant,              \* what an account is funded with
    MaxOpen,            \* 100 open orders per account
    MaxResets,          \* bound: bot resets by the operator
    MaxLog,             \* bound: messages per partition
    MaxFailures         \* bound: failures, rebalances and stale periods

\* The account of a trader changes with every bot reset.
Accounts == Traders \X (0 .. MaxResets)

VARIABLES
    generation,     \* simulated_traders: trader t has account <<t, generation[t]>>
    drawn,          \* client ids used so far
    sending,        \* per trader: the command Publisher::send is retrying
    delayed,        \* copies of commands that a failed send may still deliver
    log,            \* Kafka: messages of each partition
    owner,          \* Kafka: the worker a partition is assigned to
    position,       \* messages its owner has received
    committed,      \* Kafka: the group's committed offset
    handling,       \* per worker: what its consumer is doing
    done,           \* per partition: offsets whose apply has returned Ok
    orders,         \* table orders, by client_order_id
    funds,          \* available balance per account
    fresh,          \* the price feed is fresh
    failures

kafka == <<log, owner, position, committed>>
tables == <<generation, orders, funds>>
producer == <<drawn, sending, delayed>>
vars == <<generation, drawn, sending, delayed, log, owner, position, committed,
          handling, done, orders, funds, fresh, failures>>

-----------------------------------------------------------------------------
(* Messages, deliveries, rows                                              *)

Garbage == [action |-> "garbage"]
Command == [action : {"place", "cancel"}, trader : Traders, account : Accounts, order : ClientIds]
Messages == Command \cup {Garbage}
Delivery == [partition : Partitions, offset : Nat \ {0}, outcome : {"pending", "ok", "lost"}]
Row == [account : Accounts, status : {"open", "filled", "cancelled", "deleted"}]

ASSUME CommandsAssumption ==
    /\ PartitionOf \in [Accounts -> Partitions]
    /\ IsFiniteSet(ClientIds)
    /\ Malformed \subseteq ClientIds
    /\ Grant \in Nat /\ MaxOpen \in Nat
    /\ MaxResets \in Nat
    /\ Nobody \notin Workers
    /\ NoOrder \notin Row
    /\ Idle \notin Command
    /\ Stopped \notin Delivery /\ Waiting \notin Delivery /\ Stopped # Waiting

AccountOf(t) == <<t, generation[t]>>
Owned == {AccountOf(t) : t \in Traders}
Fails == failures < MaxFailures /\ failures' = failures + 1

Append1(p, m) ==
    /\ Len(log[p]) < MaxLog
    /\ log' = [log EXCEPT ![p] = Append(@, m)]

Init ==
    /\ generation = [t \in Traders |-> 0]
    /\ drawn = {}
    /\ sending = [t \in Traders |-> Idle]
    /\ delayed = {}
    /\ log = [p \in Partitions |-> <<>>]
    /\ owner = [p \in Partitions |-> Nobody]
    /\ position = [p \in Partitions |-> 0]
    /\ committed = [p \in Partitions |-> 0]
    /\ handling = [w \in Workers |-> Stopped]
    /\ done = [p \in Partitions |-> {}]
    /\ orders = [c \in ClientIds |-> NoOrder]
    /\ funds = [a \in Accounts |-> IF a \in Owned THEN Grant ELSE 0]
    /\ fresh = TRUE
    /\ failures = 0

-----------------------------------------------------------------------------
(* Traders and their publishers                                            *)

\* A trader sends one command at a time: a new order, or the cancellation of a
\* row it has read as open (and which may have been closed since).
Send(t) ==
    /\ sending[t] = Idle
    /\ \E c \in ClientIds :
        \/ /\ c \notin drawn
           /\ drawn' = drawn \cup {c}
           /\ sending' = [sending EXCEPT ![t] =
                [action |-> "place", trader |-> t, account |-> AccountOf(t), order |-> c]]
        \/ /\ orders[c] # NoOrder
           /\ orders[c].account = AccountOf(t)
           /\ sending' = [sending EXCEPT ![t] =
                [action |-> "cancel", trader |-> t, account |-> AccountOf(t), order |-> c]]
           /\ UNCHANGED drawn
    /\ UNCHANGED <<tables, kafka, delayed, handling, done, fresh, failures>>

\* The broker has the message, and the publisher knows.
Delivered(t) ==
    /\ sending[t] # Idle
    /\ Append1(PartitionOf[sending[t].account], sending[t])
    /\ sending' = [sending EXCEPT ![t] = Idle]
    /\ UNCHANGED <<tables, drawn, delayed, owner, position, committed, handling, done, fresh,
                   failures>>

\* The attempt is reported as failed and `send` will try again, but the message
\* is in the log, or will be later.  (A failed attempt whose message is lost
\* changes nothing.)
SendFails(t) ==
    /\ sending[t] # Idle
    /\ Fails
    /\ \/ Append1(PartitionOf[sending[t].account], sending[t]) /\ UNCHANGED delayed
       \/ delayed' = delayed \cup {sending[t]} /\ UNCHANGED log
    /\ UNCHANGED <<tables, drawn, sending, owner, position, committed, handling, done, fresh>>

Arrives(m) ==
    /\ m \in delayed
    /\ delayed' = delayed \ {m}
    /\ Append1(PartitionOf[m.account], m)
    /\ UNCHANGED <<tables, drawn, sending, owner, position, committed, handling, done, fresh,
                   failures>>

\* The trader's process ends while it is sending.
TraderStops(t) ==
    /\ sending[t] # Idle
    /\ Fails
    /\ sending' = [sending EXCEPT ![t] = Idle]
    /\ delayed' \in {delayed, delayed \cup {sending[t]}}
    /\ UNCHANGED <<tables, kafka, drawn, handling, done, fresh>>

\* Something that does not parse as a command.
PublishGarbage(p) ==
    /\ Fails
    /\ Append1(p, Garbage)
    /\ UNCHANGED <<tables, producer, owner, position, committed, handling, done, fresh>>

-----------------------------------------------------------------------------
(* The consumer group                                                      *)

\* `supervise` creates a consumer, at first or 3 seconds after it lost one.
Start(w) ==
    /\ handling[w] = Stopped
    /\ handling' = [handling EXCEPT ![w] = Waiting]
    /\ UNCHANGED <<tables, kafka, producer, done, fresh, failures>>

\* A partition goes to a consumer that is polling, from the committed offset on.
Assign(p, w) ==
    /\ owner[p] = Nobody
    /\ handling[w] = Waiting
    /\ owner' = [owner EXCEPT ![p] = w]
    /\ position' = [position EXCEPT ![p] = committed[p]]
    /\ UNCHANGED <<tables, producer, log, committed, handling, done, fresh, failures>>

Without(w) == [p \in Partitions |-> IF owner[p] = w THEN Nobody ELSE owner[p]]

\* The group moves one partition away from a consumer that is polling.
Revoke(p) ==
    /\ owner[p] # Nobody
    /\ handling[owner[p]] = Waiting
    /\ Fails
    /\ owner' = [owner EXCEPT ![p] = Nobody]
    /\ UNCHANGED <<tables, producer, log, position, committed, handling, done, fresh>>

\* The group gives up on a worker that does not know, and may be in the middle
\* of a command.
Expel(w) ==
    /\ \E p \in Partitions : owner[p] = w
    /\ Fails
    /\ owner' = Without(w)
    /\ UNCHANGED <<tables, producer, log, position, committed, handling, done, fresh>>

\* Faulty: the consumer goes on with the next message.
GoOn(w) ==
    /\ handling' = [handling EXCEPT ![w] = Waiting]
    /\ UNCHANGED owner

\* `run` returns with an error: the consumer and what it had received are gone.
Stop(w) ==
    /\ handling' = [handling EXCEPT ![w] = Stopped]
    /\ owner' = Without(w)

\* A database error, a refused commit or the end of the process.
WorkerFails(w) ==
    /\ handling[w] # Stopped
    /\ Fails
    /\ Stop(w)
    /\ UNCHANGED <<tables, producer, log, position, committed, done, fresh>>

Receive(w) ==
    /\ handling[w] = Waiting
    /\ \E p \in Partitions :
        /\ owner[p] = w
        /\ position[p] < Len(log[p])
        /\ position' = [position EXCEPT ![p] = @ + 1]
        /\ handling' = [handling EXCEPT ![w] =
               [partition |-> p, offset |-> position[p] + 1, outcome |-> "pending"]]
    /\ UNCHANGED <<tables, producer, log, owner, committed, done, fresh, failures>>

\* The worker has received m and not applied it.
Pending(w, m) ==
    /\ handling[w] \in Delivery
    /\ handling[w].outcome = "pending"
    /\ m = log[handling[w].partition][handling[w].offset]

\* `apply` returns Ok; "lost" if only because it took a failure for a refusal.
Returns(w, outcome) ==
    /\ handling' = [handling EXCEPT ![w].outcome = outcome]
    /\ done' = [done EXCEPT ![handling[w].partition] = @ \cup {handling[w].offset}]
    /\ UNCHANGED <<producer, kafka, fresh>>

\* The offset commit, which the broker refuses from a worker that has lost the
\* partition.
Commit(w) ==
    /\ handling[w] \in Delivery
    /\ handling[w].outcome # "pending"
    /\ LET p == handling[w].partition IN
        IF owner[p] = w
        THEN /\ committed' = [committed EXCEPT ![p] = handling[w].offset]
             /\ handling' = [handling EXCEPT ![w] = Waiting]
             /\ UNCHANGED owner
        ELSE Stop(w) /\ UNCHANGED committed
    /\ UNCHANGED <<tables, producer, log, position, done, fresh, failures>>

\* The commit succeeds but its answer is lost.
CommitUnseen(w) ==
    /\ handling[w] \in Delivery
    /\ handling[w].outcome # "pending"
    /\ owner[handling[w].partition] = w
    /\ Fails
    /\ committed' = [committed EXCEPT ![handling[w].partition] = handling[w].offset]
    /\ Stop(w)
    /\ UNCHANGED <<tables, producer, log, position, done, fresh>>

-----------------------------------------------------------------------------
(* Applying a command                                                      *)

\* The trader still has this account.
Owns(m) == m.account = AccountOf(m.trader)

\* Faulty: only open orders count as placed before.
OpenRowOf(m) ==
    /\ orders[m.order] # NoOrder
    /\ orders[m.order].account = m.account
    /\ orders[m.order].status = "open"

RowOf(m) ==
    /\ orders[m.order] # NoOrder
    /\ orders[m.order].account = m.account
    /\ orders[m.order].status # "deleted"

OneTooMany(m) ==
    Cardinality({c \in ClientIds : orders[c] = [account |-> m.account, status |-> "open"]}) >= MaxOpen

\* place_order, whatever the price: malformed, placed before, or one too many.
Invalid(m) == m.order \in Malformed \/ RowOf(m) \/ OneTooMany(m)

\* Or it costs more than the account has.
Refused(m) == Invalid(m) \/ (fresh /\ funds[m.account] = 0)

\* place_order: Unavailable, because the price is stale.
Postponed(m) == ~Invalid(m) /\ ~fresh

Accepted(m) == ~Refused(m) /\ ~Postponed(m)

Insert(m) ==
    /\ Accepted(m)
    /\ orders' = [orders EXCEPT ![m.order] = [account |-> m.account, status |-> "open"]]
    /\ funds' = [funds EXCEPT ![m.account] = @ - 1]

\* Faulty: a cancelled order can be cancelled again.
NotFilled(m) == RowOf(m) /\ orders[m.order].status # "filled"

Cancellable(m) == RowOf(m) /\ orders[m.order].status = "open"

Release(m) ==
    /\ Cancellable(m)
    /\ orders' = [orders EXCEPT ![m.order].status = "cancelled"]
    /\ funds' = [funds EXCEPT ![m.account] = @ + 1]

\* What a command that its owner sent does to the tables.
Effect(m) ==
    \/ m.action = "place" /\ Insert(m)
    \/ m.action = "cancel" /\ Release(m)

NoEffect(m) ==
    \/ m.action = "place" /\ Refused(m)
    \/ m.action = "cancel" /\ ~Cancellable(m)

\* Faulty: what does not parse stops the consumer.
SkipForeign(w) ==
    /\ \E m \in Command : Pending(w, m) /\ ~Owns(m)
    /\ Returns(w, "ok")
    /\ UNCHANGED <<tables, failures>>

\* Garbage, and commands for an account that is not the trader's, are skipped.
Skip(w) ==
    /\ \E m \in Messages : Pending(w, m) /\ (m \in Command => ~Owns(m))
    /\ Returns(w, "ok")
    /\ UNCHANGED <<tables, failures>>

Apply(w) ==
    \E m \in Command :
        /\ Pending(w, m)
        /\ Owns(m)
        /\ \/ Effect(m) /\ Returns(w, "ok") /\ UNCHANGED generation
           \/ NoEffect(m) /\ Returns(w, "ok") /\ UNCHANGED tables
           \/ /\ m.action = "place" /\ Postponed(m)
              /\ Stop(w)
              /\ UNCHANGED <<tables, producer, log, position, committed, done, fresh>>
        /\ UNCHANGED failures

\* The transaction commits but its answer is lost: Unavailable.
AnswerLost(w) ==
    \E m \in Command :
        /\ Pending(w, m)
        /\ Owns(m)
        /\ Fails
        /\ Effect(m)
        /\ Stop(w)
        /\ UNCHANGED <<generation, producer, log, position, committed, done, fresh>>

\* The INSERT of an order fails at the database, which place_order reports as
\* an invalid order.
InsertFails(w) ==
    \E m \in Command :
        /\ Pending(w, m)
        /\ Owns(m)
        /\ m.action = "place" /\ Accepted(m)
        /\ Fails
        /\ Returns(w, "lost")
        /\ UNCHANGED tables

-----------------------------------------------------------------------------
(* The rest of the exchange                                                *)

\* A matching tick fills an order; its funds are spent.
Settle(c) ==
    /\ orders[c] # NoOrder
    /\ orders[c].status = "open"
    /\ orders' = [orders EXCEPT ![c].status = "filled"]
    /\ UNCHANGED <<generation, funds, kafka, producer, handling, done, fresh, failures>>

FeedStale ==
    /\ fresh
    /\ Fails
    /\ fresh' = FALSE
    /\ UNCHANGED <<tables, kafka, producer, handling, done>>

FeedRecovers ==
    /\ ~fresh
    /\ fresh' = TRUE
    /\ UNCHANGED <<tables, kafka, producer, handling, done, failures>>

\* Faulty: the traders keep their accounts.
ResetInPlace ==
    /\ \A t \in Traders : sending[t] = Idle
    /\ \A w \in Workers : handling[w] = Stopped
    /\ orders' = [c \in ClientIds |->
           IF orders[c] = NoOrder THEN NoOrder ELSE [orders[c] EXCEPT !.status = "deleted"]]
    /\ funds' = [a \in Accounts |-> IF a \in Owned THEN Grant ELSE 0]
    /\ UNCHANGED <<generation, kafka, producer, handling, done, fresh, failures>>

\* The operator gives every trader a new account and deletes the old ones with
\* their orders, while traders and workers are stopped.  The topic is not touched.
ResetBots ==
    /\ \A t \in Traders : sending[t] = Idle /\ generation[t] < MaxResets
    /\ \A w \in Workers : handling[w] = Stopped
    /\ generation' = [t \in Traders |-> generation[t] + 1]
    /\ orders' = [c \in ClientIds |->
           IF orders[c] = NoOrder THEN NoOrder ELSE [orders[c] EXCEPT !.status = "deleted"]]
    /\ funds' = [a \in Accounts |-> IF a[2] = generation[a[1]] + 1 THEN Grant ELSE 0]
    /\ UNCHANGED <<kafka, producer, handling, done, fresh, failures>>

-----------------------------------------------------------------------------

TraderStep ==
    \/ \E t \in Traders : Send(t)
    \/ \E t \in Traders : Delivered(t)
    \/ \E t \in Traders : SendFails(t)
    \/ \E t \in Traders : TraderStops(t)
    \/ \E m \in delayed : Arrives(m)
    \/ \E p \in Partitions : PublishGarbage(p)

GroupStep ==
    \/ \E w \in Workers : Start(w)
    \/ \E p \in Partitions, w \in Workers : Assign(p, w)
    \/ \E p \in Partitions : Revoke(p)
    \/ \E w \in Workers : Expel(w)
    \/ \E w \in Workers : WorkerFails(w)

ConsumerStep ==
    \/ \E w \in Workers : Receive(w)
    \/ \E w \in Workers : Skip(w)
    \/ \E w \in Workers : Apply(w)
    \/ \E w \in Workers : AnswerLost(w)
    \/ \E w \in Workers : InsertFails(w)
    \/ \E w \in Workers : Commit(w)
    \/ \E w \in Workers : CommitUnseen(w)

ExchangeStep ==
    \/ \E c \in ClientIds : Settle(c)
    \/ FeedStale
    \/ FeedRecovers
    \/ ResetBots

Next == TraderStep \/ GroupStep \/ ConsumerStep \/ ExchangeStep

Spec == Init /\ [][Next]_vars

\* A worker keeps going: its supervisor restarts the consumer, the group assigns
\* every partition to someone who polls, and a consumer takes what there is.  A
\* stale feed recovers.
Fairness ==
    /\ \A w \in Workers : WF_vars(Start(w)) /\ WF_vars(Receive(w)) /\ WF_vars(Commit(w))
    /\ \A w \in Workers : WF_vars(Skip(w)) /\ WF_vars(Apply(w))
    /\ \A p \in Partitions : WF_vars(\E w \in Workers : Assign(p, w))
    /\ WF_vars(FeedRecovers)

FairSpec == Spec /\ Fairness

-----------------------------------------------------------------------------
(* Properties                                                              *)

\* The type invariant.
TypeOK ==
    /\ generation \in [Traders -> 0 .. MaxResets]
    /\ drawn \subseteq ClientIds
    /\ sending \in [Traders -> Command \cup {Idle}]
    /\ delayed \subseteq Command
    /\ log \in [Partitions -> Seq(Messages)]
    /\ owner \in [Partitions -> Workers \cup {Nobody}]
    /\ position \in [Partitions -> Nat]
    /\ committed \in [Partitions -> Nat]
    /\ handling \in [Workers -> Delivery \cup {Stopped, Waiting}]
    /\ done \in [Partitions -> SUBSET Nat]
    /\ orders \in [ClientIds -> Row \cup {NoOrder}]
    /\ funds \in [Accounts -> Nat]
    /\ fresh \in BOOLEAN
    /\ failures \in Nat

\* Offsets are committed only after the database work (worker/commands.rs:1): no
\* command below the committed offset of its partition has been left unapplied,
\* whatever failed and whoever owned the partition in between.
NothingSkipped == \A p \in Partitions : 1 .. committed[p] \subseteq done[p]

\* Commands are decided in the order of their partition, for the first time.
InOrder ==
    \A p \in Partitions : \A k \in done[p] : k \in 1 .. Len(log[p]) /\ 1 .. k \subseteq done[p]

\* What a worker is busy with, and how far a partition's owner is.
DeliveryInOrder ==
    \A w \in Workers : handling[w] \in Delivery =>
        LET d == handling[w] IN
        /\ d.offset <= Len(log[d.partition])
        /\ 1 .. (d.offset - 1) \subseteq done[d.partition]
        /\ d.outcome # "pending" => d.offset \in done[d.partition]

BusyWith(w, p) ==
    /\ handling[w] \in Delivery
    /\ handling[w].partition = p
    /\ handling[w].outcome = "pending"

PositionInOrder ==
    \A p \in Partitions : owner[p] # Nobody =>
        /\ position[p] <= Len(log[p])
        /\ BusyWith(owner[p], p) => handling[owner[p]].offset = position[p]
        /\ ~BusyWith(owner[p], p) => 1 .. position[p] \subseteq done[p]

HeldBy(a) ==
    {c \in ClientIds : /\ orders[c] # NoOrder
                       /\ orders[c].account = a
                       /\ orders[c].status \in {"open", "filled"}}

\* Redelivered placements charge once and redelivered cancellations refund once:
\* an account has its funds minus one unit for each order that is open or filled.
ChargedOnce ==
    \A a \in Owned : funds[a] + Cardinality(HeldBy(a)) = Grant

\* An account that its trader has lost has no funds and no orders.
OldAccountsDead ==
    \A a \in Accounts \ Owned :
        /\ funds[a] = 0
        /\ \A c \in ClientIds :
            orders[c] # NoOrder => orders[c].account # a \/ orders[c].status = "deleted"

Logged(m) == \E p \in Partitions : \E k \in 1 .. Len(log[p]) : m = log[p][k]

\* Commands that may still be applied, or applied again.
InFlight ==
    {m \in Command : m \in delayed \/ (\E t \in Traders : m = sending[t]) \/ Logged(m)}

\* A client id is drawn for one account, and stays with it.
OneAccount ==
    /\ \A m, n \in InFlight : m.order = n.order => m.account = n.account
    /\ \A m \in InFlight :
        /\ m.order \in drawn
        /\ orders[m.order] # NoOrder => orders[m.order].account = m.account
    /\ \A c \in ClientIds : orders[c] # NoOrder => c \in drawn

\* Orders are of accounts the trader has, or had: only those are deleted.
RowsOfTheirTime ==
    \A c \in ClientIds : orders[c] # NoOrder =>
        LET a == orders[c].account IN
        /\ a[2] <= generation[a[1]]
        /\ orders[c].status = "deleted" => a[2] # generation[a[1]]

\* The inductive invariant.
IInv ==
    /\ TypeOK
    /\ NothingSkipped
    /\ InOrder
    /\ DeliveryInOrder
    /\ PositionInOrder
    /\ OneAccount
    /\ RowsOfTheirTime
    /\ ChargedOnce
    /\ OldAccountsDead

\* Rotating the accounts fences old commands (scripts/reset-bots.sql:3): an order
\* that a reset deleted never comes back, though the command that placed it is
\* still in the topic and may be received again.
DeletedForGood ==
    [][\A c \in ClientIds :
          orders[c] # NoOrder /\ orders[c].status = "deleted" => orders'[c] = orders[c]]_vars

Status(c) == IF orders[c] = NoOrder THEN "absent" ELSE orders[c].status

Log == INSTANCE CommandLog WITH decided <- done, status <- [c \in ClientIds |-> Status(c)]

\* The command path keeps the promise of CommandLog.
Promise == Log!Spec

\* Temporary database errors restart the consumer at the committed offset
\* (docs/keda-scaling.md): no offset is committed whose command was given up
\* only because the database failed.
TemporaryErrorsRestart ==
    [][\A w \in Workers, p \in Partitions :
          handling[w] \in Delivery /\ handling[w].outcome = "lost" /\ handling[w].partition = p
              => committed'[p] # handling[w].offset]_vars

\* Every message of the topic is processed and committed in the end, also behind
\* garbage, other people's commands and commands that had to wait for prices.
EventuallyCommitted ==
    \A p \in Partitions : \A k \in 1 .. MaxLog : Len(log[p]) >= k ~> committed[p] >= k
==============================================================================
