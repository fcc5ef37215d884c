---------------------------- MODULE CommandsProofs ----------------------------
(***************************************************************************)
(* Proofs about Commands, for any traders, workers, partitions and bounds: *)
(* types, the inductive invariant, and that the command path keeps the     *)
(* promise of CommandLog.                                                  *)
(***************************************************************************)
EXTENDS Commands, FiniteSetTheorems, TLAPS

\* A delivered message is one of the log's.
LEMMA PendingMessage ==
    ASSUME TypeOK, DeliveryInOrder, NEW w \in Workers, NEW m, Pending(w, m)
    PROVE  /\ handling[w] \in Delivery
           /\ handling[w].partition \in Partitions
           /\ handling[w].offset \in 1 .. Len(log[handling[w].partition])
           /\ handling[w].outcome = "pending"
           /\ m = log[handling[w].partition][handling[w].offset]
           /\ m \in Messages
<1>1. /\ handling[w] \in Delivery
      /\ handling[w].outcome = "pending"
      /\ m = log[handling[w].partition][handling[w].offset]
  BY DEF Pending
<1>2. handling[w].partition \in Partitions /\ handling[w].offset \in Nat \ {0}
  BY <1>1 DEF Delivery
<1>3. log[handling[w].partition] \in Seq(Messages)
  BY <1>2 DEF TypeOK
<1>4. handling[w].offset \in 1 .. Len(log[handling[w].partition])
  BY <1>1, <1>2, <1>3 DEF DeliveryInOrder
<1>. QED  BY <1>1, <1>2, <1>3, <1>4

\* Appending keeps the log's type and what is in it.
LEMMA LogGrows ==
    ASSUME TypeOK, NEW p \in Partitions, NEW m \in Messages, Append1(p, m)
    PROVE  /\ log' \in [Partitions -> Seq(Messages)]
           /\ \A q \in Partitions : Len(log[q]) <= Len(log'[q])
  BY DEF TypeOK, Append1

\* An account of a trader.
LEMMA AccountsOfTraders ==
    ASSUME TypeOK, NEW t \in Traders
    PROVE  AccountOf(t) \in Accounts
  BY DEF TypeOK, AccountOf, Accounts

\* Every step of a trader or its publisher keeps the types.
LEMMA TraderTypes ==
    ASSUME CommandsAssumption, TypeOK, TraderStep
    PROVE  TypeOK'
<1>. USE DEF tables, kafka, producer
<1>1. ASSUME NEW t \in Traders, Send(t)  PROVE TypeOK'
  <2>. AccountOf(t) \in Accounts
    BY AccountsOfTraders
  <2>1. /\ drawn' \subseteq ClientIds
        /\ sending' \in [Traders -> Command \cup {Idle}]
    <3>1. PICK c \in ClientIds :
            \/ /\ drawn' = drawn \cup {c}
               /\ sending' = [sending EXCEPT ![t] =
                    [action |-> "place", trader |-> t, account |-> AccountOf(t), order |-> c]]
            \/ /\ sending' = [sending EXCEPT ![t] =
                    [action |-> "cancel", trader |-> t, account |-> AccountOf(t), order |-> c]]
               /\ UNCHANGED drawn
      BY <1>1 DEF Send
    <3>2. \A action \in {"place", "cancel"} :
            [action |-> action, trader |-> t, account |-> AccountOf(t), order |-> c] \in Command
      BY DEF Command
    <3>3. \E action \in {"place", "cancel"} : sending' = [sending EXCEPT ![t] =
            [action |-> action, trader |-> t, account |-> AccountOf(t), order |-> c]]
      BY <3>1
    <3>4. drawn' \subseteq ClientIds
      BY <3>1 DEF TypeOK
    <3>. QED  BY <3>2, <3>3, <3>4 DEF TypeOK
  <2>2. UNCHANGED <<tables, kafka, delayed, handling, done, fresh, failures>>
    BY <1>1 DEF Send
  <2>. QED  BY <2>1, <2>2 DEF TypeOK
<1>2. ASSUME NEW t \in Traders, Delivered(t)  PROVE TypeOK'
  <2>1. sending[t] \in Command /\ PartitionOf[sending[t].account] \in Partitions
    BY <1>2 DEF TypeOK, Delivered, Command, CommandsAssumption
  <2>2. log' \in [Partitions -> Seq(Messages)]
    BY <1>2, <2>1, LogGrows DEF Delivered, Messages
  <2>. QED  BY <1>2, <2>2 DEF TypeOK, Delivered
<1>3. ASSUME NEW t \in Traders, SendFails(t)  PROVE TypeOK'
  <2>1. sending[t] \in Command /\ PartitionOf[sending[t].account] \in Partitions
    BY <1>3 DEF TypeOK, SendFails, Command, CommandsAssumption
  <2>2. log' \in [Partitions -> Seq(Messages)] /\ delayed' \subseteq Command
    BY <1>3, <2>1, LogGrows DEF TypeOK, SendFails, Messages
  <2>. QED  BY <1>3, <2>2 DEF TypeOK, SendFails, Fails
<1>4. ASSUME NEW t \in Traders, TraderStops(t)  PROVE TypeOK'
  BY <1>4 DEF TypeOK, TraderStops, Fails
<1>5. ASSUME NEW m \in delayed, Arrives(m)  PROVE TypeOK'
  <2>1. m \in Command /\ PartitionOf[m.account] \in Partitions
    BY <1>5 DEF TypeOK, Command, CommandsAssumption
  <2>2. log' \in [Partitions -> Seq(Messages)]
    BY <1>5, <2>1, LogGrows DEF Arrives, Messages
  <2>. QED  BY <1>5, <2>2 DEF TypeOK, Arrives
<1>6. ASSUME NEW p \in Partitions, PublishGarbage(p)  PROVE TypeOK'
  <2>1. log' \in [Partitions -> Seq(Messages)]
    BY <1>6, LogGrows DEF PublishGarbage, Messages
  <2>. QED  BY <1>6, <2>1 DEF TypeOK, PublishGarbage, Fails
<1>. QED  BY <1>1, <1>2, <1>3, <1>4, <1>5, <1>6 DEF TraderStep

\* Every rebalance and every end of a consumer keeps the types.
LEMMA GroupTypes ==
    ASSUME TypeOK, GroupStep
    PROVE  TypeOK'
<1>. USE DEF TypeOK, tables, kafka, producer
<1>1. ASSUME NEW w \in Workers, Start(w)  PROVE TypeOK'
  BY <1>1 DEF Start
<1>2. ASSUME NEW p \in Partitions, NEW w \in Workers, Assign(p, w)  PROVE TypeOK'
  BY <1>2 DEF Assign
<1>3. ASSUME NEW p \in Partitions, Revoke(p)  PROVE TypeOK'
  BY <1>3 DEF Revoke, Fails
<1>4. ASSUME NEW w \in Workers, Expel(w)  PROVE TypeOK'
  BY <1>4 DEF Expel, Without, Fails
<1>5. ASSUME NEW w \in Workers, WorkerFails(w)  PROVE TypeOK'
  BY <1>5 DEF WorkerFails, Stop, Without, Fails
<1>. QED  BY <1>1, <1>2, <1>3, <1>4, <1>5 DEF GroupStep

\* Applying, skipping and committing a command keep the types.
LEMMA ConsumerTypes ==
    ASSUME CommandsAssumption, TypeOK, DeliveryInOrder, ConsumerStep
    PROVE  TypeOK'
<1>. USE DEF tables, kafka, producer
<1>1. ASSUME NEW w \in Workers, Receive(w)  PROVE TypeOK'
  <2>1. PICK p \in Partitions :
          /\ position' = [position EXCEPT ![p] = @ + 1]
          /\ handling' = [handling EXCEPT ![w] =
                [partition |-> p, offset |-> position[p] + 1, outcome |-> "pending"]]
    BY <1>1 DEF Receive
  <2>2. [partition |-> p, offset |-> position[p] + 1, outcome |-> "pending"] \in Delivery
    BY DEF TypeOK, Delivery
  <2>3. position' \in [Partitions -> Nat] /\ handling' \in [Workers -> Delivery \cup {Stopped, Waiting}]
    BY <2>1, <2>2 DEF TypeOK
  <2>4. UNCHANGED <<tables, producer, log, owner, committed, done, fresh, failures>>
    BY <1>1 DEF Receive
  <2>. QED  BY <2>3, <2>4 DEF TypeOK
<1>2. ASSUME NEW w \in Workers, NEW outcome \in {"ok", "lost"}, NEW m, Pending(w, m),
             Returns(w, outcome)
      PROVE  /\ handling' \in [Workers -> Delivery \cup {Stopped, Waiting}]
             /\ done' \in [Partitions -> SUBSET Nat]
             /\ UNCHANGED <<producer, kafka, fresh>>
  <2>1. [handling[w] EXCEPT !.outcome = outcome] \in Delivery
    BY <1>2, PendingMessage DEF Delivery
  <2>2. handling[w].partition \in Partitions /\ handling[w].offset \in Nat
    BY <1>2, PendingMessage DEF Delivery
  <2>. QED  BY <1>2, <2>1, <2>2 DEF TypeOK, Returns
<1>3. ASSUME NEW w \in Workers, Stop(w)
      PROVE  /\ handling' \in [Workers -> Delivery \cup {Stopped, Waiting}]
             /\ owner' \in [Partitions -> Workers \cup {Nobody}]
  BY <1>3 DEF TypeOK, Stop, Without
<1>4. ASSUME NEW m \in Command, Effect(m)
      PROVE  orders' \in [ClientIds -> Row \cup {NoOrder}] /\ funds' \in [Accounts -> Nat]
  <2>1. m.account \in Accounts /\ m.order \in ClientIds
    BY DEF Command
  <2>2. CASE Insert(m)
    <3>1. fresh /\ funds[m.account] # 0
      BY <2>2 DEF Insert, Accepted, Refused, Postponed
    <3>2. funds' = [funds EXCEPT ![m.account] = @ - 1]
      BY <2>2 DEF Insert
    <3>3. funds' \in [Accounts -> Nat]
      BY <2>1, <3>1, <3>2 DEF TypeOK
    <3>4. [account |-> m.account, status |-> "open"] \in Row
      BY <2>1 DEF Row
    <3>. QED  BY <2>2, <3>3, <3>4 DEF TypeOK, Insert
  <2>3. CASE Release(m)
    <3>1. orders[m.order] \in Row
      BY <2>1, <2>3 DEF TypeOK, Release, Cancellable, RowOf
    <3>2. [orders[m.order] EXCEPT !.status = "cancelled"] \in Row
      BY <3>1 DEF Row
    <3>. QED  BY <2>1, <2>3, <3>2 DEF TypeOK, Release
  <2>. QED  BY <1>4, <2>2, <2>3 DEF Effect
<1>5. ASSUME NEW w \in Workers, Skip(w)  PROVE TypeOK'
  <2>1. PICK m : Pending(w, m)
    BY <1>5 DEF Skip
  <2>. QED  BY <1>2, <1>5, <2>1 DEF TypeOK, Skip
<1>6. ASSUME NEW w \in Workers, Apply(w)  PROVE TypeOK'
  <2>1. PICK m \in Command :
          /\ Pending(w, m)
          /\ \/ Effect(m) /\ Returns(w, "ok") /\ UNCHANGED generation
             \/ NoEffect(m) /\ Returns(w, "ok") /\ UNCHANGED tables
             \/ /\ Stop(w)
                /\ UNCHANGED <<tables, producer, log, position, committed, done, fresh>>
          /\ UNCHANGED failures
    BY <1>6 DEF Apply
  <2>2. CASE Effect(m) /\ Returns(w, "ok") /\ UNCHANGED generation
    BY <1>2, <1>4, <2>1, <2>2 DEF TypeOK
  <2>3. CASE NoEffect(m) /\ Returns(w, "ok") /\ UNCHANGED tables
    BY <1>2, <2>1, <2>3 DEF TypeOK
  <2>4. CASE Stop(w) /\ UNCHANGED <<tables, producer, log, position, committed, done, fresh>>
    BY <1>3, <2>1, <2>4 DEF TypeOK
  <2>. QED  BY <2>1, <2>2, <2>3, <2>4
<1>7. ASSUME NEW w \in Workers, AnswerLost(w)  PROVE TypeOK'
  <2>1. PICK m \in Command :
          /\ Fails /\ Effect(m) /\ Stop(w)
          /\ UNCHANGED <<generation, producer, log, position, committed, done, fresh>>
    BY <1>7 DEF AnswerLost
  <2>. QED  BY <1>3, <1>4, <2>1 DEF TypeOK, Fails
<1>8. ASSUME NEW w \in Workers, InsertFails(w)  PROVE TypeOK'
  <2>1. PICK m \in Command : Pending(w, m) /\ Fails /\ Returns(w, "lost") /\ UNCHANGED tables
    BY <1>8 DEF InsertFails
  <2>. QED  BY <1>2, <2>1 DEF TypeOK, Fails
<1>9. ASSUME NEW w \in Workers, Commit(w)  PROVE TypeOK'
  <2>1. handling[w].partition \in Partitions /\ handling[w].offset \in Nat
    BY <1>9 DEF Commit, Delivery
  <2>2. CASE owner[handling[w].partition] = w
    BY <1>9, <2>1, <2>2 DEF TypeOK, Commit
  <2>3. CASE owner[handling[w].partition] # w
    BY <1>3, <1>9, <2>1, <2>3 DEF TypeOK, Commit
  <2>. QED  BY <2>2, <2>3
<1>10. ASSUME NEW w \in Workers, CommitUnseen(w)  PROVE TypeOK'
  <2>1. handling[w].partition \in Partitions /\ handling[w].offset \in Nat
    BY <1>10 DEF CommitUnseen, Delivery
  <2>. QED  BY <1>3, <1>10, <2>1 DEF TypeOK, CommitUnseen, Fails
<1>. QED  BY <1>1, <1>5, <1>6, <1>7, <1>8, <1>9, <1>10 DEF ConsumerStep

\* Matching, the feed and the operator keep the types.
LEMMA ExchangeTypes ==
    ASSUME CommandsAssumption, TypeOK, ExchangeStep
    PROVE  TypeOK'
<1>. USE DEF tables, kafka, producer
<1>1. ASSUME NEW c \in ClientIds, Settle(c)  PROVE TypeOK'
  <2>1. orders[c] \in Row
    BY <1>1 DEF TypeOK, Settle
  <2>2. [orders[c] EXCEPT !.status = "filled"] \in Row
    BY <2>1 DEF Row
  <2>. QED  BY <1>1, <2>2 DEF TypeOK, Settle
<1>2. ASSUME FeedStale  PROVE TypeOK'
  <2>1. fresh' \in BOOLEAN
    BY <1>2 DEF FeedStale
  <2>2. failures' \in Nat
    BY <1>2 DEF TypeOK, FeedStale, Fails
  <2>3. /\ generation' = generation /\ orders' = orders /\ funds' = funds
        /\ drawn' = drawn /\ sending' = sending /\ delayed' = delayed
        /\ log' = log /\ owner' = owner /\ position' = position /\ committed' = committed
        /\ handling' = handling /\ done' = done
    BY <1>2 DEF FeedStale
  <2>. QED  BY <2>1, <2>2, <2>3, Zenon DEF TypeOK
<1>3. ASSUME FeedRecovers  PROVE TypeOK'
  <2>1. fresh' \in BOOLEAN
    BY <1>3 DEF FeedRecovers
  <2>2. /\ generation' = generation /\ orders' = orders /\ funds' = funds
        /\ drawn' = drawn /\ sending' = sending /\ delayed' = delayed
        /\ log' = log /\ owner' = owner /\ position' = position /\ committed' = committed
        /\ handling' = handling /\ done' = done /\ failures' = failures
    BY <1>3 DEF FeedRecovers
  <2>. QED  BY <2>1, <2>2, Zenon DEF TypeOK
<1>4. ASSUME ResetBots  PROVE TypeOK'
  <2>1. generation' \in [Traders -> 0 .. MaxResets]
    BY <1>4 DEF TypeOK, ResetBots, CommandsAssumption
  <2>2. \A c \in ClientIds : orders[c] # NoOrder => [orders[c] EXCEPT !.status = "deleted"] \in Row
    <3>1. \A c \in ClientIds : orders[c] # NoOrder => orders[c] \in Row
      BY DEF TypeOK
    <3>2. \A row \in Row : [row EXCEPT !.status = "deleted"] \in Row
      BY DEF Row
    <3>. QED  BY <3>1, <3>2
  <2>3. orders' \in [ClientIds -> Row \cup {NoOrder}]
    BY <1>4, <2>2 DEF ResetBots
  <2>4. funds' \in [Accounts -> Nat]
    BY <1>4 DEF ResetBots, CommandsAssumption
  <2>5. UNCHANGED <<kafka, producer, handling, done, fresh, failures>>
    BY <1>4 DEF ResetBots
  <2>. QED  BY <2>1, <2>3, <2>4, <2>5 DEF TypeOK
<1>. QED  BY <1>1, <1>2, <1>3, <1>4 DEF ExchangeStep

\* Types are kept by every step.
LEMMA TypeNext ==
    ASSUME TypeOK, DeliveryInOrder, [Next]_vars
    PROVE  TypeOK'
<1>1. CASE UNCHANGED vars
  BY <1>1, Zenon DEF TypeOK, vars
<1>. QED  BY <1>1, CommandsAssumption, TraderTypes, GroupTypes, ConsumerTypes, ExchangeTypes DEF Next

-----------------------------------------------------------------------------
(* Order: nothing is skipped *)

Order == NothingSkipped /\ InOrder /\ DeliveryInOrder /\ PositionInOrder

\* Steps that do no more than add messages to the log.
LEMMA OrderOfLog ==
    ASSUME TypeOK, TypeOK', Order,
           UNCHANGED <<owner, position, committed, handling, done>>,
           \A p \in Partitions : Len(log[p]) <= Len(log'[p])
    PROVE  Order'
<1>. USE DEF Order
<1>1. \A p \in Partitions : Len(log[p]) \in Nat /\ Len(log'[p]) \in Nat
  BY DEF TypeOK
<1>2. NothingSkipped'
  BY DEF NothingSkipped
<1>3. InOrder'
  BY <1>1 DEF InOrder
<1>4. DeliveryInOrder'
  BY <1>1 DEF DeliveryInOrder, Delivery
<1>5. PositionInOrder'
  BY <1>1 DEF PositionInOrder, BusyWith, TypeOK
<1>. QED  BY <1>2, <1>3, <1>4, <1>5

\* A consumer that ends: others do not notice.
LEMMA OrderOfStop ==
    ASSUME CommandsAssumption, TypeOK, TypeOK', Order, NEW w \in Workers, Stop(w),
           UNCHANGED <<log, position, done>>, NothingSkipped'
    PROVE  Order'
<1>. USE DEF Order
<1>1. /\ \A v \in Workers \ {w} : handling'[v] = handling[v]
      /\ handling'[w] \notin Delivery
  BY DEF Stop, TypeOK, CommandsAssumption
<1>2. \A p \in Partitions : owner'[p] # Nobody => owner'[p] = owner[p] /\ owner[p] # w
  BY DEF Stop, Without
<1>3. InOrder'
  BY DEF InOrder
<1>4. DeliveryInOrder'
  BY <1>1 DEF DeliveryInOrder
<1>5. PositionInOrder'
  <2>. SUFFICES ASSUME NEW p \in Partitions, owner'[p] # Nobody
                PROVE  /\ position[p] <= Len(log[p])
                       /\ BusyWith(owner[p], p)' => handling[owner[p]].offset = position[p]
                       /\ ~BusyWith(owner[p], p)' => 1 .. position[p] \subseteq done[p]
    BY <1>1, <1>2 DEF PositionInOrder, BusyWith, TypeOK
  <2>1. owner[p] \in Workers \ {w}
    BY <1>2 DEF TypeOK
  <2>2. BusyWith(owner[p], p)' <=> BusyWith(owner[p], p)
    BY <1>1, <1>2, <2>1 DEF BusyWith
  <2>. QED  BY <1>2, <2>1, <2>2 DEF PositionInOrder
<1>. QED  BY <1>3, <1>4, <1>5

\* Rebalances: a new owner starts at the committed offset, below which all is done.
LEMMA OrderOfGroup ==
    ASSUME CommandsAssumption, TypeOK, TypeOK', Order, GroupStep
    PROVE  Order'
<1>. USE DEF Order, kafka, tables, producer
<1>1. ASSUME NEW w \in Workers, Start(w)  PROVE Order'
  <2>1. \A v \in Workers : handling'[v] # handling[v] => handling'[v] \notin Delivery /\ handling[v] \notin Delivery
    BY <1>1 DEF Start, TypeOK, CommandsAssumption
  <2>2. DeliveryInOrder'
    BY <1>1, <2>1 DEF Start, DeliveryInOrder
  <2>3. \A v \in Workers, p \in Partitions : BusyWith(v, p)' <=> BusyWith(v, p)
    BY <2>1 DEF BusyWith
  <2>4. \A v \in Workers, p \in Partitions : BusyWith(v, p) => handling'[v] = handling[v]
    BY <2>1 DEF BusyWith
  <2>5. PositionInOrder'
    BY <1>1, <2>3, <2>4 DEF Start, PositionInOrder, TypeOK
  <2>. QED  BY <1>1, <2>2, <2>5 DEF Start, NothingSkipped, InOrder
<1>2. ASSUME NEW p \in Partitions, NEW w \in Workers, Assign(p, w)  PROVE Order'
  <2>1. 1 .. committed[p] \subseteq done[p] /\ committed[p] <= Len(log[p])
    <3>1. committed[p] \in Nat /\ Len(log[p]) \in Nat
      BY DEF TypeOK
    <3>2. committed[p] = 0 \/ committed[p] \in 1 .. committed[p]
      BY <3>1
    <3>. QED  BY <3>1, <3>2 DEF NothingSkipped, InOrder
  <2>2. ~BusyWith(w, p)
    BY <1>2 DEF Assign, BusyWith, CommandsAssumption
  <2>3. PositionInOrder'
    <3>1. /\ owner' = [owner EXCEPT ![p] = w]
          /\ position' = [position EXCEPT ![p] = committed[p]]
          /\ UNCHANGED <<log, handling, done>>
      BY <1>2 DEF Assign
    <3>. SUFFICES ASSUME NEW q \in Partitions, owner'[q] # Nobody
                  PROVE  /\ position'[q] <= Len(log[q])
                         /\ BusyWith(owner'[q], q) => handling[owner'[q]].offset = position'[q]
                         /\ ~BusyWith(owner'[q], q) => 1 .. position'[q] \subseteq done[q]
      BY <3>1 DEF PositionInOrder, BusyWith
    <3>2. CASE q = p
      BY <2>1, <2>2, <3>1, <3>2 DEF TypeOK
    <3>3. CASE q # p
      BY <3>1, <3>3 DEF PositionInOrder, TypeOK
    <3>. QED  BY <3>2, <3>3
  <2>. QED  BY <1>2, <2>3 DEF Assign, NothingSkipped, InOrder, DeliveryInOrder
<1>3. ASSUME UNCHANGED <<log, position, committed, handling, done>>,
             \A p \in Partitions : owner'[p] \in {owner[p], Nobody}
      PROVE  Order'
  <2>1. PositionInOrder'
    BY <1>3 DEF PositionInOrder, BusyWith, TypeOK
  <2>. QED  BY <1>3, <2>1 DEF NothingSkipped, InOrder, DeliveryInOrder
<1>4. ASSUME NEW p \in Partitions, Revoke(p)  PROVE Order'
  BY <1>3, <1>4 DEF Revoke, TypeOK
<1>5. ASSUME NEW w \in Workers, Expel(w)  PROVE Order'
  BY <1>3, <1>5 DEF Expel, Without, TypeOK
<1>6. ASSUME NEW w \in Workers, WorkerFails(w)  PROVE Order'
  BY <1>6, OrderOfStop DEF WorkerFails, NothingSkipped
<1>. QED  BY <1>1, <1>2, <1>4, <1>5, <1>6 DEF GroupStep

\* A message received comes after everything that is done.
LEMMA OrderOfReceive ==
    ASSUME CommandsAssumption, TypeOK, TypeOK', Order, NEW w \in Workers, Receive(w)
    PROVE  Order'
<1>. USE DEF Order, kafka, tables, producer
<1>1. PICK p \in Partitions :
        /\ owner[p] = w
        /\ position[p] < Len(log[p])
        /\ position' = [position EXCEPT ![p] = @ + 1]
        /\ handling' = [handling EXCEPT ![w] =
              [partition |-> p, offset |-> position[p] + 1, outcome |-> "pending"]]
  BY DEF Receive
<1>2. UNCHANGED <<log, owner, committed, done>> /\ handling[w] = Waiting
  BY DEF Receive
<1>3. position[p] \in Nat /\ Len(log[p]) \in Nat /\ owner[p] # Nobody
  BY <1>1 DEF TypeOK, CommandsAssumption
<1>4. \A q \in Partitions : ~BusyWith(w, q)
  BY <1>2 DEF BusyWith, CommandsAssumption
<1>5. 1 .. position[p] \subseteq done[p]
  BY <1>1, <1>3, <1>4 DEF PositionInOrder
<1>6. handling'[w] = [partition |-> p, offset |-> position[p] + 1, outcome |-> "pending"]
  BY <1>1 DEF TypeOK
<1>7. \A v \in Workers \ {w} : handling'[v] = handling[v]
  BY <1>1 DEF TypeOK
<1>8. DeliveryInOrder'
  <2>. SUFFICES ASSUME NEW v \in Workers, handling'[v] \in Delivery
                PROVE  /\ handling'[v].offset <= Len(log[handling'[v].partition])
                       /\ 1 .. (handling'[v].offset - 1) \subseteq done[handling'[v].partition]
                       /\ handling'[v].outcome # "pending"
                             => handling'[v].offset \in done[handling'[v].partition]
    BY <1>2 DEF DeliveryInOrder
  <2>1. CASE v = w
    BY <1>1, <1>3, <1>5, <1>6, <2>1
  <2>2. CASE v # w
    BY <1>7, <2>2 DEF DeliveryInOrder
  <2>. QED  BY <2>1, <2>2
<1>9. PositionInOrder'
  <2>. SUFFICES ASSUME NEW q \in Partitions, owner[q] # Nobody
                PROVE  /\ position'[q] <= Len(log[q])
                       /\ BusyWith(owner[q], q)' => handling'[owner[q]].offset = position'[q]
                       /\ ~BusyWith(owner[q], q)' => 1 .. position'[q] \subseteq done[q]
    BY <1>2 DEF PositionInOrder, BusyWith
  <2>1. CASE q = p
    <3>1. position'[q] = position[p] + 1
      BY <1>1, <2>1 DEF TypeOK
    <3>2. [partition |-> p, offset |-> position[p] + 1, outcome |-> "pending"] \in Delivery
      BY <1>3 DEF Delivery
    <3>3. BusyWith(owner[q], q)'
      BY <1>1, <1>2, <1>6, <2>1, <3>2 DEF BusyWith
    <3>. QED  BY <1>1, <1>3, <1>6, <2>1, <3>1, <3>3
  <2>2. CASE q # p /\ owner[q] = w
    <3>1. position'[q] = position[q]
      BY <1>1, <2>2 DEF TypeOK
    <3>2. ~BusyWith(w, q)'
      BY <1>6, <2>2 DEF BusyWith
    <3>. QED  BY <1>2, <1>4, <2>2, <3>1, <3>2 DEF PositionInOrder
  <2>3. CASE q # p /\ owner[q] # w
    <3>1. position'[q] = position[q] /\ owner[q] \in Workers \ {w}
      BY <1>1, <2>3 DEF TypeOK
    <3>2. BusyWith(owner[q], q)' <=> BusyWith(owner[q], q)
      BY <1>2, <1>7, <3>1 DEF BusyWith
    <3>. QED  BY <1>7, <3>1, <3>2 DEF PositionInOrder
  <2>. QED  BY <2>1, <2>2, <2>3
<1>. QED  BY <1>2, <1>8, <1>9 DEF NothingSkipped, InOrder

\* What has been decided is one more message in the order of its partition.
LEMMA OrderOfReturns ==
    ASSUME CommandsAssumption, TypeOK, TypeOK', Order, NEW w \in Workers, NEW m, Pending(w, m),
           NEW outcome \in {"ok", "lost"}, Returns(w, outcome)
    PROVE  Order'
<1>. USE DEF Order, kafka
<1>. DEFINE p == handling[w].partition
            k == handling[w].offset
<1>1. /\ handling[w] \in Delivery
      /\ p \in Partitions
      /\ k \in 1 .. Len(log[p])
      /\ handling[w].outcome = "pending"
  BY PendingMessage
<1>2. /\ handling'[w] = [handling[w] EXCEPT !.outcome = outcome]
      /\ \A v \in Workers \ {w} : handling'[v] = handling[v]
      /\ UNCHANGED <<log, owner, position, committed>>
  BY DEF Returns, TypeOK
<1>3. /\ done'[p] = done[p] \cup {k}
      /\ \A q \in Partitions : done[q] \subseteq done'[q] /\ (q # p => done'[q] = done[q])
  BY <1>1 DEF Returns, TypeOK
<1>4. /\ handling'[w].partition = p
      /\ handling'[w].offset = k
      /\ handling'[w].outcome # "pending"
  BY <1>1, <1>2 DEF Delivery
<1>5. Len(log[p]) \in Nat /\ 1 .. (k - 1) \subseteq done[p]
  BY <1>1 DEF DeliveryInOrder, TypeOK
<1>6. 1 .. k \subseteq done'[p]
  BY <1>1, <1>3, <1>5
<1>7. NothingSkipped'
  BY <1>2, <1>3 DEF NothingSkipped
<1>8. InOrder'
  <2>. SUFFICES ASSUME NEW q \in Partitions, NEW j \in done'[q]
                PROVE  j \in 1 .. Len(log[q]) /\ 1 .. j \subseteq done'[q]
    BY <1>2 DEF InOrder
  <2>1. CASE j \in done[q]
    BY <1>3, <2>1 DEF InOrder
  <2>2. CASE j \notin done[q]
    BY <1>1, <1>3, <1>6, <2>2
  <2>. QED  BY <2>1, <2>2
<1>9. DeliveryInOrder'
  <2>. SUFFICES ASSUME NEW v \in Workers, handling'[v] \in Delivery
                PROVE  /\ handling'[v].offset <= Len(log[handling'[v].partition])
                       /\ 1 .. (handling'[v].offset - 1) \subseteq done'[handling'[v].partition]
                       /\ handling'[v].outcome # "pending"
                             => handling'[v].offset \in done'[handling'[v].partition]
    BY <1>2 DEF DeliveryInOrder
  <2>1. CASE v = w
    BY <1>1, <1>3, <1>4, <1>5, <2>1
  <2>2. CASE v # w
    <3>1. handling'[v] = handling[v] /\ handling[v].partition \in Partitions
      BY <1>2, <2>2 DEF Delivery
    <3>. QED  BY <1>3, <3>1 DEF DeliveryInOrder
  <2>. QED  BY <2>1, <2>2
<1>10. PositionInOrder'
  <2>. SUFFICES ASSUME NEW q \in Partitions, owner[q] # Nobody
                PROVE  /\ position[q] <= Len(log[q])
                       /\ BusyWith(owner[q], q)' => handling'[owner[q]].offset = position[q]
                       /\ ~BusyWith(owner[q], q)' => 1 .. position[q] \subseteq done'[q]
    BY <1>2 DEF PositionInOrder, BusyWith
  <2>1. CASE owner[q] = w /\ q = p
    <3>1. BusyWith(w, p) /\ ~BusyWith(w, p)'
      BY <1>1, <1>4 DEF BusyWith
    <3>. QED  BY <1>1, <1>2, <1>6, <2>1, <3>1 DEF PositionInOrder
  <2>2. CASE owner[q] = w /\ q # p
    <3>1. ~BusyWith(w, q) /\ ~BusyWith(w, q)'
      BY <1>4, <2>2 DEF BusyWith
    <3>. QED  BY <1>2, <1>3, <2>2, <3>1 DEF PositionInOrder
  <2>3. CASE owner[q] # w
    <3>1. owner[q] \in Workers \ {w}
      BY <2>3 DEF TypeOK
    <3>2. BusyWith(owner[q], q)' <=> BusyWith(owner[q], q)
      BY <1>2, <3>1 DEF BusyWith
    <3>. QED  BY <1>2, <1>3, <3>1, <3>2 DEF PositionInOrder
  <2>. QED  BY <2>1, <2>2, <2>3
<1>. QED  BY <1>7, <1>8, <1>9, <1>10

\* Only what is done is committed.
LEMMA OrderOfCommit ==
    ASSUME CommandsAssumption, TypeOK, TypeOK', Order, NEW w \in Workers,
           Commit(w) \/ CommitUnseen(w)
    PROVE  Order'
<1>. USE DEF Order, kafka, tables, producer
<1>. DEFINE p == handling[w].partition
            k == handling[w].offset
<1>1. /\ handling[w] \in Delivery
      /\ handling[w].outcome # "pending"
      /\ UNCHANGED <<log, position, done>>
  BY DEF Commit, CommitUnseen
<1>2. p \in Partitions /\ k \in Nat \ {0}
  BY <1>1 DEF Delivery
<1>3. 1 .. k \subseteq done[p]
  BY <1>1, <1>2 DEF DeliveryInOrder
<1>4. \A q \in Partitions : committed'[q] = committed[q] \/ (q = p /\ committed'[q] = k)
  BY <1>2 DEF Commit, CommitUnseen, TypeOK, Stop
<1>5. NothingSkipped'
  BY <1>1, <1>3, <1>4 DEF NothingSkipped
<1>6. CASE Stop(w)
  BY <1>1, <1>5, <1>6, OrderOfStop
<1>7. CASE handling' = [handling EXCEPT ![w] = Waiting] /\ UNCHANGED owner
  <2>1. /\ handling'[w] = Waiting
        /\ \A v \in Workers \ {w} : handling'[v] = handling[v]
    BY <1>7 DEF TypeOK
  <2>2. \A v \in Workers, q \in Partitions : BusyWith(v, q)' <=> BusyWith(v, q)
    BY <1>1, <2>1 DEF BusyWith, CommandsAssumption
  <2>3. \A v \in Workers, q \in Partitions : BusyWith(v, q) => handling'[v] = handling[v]
    BY <1>1, <2>1 DEF BusyWith
  <2>4. PositionInOrder'
    BY <1>1, <1>7, <2>2, <2>3 DEF PositionInOrder, TypeOK
  <2>5. DeliveryInOrder'
    BY <1>1, <2>1 DEF DeliveryInOrder, CommandsAssumption
  <2>. QED  BY <1>1, <1>5, <2>4, <2>5 DEF InOrder
<1>. QED  BY <1>6, <1>7 DEF Commit, CommitUnseen

\* Every step keeps the order.
LEMMA OrderNext ==
    ASSUME TypeOK, TypeOK', Order, [Next]_vars
    PROVE  Order'
<1>. USE CommandsAssumption DEF kafka, tables, producer
<1>1. CASE TraderStep
  <2>1. ASSUME NEW p \in Partitions, NEW m \in Messages, Append1(p, m)
        PROVE  \A q \in Partitions : Len(log[q]) <= Len(log'[q])
    BY <2>1, LogGrows
  <2>2. ASSUME UNCHANGED log
        PROVE  \A q \in Partitions : Len(log[q]) <= Len(log'[q])
    BY <2>2 DEF TypeOK
  <2>3. \A m \in Command : m \in Messages /\ PartitionOf[m.account] \in Partitions
    BY DEF Messages, Command, CommandsAssumption
  <2>4. \A t \in Traders : sending[t] # Idle => sending[t] \in Command
    BY DEF TypeOK
  <2>5. delayed \subseteq Command
    BY DEF TypeOK
  <2>6. ASSUME NEW t \in Traders, Send(t)  PROVE Order'
    BY <2>2, <2>6, OrderOfLog DEF Send
  <2>7. ASSUME NEW t \in Traders, Delivered(t)  PROVE Order'
    BY <2>1, <2>3, <2>4, <2>7, OrderOfLog DEF Delivered
  <2>8. ASSUME NEW t \in Traders, SendFails(t)  PROVE Order'
    BY <2>1, <2>2, <2>3, <2>4, <2>8, OrderOfLog DEF SendFails
  <2>9. ASSUME NEW t \in Traders, TraderStops(t)  PROVE Order'
    BY <2>2, <2>9, OrderOfLog DEF TraderStops
  <2>10. ASSUME NEW m \in delayed, Arrives(m)  PROVE Order'
    BY <2>1, <2>3, <2>5, <2>10, OrderOfLog DEF Arrives
  <2>11. ASSUME NEW p \in Partitions, PublishGarbage(p)  PROVE Order'
    BY <2>1, <2>11, OrderOfLog DEF PublishGarbage, Messages
  <2>. QED  BY <1>1, <2>6, <2>7, <2>8, <2>9, <2>10, <2>11 DEF TraderStep
<1>2. CASE GroupStep
  BY <1>2, OrderOfGroup
<1>3. CASE ConsumerStep
  <2>1. ASSUME NEW w \in Workers, Stop(w), UNCHANGED <<log, position, committed, done>>
        PROVE  Order'
    BY <2>1, OrderOfStop DEF Order, NothingSkipped
  <2>2. ASSUME NEW w \in Workers, Skip(w)  PROVE Order'
    BY <2>2, OrderOfReturns DEF Skip
  <2>3. ASSUME NEW w \in Workers, Apply(w)  PROVE Order'
    BY <2>1, <2>3, OrderOfReturns DEF Apply
  <2>4. ASSUME NEW w \in Workers, AnswerLost(w)  PROVE Order'
    BY <2>1, <2>4 DEF AnswerLost
  <2>5. ASSUME NEW w \in Workers, InsertFails(w)  PROVE Order'
    BY <2>5, OrderOfReturns DEF InsertFails
  <2>. QED  BY <1>3, <2>2, <2>3, <2>4, <2>5, OrderOfReceive, OrderOfCommit DEF ConsumerStep
<1>4. CASE ExchangeStep
  <2>1. UNCHANGED <<log, owner, position, committed, handling, done>>
    BY <1>4 DEF ExchangeStep, Settle, FeedStale, FeedRecovers, ResetBots
  <2>2. \A q \in Partitions : Len(log[q]) <= Len(log'[q])
    BY <2>1 DEF TypeOK
  <2>. QED  BY <2>1, <2>2, OrderOfLog
<1>5. CASE UNCHANGED vars
  <2>1. UNCHANGED <<log, owner, position, committed, handling, done>>
    BY <1>5 DEF vars
  <2>2. \A q \in Partitions : Len(log[q]) <= Len(log'[q])
    BY <2>1 DEF TypeOK
  <2>. QED  BY <2>1, <2>2, OrderOfLog
<1>. QED  BY <1>1, <1>2, <1>3, <1>4, <1>5 DEF Next

-----------------------------------------------------------------------------
(* Charges: what accounts have and hold *)

\* The accounts that traders have now.
LEMMA OwnedAccounts ==
    ASSUME TypeOK, NEW a \in Accounts
    PROVE  a[1] \in Traders /\ a[2] \in Nat /\ (a \in Owned <=> a[2] = generation[a[1]])
<1>1. PICK t \in Traders, g \in 0 .. MaxResets : a = <<t, g>>
  BY DEF Accounts
<1>. QED  BY <1>1 DEF TypeOK, Owned, AccountOf

\* No step but Send adds a command that was not in flight.
LEMMA InFlightShrinks ==
    ASSUME TypeOK, IInv, [Next]_vars
    PROVE  \/ InFlight' \subseteq InFlight /\ drawn' = drawn
           \/ \E t \in Traders : Send(t)
<1>. USE DEF kafka, tables, producer
<1>1. ASSUME NEW p \in Partitions, NEW n \in Messages, Append1(p, n), NEW m, Logged(m)'
      PROVE  Logged(m) \/ m = n
  <2>1. PICK q \in Partitions : \E k \in 1 .. Len(log'[q]) : m = log'[q][k]
    BY <1>1 DEF Logged
  <2>. PICK k \in 1 .. Len(log'[q]) : m = log'[q][k]
    BY <2>1
  <2>2. log[q] \in Seq(Messages)
    BY DEF TypeOK
  <2>3. CASE q = p
    <3>1. log'[q] = Append(log[q], n)
      BY <1>1, <2>3 DEF Append1, TypeOK
    <3>2. CASE k \in 1 .. Len(log[q])
      BY <2>1, <2>2, <3>1, <3>2 DEF Logged
    <3>3. CASE k = Len(log[q]) + 1
      <4>1. Append(log[q], n)[Len(log[q]) + 1] = n
        BY <2>2
      <4>. QED  BY <3>1, <3>3, <4>1
    <3>. QED  BY <2>2, <3>1, <3>2, <3>3
  <2>4. CASE q # p
    <3>1. log'[q] = log[q]
      BY <1>1, <2>4 DEF Append1, TypeOK
    <3>. QED  BY <2>1, <3>1 DEF Logged
  <2>. QED  BY <2>3, <2>4
<1>2. ASSUME UNCHANGED log, NEW m, Logged(m)'
      PROVE  Logged(m)
  BY <1>2 DEF Logged
<1>3. \A m \in Command : m \in Messages /\ PartitionOf[m.account] \in Partitions
  BY CommandsAssumption DEF Messages, Command, CommandsAssumption
<1>4. \A t \in Traders : sending[t] # Idle => sending[t] \in Command
  BY DEF TypeOK
<1>5. Idle \notin Command /\ Garbage \notin Command
  BY CommandsAssumption DEF CommandsAssumption, Command, Garbage
<1>6. InFlight = {m \in Command : m \in delayed \/ (\E t \in Traders : m = sending[t]) \/ Logged(m)}
  BY DEF InFlight
<1>7. InFlight' = {m \in Command : m \in delayed' \/ (\E t \in Traders : m = sending'[t]) \/ Logged(m)'}
  BY DEF InFlight
<1>8. ASSUME NEW t \in Traders, Delivered(t)
      PROVE  InFlight' \subseteq InFlight /\ drawn' = drawn
  <2>1. \A m : Logged(m)' => Logged(m) \/ m = sending[t]
    BY <1>1, <1>3, <1>4, <1>8 DEF Delivered
  <2>2. \A u \in Traders : sending'[u] = sending[u] \/ sending'[u] = Idle
    BY <1>8 DEF Delivered, TypeOK
  <2>. QED  BY <1>5, <1>6, <1>7, <1>8, <2>1, <2>2 DEF Delivered
<1>9. ASSUME NEW t \in Traders, SendFails(t)
      PROVE  InFlight' \subseteq InFlight /\ drawn' = drawn
  <2>1. \A m : Logged(m)' => Logged(m) \/ m = sending[t]
    BY <1>1, <1>2, <1>3, <1>4, <1>9 DEF SendFails
  <2>2. delayed' \subseteq delayed \cup {sending[t]} /\ sending' = sending /\ drawn' = drawn
    BY <1>9 DEF SendFails
  <2>. QED  BY <1>6, <1>7, <2>1, <2>2
<1>10. ASSUME NEW t \in Traders, TraderStops(t)
       PROVE  InFlight' \subseteq InFlight /\ drawn' = drawn
  <2>1. delayed' \subseteq delayed \cup {sending[t]} /\ log' = log /\ drawn' = drawn
    BY <1>10 DEF TraderStops
  <2>2. \A u \in Traders : sending'[u] = sending[u] \/ sending'[u] = Idle
    BY <1>10 DEF TraderStops, TypeOK
  <2>. QED  BY <1>2, <1>5, <1>6, <1>7, <2>1, <2>2
<1>11. ASSUME NEW n \in delayed, Arrives(n)
       PROVE  InFlight' \subseteq InFlight /\ drawn' = drawn
  <2>1. n \in Command
    BY DEF TypeOK
  <2>2. \A m : Logged(m)' => Logged(m) \/ m = n
    BY <1>1, <1>3, <1>11, <2>1 DEF Arrives
  <2>. QED  BY <1>6, <1>7, <1>11, <2>2 DEF Arrives
<1>12. ASSUME NEW p \in Partitions, PublishGarbage(p)
       PROVE  InFlight' \subseteq InFlight /\ drawn' = drawn
  <2>1. \A m : Logged(m)' => Logged(m) \/ m = Garbage
    BY <1>1, <1>12 DEF PublishGarbage, Messages
  <2>. QED  BY <1>5, <1>6, <1>7, <1>12, <2>1 DEF PublishGarbage
<1>13. ASSUME GroupStep \/ ConsumerStep \/ ExchangeStep \/ UNCHANGED vars
       PROVE  InFlight' \subseteq InFlight /\ drawn' = drawn
  <2>1. GroupStep => UNCHANGED <<drawn, sending, delayed, log>>
    BY DEF GroupStep, Start, Assign, Revoke, Expel, WorkerFails
  <2>2. ConsumerStep => UNCHANGED <<drawn, sending, delayed, log>>
    BY DEF ConsumerStep, Receive, Skip, Apply, AnswerLost, InsertFails, Commit, CommitUnseen, Returns
  <2>3. ExchangeStep => UNCHANGED <<drawn, sending, delayed, log>>
    BY DEF ExchangeStep, Settle, FeedStale, FeedRecovers, ResetBots
  <2>4. UNCHANGED <<drawn, sending, delayed, log>>
    BY <1>13, <2>1, <2>2, <2>3 DEF vars
  <2>. QED  BY <1>2, <1>6, <1>7, <2>4
<1>. QED  BY <1>8, <1>9, <1>10, <1>11, <1>12, <1>13 DEF Next, TraderStep

\* A command that its owner sent gets a row only if its order never had one.
LEMMA InsertIsNew ==
    ASSUME IInv, NEW m \in InFlight, Owns(m), Insert(m)
    PROVE  orders[m.order] = NoOrder
<1>. SUFFICES ASSUME orders[m.order] # NoOrder  PROVE FALSE
  OBVIOUS
<1>1. m \in Command /\ m.order \in ClientIds /\ m.trader \in Traders
  BY DEF InFlight, Command
<1>2. orders[m.order].account = m.account
  BY DEF IInv, OneAccount
<1>3. ~RowOf(m)
  BY DEF Insert, Accepted, Refused, Invalid
<1>4. orders[m.order].status = "deleted"
  BY <1>2, <1>3 DEF RowOf
<1>5. m.account[2] # generation[m.account[1]]
  BY <1>1, <1>2, <1>4 DEF IInv, RowsOfTheirTime
<1>. QED  BY <1>1, <1>5 DEF Owns, AccountOf

\* What can happen to the tables.
LEMMA TableSteps ==
    ASSUME IInv, [Next]_vars
    PROVE  \/ UNCHANGED tables
           \/ UNCHANGED generation /\ \E m \in InFlight : Owns(m) /\ Effect(m)
           \/ \E c \in ClientIds : Settle(c)
           \/ ResetBots
<1>. USE DEF tables, kafka, producer
<1>1. ASSUME NEW w \in Workers, NEW m \in Command, Pending(w, m)
      PROVE  m \in InFlight
  BY <1>1, PendingMessage DEF IInv, InFlight, Logged
<1>2. CASE TraderStep
  BY <1>2 DEF TraderStep, Send, Delivered, SendFails, TraderStops, Arrives, PublishGarbage
<1>3. CASE GroupStep
  BY <1>3 DEF GroupStep, Start, Assign, Revoke, Expel, WorkerFails
<1>4. CASE ConsumerStep
  <2>1. ASSUME NEW w \in Workers, Apply(w) \/ AnswerLost(w)
        PROVE  \/ UNCHANGED tables
               \/ UNCHANGED generation /\ \E m \in InFlight : Owns(m) /\ Effect(m)
    BY <1>1, <2>1 DEF Apply, AnswerLost
  <2>. QED  BY <1>4, <2>1 DEF ConsumerStep, Receive, Skip, InsertFails, Commit, CommitUnseen
<1>5. CASE ExchangeStep
  BY <1>5 DEF ExchangeStep, FeedStale, FeedRecovers
<1>6. CASE UNCHANGED vars
  BY <1>6 DEF vars
<1>. QED  BY <1>2, <1>3, <1>4, <1>5, <1>6 DEF Next

\* What an effect and a fill do to the rows.
LEMMA RowSteps ==
    ASSUME IInv, TypeOK',
           \/ \E m \in InFlight : Owns(m) /\ Effect(m)
           \/ \E c \in ClientIds : Settle(c)
    PROVE  \E c \in ClientIds :
              /\ \A d \in ClientIds \ {c} : orders'[d] = orders[d]
              /\ orders'[c] # NoOrder
              /\ orders'[c].status # "deleted"
              /\ \/ /\ orders[c] # NoOrder
                    /\ orders[c].status # "deleted"
                    /\ orders'[c].account = orders[c].account
                 \/ /\ orders[c] = NoOrder
                    /\ \E m \in InFlight : c = m.order /\ Owns(m) /\ orders'[c].account = m.account
<1>1. ASSUME NEW c \in ClientIds, NEW s \in {"cancelled", "filled"},
             orders[c] # NoOrder, orders[c].status = "open",
             orders' = [orders EXCEPT ![c].status = s]
      PROVE  /\ \A d \in ClientIds \ {c} : orders'[d] = orders[d]
             /\ orders'[c] # NoOrder
             /\ orders'[c].status # "deleted"
             /\ orders[c].status # "deleted"
             /\ orders'[c].account = orders[c].account
  <2>1. orders[c] \in Row /\ orders'[c] = [orders[c] EXCEPT !.status = s]
    BY <1>1 DEF IInv, TypeOK
  <2>2. orders'[c] \in Row /\ orders'[c].status = s /\ orders'[c].account = orders[c].account
    BY <2>1 DEF Row
  <2>. QED  BY <1>1, <2>2, CommandsAssumption DEF CommandsAssumption, IInv, TypeOK
<1>2. ASSUME NEW c \in ClientIds, Settle(c)
      PROVE  orders[c] # NoOrder /\ orders[c].status = "open"
                /\ orders' = [orders EXCEPT ![c].status = "filled"]
  BY <1>2 DEF Settle
<1>3. ASSUME NEW m \in InFlight, Owns(m), Release(m)
      PROVE  /\ m.order \in ClientIds
             /\ orders[m.order] # NoOrder /\ orders[m.order].status = "open"
             /\ orders' = [orders EXCEPT ![m.order].status = "cancelled"]
  BY <1>3 DEF Release, Cancellable, RowOf, InFlight, Command
<1>4. ASSUME NEW m \in InFlight, Owns(m), Insert(m)
      PROVE  /\ m.order \in ClientIds
             /\ \A d \in ClientIds \ {m.order} : orders'[d] = orders[d]
             /\ orders'[m.order] # NoOrder
             /\ orders'[m.order].status # "deleted"
             /\ orders[m.order] = NoOrder
             /\ orders'[m.order].account = m.account
  <2>1. m.order \in ClientIds /\ m.account \in Accounts
    BY DEF InFlight, Command
  <2>2. orders'[m.order] = [account |-> m.account, status |-> "open"]
    BY <1>4, <2>1 DEF Insert, IInv, TypeOK
  <2>3. orders'[m.order] \in Row
    BY <2>1, <2>2 DEF Row
  <2>. QED  BY <1>4, <2>1, <2>2, <2>3, InsertIsNew, CommandsAssumption
            DEF CommandsAssumption, Insert, IInv, TypeOK
<1>5. CASE \E c \in ClientIds : Settle(c)
  BY <1>1, <1>2, <1>5
<1>6. CASE \E m \in InFlight : Owns(m) /\ Effect(m)
  <2>1. PICK m \in InFlight : Owns(m) /\ Effect(m)
    BY <1>6
  <2>2. CASE Insert(m)
    BY <1>4, <2>1, <2>2
  <2>3. CASE Release(m)
    BY <1>1, <1>3, <2>1, <2>3
  <2>. QED  BY <2>1, <2>2, <2>3 DEF Effect
<1>. QED  BY <1>5, <1>6

\* Every order stays with one account.
LEMMA OneAccountNext ==
    ASSUME IInv, TypeOK', [Next]_vars
    PROVE  OneAccount'
<1>. USE DEF IInv, OneAccount
<1>1. ASSUME InFlight' \subseteq InFlight, drawn' = drawn
      PROVE  OneAccount'
  <2>1. \A m \in InFlight : m.order \in ClientIds
    BY DEF InFlight, Command
  <2>2. CASE UNCHANGED tables
    BY <1>1, <2>2 DEF tables
  <2>3. CASE \/ \E m \in InFlight : Owns(m) /\ Effect(m)
             \/ \E c \in ClientIds : Settle(c)
    <3>1. \A c \in ClientIds :
            \/ orders'[c] = orders[c]
            \/ orders[c] # NoOrder /\ orders'[c].account = orders[c].account
            \/ \E m \in InFlight : c = m.order /\ orders'[c].account = m.account
      BY <2>3, RowSteps
    <3>. QED  BY <1>1, <2>1, <3>1
  <2>4. CASE ResetBots
    <3>1. \A c \in ClientIds :
            /\ orders[c] = NoOrder => orders'[c] = NoOrder
            /\ orders[c] # NoOrder => orders'[c].account = orders[c].account
      <4>1. \A c \in ClientIds : orders[c] # NoOrder => orders[c] \in Row
        BY DEF TypeOK
      <4>2. \A row \in Row : [row EXCEPT !.status = "deleted"].account = row.account
        BY DEF Row
      <4>. QED  BY <2>4, <4>1, <4>2 DEF ResetBots
    <3>. QED  BY <1>1, <2>1, <3>1
  <2>. QED  BY <2>2, <2>3, <2>4, TableSteps
<1>2. ASSUME NEW t \in Traders, Send(t)
      PROVE  OneAccount'
  <2>1. /\ UNCHANGED <<orders, log, delayed>>
        /\ \E n \in Command :
            /\ sending' = [sending EXCEPT ![t] = n]
            /\ \/ n.order \notin drawn /\ drawn' = drawn \cup {n.order}
               \/ /\ orders[n.order] # NoOrder
                  /\ orders[n.order].account = n.account
                  /\ drawn' = drawn
    <3>1. AccountOf(t) \in Accounts
      BY AccountsOfTraders
    <3>2. \A action \in {"place", "cancel"}, c \in ClientIds :
            [action |-> action, trader |-> t, account |-> AccountOf(t), order |-> c] \in Command
      BY <3>1 DEF Command
    <3>. QED  BY <1>2, <3>2 DEF Send, tables, kafka
  <2>2. PICK n \in Command :
            /\ sending' = [sending EXCEPT ![t] = n]
            /\ \/ n.order \notin drawn /\ drawn' = drawn \cup {n.order}
               \/ /\ orders[n.order] # NoOrder
                  /\ orders[n.order].account = n.account
                  /\ drawn' = drawn
    BY <2>1
  <2>3. InFlight' \subseteq InFlight \cup {n}
    <3>1. \A u \in Traders : sending'[u] = sending[u] \/ sending'[u] = n
      BY <2>2 DEF TypeOK
    <3>2. \A m : Logged(m)' => Logged(m)
      BY <2>1 DEF Logged
    <3>. QED  BY <2>1, <3>1, <3>2 DEF InFlight
  <2>4. n.order \in ClientIds
    BY DEF Command
  <2>5. \A m \in InFlight : m.order = n.order => m.account = n.account
    BY <2>2
  <2>. QED  BY <2>1, <2>2, <2>3, <2>4, <2>5
<1>. QED  BY <1>1, <1>2, InFlightShrinks

\* Only rows of former accounts are deleted.
LEMMA RowsNext ==
    ASSUME IInv, TypeOK', [Next]_vars
    PROVE  RowsOfTheirTime'
<1>. USE DEF IInv, RowsOfTheirTime
<1>1. CASE UNCHANGED tables
  BY <1>1 DEF tables
<1>2. CASE /\ generation' = generation
           /\ \/ \E m \in InFlight : Owns(m) /\ Effect(m)
              \/ \E c \in ClientIds : Settle(c)
  <2>1. \A m \in InFlight : Owns(m) => m.account[2] = generation[m.account[1]]
    BY DEF Owns, AccountOf
  <2>2. \A a \in Accounts : a[1] \in Traders /\ a[2] \in Nat /\ generation[a[1]] \in Nat
    BY DEF Accounts, TypeOK
  <2>3. \A m \in InFlight : m.account \in Accounts
    BY DEF InFlight, Command
  <2>. QED  BY <1>2, <2>1, <2>2, <2>3, RowSteps
<1>3. CASE ResetBots
  <2>. SUFFICES ASSUME NEW c \in ClientIds, orders'[c] # NoOrder
                PROVE  LET a == orders'[c].account IN
                        /\ a[2] <= generation'[a[1]]
                        /\ a[2] # generation'[a[1]]
    OBVIOUS
  <2>1. orders[c] # NoOrder /\ orders[c] \in Row
    BY <1>3 DEF ResetBots, TypeOK
  <2>2. orders'[c] = [orders[c] EXCEPT !.status = "deleted"]
    BY <1>3, <2>1 DEF ResetBots
  <2>3. orders'[c].account = orders[c].account /\ orders[c].account \in Accounts
    BY <2>1, <2>2 DEF Row
  <2>. DEFINE a == orders[c].account
  <2>4. a[1] \in Traders /\ a[2] \in Nat /\ generation[a[1]] \in Nat
    BY <2>3 DEF Accounts, TypeOK
  <2>5. generation'[a[1]] = generation[a[1]] + 1
    BY <1>3, <2>4 DEF ResetBots
  <2>6. a[2] <= generation[a[1]]
    BY <2>1
  <2>. QED  BY <2>3, <2>4, <2>5, <2>6
<1>. QED  BY <1>1, <1>2, <1>3, TableSteps DEF Settle

\* What an account holds is finite.
LEMMA HeldFinite ==
    ASSUME NEW a
    PROVE  IsFiniteSet(HeldBy(a)) /\ Cardinality(HeldBy(a)) \in Nat
  BY CommandsAssumption, FS_Subset, FS_CardinalityType DEF CommandsAssumption, HeldBy

\* Funds match what the accounts of the traders hold, and the others have nothing.
LEMMA ChargesNext ==
    ASSUME IInv, TypeOK', [Next]_vars
    PROVE  ChargedOnce' /\ OldAccountsDead'
<1>. USE DEF IInv, ChargedOnce, OldAccountsDead
<1>. Owned \subseteq Accounts /\ Owned' \subseteq Accounts
  BY DEF TypeOK, Owned, AccountOf, Accounts
<1>1. CASE UNCHANGED tables
  BY <1>1 DEF tables, Owned, AccountOf, HeldBy
<1>2. ASSUME generation' = generation, NEW m \in InFlight, Owns(m), Insert(m)
      PROVE  ChargedOnce' /\ OldAccountsDead'
  <2>. DEFINE c == m.order
              b == m.account
  <2>1. c \in ClientIds /\ b \in Accounts /\ m.trader \in Traders
    BY DEF InFlight, Command
  <2>2. b \in Owned /\ Owned' = Owned
    BY <1>2, <2>1 DEF Owns, Owned, AccountOf
  <2>3. orders[c] = NoOrder
    BY <1>2, InsertIsNew
  <2>4. /\ orders'[c] = [account |-> b, status |-> "open"]
        /\ \A d \in ClientIds \ {c} : orders'[d] = orders[d]
    BY <1>2, <2>1 DEF Insert, TypeOK
  <2>5. orders'[c] # NoOrder
    <3>1. [account |-> b, status |-> "open"] \in Row
      BY <2>1 DEF Row
    <3>. QED  BY <2>4, <3>1, CommandsAssumption DEF CommandsAssumption
  <2>6. /\ funds' = [funds EXCEPT ![b] = @ - 1]
        /\ funds \in [Accounts -> Nat]
    BY <1>2 DEF Insert, TypeOK
  <2>7. HeldBy(b)' = HeldBy(b) \cup {c} /\ c \notin HeldBy(b)
    BY <2>1, <2>3, <2>4, <2>5 DEF HeldBy
  <2>8. \A a \in Accounts \ {b} : HeldBy(a)' = HeldBy(a) /\ funds'[a] = funds[a]
    BY <2>1, <2>3, <2>4, <2>5, <2>6 DEF HeldBy
  <2>9. funds'[b] = funds[b] - 1 /\ funds[b] \in Nat
    BY <2>1, <2>6
  <2>10. Cardinality(HeldBy(b)') = Cardinality(HeldBy(b)) + 1
    BY <2>7, HeldFinite, FS_AddElement
  <2>11. ChargedOnce'
    <3>. SUFFICES ASSUME NEW a \in Owned
                  PROVE  funds'[a] + Cardinality(HeldBy(a)') = Grant
      BY <2>2
    <3>1. CASE a = b
      BY <2>9, <2>10, <3>1, HeldFinite
    <3>2. CASE a # b
      BY <2>8, <3>2
    <3>. QED  BY <3>1, <3>2
  <2>12. OldAccountsDead'
    BY <2>1, <2>2, <2>4, <2>8
  <2>. QED  BY <2>11, <2>12
<1>3. ASSUME generation' = generation, NEW m \in InFlight, Owns(m), Release(m)
      PROVE  ChargedOnce' /\ OldAccountsDead'
  <2>. DEFINE c == m.order
              b == m.account
  <2>1. c \in ClientIds /\ b \in Accounts /\ m.trader \in Traders
    BY DEF InFlight, Command
  <2>2. b \in Owned /\ Owned' = Owned
    BY <1>3, <2>1 DEF Owns, Owned, AccountOf
  <2>3. /\ orders[c] # NoOrder /\ orders[c].account = b /\ orders[c].status = "open"
        /\ orders' = [orders EXCEPT ![c].status = "cancelled"]
        /\ funds' = [funds EXCEPT ![b] = @ + 1]
    BY <1>3 DEF Release, Cancellable, RowOf
  <2>4. /\ orders'[c].account = b /\ orders'[c].status = "cancelled"
        /\ \A d \in ClientIds \ {c} : orders'[d] = orders[d]
    BY <2>1, <2>3 DEF TypeOK, Row
  <2>5. funds \in [Accounts -> Nat]
    BY DEF TypeOK
  <2>6. HeldBy(b)' = HeldBy(b) \ {c} /\ c \in HeldBy(b)
    BY <2>1, <2>3, <2>4 DEF HeldBy
  <2>7. \A a \in Accounts \ {b} : HeldBy(a)' = HeldBy(a) /\ funds'[a] = funds[a]
    BY <2>1, <2>3, <2>4, <2>5 DEF HeldBy
  <2>8. funds'[b] = funds[b] + 1 /\ funds[b] \in Nat
    BY <2>1, <2>3, <2>5
  <2>9. Cardinality(HeldBy(b)') = Cardinality(HeldBy(b)) - 1
    BY <2>6, HeldFinite, FS_RemoveElement
  <2>10. ChargedOnce'
    <3>. SUFFICES ASSUME NEW a \in Owned
                  PROVE  funds'[a] + Cardinality(HeldBy(a)') = Grant
      BY <2>2
    <3>1. CASE a = b
      BY <2>8, <2>9, <3>1, HeldFinite
    <3>2. CASE a # b
      BY <2>7, <3>2
    <3>. QED  BY <3>1, <3>2
  <2>11. OldAccountsDead'
    BY <2>1, <2>2, <2>4, <2>7
  <2>. QED  BY <2>10, <2>11
<1>4. ASSUME NEW c \in ClientIds, Settle(c)
      PROVE  ChargedOnce' /\ OldAccountsDead'
  <2>1. /\ orders[c] # NoOrder /\ orders[c].status = "open" /\ orders[c] \in Row
        /\ orders' = [orders EXCEPT ![c].status = "filled"]
        /\ UNCHANGED <<generation, funds>>
    BY <1>4 DEF Settle, TypeOK
  <2>2. [orders[c] EXCEPT !.status = "filled"] \in Row
    BY <2>1 DEF Row
  <2>3. /\ orders'[c] # NoOrder /\ orders'[c].status = "filled"
        /\ orders'[c].account = orders[c].account
        /\ \A d \in ClientIds \ {c} : orders'[d] = orders[d]
    BY <2>1, <2>2, CommandsAssumption DEF CommandsAssumption, TypeOK, Row
  <2>4. \A a : HeldBy(a)' = HeldBy(a)
    BY <2>1, <2>3 DEF HeldBy
  <2>5. Owned' = Owned
    BY <2>1 DEF Owned, AccountOf
  <2>. QED  BY <2>1, <2>3, <2>4, <2>5
<1>5. CASE ResetBots
  <2>1. \A a \in Accounts : a \in Owned' <=> a[2] = generation[a[1]] + 1
    BY <1>5, OwnedAccounts DEF ResetBots, Accounts, Owned, AccountOf
  <2>2. \A a \in Accounts : funds'[a] = IF a \in Owned' THEN Grant ELSE 0
    BY <1>5, <2>1 DEF ResetBots
  <2>3. \A c \in ClientIds : orders'[c] # NoOrder => orders'[c].status = "deleted"
    BY <1>5 DEF ResetBots, TypeOK, Row
  <2>4. \A a : HeldBy(a)' = {}
    BY <2>3 DEF HeldBy
  <2>5. Cardinality({}) = 0 /\ Grant \in Nat
    BY FS_EmptySet, CommandsAssumption DEF CommandsAssumption
  <2>. QED  BY <2>2, <2>3, <2>4, <2>5
<1>. QED  BY <1>1, <1>2, <1>3, <1>4, <1>5, TableSteps DEF Effect

-----------------------------------------------------------------------------
(* The theorems *)

\* The system starts with empty logs and the same funds for every trader.
LEMMA InitInvariant == Init => IInv
<1>. SUFFICES ASSUME Init  PROVE IInv
  OBVIOUS
<1>. USE CommandsAssumption DEF Init, CommandsAssumption
<1>1. TypeOK
  <2>1. \A p \in Partitions : log[p] \in Seq(Messages)
    OBVIOUS
  <2>2. generation \in [Traders -> 0 .. MaxResets] /\ funds \in [Accounts -> Nat]
    OBVIOUS
  <2>3. fresh \in BOOLEAN
    OBVIOUS
  <2>4. /\ drawn \subseteq ClientIds /\ sending \in [Traders -> Command \cup {Idle}]
        /\ delayed \subseteq Command /\ log \in [Partitions -> Seq(Messages)]
        /\ owner \in [Partitions -> Workers \cup {Nobody}]
        /\ position \in [Partitions -> Nat] /\ committed \in [Partitions -> Nat]
        /\ handling \in [Workers -> Delivery \cup {Stopped, Waiting}]
        /\ done \in [Partitions -> SUBSET Nat]
        /\ orders \in [ClientIds -> Row \cup {NoOrder}]
        /\ failures \in Nat
    BY <2>1
  <2>. QED  BY <2>2, <2>3, <2>4, Zenon DEF TypeOK
<1>2. Order
  BY DEF Order, NothingSkipped, InOrder, DeliveryInOrder, PositionInOrder
<1>3. InFlight = {}
  BY DEF InFlight, Logged
<1>4. OneAccount /\ RowsOfTheirTime
  BY <1>3 DEF OneAccount, RowsOfTheirTime
<1>5. ChargedOnce
  <2>1. \A a : HeldBy(a) = {}
    BY DEF HeldBy
  <2>2. \A a \in Owned : a \in Accounts
    BY <1>1, AccountsOfTraders DEF Owned
  <2>3. \A a : Cardinality(HeldBy(a)) = 0
    BY <2>1, FS_EmptySet, Zenon
  <2>4. \A a \in Owned : funds[a] = Grant
    BY <2>2
  <2>5. Grant + 0 = Grant
    OBVIOUS
  <2>. QED  BY <2>3, <2>4, <2>5, Zenon DEF ChargedOnce
<1>6. OldAccountsDead
  BY DEF OldAccountsDead
<1>. QED  BY <1>1, <1>2, <1>4, <1>5, <1>6 DEF IInv, Order

\* The inductive invariant holds in every reachable state.
THEOREM Invariance == Spec => []IInv
<1>1. IInv /\ [Next]_vars => IInv'
  <2>. SUFFICES ASSUME IInv, [Next]_vars  PROVE IInv'
    OBVIOUS
  <2>1. TypeOK /\ Order
    BY DEF IInv, Order
  <2>2. TypeOK'
    BY <2>1, TypeNext DEF Order
  <2>3. Order'
    BY <2>1, <2>2, OrderNext
  <2>. QED  BY <2>2, <2>3, OneAccountNext, RowsNext, ChargesNext DEF IInv, Order
<1>. QED  BY <1>1, InitInvariant, PTL DEF Spec

\* The variables have their types.
THEOREM TypeCorrect == Spec => []TypeOK
<1>1. IInv => TypeOK
  BY DEF IInv
<1>. QED  BY <1>1, Invariance, PTL

\* No committed offset hides a command that was never decided.
THEOREM NothingIsSkipped == Spec => []NothingSkipped
<1>1. IInv => NothingSkipped
  BY DEF IInv
<1>. QED  BY <1>1, Invariance, PTL

\* Redelivery neither charges nor refunds an order twice.
THEOREM ChargesAreOnce == Spec => []ChargedOnce
<1>1. IInv => ChargedOnce
  BY DEF IInv
<1>. QED  BY <1>1, Invariance, PTL

\* What a reset has deleted stays deleted, whatever the topic still holds.
THEOREM DeletedNeverReturns == Spec => DeletedForGood
<1>. DEFINE Kept == \A c \in ClientIds :
              orders[c] # NoOrder /\ orders[c].status = "deleted" => orders'[c] = orders[c]
<1>1. IInv /\ IInv' /\ [Next]_vars => Kept
  <2>. SUFFICES ASSUME IInv, IInv', [Next]_vars,
                       NEW c \in ClientIds, orders[c] # NoOrder, orders[c].status = "deleted"
                PROVE  orders'[c] = orders[c]
    OBVIOUS
  <2>1. CASE UNCHANGED tables
    BY <2>1 DEF tables
  <2>2. CASE \/ \E m \in InFlight : Owns(m) /\ Effect(m)
             \/ \E d \in ClientIds : Settle(d)
    BY <2>2, RowSteps DEF IInv
  <2>3. CASE ResetBots
    <3>1. orders[c] \in Row /\ orders'[c] = [orders[c] EXCEPT !.status = "deleted"]
      BY <2>3 DEF ResetBots, IInv, TypeOK
    <3>. QED  BY <3>1 DEF Row
  <2>. QED  BY <2>1, <2>2, <2>3, TableSteps
<1>2. IInv /\ IInv' /\ [Next]_vars => [Kept]_vars
  BY <1>1
<1>. QED  BY <1>2, Invariance, PTL DEF Spec, DeletedForGood

-----------------------------------------------------------------------------
(* The command path keeps the promise of CommandLog *)

\* Appending publishes.
LEMMA AppendPublishes ==
    ASSUME UNCHANGED <<done, orders>>, NEW p \in Partitions, NEW m \in Messages, Append1(p, m)
    PROVE  Log!Next
<1>1. Log!Publish(p, m)
  BY DEF Append1, Log!Publish, Status
<1>. QED  BY <1>1 DEF Log!Next

\* What applying a command does is one of the effects it may have.
LEMMA EffectIsAllowed ==
    ASSUME IInv, TypeOK', NEW m \in InFlight, Owns(m), Effect(m)
    PROVE  Log!Effect(m)
<1>. USE DEF IInv
<1>1. m.order \in ClientIds /\ m.account \in Accounts
  BY DEF InFlight, Command
<1>2. CASE m.action = "place" /\ Insert(m)
  <2>1. orders[m.order] = NoOrder
    BY <1>2, InsertIsNew
  <2>2. /\ orders'[m.order] = [account |-> m.account, status |-> "open"]
        /\ \A d \in ClientIds \ {m.order} : orders'[d] = orders[d]
    BY <1>1, <1>2 DEF Insert, TypeOK
  <2>3. orders'[m.order] # NoOrder /\ orders'[m.order].status = "open"
    <3>1. [account |-> m.account, status |-> "open"] \in Row
      BY <1>1 DEF Row
    <3>. QED  BY <2>2, <3>1, CommandsAssumption DEF CommandsAssumption
  <2>. QED  BY <1>1, <1>2, <2>1, <2>2, <2>3 DEF Log!Effect, Status
<1>3. CASE m.action = "cancel" /\ Release(m)
  <2>1. /\ orders[m.order] # NoOrder /\ orders[m.order].status = "open"
        /\ orders' = [orders EXCEPT ![m.order].status = "cancelled"]
        /\ orders[m.order] \in Row
    BY <1>1, <1>3 DEF Release, Cancellable, RowOf, TypeOK
  <2>2. [orders[m.order] EXCEPT !.status = "cancelled"] \in Row
    BY <2>1 DEF Row
  <2>3. /\ orders'[m.order] # NoOrder /\ orders'[m.order].status = "cancelled"
        /\ \A d \in ClientIds \ {m.order} : orders'[d] = orders[d]
    BY <1>1, <2>1, <2>2, CommandsAssumption DEF CommandsAssumption, TypeOK, Row
  <2>. QED  BY <1>1, <1>3, <2>1, <2>3 DEF Log!Effect, Status
<1>. QED  BY <1>2, <1>3 DEF Effect

\* A worker's step on a command it has received is an attempt at it.
LEMMA AttemptsAreInOrder ==
    ASSUME IInv, NEW w \in Workers, NEW m, Pending(w, m), UNCHANGED log, Log!Effect(m),
           \/ UNCHANGED done
           \/ \E outcome \in {"ok", "lost"} : Returns(w, outcome)
    PROVE  Log!Next
<1>. DEFINE p == handling[w].partition
            k == handling[w].offset
<1>1. p \in Partitions /\ k \in 1 .. Len(log[p]) /\ m = log[p][k] /\ handling[w] \in Delivery
  BY PendingMessage DEF IInv
<1>2. 1 .. (k - 1) \subseteq done[p]
  BY <1>1 DEF IInv, DeliveryInOrder
<1>3. done' \in {done, [done EXCEPT ![p] = @ \cup {k}]}
  BY DEF Returns
<1>4. Log!Attempt(p, k)
  BY <1>1, <1>2, <1>3 DEF Log!Attempt
<1>. QED  BY <1>1, <1>4 DEF Log!Next

\* Every step is a step of the promise, or none that it can see.
LEMMA PromiseNext ==
    ASSUME IInv, TypeOK', [Next]_vars
    PROVE  [Log!Next]_(Log!vars)
<1>. USE DEF kafka, tables, producer
<1>1. ASSUME UNCHANGED <<log, done, orders>>
      PROVE  UNCHANGED Log!vars
  BY <1>1 DEF Log!vars, Status
<1>2. CASE TraderStep
  <2>1. \A m \in Command : m \in Messages /\ PartitionOf[m.account] \in Partitions
    BY CommandsAssumption DEF Messages, Command, CommandsAssumption
  <2>2. \A t \in Traders : sending[t] # Idle => sending[t] \in Command
    BY DEF IInv, TypeOK
  <2>3. delayed \subseteq Command
    BY DEF IInv, TypeOK
  <2>4. ASSUME NEW t \in Traders, Send(t) \/ TraderStops(t)  PROVE UNCHANGED Log!vars
    BY <1>1, <2>4 DEF Send, TraderStops
  <2>5. ASSUME NEW t \in Traders, Delivered(t)  PROVE Log!Next
    BY <2>1, <2>2, <2>5, AppendPublishes DEF Delivered
  <2>6. ASSUME NEW t \in Traders, SendFails(t)  PROVE [Log!Next]_(Log!vars)
    BY <1>1, <2>1, <2>2, <2>6, AppendPublishes DEF SendFails
  <2>7. ASSUME NEW m \in delayed, Arrives(m)  PROVE Log!Next
    BY <2>1, <2>3, <2>7, AppendPublishes DEF Arrives
  <2>8. ASSUME NEW p \in Partitions, PublishGarbage(p)  PROVE Log!Next
    BY <2>8, AppendPublishes DEF PublishGarbage, Messages
  <2>. QED  BY <1>2, <2>4, <2>5, <2>6, <2>7, <2>8 DEF TraderStep
<1>3. CASE GroupStep
  BY <1>1, <1>3 DEF GroupStep, Start, Assign, Revoke, Expel, WorkerFails
<1>4. CASE ConsumerStep
  <2>1. ASSUME NEW m, UNCHANGED orders  PROVE Log!Effect(m)
    BY <2>1 DEF Log!Effect, Status
  <2>2. ASSUME NEW w \in Workers, NEW m \in Command, Pending(w, m)  PROVE m \in InFlight
    BY <2>2, PendingMessage DEF IInv, InFlight, Logged
  <2>3. ASSUME NEW w \in Workers, Skip(w)  PROVE Log!Next
    BY <2>1, <2>3, AttemptsAreInOrder DEF Skip, Returns
  <2>4. ASSUME NEW w \in Workers, Apply(w)  PROVE [Log!Next]_(Log!vars)
    <3>1. PICK m \in Command :
            /\ Pending(w, m)
            /\ Owns(m)
            /\ \/ Effect(m) /\ Returns(w, "ok")
               \/ UNCHANGED tables /\ Returns(w, "ok")
               \/ UNCHANGED <<tables, log, done>>
      BY <2>4 DEF Apply
    <3>2. CASE Effect(m) /\ Returns(w, "ok")
      BY <2>2, <3>1, <3>2, EffectIsAllowed, AttemptsAreInOrder DEF Returns
    <3>3. CASE UNCHANGED tables /\ Returns(w, "ok")
      BY <2>1, <3>1, <3>3, AttemptsAreInOrder DEF Returns
    <3>4. CASE UNCHANGED <<tables, log, done>>
      BY <1>1, <3>4
    <3>. QED  BY <3>1, <3>2, <3>3, <3>4
  <2>5. ASSUME NEW w \in Workers, AnswerLost(w)  PROVE Log!Next
    BY <2>2, <2>5, EffectIsAllowed, AttemptsAreInOrder DEF AnswerLost
  <2>6. ASSUME NEW w \in Workers, InsertFails(w)  PROVE Log!Next
    BY <2>1, <2>6, AttemptsAreInOrder DEF InsertFails, Returns
  <2>7. ASSUME NEW w \in Workers, Receive(w) \/ Commit(w) \/ CommitUnseen(w)
        PROVE  UNCHANGED Log!vars
    BY <1>1, <2>7 DEF Receive, Commit, CommitUnseen
  <2>. QED  BY <1>4, <2>3, <2>4, <2>5, <2>6, <2>7 DEF ConsumerStep
<1>5. CASE ExchangeStep
  <2>1. ASSUME NEW c \in ClientIds, Settle(c)  PROVE Log!Next
    <3>1. /\ orders[c] # NoOrder /\ orders[c].status = "open" /\ orders[c] \in Row
          /\ orders' = [orders EXCEPT ![c].status = "filled"]
          /\ UNCHANGED <<log, done>>
      BY <2>1 DEF Settle, IInv, TypeOK
    <3>2. [orders[c] EXCEPT !.status = "filled"] \in Row
      BY <3>1 DEF Row
    <3>3. /\ orders'[c] # NoOrder /\ orders'[c].status = "filled"
          /\ \A d \in ClientIds \ {c} : orders'[d] = orders[d]
      BY <3>1, <3>2, CommandsAssumption DEF CommandsAssumption, IInv, TypeOK, Row
    <3>4. /\ Status(c) = "open" /\ Status(c)' = "filled"
          /\ \A d \in ClientIds \ {c} : Status(d)' = Status(d)
      BY <3>1, <3>3 DEF Status
    <3>5. Log!Fill(c)
      BY <3>1, <3>4 DEF Log!Fill
    <3>. QED  BY <3>5 DEF Log!Next
  <2>2. CASE ResetBots
    <3>1. UNCHANGED <<log, done>>
      BY <2>2 DEF ResetBots
    <3>2. ASSUME NEW c \in ClientIds
          PROVE  Status(c)' = IF Status(c) = "absent" THEN "absent" ELSE "deleted"
      <4>1. CASE orders[c] = NoOrder
        BY <2>2, <4>1 DEF ResetBots, Status
      <4>2. CASE orders[c] # NoOrder
        <5>1. orders[c] \in Row /\ orders'[c] = [orders[c] EXCEPT !.status = "deleted"]
          BY <2>2, <4>2 DEF ResetBots, IInv, TypeOK
        <5>2. orders'[c] \in Row /\ orders'[c].status = "deleted" /\ orders[c].status # "absent"
          BY <5>1 DEF Row
        <5>. QED  BY <4>2, <5>2, CommandsAssumption DEF CommandsAssumption, Status
      <4>. QED  BY <4>1, <4>2
    <3>3. Log!Reset
      BY <3>1, <3>2 DEF Log!Reset
    <3>. QED  BY <3>3 DEF Log!Next
  <2>3. ASSUME FeedStale \/ FeedRecovers  PROVE UNCHANGED Log!vars
    BY <1>1, <2>3 DEF FeedStale, FeedRecovers
  <2>. QED  BY <1>5, <2>1, <2>2, <2>3 DEF ExchangeStep
<1>6. CASE UNCHANGED vars
  BY <1>1, <1>6 DEF vars
<1>. QED  BY <1>2, <1>3, <1>4, <1>5, <1>6 DEF Next

\* The command path implements its abstract specification.
THEOREM Implements == Spec => Promise
<1>1. Init => Log!Init
  BY DEF Init, Log!Init, Status
<1>2. IInv /\ [Next]_vars /\ IInv' => [Log!Next]_(Log!vars)
  BY PromiseNext DEF IInv
<1>. QED  BY <1>1, <1>2, Invariance, PTL DEF Spec, Promise, Log!Spec
==============================================================================
