------------------------------- MODULE Exchange ------------------------------
(***************************************************************************)
(* The exchange's database and the transactions that write it: order       *)
(* placement and cancellation (exchange_trading), matching and settlement  *)
(* (worker), and the market generator (simulator).                         *)
(*                                                                         *)
(* accounts, orders, fills and market are the committed tables.  Placement *)
(* and a generator tick are single steps.  A cancellation and a matching   *)
(* tick are transactions of several steps: they lock the rows they read,   *)
(* keep their writes to themselves (`rows`, `delta`, `fills` of cancel and *)
(* tick) and publish them at COMMIT, or lose them all on an error, a crash *)
(* or a deadlock abort.  Isolation is READ COMMITTED: FOR UPDATE works on  *)
(* the snapshot of its statement, minus the rows that have left the        *)
(* condition by the time their lock is granted.                            *)
(***************************************************************************)
EXTENDS Amounts, Matching, FiniteSetsExt

CONSTANTS
    Users, MarketMaker,         \* accounts' owners; the simulator's own user
    ClientIds, NoClientId,      \* client_order_id of users; of system orders
    Currencies, Instruments,
    Base, Quote,                \* the two halves of "BTC-USD", per instrument
    Rank,                       \* ORDER BY instrument
    Grant,                      \* opening balances, per user and currency
    Requests,                   \* what users ask place_order for
    MaxQuantity, MaxPrice,      \* the limits of NewOrder::validate
    References,                 \* prices the generator or the feed may produce
    MaxOpenOrders,              \* the count limit of place_order (100)
    Live,                       \* PRICE_SOURCE = coinbase
    MaxSequence,                \* bound: orders.sequence
    MaxAborts                   \* bound: transactions that fail

ASSUME ExchangeAssumption ==
    /\ MarketMaker \notin Users
    /\ NoClientId \notin ClientIds
    /\ Base \in [Instruments -> Currencies]
    /\ Quote \in [Instruments -> Currencies]
    /\ \A i \in Instruments : Base[i] # Quote[i]
    /\ Rank \in [Instruments -> Nat]
    /\ \A i, j \in Instruments : Rank[i] = Rank[j] => i = j
    /\ Grant \in [Users -> [Currencies -> Nat]]
    /\ Requests \subseteq [instrument : Instruments, side : Sides, type : OrderTypes,
                           quantity : Nat, price : Nat]
    /\ References \subseteq Nat \ {0}
    /\ MaxOpenOrders \in Nat
    /\ Live \in BOOLEAN
    /\ MaxSequence \in Nat

VARIABLES
    accounts,       \* table accounts, of Users (no code writes the system's)
    orders,         \* table orders, by sequence
    fills,          \* table fills
    market,         \* table market_state: reference price and freshness
    cancel,         \* per user: the transaction of cancel_orders
    tick,           \* per instrument: the transaction of tick_instrument
    aborts          \* transactions that have failed

tables == <<accounts, orders, fills, market>>
vars == <<accounts, orders, fills, market, cancel, tick, aborts>>

-----------------------------------------------------------------------------
(* Rows and balances *)

Statuses == {"open", "partially_filled", "filled", "cancelled"}

\* `charged` is history and no column: what place_order reserved for the order.
Order == [user : Users \cup {MarketMaker}, client : ClientIds \cup {NoClientId},
          instrument : Instruments, side : Sides, type : OrderTypes,
          quantity : Nat, remaining : Nat, price : Nat, status : Statuses,
          charged : Nat]
Fill == [maker : Nat, taker : Nat, instrument : Instruments, price : Nat, quantity : Nat]
BookOrder == [side : Sides, price : Nat, remaining : Nat, sequence : Nat, type : OrderTypes]
Balances == [Users -> [Currencies -> [available : Int, reserved : Int]]]

Empty == [s \in {} |-> s]
NoDelta == [u \in Users |-> [c \in Currencies |-> [available |-> 0, reserved |-> 0]]]

\* UPDATE accounts SET available = available + a, reserved = reserved + r.
Credit(b, u, c, a, r) ==
    [b EXCEPT ![u][c] = [available |-> @.available + a, reserved |-> @.reserved + r]]

\* The account rows once the updates of a transaction are committed.
Posted(delta) ==
    [u \in Users |-> [c \in Currencies |->
        [available |-> accounts[u][c].available + delta[u][c].available,
         reserved |-> accounts[u][c].reserved + delta[u][c].reserved]]]

IsOpen(order) == order.status \in {"open", "partially_filled"}
OpenOf(u) == {s \in DOMAIN orders : orders[s].user = u /\ IsOpen(orders[s])}
BookOf(i) == {s \in DOMAIN orders : orders[s].instrument = i /\ IsOpen(orders[s])}

\* The currency an order reserves, and what is still reserved for it.
ReservedCurrency(order) ==
    IF order.side = "buy" THEN Quote[order.instrument] ELSE Base[order.instrument]
Outstanding(order) ==
    IF order.side = "buy" THEN BalanceAmount(order.remaining, order.price)
                          ELSE order.remaining
Reserves(u, c, order) ==
    IF order.user = u /\ IsOpen(order) /\ ReservedCurrency(order) = c
    THEN Outstanding(order) ELSE 0

\* Rows of `orders` that another transaction holds FOR UPDATE.
LockedByTick == UNION {tick[i].locked : i \in Instruments}
LockedByCancel == UNION {cancel[u].locked : u \in Users}

\* The orders table with the rows of a transaction written over it.
Written(rows) == [s \in DOMAIN orders |-> IF s \in DOMAIN rows THEN rows[s] ELSE orders[s]]

-----------------------------------------------------------------------------
(* place_order *)

\* NewOrder::validate; price 0 stands for no limit_price.
Valid(r) ==
    /\ r.quantity > 0 /\ r.quantity <= MaxQuantity
    /\ \/ r.type = "market" /\ r.price = 0
       \/ r.type = "limit" /\ r.price > 0 /\ r.price <= MaxPrice

\* bigserial: a value is drawn before COMMIT, so the rows of different users
\* appear in any order and failed inserts leave gaps; the advisory lock orders
\* the values of one user.
NextSequence(u) ==
    {s \in 1..MaxSequence : s \notin DOMAIN orders
                            /\ \A t \in DOMAIN orders : orders[t].user = u => t < s}

AcceptedPrice(r) ==
    IF r.type = "limit" THEN r.price
    ELSE IF r.side = "buy" THEN MarketBuyCap(market[r.instrument].reference)
    ELSE 0

Reserve(r) ==
    IF r.side = "sell" THEN r.quantity
    ELSE IF r.type = "market" THEN MarketBuyReserve(r.quantity, market[r.instrument].reference)
    ELSE BalanceAmount(r.quantity, r.price)

\* A client order ID in use returns the existing order: no change, no action.
PlaceOrder(u, c, r, s) ==
    /\ cancel[u].phase = "idle"
    /\ Valid(r)
    /\ \A t \in DOMAIN orders : ~(orders[t].user = u /\ orders[t].client = c)
    /\ Cardinality(OpenOf(u)) < MaxOpenOrders
    /\ market[r.instrument].fresh
    /\ LET currency == ReservedCurrency(r)
           reserve == Reserve(r)
       IN  /\ accounts[u][currency].available >= reserve
           /\ accounts' = Credit(accounts, u, currency, -reserve, reserve)
    /\ orders' = [t \in DOMAIN orders \cup {s} |->
                    IF t # s THEN orders[t]
                    ELSE [user |-> u, client |-> c, instrument |-> r.instrument,
                          side |-> r.side, type |-> r.type, quantity |-> r.quantity,
                          remaining |-> r.quantity, price |-> AcceptedPrice(r),
                          status |-> "open", charged |-> Reserve(r)]]
    /\ UNCHANGED <<fills, market, cancel, tick, aborts>>

-----------------------------------------------------------------------------
(* cancel_orders: the user's lock, SELECT ... FOR UPDATE, then order by      *)
(* order in sequence, then COMMIT                                            *)

NoCancel == [phase |-> "idle", locked |-> {}, todo |-> {}, rows |-> Empty, delta |-> NoDelta]

\* Faulty: a cancellation does not wait for the rows a tick holds.
CancelUnlocked(u, chosen) ==
    /\ cancel[u].phase = "idle"
    /\ chosen # {}
    /\ chosen = OpenOf(u) \/ \E s \in OpenOf(u) : chosen = {s}
    /\ cancel' = [cancel EXCEPT ![u] = [phase |-> "cancelling", locked |-> chosen,
                    todo |-> chosen, rows |-> [s \in chosen |-> orders[s]], delta |-> NoDelta]]
    /\ UNCHANGED <<tables, tick, aborts>>

\* One order for cancel_order, all open orders for cancel_all_orders (which
\* changes nothing when there are none).
CancelBegin(u, chosen) ==
    /\ cancel[u].phase = "idle"
    /\ chosen # {}
    /\ chosen = OpenOf(u) \/ \E s \in OpenOf(u) : chosen = {s}
    /\ chosen \cap LockedByTick = {}
    /\ cancel' = [cancel EXCEPT ![u] = [phase |-> "cancelling", locked |-> chosen,
                    todo |-> chosen, rows |-> [s \in chosen |-> orders[s]], delta |-> NoDelta]]
    /\ UNCHANGED <<tables, tick, aborts>>

CancelOne(u, s) ==
    /\ s \in cancel[u].todo
    /\ \A t \in cancel[u].todo : s <= t
    /\ LET order == cancel[u].rows[s]
           release == Outstanding(order)
       IN  cancel' = [cancel EXCEPT
             ![u].todo = @ \ {s},
             ![u].rows = [@ EXCEPT ![s].status = "cancelled"],
             ![u].delta = Credit(@, u, ReservedCurrency(order), release, -release)]
    /\ UNCHANGED <<tables, tick, aborts>>

CancelCommit(u) ==
    /\ cancel[u].phase = "cancelling"
    /\ cancel[u].todo = {}
    /\ accounts' = Posted(cancel[u].delta)
    /\ orders' = Written(cancel[u].rows)
    /\ cancel' = [cancel EXCEPT ![u] = NoCancel]
    /\ UNCHANGED <<fills, market, tick, aborts>>

CancelAbort(u) ==
    /\ cancel[u].phase = "cancelling"
    /\ aborts < MaxAborts
    /\ aborts' = aborts + 1
    /\ cancel' = [cancel EXCEPT ![u] = NoCancel]
    /\ UNCHANGED <<tables, tick>>

-----------------------------------------------------------------------------
(* tick_instrument and apply_fill, under the instrument's advisory lock *)

NoTick == [phase |-> "idle", seen |-> {}, locked |-> {}, buys |-> {}, book |-> Empty,
           reference |-> 0, rows |-> Empty, delta |-> NoDelta, fills |-> {}]

\* The statement snapshot of SELECT ... FOR UPDATE: the orders open by now.
TickBegin(i) ==
    /\ tick[i].phase = "idle"
    /\ tick' = [tick EXCEPT ![i] = [NoTick EXCEPT !.phase = "snapshot", !.seen = BookOf(i)]]
    /\ UNCHANGED <<tables, cancel, aborts>>

BookEntry(s, row) ==
    [side |-> row.side, price |-> row.price, remaining |-> row.remaining,
     sequence |-> s, type |-> row.type]

\* Faulty: rows that closed while the tick waited for them stay in the book.
LockSnapshot(i) ==
    LET locked == tick[i].seen
    IN  /\ tick[i].phase = "snapshot"
        /\ locked \cap LockedByCancel = {}
        /\ tick' = [tick EXCEPT ![i] = [NoTick EXCEPT
             !.phase = "matching",
             !.locked = locked,
             !.buys = {s \in locked : orders[s].side = "buy"},
             !.book = [s \in locked |-> BookEntry(s, orders[s])],
             !.reference = market[i].reference,
             !.rows = [s \in locked |-> orders[s]]]]
        /\ UNCHANGED <<tables, cancel, aborts>>

\* All row locks are granted: rows closed meanwhile drop out, `remaining` is
\* current, orders accepted since the snapshot are not seen.  Then the
\* reference price is read and the two sides are built in memory.
TickLock(i) ==
    LET locked == tick[i].seen \cap BookOf(i)
    IN  /\ tick[i].phase = "snapshot"
        /\ locked \cap LockedByCancel = {}
        /\ tick' = [tick EXCEPT ![i] = [NoTick EXCEPT
             !.phase = "matching",
             !.locked = locked,
             !.buys = {s \in locked : orders[s].side = "buy"},
             !.book = [s \in locked |-> BookEntry(s, orders[s])],
             !.reference = market[i].reference,
             !.rows = [s \in locked |-> orders[s]]]]
        /\ UNCHANGED <<tables, cancel, aborts>>

\* Sells that are not used up, and the buy and the sell that are next in line.
Makers(t) == {s \in t.locked : t.book[s].side = "sell" /\ t.book[s].remaining > 0}
\* Faulty: the buys are not sorted.
AnyTaker(t, buy) == buy \in t.buys
IsTaker(t, buy) == IsFirst(buy, t.buys, t.book)
\* Faulty: the sells are not sorted.
AnyMaker(t, sell) == sell \in Makers(t)
IsMaker(t, sell) == IsFirst(sell, Makers(t), t.book)

\* What an iteration of match_taker yields, priced by execution_price.
NextFill(i, buy, sell) ==
    LET book == tick[i].book
    IN  [maker |-> sell, taker |-> buy, instrument |-> i,
         price |-> ExecutionPrice(book[buy], book[sell], tick[i].reference),
         quantity |-> Smaller(book[buy].remaining, book[sell].remaining)]

\* Faulty: an order filled to the last unit counts as partially filled.
ReducedStrictly(row, q) ==
    [row EXCEPT !.remaining = IF row.remaining > q THEN row.remaining - q ELSE 0,
                !.status = IF row.remaining < q THEN "filled" ELSE "partially_filled"]

\* UPDATE orders SET remaining = GREATEST(remaining - q, 0), status = CASE ...
Reduced(row, q) ==
    [row EXCEPT !.remaining = IF row.remaining > q THEN row.remaining - q ELSE 0,
                !.status = IF row.remaining <= q THEN "filled" ELSE "partially_filled"]

\* Faulty: the release is rounded on its own, not as a difference of reservations.
BuyerRoundedApart(delta, buy, f) ==
    LET released == BalanceAmount(f.quantity, buy.price)
        spent == BalanceAmount(f.quantity, f.price)
    IN  IF buy.user = MarketMaker THEN delta
        ELSE Credit(Credit(delta, buy.user, Quote[f.instrument], released - spent, -released),
                    buy.user, Base[f.instrument], f.quantity, 0)

\* Faulty: the buyer pays from the available balance and the release is lost.
BuyerPaidTwice(delta, buy, f) ==
    LET released == BalanceAmount(buy.remaining, buy.price)
                      - BalanceAmount(buy.remaining - f.quantity, buy.price)
        spent == BalanceAmount(f.quantity, f.price)
    IN  IF buy.user = MarketMaker THEN delta
        ELSE Credit(Credit(delta, buy.user, Quote[f.instrument], -spent, -released),
                    buy.user, Base[f.instrument], f.quantity, 0)

\* The account updates of apply_fill; orders of the system touch no account.
BuyerPaid(delta, buy, f) ==
    LET released == BalanceAmount(buy.remaining, buy.price)
                      - BalanceAmount(buy.remaining - f.quantity, buy.price)
        spent == BalanceAmount(f.quantity, f.price)
    IN  IF buy.user = MarketMaker THEN delta
        ELSE Credit(Credit(delta, buy.user, Quote[f.instrument], released - spent, -released),
                    buy.user, Base[f.instrument], f.quantity, 0)

\* Faulty: the seller is paid the sell's limit price.
SellerPaidLimit(delta, sell, f) ==
    IF sell.user = MarketMaker THEN delta
    ELSE Credit(Credit(delta, sell.user, Base[f.instrument], 0, -f.quantity),
                sell.user, Quote[f.instrument], BalanceAmount(f.quantity, sell.price), 0)

SellerPaid(delta, sell, f) ==
    IF sell.user = MarketMaker THEN delta
    ELSE Credit(Credit(delta, sell.user, Base[f.instrument], 0, -f.quantity),
                sell.user, Quote[f.instrument], BalanceAmount(f.quantity, f.price), 0)

ApplyFill(t, f) ==
    [t EXCEPT !.fills = @ \cup {f},
              !.rows = [s \in DOMAIN t.rows |->
                          IF s \in {f.maker, f.taker} THEN Reduced(t.rows[s], f.quantity)
                                                      ELSE t.rows[s]],
              !.delta = SellerPaid(BuyerPaid(t.delta, t.rows[f.taker], f), t.rows[f.maker], f)]

\* Faulty: one unit is deducted, whatever the fill takes.
DeductedOne(book, f) ==
    [s \in DOMAIN book |->
        IF s \in {f.maker, f.taker} THEN [book[s] EXCEPT !.remaining = @ - 1] ELSE book[s]]

\* match_taker's own bookkeeping, before the fill reaches the database.
Deducted(book, f) ==
    [s \in DOMAIN book |->
        IF s \in {f.maker, f.taker}
        THEN [book[s] EXCEPT !.remaining = @ - f.quantity] ELSE book[s]]

\* INSERT INTO fills ... ON CONFLICT DO NOTHING: a row that exists is skipped.
Settled(t, f) ==
    LET matched == [t EXCEPT !.book = Deducted(@, f)]
    IN  IF f \in fills \cup t.fills THEN matched ELSE ApplyFill(matched, f)

TickFill(i, buy, sell) ==
    /\ tick[i].phase = "matching"
    /\ IsTaker(tick[i], buy)
    /\ IsMaker(tick[i], sell)
    /\ tick[i].book[buy].remaining > 0
    /\ Crosses(tick[i].book[buy], tick[i].book[sell])
    /\ NextFill(i, buy, sell).price > 0
    /\ tick' = [tick EXCEPT ![i] = Settled(tick[i], NextFill(i, buy, sell))]
    /\ UNCHANGED <<tables, cancel, aborts>>

\* The buy is used up, or the first sell that is left does not cross it.
TickNextBuy(i, buy) ==
    /\ tick[i].phase = "matching"
    /\ IsTaker(tick[i], buy)
    /\ tick[i].book[buy].remaining > 0 =>
         \A sell \in Makers(tick[i]) : IsMaker(tick[i], sell) =>
            ~Crosses(tick[i].book[buy], tick[i].book[sell])
    /\ tick' = [tick EXCEPT ![i].buys = @ \ {buy}]
    /\ UNCHANGED <<tables, cancel, aborts>>

TickCommit(i) ==
    /\ tick[i].phase = "matching"
    /\ tick[i].buys = {}
    /\ accounts' = Posted(tick[i].delta)
    /\ orders' = Written(tick[i].rows)
    /\ fills' = fills \cup tick[i].fills
    /\ tick' = [tick EXCEPT ![i] = NoTick]
    /\ UNCHANGED <<market, cancel, aborts>>

TickAbort(i) ==
    /\ tick[i].phase # "idle"
    /\ aborts < MaxAborts
    /\ aborts' = aborts + 1
    /\ tick' = [tick EXCEPT ![i] = NoTick]
    /\ UNCHANGED <<tables, cancel>>

-----------------------------------------------------------------------------
(* The market generator *)

SystemOpen == OpenOf(MarketMaker)
SystemCancelled(stale) ==
    [s \in DOMAIN orders |-> IF s \in stale THEN [orders[s] EXCEPT !.status = "cancelled"]
                                             ELSE orders[s]]

\* The four limit orders of an instrument: two depths on each side.
QuoteSteps == <<[side |-> "buy", permille |-> 998, times |-> 1],
                [side |-> "buy", permille |-> 995, times |-> 5],
                [side |-> "sell", permille |-> 1002, times |-> 1],
                [side |-> "sell", permille |-> 1005, times |-> 5]>>
SystemOrder(i, reference, step) ==
    [user |-> MarketMaker, client |-> NoClientId, instrument |-> i,
     side |-> step.side, type |-> "limit",
     quantity |-> QuoteQuantity(reference, step.times),
     remaining |-> QuoteQuantity(reference, step.times),
     price |-> QuotePrice(reference, step.permille), status |-> "open", charged |-> 0]

\* tick of the simulator: one transaction for all instruments, in their order,
\* which waits for the system orders a matching tick holds.
GeneratorTick(reference, first) ==
    LET slots == [i \in Instruments |-> first + 4 * Rank[i]]
        added == UNION {slots[i] .. (slots[i] + 3) : i \in Instruments}
    IN  /\ SystemOpen \cap LockedByTick = {}
        /\ \A s \in added : s <= MaxSequence /\ \A t \in DOMAIN orders :
                                 t # s /\ (orders[t].user = MarketMaker => t < s)
        /\ market' = [i \in Instruments |-> [reference |-> reference[i], fresh |-> TRUE]]
        /\ orders' = [s \in DOMAIN orders \cup added |->
                        IF s \in DOMAIN orders THEN SystemCancelled(SystemOpen)[s]
                        ELSE LET i == CHOOSE j \in Instruments : s \in slots[j] .. (slots[j] + 3)
                             IN  SystemOrder(i, reference[i], QuoteSteps[s - slots[i] + 1])]
        /\ UNCHANGED <<accounts, fills, cancel, tick, aborts>>

\* 30 seconds pass without an update of a live market.
FeedStale(i) ==
    /\ Live
    /\ market[i].fresh
    /\ market' = [market EXCEPT ![i].fresh = FALSE]
    /\ UNCHANGED <<accounts, orders, fills, cancel, tick, aborts>>

\* After a failed tick of a live generator: withdraw the quotes of stale markets.
CancelStaleQuotes ==
    LET stale == {s \in SystemOpen : ~market[orders[s].instrument].fresh}
    IN  /\ Live
        /\ stale # {}
        /\ stale \cap LockedByTick = {}
        /\ orders' = SystemCancelled(stale)
        /\ UNCHANGED <<accounts, fills, market, cancel, tick, aborts>>

-----------------------------------------------------------------------------
Init ==
    /\ accounts = [u \in Users |-> [c \in Currencies |->
                     [available |-> Grant[u][c], reserved |-> 0]]]
    /\ orders = Empty
    /\ fills = {}
    /\ market \in [Instruments -> [reference : References, fresh : {TRUE}]]
    /\ cancel = [u \in Users |-> NoCancel]
    /\ tick = [i \in Instruments |-> NoTick]
    /\ aborts = 0

UserStep(u) ==
    \/ \E c \in ClientIds, r \in Requests, s \in NextSequence(u) : PlaceOrder(u, c, r, s)
    \/ \E chosen \in SUBSET OpenOf(u) : CancelBegin(u, chosen)
    \/ \E s \in cancel[u].todo : CancelOne(u, s)
    \/ CancelCommit(u)
    \/ CancelAbort(u)

WorkerStep(i) ==
    \/ TickBegin(i)
    \/ TickLock(i)
    \/ \E buy \in tick[i].buys, sell \in Makers(tick[i]) : TickFill(i, buy, sell)
    \/ \E buy \in tick[i].buys : TickNextBuy(i, buy)
    \/ TickCommit(i)
    \/ TickAbort(i)

GeneratorStep ==
    \/ \E reference \in [Instruments -> References], first \in 1..MaxSequence :
          GeneratorTick(reference, first)
    \/ \E i \in Instruments : FeedStale(i)
    \/ CancelStaleQuotes

Next ==
    \/ \E u \in Users : UserStep(u)
    \/ \E i \in Instruments : WorkerStep(i)
    \/ GeneratorStep

Spec == Init /\ [][Next]_vars

\* The worker ticks every 100 ms and a transaction that can go on does; nothing
\* makes users, the generator, or failures happen.
WorkerProgress(i) ==
    \/ TickBegin(i) \/ TickLock(i) \/ TickCommit(i)
    \/ \E buy \in tick[i].buys, sell \in Makers(tick[i]) : TickFill(i, buy, sell)
    \/ \E buy \in tick[i].buys : TickNextBuy(i, buy)
CancelProgress(u) == CancelCommit(u) \/ \E s \in cancel[u].todo : CancelOne(u, s)
Fairness ==
    /\ \A i \in Instruments : WF_vars(WorkerProgress(i))
    /\ \A u \in Users : WF_vars(CancelProgress(u))
FairSpec == Spec /\ Fairness

-----------------------------------------------------------------------------
(* Correctness *)

TransactionTypeOK(t) ==
    /\ t.locked \subseteq Nat
    /\ t.rows \in [t.locked -> Order]
    /\ t.delta \in Balances

CancelTypeOK(t) ==
    /\ DOMAIN t = {"phase", "locked", "todo", "rows", "delta"}
    /\ TransactionTypeOK(t)
    /\ t.phase \in {"idle", "cancelling"}
    /\ t.todo \subseteq t.locked

TickTypeOK(t) ==
    /\ DOMAIN t = {"phase", "seen", "locked", "buys", "book", "reference", "rows", "delta", "fills"}
    /\ TransactionTypeOK(t)
    /\ t.phase \in {"idle", "snapshot", "matching"}
    /\ t.seen \subseteq Nat
    /\ t.buys \subseteq t.locked
    /\ t.book \in [t.locked -> BookOrder]
    /\ t.reference \in Nat
    /\ t.fills \subseteq Fill

\* Every table and every open transaction has the shape of its columns.
TypeOK ==
    /\ accounts \in Balances
    /\ DOMAIN orders \subseteq Nat
    /\ orders \in [DOMAIN orders -> Order]
    /\ fills \subseteq Fill
    /\ market \in [Instruments -> [reference : References, fresh : BOOLEAN]]
    /\ DOMAIN cancel = Users
    /\ \A u \in Users : CancelTypeOK(cancel[u])
    /\ DOMAIN tick = Instruments
    /\ \A i \in Instruments : TickTypeOK(tick[i])
    /\ aborts \in Nat

\* What place_order charged for an order beyond what the stored row accounts for.
Surplus(order) == order.charged - Outstanding([order EXCEPT !.remaining = order.quantity])
Dust(u, c, order) ==
    IF order.user = u /\ ReservedCurrency(order) = c THEN Surplus(order) ELSE 0

\* Only a market buy may be charged another amount than its row: place_order
\* reserves with the unrounded 5% cap, the column rounds the cap.  They differ by
\* less than a unit and half a unit for every coin of the order.
ChargedAsStored(order) ==
    IF order.type = "market" /\ order.side = "buy"
    THEN /\ 2 * Scale * Surplus(order) < order.quantity + 2 * Scale
         /\ -(2 * Scale * Surplus(order)) < order.quantity + 2 * Scale
    ELSE Surplus(order) = 0

\* A user's reserved balance is, to the last unit, what the open orders still
\* hold and what the roundings at placement charged beyond the stored rows: no
\* split into fills, no cancellation and no abort adds to it.
ReservationsExact ==
    /\ \A u \in Users, c \in Currencies :
         accounts[u][c].reserved =
            SumFunction([s \in OpenOf(u) |-> Reserves(u, c, orders[s])])
              + SumFunction([s \in DOMAIN orders |-> Dust(u, c, orders[s])])
    /\ \A s \in DOMAIN orders : orders[s].user \in Users => ChargedAsStored(orders[s])

\* What the rows of fills say an account has gained in a currency.
Gained(u, c, f) ==
    LET worth == BalanceAmount(f.quantity, f.price)
        bought == CASE c = Base[f.instrument] -> f.quantity
                    [] c = Quote[f.instrument] -> -worth
                    [] OTHER -> 0
    IN  (IF orders[f.taker].user = u THEN bought ELSE 0)
          - (IF orders[f.maker].user = u THEN bought ELSE 0)

\* Holdings are the opening balance and the recorded fills, nothing else: no
\* placement, cancellation, abort or rounding creates or destroys money.
FillsExplainBalances ==
    \A u \in Users, c \in Currencies :
        accounts[u][c].available + accounts[u][c].reserved =
            Grant[u][c] + SumFunction([f \in fills |-> Gained(u, c, f)])

FilledIn(s, trades) ==
    SumFunction([f \in trades |-> IF s \in {f.maker, f.taker} THEN f.quantity ELSE 0])

\* A status says how much of an order is left.  Only an order of the system may
\* be of no size: nothing keeps its quantity from being rounded to 0.
StatusFits(order) ==
    /\ order.quantity = 0 => order.user = MarketMaker
    /\ CASE order.status = "open" -> order.remaining = order.quantity
         [] order.status = "partially_filled" -> order.remaining \in 1 .. (order.quantity - 1)
         [] order.status = "filled" -> order.remaining = 0 /\ order.quantity > 0
         [] order.status = "cancelled" -> order.remaining > 0 \/ order.quantity = 0

\* An order's remaining quantity is its quantity less its recorded fills, and
\* its status says which of the two is left.
OrdersMatchFills ==
    \A s \in DOMAIN orders :
        /\ orders[s].remaining = orders[s].quantity - FilledIn(s, fills)
        /\ StatusFits(orders[s])

\* Nobody trades at a price worse than the order's limit (a market buy's 5%
\* cap, a market sell's 0), and the sentinel 0 is never an execution price.
FillsWithinLimits ==
    \A f \in fills : /\ f.price > 0
                     /\ f.price <= orders[f.taker].price
                     /\ f.price >= orders[f.maker].price

\* Two orders trade with each other at most once, over all ticks: ON CONFLICT
\* DO NOTHING never swallows a fill that the matcher has already deducted.
PairFilledOnce ==
    \A f, g \in fills : f.maker = g.maker /\ f.taker = g.taker => f = g

\* A matching tick works on rows nobody else changes: until COMMIT each is
\* still open in the table, with the quantity the tick started from.
LockedRowsUnchanged ==
    \A i \in Instruments : \A s \in tick[i].locked :
        /\ IsOpen(orders[s])
        /\ orders[s].remaining = tick[i].book[s].remaining + FilledIn(s, tick[i].fills)
        /\ tick[i].rows[s].remaining = tick[i].book[s].remaining

\* When the last buy is served no two orders of the book still cross.
BookUncrossed ==
    \A i \in Instruments : tick[i].phase = "matching" /\ tick[i].buys = {} =>
        LET book == tick[i].book
        IN  \A b, s \in DOMAIN book :
                book[b].side = "buy" /\ book[s].side = "sell" /\ Crosses(book[b], book[s])
                    => book[b].remaining = 0 \/ book[s].remaining = 0

\* Once a tick has served an order, every order of its side that is ahead in
\* price-time order is used up.
PriceTimePriority ==
    \A i \in Instruments : \A f \in tick[i].fills :
        \A served \in {f.maker, f.taker} : \A s \in tick[i].locked :
            LET book == tick[i].book
            IN  book[s].side = book[served].side /\ s # served /\ PriceTime(book[s], book[served])
                    => book[s].remaining = 0

\* What is ahead of an order among those a tick holds, before it fills any.
Ahead(i, s) ==
    LET o == orders[s]
        before == {p \in tick[i].locked :
                     /\ orders[p].side = o.side
                     /\ \/ o.side = "buy" /\ orders[p].price > o.price
                        \/ o.side = "sell" /\ orders[p].price < o.price
                        \/ orders[p].price = o.price /\ p < s}
    IN  SumFunction([p \in before |-> orders[p].remaining])

\* Lay the quantities of each side end to end, the best order first: what two
\* orders overlap in.
Overlap(i, b, s) ==
    Smaller(Ahead(i, b) + orders[b].remaining, Ahead(i, s) + orders[s].remaining)
        - (IF Ahead(i, b) < Ahead(i, s) THEN Ahead(i, s) ELSE Ahead(i, b))

\* Each buy a tick has served got exactly what it overlaps in with the sells it
\* crosses, although match_taker starts at the best sell for every buy, passes
\* over what is used up and stops at the first sell that does not cross
\* (domain/src/lib.rs:126): nobody is passed over, and no fill is empty.
FillsAreOverlaps ==
    \A i \in Instruments : tick[i].phase = "matching" =>
        LET served == {b \in tick[i].locked \ tick[i].buys : orders[b].side = "buy"}
            sells == {s \in tick[i].locked : orders[s].side = "sell"}
            trades == {p \in served \X sells : /\ orders[p[1]].price >= orders[p[2]].price
                                               /\ Overlap(i, p[1], p[2]) > 0}
        IN  {<<f.taker, f.maker, f.quantity>> : f \in {f \in tick[i].fills : f.taker \in served}}
              = {<<p[1], p[2], Overlap(i, p[1], p[2])>> : p \in trades}

BoughtIn(u, c, trades) ==
    {f \in trades : orders[f.taker].user = u /\ Quote[f.instrument] = c}

\* A fill may cost one unit more than the reservation it releases; that is all
\* that can be missing from an available balance.
OverdraftIsDust ==
    \A u \in Users, c \in Currencies :
        accounts[u][c].available >=
            -Cardinality(BoughtIn(u, c, fills))

\* "No negative available or reserved balances" (docs/operations.md:33); the
\* verifier asserts it (scripts/verify-exchange.py:184).
NoNegativeBalances ==
    \A u \in Users, c \in Currencies :
        accounts[u][c].available >= 0 /\ accounts[u][c].reserved >= 0

\* A filled or cancelled order is final: what a tick and a cancellation do to
\* one order excludes each other, so nothing is released twice.
ClosedStaysClosed ==
    [][\A s \in DOMAIN orders : ~IsOpen(orders[s]) => orders'[s] = orders[s]]_vars

CanTrade(b, s) ==
    /\ {b, s} \subseteq DOMAIN orders
    /\ orders[b].instrument = orders[s].instrument
    /\ orders[b].side = "buy" /\ orders[s].side = "sell"
    /\ orders[b].price >= orders[s].price
    /\ IsOpen(orders[b]) /\ IsOpen(orders[s])

\* Two orders that cross do not rest in the book together: one is filled, or
\* cancelled, whatever else arrives.
CrossingOrdersMeet ==
    \A b, s \in 1..MaxSequence : CanTrade(b, s) ~> ~CanTrade(b, s)

-----------------------------------------------------------------------------
(* The inductive invariant: what row locks guarantee to their holders, and   *)
(* how far a matching tick has got                                           *)

SameTerms(a, b) ==
    /\ a.user = b.user /\ a.client = b.client /\ a.instrument = b.instrument
    /\ a.side = b.side /\ a.type = b.type
    /\ a.quantity = b.quantity /\ a.price = b.price /\ a.charged = b.charged

\* An order held by a cancellation is its user's, open, as read, and in no tick.
CancelHolds(t, u) ==
    \A s \in t.locked :
        /\ s \in DOMAIN orders
        /\ orders[s].user = u
        /\ IsOpen(orders[s])
        /\ SameTerms(t.rows[s], orders[s])
        /\ t.rows[s].remaining = orders[s].remaining
        /\ \A i \in Instruments : s \notin tick[i].locked

\* An order held by a tick is in its book and open; the tick's version of the
\* row has no more left than the table, and memory agrees with that version.
TickHolds(t, i) ==
    /\ t.phase # "matching" => t.locked = {} /\ t.fills = {}
    /\ \A s \in t.locked :
        /\ s \in DOMAIN orders
        /\ orders[s].instrument = i
        /\ IsOpen(orders[s])
        /\ SameTerms(t.rows[s], orders[s])
        /\ t.rows[s].remaining <= orders[s].remaining
        /\ t.book[s] = BookEntry(s, t.rows[s])

LocksHold ==
    /\ \A u \in Users : CancelHolds(cancel[u], u)
    /\ \A i \in Instruments : TickHolds(tick[i], i)

\* A fill is within both limits, and has used up one of the two orders.
SoundFill(f, rows) ==
    /\ {f.maker, f.taker} \subseteq DOMAIN rows
    /\ f.price > 0
    /\ f.price <= rows[f.taker].price
    /\ f.price >= rows[f.maker].price
    /\ rows[f.maker].remaining = 0 \/ rows[f.taker].remaining = 0

SamePair(f, g) == f.maker = g.maker /\ f.taker = g.taker

FillsSound ==
    /\ \A f \in fills : SoundFill(f, orders)
    /\ \A i \in Instruments : \A f \in tick[i].fills : SoundFill(f, tick[i].rows)
    /\ PairFilledOnce
    /\ \A i \in Instruments : \A f \in tick[i].fills :
         /\ \A g \in tick[i].fills : SamePair(f, g) => f = g
         /\ \A g \in fills : ~SamePair(f, g)

\* A market sell carries the sentinel price 0, so no execution price is below it.
SentinelPrice ==
    \A s \in DOMAIN orders :
        orders[s].side = "sell" /\ orders[s].type = "market" => orders[s].price = 0

\* A buy the tick is done with has nothing left, or nothing left to cross.
BuysServed ==
    \A i \in Instruments :
        /\ \A b \in tick[i].buys : tick[i].book[b].side = "buy"
        /\ \A b \in tick[i].locked \ tick[i].buys : tick[i].book[b].side = "buy" =>
             \/ tick[i].book[b].remaining = 0
             \/ \A s \in Makers(tick[i]) : ~Crosses(tick[i].book[b], tick[i].book[s])

\* What row locks protect: every fill is sound, and no buy is passed over.
BookInv ==
    /\ TypeOK /\ LocksHold /\ SentinelPrice
    /\ FillsSound /\ BuysServed /\ PriceTimePriority

\* What the rows of a transaction change in an account's reservations.
Change(u, c, t) ==
    SumFunction([s \in t.locked |-> Reserves(u, c, t.rows[s]) - Reserves(u, c, orders[s])])

\* The balances a cancellation will post undo the reservations of its rows.
CancelBalanced ==
    \A w \in Users : cancel[w].phase = "cancelling" => \A u \in Users, c \in Currencies :
        LET d == cancel[w].delta[u][c]
        IN  /\ d.reserved = Change(u, c, cancel[w])
            /\ d.available = -d.reserved
            /\ d.available >= 0

\* The balances a tick will post are those of its rows and its fills.
TickBalanced ==
    \A i \in Instruments : tick[i].phase = "matching" => \A u \in Users, c \in Currencies :
        LET d == tick[i].delta[u][c]
        IN  /\ d.reserved = Change(u, c, tick[i])
            /\ d.available + d.reserved = SumFunction([f \in tick[i].fills |-> Gained(u, c, f)])
            /\ d.available >= -Cardinality(BoughtIn(u, c, tick[i].fills))

\* The rows a transaction will write: a cancellation's differ in their status
\* only, a tick's have lost what its fills took from them.
RowsFit ==
    /\ \A u \in Users : \A s \in cancel[u].locked :
         cancel[u].rows[s].status =
            IF s \in cancel[u].todo THEN orders[s].status ELSE "cancelled"
    /\ \A i \in Instruments : \A s \in tick[i].locked :
         LET row == tick[i].rows[s]
         IN  /\ row.remaining = orders[s].remaining - FilledIn(s, tick[i].fills)
             /\ row.status # "cancelled" /\ StatusFits(row)

\* Tables are finite, so what they hold can be added up.
TablesFinite ==
    /\ DOMAIN orders \subseteq 1 .. MaxSequence
    /\ IsFiniteSet(fills)
    /\ \A i \in Instruments : IsFiniteSet(tick[i].fills)

\* What the tables hold, and what each transaction is about to change.
LedgerInv == BookInv /\ TablesFinite /\ RowsFit /\ CancelBalanced /\ TickBalanced

\* Where an order of the size R[s] begins and ends when its side is laid end to
\* end, and what two orders of the two sides overlap in.
StartsAt(R, ahead, s) == SumFunctionOnSet(R, ahead[s])
EndsAt(R, ahead, s) == StartsAt(R, ahead, s) + R[s]
FirstEnd(R, ahead, b, s) == Smaller(EndsAt(R, ahead, b), EndsAt(R, ahead, s))
LastStart(R, ahead, b, s) ==
    IF StartsAt(R, ahead, b) < StartsAt(R, ahead, s) THEN StartsAt(R, ahead, s)
                                                     ELSE StartsAt(R, ahead, b)
Common(R, ahead, b, s) == FirstEnd(R, ahead, b, s) - LastStart(R, ahead, b, s)

\* Of the buys and the sells of a book, of sizes R, x has been filled by the
\* trades: both sides equally far, at most one order half way, and exactly the
\* overlaps up to the point that both have reached.
Laid(buys, sells, ahead, R, x, trades) ==
    /\ SumFunctionOnSet(x, buys) = SumFunctionOnSet(x, sells)
    /\ \A b \in buys, s \in sells : x[b] \in {0, R[b]} \/ x[s] \in {0, R[s]}
    /\ \A f \in trades :
         /\ f.taker \in buys /\ f.maker \in sells
         /\ f.quantity = Common(R, ahead, f.taker, f.maker) /\ f.quantity > 0
    /\ \A b \in buys, s \in sells :
         Common(R, ahead, b, s) > 0 /\ FirstEnd(R, ahead, b, s) <= SumFunctionOnSet(x, buys)
            => \E f \in trades : f.taker = b /\ f.maker = s

\* The two sides of a tick's book, what is ahead of an order on its side, what an
\* order was locked with and what the tick has taken from it.
SideOf(t, side) == {s \in t.locked : t.book[s].side = side}
AheadIn(t) ==
    [s \in t.locked |-> {p \in t.locked : /\ t.book[p].side = t.book[s].side /\ p # s
                                          /\ PriceTime(t.book[p], t.book[s])}]
Taken(t) == [s \in t.locked |-> FilledIn(s, t.fills)]
LockedWith(t) == [s \in t.locked |-> t.book[s].remaining + FilledIn(s, t.fills)]

\* The fills of a tick so far are the overlaps of the orders that it holds.
FilledByOverlap(t) ==
    Laid(SideOf(t, "buy"), SideOf(t, "sell"), AheadIn(t), LockedWith(t), Taken(t), t.fills)

MatchInv == \A i \in Instruments : FilledByOverlap(tick[i])

\* The inductive invariant behind the theorems: the sums, and how far the fills
\* of each tick have got.
IInv == LedgerInv /\ MatchInv
=============================================================================
