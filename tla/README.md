# Formal model of the dummy exchange

TLA+ modules for the exchange in `crates/`, model-checked with TLC on small
instances and proved with TLAPS for all values of their constants. This file
says what the system consists of, which part each module models, what the runs
and the proofs show, and what is left.

## The system

| Component | State it keeps | Operations |
| --- | --- | --- |
| `exchange_domain` | none | `validate`, `crosses`, `price_time`, `match_taker`, `execution_price`, `balance_amount` |
| `exchange_trading` | tables `accounts`, `orders` (PostgreSQL) | `place_order`, `cancel_order`, `cancel_all_orders` |
| worker, matching | `orders`, `accounts`, `fills`; an in-memory book per tick | `tick_instrument`, `apply_fill` |
| worker, commands | consumer offset of a Kafka partition | `run`, `apply`, `supervise` |
| market generator (simulator) | `market_state`, the system's orders, a session lock | `tick`, withdrawal of stale quotes, start |
| autonomous traders (simulator) | `simulated_traders`, a session lock | `session`, `bootstrap`, `tick` |
| Kafka publisher (config) | a command being retried | `Publisher::send` |
| API | `users`, opening balances; request buckets and hashing permits in memory | register, login, orders, queries; `admit`, `password_hash` |
| frontend | the page's signals: selection, session token, last answers | polling, sign-in, order form, cancel-all, paging |

Everything meets in PostgreSQL. Users (through the API) and traders (through
Kafka, or directly) call `exchange_trading`; each call is one transaction under
an advisory lock of the user. Every worker ticks every 100 ms over the
instruments; a tick is one transaction under an advisory lock of the instrument.
The generator replaces the system's quotes once a second in one transaction for
all instruments. The three kinds of transaction take row locks on the same
orders and update the same account rows, at isolation READ COMMITTED.

What is hard:

- `SELECT ... FOR UPDATE` computes its rows from the snapshot of the statement
  and then waits; by the time a row is granted it may have been filled,
  cancelled or replaced.
- One order can be wanted by a tick, a cancellation and the generator.
- A tick keeps a book in memory and the database's version of the same rows; a
  fill that the `ON CONFLICT` clause skips would make them differ.
- Reservations, releases and costs are rounded separately, over any number of
  partial fills.
- Any transaction may fail between two of its statements.
- Nothing but the loop makes a lost tick happen again.
- Transactions wait for each other's rows, and PostgreSQL aborts one of a circle.
- A process acts on a lock, a session, a token or a price that has gone since it
  looked: pods of a trader, generators, requests that have timed out, an open
  page.

Per component, correct means:

- **Money.** What an account holds is its opening balance plus its fills; what
  is reserved is what the open orders still need, to the last rounding.
- **Orders.** `remaining` and `status` agree with the recorded fills; a closed
  order is final.
- **Matching.** Fills respect both limits, price-time priority, and leave no
  crossing pair behind; two orders trade once.
- **Transactions.** What a transaction has locked nobody else changes; a
  failure leaves no trace.
- **Calls.** What a call answers is true, a retry does not order twice, a user's
  call is not the victim of a deadlock.
- **Ownership.** A trader or a market has one writer, or it does not matter.
- **Accounts.** A token is for who knows the password; hashing and requests are
  bounded.
- **Page.** What is shown belongs to what is selected.
- **Progress.** Orders that cross meet, commands are processed, old orders and
  stale quotes go, requests are answered, the page settles.

The hazards, each at its line, are in `PROJECT.json`.

## Modules

| Module | Models |
| --- | --- |
| `Rounding` | the two roundings of a quotient that the code uses |
| `Amounts` | decimal amounts: `balance_amount`, the 5% cap of market buys, the market maker's prices and sizes |
| `Matching` | `crosses`, `price_time`, `execution_price` |
| `Exchange` | the tables and the transactions of `exchange_trading`, the worker and the generator; the properties |
| `LockOrder` | the order in which all transactions lock rows, and who waits for whom |
| `LockOrderProofs` | its proofs |
| `MCExchange`, `MCBook` | instances and scenarios of `Exchange` and `LockOrder` for TLC |
| `ExchangeProofs` | proofs about `Exchange`: the invariants of the book and of the money, and what follows from them |
| `AtomicOrders` | placing and closing an order as single steps |
| `Placement` | `place_order` statement by statement; implements `AtomicOrders` |
| `PlacementProofs` | its proofs |
| `Commands` | the traders' commands through Kafka: publishers, partitions, consumer group, the workers' consumers |
| `CommandLog` | what that path promises, without saying how; `Commands` implements it |
| `MCCommands`, `CommandsProofs` | its instances; its inductive invariant, safety theorems, and `Spec => Promise` |
| `Sessions` | the pods of one trader: session lock, opening of the account, expiry, placing and publishing |
| `MCSessions`, `SessionsProofs` | its instances and its proofs |
| `Generator` | where prices come from: market generators, their lock session, the feed, and accounts opened meanwhile |
| `MCGenerator`, `GeneratorProofs` | its instances and its proofs |
| `PriceFeed` | the live feed in time: requests, timeouts, ages of trades and prices |
| `Accounts` | registration, login and the threads that hash passwords |
| `Admission` | the request windows of one API instance |
| `MCApi`, `ApiProofs` | instances of `Accounts`, `Admission` and `Placement`; proofs about the first two |
| `Browser` | the page: its polling loop, the clicks and their answers |
| `Sizing` | how much an order is for, from the page's shortcuts and the traders |
| `Leaderboard` | the ranking, read page by page |
| `MCPage`, `PageProofs` | instances of `Browser`, `Sizing`, `Leaderboard` and `PriceFeed`, and proofs about them |

`Exchange` uses `Amounts` and `Matching`; `Amounts` and `Generator` use
`Rounding`; `Sizing` uses `Amounts`; `Commands` instantiates `CommandLog` and
`Placement` `AtomicOrders`. The components meet in the tables: `Commands`
reduces the database to one row per order and one unit of funds per order, with
`Settle` for a fill, and takes from `Exchange` that a placement or cancellation
is one transaction; `Exchange` takes from `Generator` that ticks of the
generator are atomic and may come with any price, and from `Placement` that
`place_order` may be one step: a placement of `Placement` is a step of
`AtomicOrders` at its commit, with the funds, the limit and the client_order_id
as they are then. Freshness is the exception: `place_order` tests it
(`crates/trading/src/lib.rs:63`) with `now()`, which PostgreSQL fixes when the
transaction begins (`:25`), before the request waits for the user's lock and the
account's row. A request that began in time is accepted however late it gets
there; `Exchange.PlaceOrder` tests `fresh` in its single step, and
`LateOrdersHadBegun` says what that leaves out. `LockOrder` shows when a call
may be the victim of a deadlock, and proves that otherwise only loops are.

### Exchange: state

| Variable | Code |
| --- | --- |
| `accounts[u][c]` | row of `accounts`: `available`, `reserved`, in units of `1/Scale` |
| `orders[s]` | row of `orders`, by `sequence`; `client` is `client_order_id`, `user = MarketMaker` is `is_system` |
| `fills` | rows of `fills`; the record's fields include the table's unique key |
| `market[i]` | row of `market_state`: `reference_price`, and `fresh` for the 30-second test on `updated_at` |
| `cancel[u]` | the open transaction of `cancel_orders`: rows it holds, orders still to do, its uncommitted versions (`rows`) and account changes (`delta`) |
| `tick[i]` | the open transaction of `tick_instrument`: the snapshot (`seen`), rows held, the unserved buys, the book in memory, the reference price read, uncommitted `rows`, `delta` and `fills` |
| `aborts` | failures so far, to bound them |

The advisory locks are in the guards: `tick[i]` and `cancel[u]` each hold one
transaction at a time, and `PlaceOrder(u)` and `CancelBegin(u)` need
`cancel[u]` idle.

### Exchange: actions

| Action | Code |
| --- | --- |
| `PlaceOrder` | `place_order`, one step: validation, lookup of the client ID, count, freshness, price, reservation, insert |
| `CancelBegin`, `CancelOne`, `CancelCommit`, `CancelAbort` | `cancel_orders`: locks granted, one iteration of the loop, commit, any error or crash |
| `TickBegin`, `TickLock` | the snapshot of `SELECT ... FOR UPDATE`; the moment its last lock is granted, the reference is read and the book built |
| `TickFill` | one iteration of `match_taker` that yields a fill, its `INSERT`, and `apply_fill` |
| `TickNextBuy` | `match_taker` returns, next buy |
| `TickCommit`, `TickAbort` | commit; any error, a non-positive price, a deadlock abort or a crash |
| `GeneratorTick` | the generator's transaction: prices, withdrawal of the old quotes, four new ones per instrument |
| `FeedStale` | 30 seconds without an update, or the start in live mode, which makes every market stale |
| `CancelStaleQuotes` | withdrawal of the quotes of stale markets, after a failed tick and at the start in live mode |

`match_taker` finishes a buy's fills before the first of them is inserted. The
model interleaves the two, which nothing can observe: both touch only memory and
rows the tick holds until it commits.

A relative `UPDATE accounts SET available = available + x` of a transaction is
kept in `delta` and added when it commits. PostgreSQL holds the account row's
lock until then and evaluates the expression on the committed row, so the two
agree for transactions that only add; `place_order`, the one that also tests
the balance, is a single step.

Sequence numbers come from a `bigserial`, drawn before commit: rows of different
users become visible in any order, rows of one user in order, and numbers may be
lost. `NextSequence` allows exactly this.

### Commands: state and actions

| Variable | Code |
| --- | --- |
| `generation` | which account `simulated_traders` gives a trader; a bot reset changes it |
| `drawn` | the random UUIDs used as `client_order_id` so far |
| `sending`, `delayed` | the command `Publisher::send` is retrying; attempts reported as failed that Kafka may still append |
| `log`, `owner`, `position`, `committed` | Kafka: partitions, their assignment in the group, what the owner has received, the committed offset |
| `handling` | the local state of a worker's `run`: no consumer, polling, or one message and whether `apply` has returned |
| `orders`, `funds` | one row per order, one unit of funds per order |
| `fresh` | the price of `place_order` is fresh |
| `done` | history: offsets for which `apply` has returned `Ok` |

| Action | Code |
| --- | --- |
| `Send`, `Delivered`, `SendFails`, `Arrives`, `TraderStops` | a trader's `tick` publishes; `send` loops until an attempt succeeds (`config/kafka.rs:64-91`); an attempt that is reported as failed may be in the log, or get there later |
| `Start`, `WorkerFails` | `supervise` (re)starts `run` |
| `Assign`, `Revoke`, `Expel` | the consumer group: a partition starts at the committed offset, is moved, or is taken from a worker that is still busy |
| `Receive`, `Skip`, `Apply`, `Commit` | `recv`; what does not parse or is not the sender's account; `apply`; the commit of the offset |
| `AnswerLost`, `InsertFails`, `CommitUnseen` | the database commits but the answer is lost; the `INSERT` fails and is reported as an invalid order; the commit succeeds unseen |
| `Settle`, `FeedStale`, `FeedRecovers`, `ResetBots` | a matching tick; 30 seconds without a price; `scripts/reset-bots.sql` |

### Generator: state and actions

All markets move in one transaction, so they are one record. Prices are in half
cents, because half of an anchor in cents, the lower bound of generated prices,
falls on them.

| Variable | Code |
| --- | --- |
| `owner` | whose session PostgreSQL says holds the advisory lock `market-generator` |
| `pc`, `quote`, `seen` | where a process is in `run_market`, the live price it has, the rows its tick has read |
| `writer` | who has the rows of `market_state` locked |
| `market` | `market_state` with the columns `generator_*`, `price_source` and the 30-second test; `invented` says where the price really came from and is no column |
| `quotes` | the price the system's open orders were made for |
| `joining`, `baseline` | how far a trader's `bootstrap` is; `profit_baseline_source`, and whether the prices it was taken at were invented |

| Action | Code |
| --- | --- |
| `Claim`, `Launch`, `Withdraw` | `run_market` up to its loop: the lock, `price_source='coinbase'` with stale times, the quotes withdrawn |
| `Ping`, `Fetch`, `TickBegin`, `TickCommit` | one turn of the loop: the ping of the lock session, the feed, `SELECT ... FOR UPDATE`, everything to the commit |
| `TickFails`, `AfterFailure` | any error of a tick; the withdrawal of stale quotes, whose own error is ignored |
| `SessionLost`, `Exit` | the lock's connection breaks; the process ends |
| `GrowsStale` | 30 seconds pass without a tick |
| `JoinBegin`, `JoinValue`, `JoinCommit`, `JoinFails` | `bootstrap`: the freshness test, the valuation in a later statement, the end of the transaction |

The random numbers are an operator constant, `Noise(seed, step)`, any integer
from -15 to 15: that the library generates the same number for the same seed is
assumed, which number is not.

### LockOrder: state and actions

| Variable | Code |
| --- | --- |
| `open` | the open orders, as committed |
| `phase`, `held`, `wanted` | where a transaction is, the locks it has, and those its statement still has to take, in order |
| `used` | what a tick has used up of its orders |

| Action | Code |
| --- | --- |
| `TickLocks`, `TickSettles`, `TickEnds` | `SELECT ... ORDER BY sequence FOR UPDATE`, the updates of one fill (orders, then both accounts), commit |
| `GeneratorReplaces`, `GeneratorCommit` | a tick of the generator: instrument by instrument an `UPDATE` of the system's orders, in any order PostgreSQL finds them, and the new orders |
| `Withdraw`, `WithdrawCommit` | one `UPDATE` of the system's orders of several instruments, in any order |
| `CallBegin`, `ReserveFunds`, `PlaceEnds` | the user's advisory lock; `place_order`'s conditional update of an account |
| `CancelLocks`, `NotFound`, `CancelUpdates`, `CancelEnds` | `cancel_orders`: all rows by sequence, then the accounts one by one |
| `Take`, `Aborts` | PostgreSQL grants a lock; it aborts a transaction that waits in a circle |

The markets' rows and the tick's advisory lock are left out: the first are only
locked by generators (`Generator`), the second is never waited for. `InPlace`
says that the numbers of the system's open orders ascend with the instruments:
they are all of one tick, which closes those before it, holds the markets' rows
and inserts in the order of `ORDER BY instrument`
(`crates/simulator/src/main.rs:154`).

### Placement: state and actions

| Variable | Code |
| --- | --- |
| `orders`, `available` | committed rows of one user |
| `lock`, `row` | who holds the user's advisory lock and the account's row (or nobody, `Unlocked`) |
| `at`, `want`, `result` | the next statement of each request, its client_order_id, what it was answered |
| `fresh`, `stale` | whether the market's row is of the last 30 seconds now; the requests for whose `now()` it is too old |
| `late` | history: which orders were accepted since the price grew stale, and through which connection |

`Following` is the order of the statements. `Submit` is `BEGIN`, which decides how
the request will see the price's age; `TakeLock`, `Lookup`, `Count`,
`ReadPrice`, `Reserve`, `InsertOrder` and `CommitOrder` are one statement each;
`Breaks` is any error or lost connection; `TickLocksRow`, `TickCommit`, `Cancel` and
`GrowsStale` are what others do in between. A tick here only closes orders and
credits: partial fills that keep an order open change nothing place_order looks
at, and the unit by which a fill may overdraw an account is in `Exchange`.

### Sessions: state and actions

| Variable | Code |
| --- | --- |
| `kafka` | whether a publisher is configured; chosen at first, then fixed |
| `lock`, `alive`, `newest` | PostgreSQL: whose session holds the trader's advisory lock; which connections work; history |
| `pc`, `todo`, `drawn` | where a pod is in `session`, and the orders it is about to cancel or place |
| `opened`, `grants` | the trader's row; how often opening balances were given |
| `orders`, `commands`, `applied` | the trader's orders, the topic, and how much of it has taken effect |
| `late` | history: what a session wrote after another one took over |

| Action | Code |
| --- | --- |
| `Claim`, `Notices`, `ConnectionLost`, `Killed`, `Released` | `pg_try_advisory_lock`; an error on the connection ends the session; the network; Kubernetes; PostgreSQL releases the locks of a dead connection |
| `BootstrapRead`, `BootstrapCommit` | `bootstrap`: is there a row; row and balances in one transaction |
| `TickBegin`, `CancelDirectly`, `ReadMarkets`, `PlaceDirectly`, `Publish` | `tick`: up to 25 orders older than 30 seconds (`LIMIT 25`; `Batch` in the model), one cancellation, the read of the markets, the order; or its publication, repeated until the broker answers |
| `Apply`, `Age`, `Fill`, `Feed` | the workers, time, matching and prices |

### Accounts and Admission: state and actions

| Variable | Code |
| --- | --- |
| `users`, `inserting` | committed rows by email; uncommitted ones, for which the unique index makes others wait |
| `call`, `pc`, `stored`, `answer` | a request, its next step, the hash it has read, its answer |
| `free`, `threads`, `orphans` | the permits of `password_slots`, threads with a request, threads whose request is gone |
| `now`, `buckets`, `log`, `verdict` | time; the map of windows; history: admissions per key; the last refusal |

`Accounts` has the statements of `register` and `login` as actions, with
`StartThread`, `Hashed`, `Verified` and `OrphanEnds` for `spawn_blocking`,
`Timeout` for the layer that drops a request (its thread and permit stay), and
`InsertFails` for an `INSERT` whose error is answered 409 whatever it was.
`Admission` has `Request` (`protect` with `admit`: kept windows, capacity, limit)
and `Advance`.

### Browser, Sizing, Leaderboard, PriceFeed: state and actions

`Browser`: `chosen`, `shown`, `connected` and `busy` are the page's signals,
`poll` the loop's locals, `tasks` the futures that clicks have spawned; `world`
counts what happened at the exchange, so that an answer tells how old it is. One
request of a poll is one action (`Fetch`, `PollFails`); `EndPoll` shows its
copy if the selection is still the one it began with. `Authenticate`,
`CancelAll` and `Submit` spawn, `SignedIn`, `Cancelled`, `Refreshed`, `Shows`,
`Submitted` and `TaskFails` are the answers.

`Sizing`: a balance and a reference price, both as they are and as the page or the
trader has read them (`ReadBalance`, `ReadReference`), and an order that has been
sized (`Shortcut`, `TraderOrders`) and not yet placed (`Place`). Meanwhile prices
move, and so does the balance (`BalanceMoves`: fills, cancellations, other orders,
commands that were published and not yet applied). The
quotient of 28 digits that `Decimal` computes before it is cut is exact here; the
trader's quantity has no cap in the code, nor here.

`Leaderboard`: the profits, the page selected, the answer shown and, as history,
the rows seen since the ledger last moved. `Rank` is the query's `ROW_NUMBER()`:
one more than come before.

`PriceFeed`: the time, each market's price (its trade and `updated_at`), the
markets with quotes, and where the generator is: `Wake` (the ping and the list of
markets), `List`, `Provides` and `Accept` for each market, `Begin` (the
transaction's `now()`, `stamp`), `Write`; after any error (`Fail`)
`BeginWithdrawal` and `Withdraw`, whose own error is ignored (`MissWithdrawal`,
counted in `missed`). Each of these waits for at most a timeout, and time
(`Passes`) goes on only while nothing is overdue: 3 seconds for a request, 30 for
a connection of the pool (the list, the transaction and the withdrawal each need
one). For how long a statement or a transaction then takes the code has no
timeout: `WorkTime` is an assumption. The age of a trade is compared in whole
seconds, cut towards zero (`WholeSeconds`), so a trade of almost 121 seconds
passes. The clocks of the generator and of PostgreSQL are taken for one.

### Faulty variants

Operators introduced by a comment `Faulty:` are deliberate bugs (a missing lock,
a missing sort, a rounding on its own...). No action uses them. `PROJECT.json`
pairs each property of each run with one: with the faulty variant in place of
the definition that follows it, TLC finds that property violated.

## Runs

A run answers one question about a part of the system. Where modules share no
variables, one run has instances of several: `part` (or `scenario`) says which of
them moves, the others stay in an initial state, and so TLC explores each on its
own and checks every property in one pass.

| Run | Instances | Shows |
| --- | --- | --- |
| `book` | seven scenarios of `Exchange` and `LockOrder`, below | money, fills, limits, priority, locks, deadlocks |
| `progress` | 2 users, 1 order each, live feed, a generator tick, 1 abort, fairness | crossing orders meet; the inductive invariant |
| `overdraft` | 2 users, opening balance 201 | **violation**: an available balance of -1 unit |
| `commands` | 1 trader, 2 client ids and a malformed order, 2 workers, 2 partitions, 1 reset that moves the trader to the other partition, fairness | nothing is skipped, charged twice or restored after a reset; every message is committed; `CommandLog` is implemented |
| `insert` | 1 worker, 1 partition of 4 messages | **violation**: the offset of a command is committed that failed only because the database did |
| `sessions` | 2 pods with and without Kafka, batches of 2, 3 orders, 3 commands, 2 failures, fairness | who writes after losing the trader; funds once; old orders go |
| `fence` | 2 pods, 1 failure | **violation**: a pod publishes an order after another one has become the owner |
| `generators` | 1 live and 2 simulated generators with different seeds, 1 trader that joins, 2 generated prices, 2 failures, fairness | one saved sequence of prices, near its anchor, whoever ticks; stale quotes go |
| `session` | 2 simulated generators, 1 lost session | **violation**: a generator commits a tick while another one is the owner |
| `baseline` | 1 live, 1 simulated generator, 1 trader, no failure | **violation**: a baseline marked as live is taken at simulated prices |
| `api` | three parts, below; fairness in two | passwords, tokens, permits, limits; placement is atomic, answers are true and come |
| `page` | five parts, below; fairness in one | what the page shows and sizes, and how old prices are |

### Exchange and LockOrder: `book`, `progress`, `overdraft`

A unit is 1/10, prices are near 1000 (\$100), so that a cost can be half a unit.
Reference prices are 1000, whose cap of 1050 is a whole number of units, and
995, whose cap of 1044.75 is not: a market buy of 1 reserves 104 units (of
104.475), but the row keeps the cap as 1045, for which it would be 105.
`MaxSequence` bounds the orders ever made, `MaxAborts` the failed transactions.
The scenarios of `book`:

| Scenario | Instance |
| --- | --- |
| `book` | 2 users, 1 instrument, 3 orders of 4 kinds (limits of both sides at two prices, quantities 1 and 2) and two invalid requests, cancellations, no failures |
| `failures` | the same with 2 orders and 1 abort |
| `quotes` | 1 user with one open order at a time, the generator on a live feed with two prices: its replacements and withdrawals meet what a tick holds, and sells at market rest at their sentinel price |
| `pair` | 2 instruments with a common quote currency, 4 orders, 1 abort, nobody cancels; one user buys, the other sells: two ticks update the same dollar rows |
| `ticks` | `LockOrder`: two ticks that settle on the same two users' accounts in opposite order, one user who places and cancels |
| `calls` | `LockOrder`: two users who place and cancel while their orders are matched |
| `system` | `LockOrder`: ticks of two instruments and the generator meet on the system's orders, with a user who cancels all orders |

Three orders are enough for a partial fill on either side, two makers at
different prices or of different age, and a cancellation between them; two ticks
that fill at the same time need four, which is why `pair` leaves cancellations
out. A balance of 310 units lets one order be refused for lack of funds while
another is open. Users (where they start alike) and client ids are symmetric;
symmetry is not used for the liveness run. In `quotes` and `pair` sequence
numbers are drawn in the order of the commits; `book` has all orders.

**Properties.** `ReservationsExact`, `FillsExplainBalances` and `OverdraftIsDust`
are about money. `ReservationsExact` counts what `place_order` has rounded: the
cost it reserves is of the unrounded cap (`crates/trading/src/lib.rs:72-90`), what
fills and cancellations release is of the cap in the column. `charged`, a history
field of an order, is what placement reserved; `Surplus` is the difference to what
the stored row says, and once reserved it stays (`Dust`). It is nothing for all
but market buys, and for those less than half a unit per coin and one unit more
(`ChargedAsStored`). At prices of at most 8 decimals a cap is a
whole number of column units and there is no dust; the code takes any positive
price (`crates/simulator/src/prices.rs:14`). At other prices a completed market
buy leaves `reserved` off by its dust, above or below zero, where
`scripts/verify-exchange.py` asserts that completed orders release every reserved
decimal; that test runs at prices of few decimals, and migration 0007 reconciles
reserved balances once, so this is described here and not listed as a finding.
The others: `OrdersMatchFills`, `ClosedStaysClosed` about orders;
`FillsWithinLimits`, `PairFilledOnce`, `PriceTimePriority` about matching;
`FillsAreOverlaps` compares what a tick's loop has filled with a definition of a
book's fills that has no loop: every order occupies an interval of the
cumulated quantity on its side, and two orders trade the overlap of theirs.
`LockedRowsUnchanged` is about transactions, `CallsAreNoVictims` about
deadlocks, `CrossingOrdersMeet` about progress. `IInv`, the inductive invariant with
the type invariant, is checked in `progress`: users, worker and generator meet
there with cancellations and a failure.

Circles do occur in `ticks` and `system`: two ticks that settle in opposite
order, a tick and the generator. They consist of loops, which try again, with
one exception that `CallsAreNoVictims` names. At its start in live mode and after
a failed tick the generator withdraws quotes of several markets with one `UPDATE`
(`crates/simulator/src/main.rs:83`, `:96`), which locks rows in no order of
theirs. It may have the quote of one market and wait for that of another, which a
tick has; this tick waits for an order of a user; a cancel-all of the user has
that one, and waits for another order of the user, which the tick of the first
market has, that waits for the generator's quote. In `system` TLC reaches this
circle, and PostgreSQL may choose the user's call as its victim: it is answered
with an error and changes nothing. No document of the repository says otherwise.
In all other cases a call is in no circle. `scripts/reset-bots.sql`, which locks whole
tables, is not among the transactions: an operator runs it once, with workers and
traders stopped. No liveness is checked of `LockOrder`:
which waiter PostgreSQL serves first is not the code's.

**Fairness** (`progress`): weak fairness of the worker's step on each instrument,
because every worker loops for ever (`crates/worker/src/main.rs:33`) and a
transaction that can go on does; weak fairness of an open cancellation. Users
and the generator owe nothing, and failures are never required. The liveness
property needs failures to be finitely many, which `MaxAborts` provides; a
system in which every tick fails makes no progress, in the model as in the code.

**Finding: available balances can be negative.** `docs/operations.md:33` sets
the target "No negative available or reserved balances" and
`scripts/verify-exchange.py:184` asserts it. `apply_fill` releases a difference
of rounded reservations and spends a rounded cost, so a partial fill may cost
one unit more than it releases, and the `UPDATE` has no floor. `OverdraftIsDust`
shows that this is all: never more than one unit (10^-10) per fill bought.

### Commands: `commands`, `insert`

`MaxLog` bounds the messages of a partition, `MaxFailures` everything that goes
wrong (failed sends, garbage, rebalances, failures of workers and the database,
stale periods), `MaxResets` bot resets; `Budget` bounds them together: the longer
a log and the more orders, the fewer the failures. A repeated send and a
rebalance in the middle of its second application are within it, and so are two
orders with funds for one: a placement that is refused at first and would be
accepted later. Deadlock is not checked: a trader that has used its client ids,
or a log that is full, leaves the system with nothing to do.

`NothingSkipped` is about offsets, `ChargedOnce` about the balance,
`DeletedForGood` about resets, `Promise` about all of it: commands of a
partition are decided in order, an order is placed and closed at most once.
`EventuallyCommitted`: every message is, also behind garbage and malformed
orders.

**Fairness**: `supervise` restarts a consumer for ever, a group assigns every
partition to some consumer that polls, a consumer takes, applies and commits
what there is, and a stale feed recovers. Traders, failures and rebalances are
not required; failures are finitely many.

**Finding: a database failure loses a command.** `place_order` reports every
error of its `INSERT` as `Invalid` (`crates/trading/src/lib.rs:143`), which the
consumer takes for a final answer: it commits the offset.
`docs/keda-scaling.md:33` says that temporary database errors restart at the
last committed offset.

### Sessions: `sessions`, `fence`

Two failures let a pod lose its connection, the next one take over, and that one
be killed or lose its own. `LateWritesAreFew`: without Kafka a superseded session
writes nothing; with Kafka, where a publication does not touch the connection, it
publishes at most one more order (and the cancellations of the batch it has
read), because it reads the markets before the next.
`FundedOnce`: opening balances are
given when the trader's row is written, whenever pods die. Deadlock is not
checked: a trader whose orders are all drawn and closed has nothing to do.

**Fairness** (`OldOrdersGo`, without Kafka): a pod's loop goes on and PostgreSQL
ends dead sessions. Prices need not come back, orders need not be filled.

**Finding: a pod that has lost the trader still publishes.** "Losing that
connection stops all its writes" (`crates/simulator/src/trader.rs:1-2`, and in other
words `docs/autonomous-traders.md:5`). `WritesStop` states it, and `fence` shows
an order that a pod publishes after its connection has broken, PostgreSQL has
released the lock, and another pod has claimed the trader: `Publisher::send` needs
no connection to the database. `LateWritesAreFew` is what is left of it.

### Generator: `generators`, `session`, `baseline`

`MaxSteps` bounds the generated prices and `MaxFailures` lost sessions, failed
ticks and exits. Live prices are $100 and $300, the price before the first tick
is $100: the band of generated prices around the anchor is left and must be
found again. Three generators make it possible that one that has lost its
session, the next owner and one in live mode are all between a ping and a
commit; two steps show a repeated or lost one. Deadlock is not checked: a
simulated generator stops at `MaxSteps`, and `StaleQuotesGo` is stated up to
there.

**Fairness**: a process that ends is started again (Kubernetes), one that runs
takes its next step. The feed answers or fails as it likes, for ever: a fair
`Fetch` may always fail.

**Finding: two generators can tick at once.** The comment at
`crates/simulator/src/main.rs:54` says that losing the session stops writes. The
session is pinged before a tick (line 86) and the tick writes through other
connections. `SequenceContinues` shows that the row locks keep the prices right
all the same; a market moves twice in a second.

**Finding: invented prices in a live baseline.** A trader's `bootstrap` tests
the freshness of prices in one statement and takes prices and their source in a
later one. A live generator that starts in between has changed the source, but
not yet the price; the baseline is never reset, and the difference appears as
profit, which `docs/autonomous-traders.md:39-41` rules out.

### Accounts, Admission and Placement: `api`

| Part | Instance |
| --- | --- |
| `accounts` | 2 requests for one email with 2 passwords and 2 permits; fairness |
| `admission` | 3 keys (two groups, two addresses) of which 2 fit, windows of 2 instants, 4 instants |
| `orders` | 2 requests, 2 client ids of cost 1 and 2, funds 2, limit 1; fairness |

`PasswordsStay` and `TokensAreEarned` are action properties of the stored hash
and of the answers; `HashingIsBounded` counts threads, those of abandoned
requests included, and `PermitsReturn` says that their permits come back.
`InAnyMinute`: no minute, wherever it starts, has more than 2 * limit - 1
admissions of a key; the windows are fixed, so twice the limit is the price at a
boundary. `NoEarlyRefusal`: who is refused for the limit has used it up within
the last window, and a client without a window is refused only while the map is
full of windows of others that last. Both get the same 429 with `Retry-After:
60`, so a client may be told to wait that has sent nothing, and after the wait
others may have filled the map again. Both properties are per API instance and
forgotten by a restart. Four instants are two windows of two.

Registration answers 409 for any error of its `INSERT`, so a conflict may also
be a database that has failed (`crates/api/src/main.rs:203`).

In `orders` two requests race with the same id, with different ids for the only
place under the limit, and with a tick for the last of the funds; one of them may
be a retry. `Atomic` is the refinement of `AtomicOrders`; `AnswersAreTrue` relates
each answer to the tables at that step. `LateOrdersHadBegun`: while a price is
stale each connection gets at most one order accepted, the one it had begun
before, since the next `BEGIN` has a later `now()`; two connections show that all
who queue for the lock may be late, not just one.

**Fairness**: a thread that hashes ends (`PermitsReturn`). A request that can
execute its next statement does, and a tick commits (`Answered`); waiting for the
advisory lock or the row is strongly fair, because PostgreSQL queues waiters and
serves them in turn.

### Browser, Sizing, Leaderboard, PriceFeed: `page`

| Part | Instance |
| --- | --- |
| `browser` | 2 users with a token each that may expire, 2 markets, 2 pages, 3 clicks |
| `resting` | the same with 2 clicks, 1 change at the exchange, 1 failing request, tokens that last, and fairness |
| `sizing` | 7 balances of up to 20 units, reference prices of 1, 3 and 8, 4 limits, a scale of 8 with lots of 2 |
| `board` | 4 accounts and the system's, any of which may be missing, profits with ties and null, pages of 2, 1 change |
| `feed` | 2 markets; a second is 2, the oldest age 1 second, freshness 2, a request, the pool and the work 1 each, the period 2, until the time 14 |

Three clicks are a sign-in, a cancel-all and a sign-out that overtakes its
answer. `ShownIsChosen` is about what is shown, `PageSettles` says that the page
comes to show all there is when it is left alone. An expired token is left out of
`PageSettles`: then each poll fails at its first private request
(`crates/frontend/src/browser.rs:117`) and the public data are not shown either,
until the user signs out.

`SizedExactly`: an order sized by a shortcut or a trader is refused for want of
funds only if the balance has fallen since it was read, or the price of a market
buy has risen; and "All" of the balance that was read leaves less than one lot.
`EveryoneOnce`: who reads a ranking from its first page to its last, while
nothing moves, sees everyone once.

`PriceIsRecent`: a price that counts as fresh when the transaction of an order
begins stems from a trade younger than the accepted age, the requests for the
other markets, the wait for a connection and the freshness together (in the code
121 + 6 + 30 + 30 seconds). What `place_order` then waits for locks is on top of
it. `StaleQuotesGo`: quotes of a price that is not refreshed for 30 seconds go
within one round of the loop, which may wait for three connections, and one more
for each withdrawal in a row that fails, as `docs/autonomous-traders.md:30` says
in general, while the generator runs; that it may crash is in `Generator`. The
horizon is longer than the freshness and a round of the slowest steps. In `feed`
the answers' trades are as old as is still accepted or one instant older, so
that the bound is reached and refusals happen.

**Fairness** (`resting`): the browser runs its futures, and every request is
answered or fails, since the API gives up after ten seconds.

## Proofs

### Exchange

`ExchangeProofs` proves who may trade with whom, and then the sums. All
theorems hold for any users, currencies, instruments,
requests, prices and bounds that satisfy the assumptions:

- `ExchangeAssumption`: distinct base and quote currency, positive reference
  prices, the market maker is nobody's user; `ScaleAssumption`: positive
  constants.
- Nothing is assumed of reference prices but that they are positive: `CapRounding`
  says by how much a cost at the unrounded cap and one at the column's differ.

| Theorem | States |
| --- | --- |
| `TypeCorrect` | `TypeOK`: `GREATEST`, the minimum of two remainders and the roundings keep quantities and prices natural |
| `BookInvariance` | `BookInv`, the inductive invariant of the book |
| `WithinLimits` | `FillsWithinLimits` |
| `OnePairOneFill` | `PairFilledOnce` |
| `NoQueueJumping` | `PriceTimePriority` |
| `NothingCrosses` | `BookUncrossed` |
| `ClosedIsFinal` | `ClosedStaysClosed` |
| `LedgerInvariance` | `Ledger`, the inductive invariant of the money |
| `MatchInvariance` | `MatchInv`, how far the fills of a tick have got; inductive with `Ledger` |
| `Invariance` | `IInv`: both, as `progress` checks them |
| `ReservedToTheUnit` | `ReservationsExact` |
| `MoneyIsConserved` | `FillsExplainBalances` |
| `OrdersAgreeWithFills` | `OrdersMatchFills` |
| `OverdraftBounded` | `OverdraftIsDust` |
| `LockedRowsStay` | `LockedRowsUnchanged` |
| `FillsOverlap` | `FillsAreOverlaps` |

None of the properties is inductive alone. `BookInv` adds

- `LocksHold`: rows held by a transaction are open, have the same terms in its
  version and in the table, belong to it alone, and a tick's book agrees with
  its version of the rows. Without it a commit could reopen an order.
- `SentinelPrice`: market sells carry the price 0. Without it a fill of two
  market orders might be below the sell's "limit".
- `FillsSound`: a fill has used up one of its two orders. This is why a pair
  cannot trade twice: the matcher needs both to have something left, a tick's
  version never has more left than the table, and a closed order stays closed.
  Pairs of different ticks differ because their instruments do.
- `BuysServed`: a buy that the tick is done with has nothing left, or nothing
  left to cross. With it, an earlier better buy cannot have been passed over
  (`PriceTimePriority`), and the end of the list means `BookUncrossed`. That the
  matcher may stop at the first sell that does not cross rests on
  `FirstMaker`: a first sell exists, by a well-founded argument on finite sets
  of numbers (`LeastNat`), and all others are no cheaper.

`LedgerInv` is `BookInv` and what an open transaction is about to do:

- `RowsFit`: the versions of a cancellation differ from the table in the status
  only; those of a tick have lost what the tick's own fills took from them, and
  their status says how much is left.
- `CancelBalanced`: the balances a cancellation will post are the difference its
  rows make to the reservations, and move from reserved to available.
- `TickBalanced`: the same for a tick, whose balances together are also what its
  fills say, and are short by at most a unit per buy.
- `TablesFinite`, so that there are sums to speak of.

A reservation that placement charged otherwise than the stored row says leaves its
dust in `reserved` for ever: `Dust` is a sum over all orders, open or not, that
only a placement changes (`DustGrown`, `DustKept`), and `ChargesKept` says that no
step touches what an order was charged.

`Ledger` is `LedgerInv` with the properties themselves. A commit preserves them
because a sum over the table changes by the sum of the changes of the rows
written (`Change`), and two transactions never hold the same row. A fill
preserves `TickBalanced` because a reservation is a difference of two roundings
of the same product: what is released and what stays add up, and two parts round
to at most a unit more than the whole (`OverdraftIsDust`). A system order may be
of size 0, since nothing keeps its rounded quantity from it; it is never
matched, and `StatusFits` says what its status can be.

Sums are written with the folds of the community modules, which take an operator
and so have no induction theorem here. `ExchangeProofs` proves the few laws
it needs by induction over the finite set of indices (the empty sum, one more
index, one changed value, equal values, sums of differences).

Each lemma `...Next` has one step per action or group of actions;
`OrdersKeptNext` (no step changes the terms of an order, gives it more to fill
or touches a closed one) is used by most of them.

`FillsAreOverlaps` speaks of the buys that are served; its invariant `MatchInv`
speaks of any point of a tick's loop. Lay the orders of each side end to end in
price-time order. Then (`Laid`)

- both sides have been filled up to the same point;
- of a buy and a sell at most one is half way;
- each fill is the overlap of its two orders, and not empty;
- each overlap that ends at the point or before it has been filled.

A step of `match_taker` fills two orders of which something is left and with
nothing left ahead of them (`FirstInPriority`), so the point lies in both
(`NextInLine`). One of them is untouched, so that the point is where their
overlap begins and the fill takes it to where the overlap ends (`NextOverlap`).
No other overlap ends on the way (`NoOtherOverlap`), since the orders of one
side follow each other without overlapping (`LineOrder`). Once a buy is served,
it or any sell it crosses is used up (`BuysServed`), so the point has passed
their overlap (`OverlapTraded`). These lemmas are about any two lines of orders;
`SidesAreLines` and `TakenInLine` show that `price_time` makes lines of a book's
sides, and that a tick takes from them in line. What an order was locked with is
written as what is left of it and what the tick's fills took, so that no step
outside the tick can disturb `MatchInv`; that it is what the table says is
`LockedRowsUnchanged`.

Only model-checked: `CrossingOrdersMeet` (liveness). `BookUncrossed` is proved and
left out of the runs: `FillsAreOverlaps` says more of a finished tick.

### LockOrder

`LockOrderProofs` proves, for any users, instruments, orders and calls that
satisfy `LockAssumption` (finitely many calls, instruments and orders; distinct
names; the system's orders that are open at first ascend with the instruments):

| Theorem | States |
| --- | --- |
| `LockInvariance` | `LockInv`: what each transaction has and still asks for, by its phase |
| `CallsAreSafe` | `CallsAreNoVictims` |

`LockInv` says that a lock has one holder; that ticks and cancellations take order
rows by ascending numbers (`Climbs`) and all of them before an account; that a
placement has but its user's lock when it asks for an account; that a
cancellation that asks for accounts has all open orders of its user, or one order
and one account to ask for. The theorem then takes a circle (`Circle`). Nobody in
it waits for a user's lock, for who asks for that has nothing. Who waits for an
account waits for somebody who waits for an account; since waiting maps a finite
circle onto itself (`CycleBack`), nobody else waits for these. No call is among
them (`NoCallOnAccounts`): its own accounts are wanted by another only when it
has all orders of its user, and then no tick can have settled on the account it
waits for. The others wait for order rows, each for a smaller number than the one
it waits for does (`ClimbOrMeet`), except that a tick and the generator may wait
for each other within one instrument, which is a circle of its own. Numbers
cannot ascend for ever (`NoClimb`), so there are no others.

### Commands

`CommandsProofs` proves, for any traders, workers, partitions, failures and
resets that satisfy `CommandsAssumption` (finitely many client ids, keys mapped
to partitions, special values distinct from real ones):

| Theorem | States |
| --- | --- |
| `Invariance`, `TypeCorrect` | `Spec => []IInv`, `Spec => []TypeOK` |
| `NothingIsSkipped`, `ChargesAreOnce` | `NothingSkipped`, `ChargedOnce` |
| `DeletedNeverReturns` | `DeletedForGood` |
| `Implements` | `Spec => Promise`: every step is one of `CommandLog` or changes nothing it sees |

`NothingSkipped` is not inductive: `InOrder`, `DeliveryInOrder` and
`PositionInOrder` say where every worker and every owner is relative to what is
done, also workers the group has given up on. `ChargedOnce` rests on counting
the orders an account holds (one placement adds one element, one cancellation
removes one) and on `OldAccountsDead`. `DeletedForGood` and the refinement need
to know that a placement never finds the id of another account's row
(`OneAccount`) and that a deleted row belongs to an account its trader no longer
has (`RowsOfTheirTime`), so that `Owns` stops the old command.

Only model-checked: `EventuallyCommitted` (liveness).

### Generator

`GeneratorProofs` proves `Invariance`, `TypeCorrect`, `PricesStayNear` and
`SequenceIsOne` for any generators, modes, seeds, random numbers and live prices
that satisfy `GeneratorAssumption` (prices in whole cents, random numbers of at
most 0.15%). `NextPriceIsNear` is the arithmetic of the bounds. The invariant
adds `TickHasLock`, what a tick has read is what the market still is and a live
tick has its price, and `AnchorInCents`, which makes half an anchor exact.
Ownership by the advisory lock appears nowhere in these proofs: they hold for
any number of generators between ping and commit.

Only model-checked: `StaleQuotesGo` (liveness).

### Placement

`PlacementProofs` proves, for any connections, client ids, costs, limit and funds
that satisfy `PlacementAssumption`:

| Theorem | States |
| --- | --- |
| `Invariance` | `PlacementSpec => []PlacementInv` |
| `LimitHolds` | `OpenWithinLimit`: concurrent requests never exceed the limit |
| `RetriesAreKnown` | `InsertIsNew`: whoever gets to the `INSERT` has a new client id |
| `LateOrdersAreFew`, `AnswersHold` | `LateOrdersHadBegun`, `AnswersAreTrue` |
| `Implements` | `PlacementSpec => Atomic` |

The invariant says that what a request has read under the user's lock stays true
until it commits: only placements add orders, only the lock's holder places, and
ticks and cancellations can but close orders and credit. `LateInv` adds that a
connection with a late order has not begun another one or has begun it too late,
and that who began too late never gets past `ReadPrice`. The step that
implements `AtomicOrders!Place` is the commit.

### Sessions

`SessionsProofs` proves `Invariance`, `FewLateWrites` (`LateWritesAreFew`) and
`FundsAreGivenOnce`, for any pods, batches, orders and failures. The invariant
adds `OnlyOwnerConnected`, whoever still has a connection is the newest owner,
and `LateIsOne`, a pod that has placed late has no connection and nothing else to
place: with it, the second late order is impossible rather than counted.

### Accounts and Admission

`ApiProofs` proves of `Accounts` `Invariance`, `FewThreads` (`HashingIsBounded`),
`HashesChangeOnce` (`PasswordsStay`) and `TokensEarned` (`TokensAreEarned`) for
any requests, emails, passwords and permits: `free`, threads and orphans add up
to the permits; an uncommitted row has its registration; a hash that a login has
read is still the stored one, or one of the old scheme that has been upgraded.

Of `Admission` it proves `AdmissionInvariance`, `MinuteIsBounded` (`InAnyMinute`),
`RefusalsAreEarned` (`NoEarlyRefusal`) and `StorageIsBounded` (`FullWithOthers`)
for any groups, addresses, limits, window and capacity: a kept bucket counts the
latest admissions of its key and starts with the first of them, and what is not
kept is older than a window.

Only model-checked: `PermitsReturn`, `OldOrdersGo`, `Answered` (liveness).

### Browser, Sizing, Leaderboard, PriceFeed

`PageProofs` proves, for any markets, tokens, amounts, times, sizes of a page and
numbers of clicks, failures and changes that satisfy `BrowserAssumption`,
`SizingAssumption` (percentages to 100, fractions to 10000 of a balance),
`BoardAssumption` (finitely many accounts, profits that compare) and
`FeedAssumption` (at least one market):

| Theorem | States |
| --- | --- |
| `PageInvariance`, `ShowsTheChosen` | `PageInv` and `ShownIsChosen` |
| `SizingInvariance`, `SizesAreExact` | `SizingInv` and `SizedExactly` |
| `BoardInvariance`, `EveryoneIsRanked` | `BoardInv` and `EveryoneOnce` |
| `FeedInvariance`, `PricesAreRecent`, `StaleQuotesVanish` | `FeedInv`, `PriceIsRecent` and `StaleQuotesGo` |

- `ShownIsChosen` is not inductive: a poll or a task shows later what it was
  answered before. `PageInv` adds that what a poll has collected is about the
  selection it began with (`PollInv`), and that what a task has been told is about
  the token it began with (`TaskInv`); the comparison before the copy does the
  rest.
- `SizedExactly` is arithmetic: `SizingInv` says that the balance as it was read
  pays for the order in units of product (`Affordable`), before any rounding, and
  reading and moving leave it so: what is read while an order is under way is for
  the next one. `CutPays` is the
  law of the cut to whole lots: it is paid for, and one more lot is not;
  `Cancels` takes the rounding up of the reservation back to the balance.
- `EveryoneOnce`: `BeforeIsAnOrder` (the id decides at last), so who comes later
  has more before him (`RankAscends`), so ranks are different and, being as many
  as the competitors, all taken (`RankIsOnes`); so a page that is not full is the
  last (`LastPage`). `BoardInv` adds that the answer on the page is of the ledger
  as it is or nothing has been seen since it moved, and that whoever has seen the
  first page has seen all before the one selected: turning on needs an answer
  that has more.
- `PriceIsRecent` and `StaleQuotesGo` are bounds in time: `AcceptedInv` says how
  old each accepted trade can be by the end of the step under way, with one
  timeout for each market asked for since; `VisitInv` that no quote is too old
  when the next withdrawal takes its `now()`, at the latest (`NextStamp`). No step
  puts that time off but a withdrawal that fails, which is counted, and one that
  succeeds or a commit, which replace the quotes.

Only model-checked: `PageSettles` (liveness).

## Not modelled

- The API's other queries: each reads one statement's snapshot. CORS, health
  checks, metrics, start and shutdown of servers.
- Configuration: database options and roles, telemetry, the shutdown signal; a
  shutdown is an abort of the open transactions.
- The load controller: a random number for a gauge, which the scaler reads.
- `bootstrap_market_maker`, whose inserts do nothing when repeated.
- The page's rendering and messages, and the button that cancels one order,
  which writes nothing the page shows before the next poll.
- Log retention (24 hours) and what a new consumer group does after it.
- A commit whose answer is lost, for the tables: it is a commit.
- Metrics, tracing, outbox and audit rows: nothing in the code reads them back to
  decide anything.
- Deployment, monitoring, provisioning and the one-time repairs of migrations
  0005 and 0007.

## Plan

Every safety invariant and action property that a run checks is stated by a
theorem. What is left to model checking is liveness, which is out of the prover's
reach.
