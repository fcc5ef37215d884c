----------------------------- MODULE LockOrder -----------------------------
(***************************************************************************)
(* The order in which the exchange's transactions take their locks, and    *)
(* who can wait for whom in a circle: ticks of the matching worker         *)
(* (worker/src/main.rs), the market generator (simulator/src/main.rs), and *)
(* placements and cancellations (trading/src/lib.rs).  A transaction keeps *)
(* its locks to its end; PostgreSQL aborts one that waits in a circle.     *)
(* Amounts, prices and balances are in Exchange.tla; here an order is open *)
(* or not.                                                                 *)
(***************************************************************************)
EXTENDS Naturals, FiniteSets, SequencesExt

CONSTANTS
    Owners, System,
    Symbols,        \* the sequence of instruments, each also its base currency
    Callers,        \* connections on which calls of users run
    CallerOf,       \* [Callers -> Owners]
    Orders,         \* a set of numbers: the sequence numbers
    Terms,          \* [Orders -> [user, instrument, side]]
    First,          \* the orders placed before, some of them still open
    Generator, Free

Names == {Symbols[k] : k \in DOMAIN Symbols}
Transactions == Names \union Callers \union {Generator}

SystemOrders == {o \in Orders : Terms[o].user = System}

Place(i) == CHOOSE k \in DOMAIN Symbols : Symbols[k] = i

\* A tick of the generator makes its orders instrument by instrument, so their
\* numbers ascend with the instruments.
InPlace(orders) ==
    \A o, p \in orders : Place(Terms[o].instrument) < Place(Terms[p].instrument) => o < p

ASSUME LockAssumption ==
    /\ System \notin Owners
    /\ Symbols \in Seq(Names)
    /\ IsFiniteSet(Callers) /\ CallerOf \in [Callers -> Owners]
    /\ Names \cap Callers = {} /\ Generator \notin Names \union Callers
    /\ Free \notin Transactions
    /\ Orders \subseteq Nat /\ IsFiniteSet(Orders)
    /\ Terms \in [Orders -> [user : Owners \union {System}, instrument : Names,
                             side : {"buy", "sell"}]]
    /\ First \subseteq Orders /\ InPlace(SystemOrders \cap First)

VARIABLES
    open,       \* the open orders, as committed
    phase,      \* where each transaction is; "idle" is between two
    held,       \* the locks each transaction has
    wanted,     \* the locks its current statement still has to take, in order
    used        \* the orders an instrument's tick has used up

lockVars == <<open, phase, held, wanted, used>>

LockInit ==
    /\ open \in SUBSET First
    /\ phase = [t \in Transactions |-> "idle"]
    /\ held = [t \in Transactions |-> {}]
    /\ wanted = [t \in Transactions |-> <<>>]
    /\ used = [i \in Names |-> {}]

-----------------------------------------------------------------------------
\* Locks.

UserLock(u)     == <<"order-user", u>>
OrderRow(o)     == <<"orders", o>>
AccountRow(u, c) == <<"accounts", u, c>>

HolderOf(lock) ==
    IF \E t \in Transactions : lock \in held[t]
    THEN CHOOSE t \in Transactions : lock \in held[t] ELSE Free

Rows(s) == [k \in DOMAIN s |-> OrderRow(s[k])]

\* ORDER BY sequence
InSequence(orders) ==
    {s \in SetToSeqs(orders) : \A j, k \in DOMAIN s : j < k => s[j] < s[k]}

(* The statement is granted one of its locks, or has it already. *)
Take(t) ==
    /\ wanted[t] # <<>>
    /\ HolderOf(Head(wanted[t])) \in {Free, t}
    /\ held' = [held EXCEPT ![t] = @ \union {Head(wanted[t])}]
    /\ wanted' = [wanted EXCEPT ![t] = Tail(@)]
    /\ UNCHANGED <<open, phase, used>>

(* The next statement. *)
Goes(t, from, to, locks) ==
    /\ phase[t] = from /\ wanted[t] = <<>>
    /\ phase' = [phase EXCEPT ![t] = to]
    /\ wanted' = [wanted EXCEPT ![t] = locks]

(* Commit or abort. *)
Releases(t) ==
    /\ phase' = [phase EXCEPT ![t] = "idle"]
    /\ held' = [held EXCEPT ![t] = {}]
    /\ wanted' = [wanted EXCEPT ![t] = <<>>]
    /\ used' = [i \in Names |-> IF i = t THEN {} ELSE used[i]]

Commits(t, from, opened, closed) ==
    /\ phase[t] = from /\ wanted[t] = <<>>
    /\ open' = (open \union opened) \ closed
    /\ Releases(t)

OrdersOf(t) == {o \in open : OrderRow(o) \in held[t]}

-----------------------------------------------------------------------------
\* A tick of an instrument.  There is one at a time: a worker that does not get
\* the instrument's lock gives up (Exchange.tla).

TickLocks(i) ==
    /\ \E s \in InSequence({o \in open : Terms[o].instrument = i}) :
          Goes(i, "idle", "matching", Rows(s))
    /\ UNCHANGED <<open, held, used>>

\* The updates of apply_fill for one side of a fill; the system has no accounts.
Settles(o) ==
    LET u == Terms[o].user
        i == Terms[o].instrument
    IN  IF u = System THEN <<>>
        ELSE IF Terms[o].side = "buy" THEN <<AccountRow(u, "USD"), AccountRow(u, i)>>
        ELSE <<AccountRow(u, i), AccountRow(u, "USD")>>

Fills(i, orders) ==
    \E b, s \in orders \ used[i] :
        /\ Terms[b].side = "buy" /\ Terms[s].side = "sell"
        /\ Goes(i, "matching", "matching", Settles(b) \o Settles(s))
        /\ \E done \in {{b}, {s}, {b, s}} : used' = [used EXCEPT ![i] = @ \union done]
        /\ UNCHANGED <<open, held>>

TickSettles(i) == Fills(i, OrdersOf(i))

TickEnds(i) == Commits(i, "matching", {}, used[i])

-----------------------------------------------------------------------------
\* The generator replaces the system's orders of one instrument after the other,
\* each in the order the UPDATE happens to find them.  Nobody else locks the rows
\* of market_state that it has besides.

GeneratorReplaces ==
    \E s \in SetToSeqs(SystemOrders \cap open) :
        /\ \A j, k \in DOMAIN s :
              j < k => Place(Terms[s[j]].instrument) <= Place(Terms[s[k]].instrument)
        /\ Goes(Generator, "idle", "replacing", Rows(s))
        /\ UNCHANGED <<open, held, used>>

(* Numbers of closed orders are used again; the new ones include one of every *)
(* instrument that has system orders.                                         *)
GeneratorCommit ==
    \E new \in SUBSET SystemOrders :
        /\ InPlace(new)
        /\ \A o \in SystemOrders : \E p \in new : Terms[p].instrument = Terms[o].instrument
        /\ Commits(Generator, "replacing", new, OrdersOf(Generator) \ new)

(* At the start, and after a failed tick: one UPDATE of the orders of the stale *)
(* markets, in any order.                                                       *)
Withdraw ==
    \E stale \in SUBSET Names :
        \E s \in SetToSeqs({o \in SystemOrders \cap open : Terms[o].instrument \in stale}) :
            /\ s # <<>>
            /\ Goes(Generator, "idle", "withdrawing", Rows(s))
            /\ UNCHANGED <<open, held, used>>

WithdrawCommit == Commits(Generator, "withdrawing", {}, OrdersOf(Generator))

-----------------------------------------------------------------------------
\* place_order and cancel_orders, after begin.

CallBegin(c) ==
    /\ \E call \in {"place", "cancel", "cancel-all"} :
          Goes(c, "idle", call, <<UserLock(CallerOf[c])>>)
    /\ UNCHANGED <<open, held, used>>

ReserveFunds(c) ==
    /\ \E currency \in Names \union {"USD"} :
          Goes(c, "place", "reserved", <<AccountRow(CallerOf[c], currency)>>)
    /\ UNCHANGED <<open, held, used>>

\* An order of the user with a number no order has had before, or none: the
\* funds do not suffice, or the id is known.
PlaceEnds(c) ==
    \E opened \in {{}} \union {{o} : o \in Orders} :
        /\ \A o \in opened : Terms[o].user = CallerOf[c] /\ \A p \in open \union First : o > p
        /\ Commits(c, "reserved", opened, {})

OwnOrders(c) == {o \in open : Terms[o].user = CallerOf[c]}

Releasing(o) ==
    AccountRow(Terms[o].user, IF Terms[o].side = "buy" THEN "USD" ELSE Terms[o].instrument)

\* Faulty: the orders are cancelled one by one.
CancelLocksEach(c) ==
    /\ \E s \in InSequence(OwnOrders(c)) :
          Goes(c, "cancel-all", "locked",
               FlattenSeq([k \in DOMAIN s |-> <<OrderRow(s[k]), Releasing(s[k])>>]))
    /\ UNCHANGED <<open, held, used>>

CancelLocks(c) ==
    /\ \/ \E s \in InSequence(OwnOrders(c)) : Goes(c, "cancel-all", "locked", Rows(s))
       \/ \E o \in OwnOrders(c) : Goes(c, "cancel", "locked", <<OrderRow(o)>>)
    /\ UNCHANGED <<open, held, used>>

(* An id that is not an open order: the transaction is rolled back. *)
NotFound(c) == Commits(c, "cancel", {}, {})

CancelUpdates(c) ==
    /\ \E s \in InSequence(OrdersOf(c)) :
          Goes(c, "locked", "cancelled", [k \in DOMAIN s |-> Releasing(s[k])])
    /\ UNCHANGED <<open, held, used>>

CancelEnds(c) == Commits(c, "cancelled", {}, OrdersOf(c))

-----------------------------------------------------------------------------
\* Circles.

WaitsFor(t) == IF wanted[t] = <<>> THEN Free ELSE HolderOf(Head(wanted[t]))

Waiting == {t \in Transactions : WaitsFor(t) \notin {Free, t}}

(* Those whose waiting leads back to themselves. *)
InCircle ==
    {t \in Waiting :
        \E circle \in SUBSET Waiting :
            /\ t \in circle
            /\ \A s \in circle : WaitsFor(s) \in circle
            /\ \A s \in circle : \E r \in circle : WaitsFor(r) = s}

(* deadlock_timeout: an error, on which the transaction is dropped. *)
Aborts(t) ==
    /\ t \in InCircle
    /\ Releases(t)
    /\ UNCHANGED open

-----------------------------------------------------------------------------
Ticks(i) == TickLocks(i) \/ TickSettles(i) \/ TickEnds(i)

Generates == GeneratorReplaces \/ GeneratorCommit \/ Withdraw \/ WithdrawCommit

Call(c) ==
    \/ ReserveFunds(c) \/ PlaceEnds(c)
    \/ CancelLocks(c) \/ NotFound(c) \/ CancelUpdates(c) \/ CancelEnds(c)

LockNext ==
    \/ \E t \in Transactions : Take(t) \/ Aborts(t)
    \/ \E i \in Names : Ticks(i)
    \/ Generates
    \/ \E c \in Callers : CallBegin(c) \/ Call(c)

LockSpec == LockInit /\ [][LockNext]_lockVars

-----------------------------------------------------------------------------
\* Properties.

(* Ticks and the generator may wait for each other in a circle, and are     *)
(* tried again by their loops.  A placement or a cancellation is in a circle *)
(* only when the generator withdraws the quotes of several markets at once,  *)
(* which it does in no order of theirs (simulator/src/main.rs:83, 96); in    *)
(* all other cases no user gets an error for one.  It rests on the common    *)
(* order of the order rows, on a cancellation having all of them before it   *)
(* touches an account, and on a placement holding nothing that others want   *)
(* (trading/src/lib.rs:102, 217; worker/src/main.rs:82).                     *)
CallsAreNoVictims ==
    InCircle \cap Callers # {} => Generator \in InCircle /\ phase[Generator] = "withdrawing"

-----------------------------------------------------------------------------
\* The inductive invariant.

Assets == Names \union {"USD"}
Accounts(u) == {AccountRow(u, currency) : currency \in Assets}
RowsOf(orders) == {OrderRow(o) : o \in orders}
Locks == {UserLock(u) : u \in Owners} \union RowsOf(Orders) \union UNION {Accounts(u) : u \in Owners}

\* What a transaction has or is about to take, and the orders among them.
Needs(t) == held[t] \union Range(wanted[t])
Has(t) == {o \in Orders : OrderRow(o) \in held[t]}
Asks(t) == {o \in Orders : OrderRow(o) \in Range(wanted[t])}

Phases == {"idle", "matching", "replacing", "withdrawing",
           "place", "reserved", "cancel", "cancel-all", "locked", "cancelled"}

LockTypeOK ==
    /\ open \subseteq Orders
    /\ phase \in [Transactions -> Phases]
    /\ held \in [Transactions -> SUBSET Locks]
    /\ wanted \in [Transactions -> Seq(Locks)]
    /\ used \in [Names -> SUBSET Orders]

Exclusive == \A s, t \in Transactions : s # t => held[s] \cap held[t] = {}

\* Order rows are taken in the order of their numbers.
Climbs(t) ==
    /\ \A o \in Has(t), p \in Asks(t) : o < p
    /\ \A j, k \in DOMAIN wanted[t] : \A o, p \in Orders :
         j < k /\ wanted[t][j] = OrderRow(o) /\ wanted[t][k] = OrderRow(p) => o < p

\* A tick has its order rows before it settles on accounts, and settles on
\* those of orders that it holds.
TickInv(i) ==
    /\ Climbs(i)
    /\ used[i] \subseteq Has(i)
    /\ phase[i] = "idle" => Needs(i) = {}
    /\ \A lock \in Needs(i) :
         \/ lock \in RowsOf({o \in Orders : Terms[o].instrument = i})
         \/ \E o \in OrdersOf(i) : Terms[o].user \in Owners /\ lock \in Accounts(Terms[o].user)
    /\ \/ Asks(i) = {}
       \/ held[i] \union Range(wanted[i]) \subseteq RowsOf(Orders)

\* A call has its user's lock before anything else.
Opening(c) ==
    \/ held[c] = {} /\ wanted[c] = <<UserLock(CallerOf[c])>>
    \/ held[c] = {UserLock(CallerOf[c])} /\ wanted[c] = <<>>

Reserved(c) ==
    LET u == CallerOf[c]
    IN  /\ UserLock(u) \in held[c] /\ Range(wanted[c]) \subseteq Accounts(u)
        /\ held[c] \subseteq {UserLock(u)} \union Accounts(u)
        /\ \/ wanted[c] = <<>>
           \/ Len(wanted[c]) = 1 /\ held[c] = {UserLock(u)}

OwnRows(c) == RowsOf({o \in Orders : Terms[o].user = CallerOf[c]})

\* A cancellation has no account yet, and will have all of the user's orders or one.
Locked(c) ==
    LET u == CallerOf[c]
    IN  /\ UserLock(u) \in held[c] /\ held[c] \subseteq {UserLock(u)} \union OwnRows(c)
        /\ Range(wanted[c]) \subseteq OwnRows(c)
        /\ Climbs(c)
        /\ \/ RowsOf(OwnOrders(c)) \subseteq Needs(c)
           \/ \E o \in Orders : Needs(c) \subseteq {UserLock(u), OrderRow(o)}

\* It has all of them, or a single account to wait for.
Cancelled(c) ==
    LET u == CallerOf[c]
    IN  /\ UserLock(u) \in held[c]
        /\ held[c] \subseteq {UserLock(u)} \union OwnRows(c) \union Accounts(u)
        /\ Range(wanted[c]) \subseteq Accounts(u)
        /\ \/ RowsOf(OwnOrders(c)) \subseteq held[c]
           \/ wanted[c] = <<>>
           \/ Len(wanted[c]) = 1 /\ held[c] \cap Accounts(u) = {}

CallInv(c) ==
    \/ phase[c] = "idle" /\ Needs(c) = {}
    \/ phase[c] \in {"place", "cancel", "cancel-all"} /\ Opening(c)
    \/ phase[c] = "reserved" /\ Reserved(c)
    \/ phase[c] = "locked" /\ Locked(c)
    \/ phase[c] = "cancelled" /\ Cancelled(c)

GeneratorInv ==
    /\ Needs(Generator) \subseteq RowsOf(SystemOrders)
    /\ InPlace(Has(Generator) \union Asks(Generator))
    /\ phase[Generator] \in {"idle", "replacing", "withdrawing"}
    /\ phase[Generator] = "idle" => Needs(Generator) = {}
    /\ phase[Generator] = "replacing" =>
         /\ RowsOf(SystemOrders \cap open) \subseteq Needs(Generator)
         /\ \A o \in Has(Generator), p \in Asks(Generator) :
              Place(Terms[o].instrument) <= Place(Terms[p].instrument)
         /\ \A j, k \in DOMAIN wanted[Generator] : \A o, p \in Orders :
              j < k /\ wanted[Generator][j] = OrderRow(o) /\ wanted[Generator][k] = OrderRow(p)
                => Place(Terms[o].instrument) <= Place(Terms[p].instrument)

LockInv ==
    /\ LockTypeOK /\ Exclusive /\ InPlace(SystemOrders \cap open)
    /\ \A i \in Names : TickInv(i)
    /\ \A c \in Callers : CallInv(c)
    /\ GeneratorInv
=============================================================================
