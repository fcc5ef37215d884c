--------------------------- MODULE ExchangeProofs ---------------------------
(***************************************************************************)
(* Proofs about Exchange, for every set of users, instruments, requests    *)
(* and prices and every bound.  First who may trade with whom: types, row  *)
(* locks, fills and the invariant of the book.  Then the money:            *)
(* reservations, holdings, remaining quantities and the overdraft, which   *)
(* are sums over tables, so that what a sum over a finite set does is      *)
(* proved before.  Last what the fills of a tick are, which compares sums  *)
(* over what is ahead of an order on either side of the book.              *)
(***************************************************************************)
EXTENDS Exchange, FiniteSetTheorems, WellFoundedInduction, TLAPS

-----------------------------------------------------------------------------
(* Arithmetic: every amount and every price is a natural number *)

\* Dividing a natural number by a positive one, with the rounding of
\* balance_amount, gives a natural number.
LEMMA RoundHalfAwayNat ==
    ASSUME NEW n \in Nat, NEW d \in Nat \ {0}
    PROVE  RoundHalfAway(n, d) \in Nat
<1>1. 2 * n + d \in Nat /\ 2 * d \in Nat \ {0}
  OBVIOUS
<1>2. \A a \in Nat, b \in Nat \ {0} : a \div b \in Nat
  OBVIOUS
<1>. QED  BY <1>1, <1>2 DEF RoundHalfAway

\* round_dp of a nonnegative quotient is a natural number.
LEMMA RoundHalfEvenNat ==
    ASSUME NEW n \in Nat, NEW d \in Nat \ {0}
    PROVE  RoundHalfEven(n, d) \in Nat
<1>1. n \div d \in Nat
  OBVIOUS
<1>. QED  BY <1>1 DEF RoundHalfEven

\* Products of column values, rounded: what the code reserves, spends, releases.
LEMMA BalanceAmountNat ==
    ASSUME NEW q \in Nat, NEW p \in Nat
    PROVE  BalanceAmount(q, p) \in Nat
<1>1. q * p \in Nat
  OBVIOUS
<1>. QED  BY <1>1, RoundHalfAwayNat, ScaleAssumption DEF BalanceAmount

\* The prices and the sizes of the market maker, and the cap of a market buy.
LEMMA QuotesNat ==
    ASSUME NEW reference \in Nat \ {0}, NEW k \in Nat
    PROVE  /\ MarketBuyCap(reference) \in Nat
           /\ QuotePrice(reference, k) \in Nat
           /\ QuoteQuantity(reference, k) \in Nat
<1>1. reference * 105 \in Nat /\ reference * k \in Nat /\ 1000 * Cent \in Nat \ {0}
  BY ScaleAssumption
<1>2. k * Liquidity * Scale \in Nat /\ reference * Lot \in Nat \ {0}
  <2>1. k * Liquidity \in Nat
    BY ScaleAssumption
  <2>2. k * Liquidity * Scale \in Nat
    BY <2>1, ScaleAssumption
  <2>3. reference * Lot \in Nat \ {0}
    BY ScaleAssumption
  <2>. QED  BY <2>2, <2>3
<1>3. MarketBuyCap(reference) \in Nat
  BY <1>1, RoundHalfAwayNat DEF MarketBuyCap
<1>4. QuotePrice(reference, k) \in Nat
  <2>1. RoundHalfEven(reference * k, 1000 * Cent) \in Nat
    BY <1>1, RoundHalfEvenNat
  <2>. QED  BY <2>1, ScaleAssumption DEF QuotePrice
<1>5. QuoteQuantity(reference, k) \in Nat
  <2>1. RoundHalfEven(k * Liquidity * Scale, reference * Lot) \in Nat
    BY <1>2, RoundHalfEvenNat
  <2>. QED  BY <2>1, ScaleAssumption DEF QuoteQuantity
<1>. QED  BY <1>3, <1>4, <1>5

-----------------------------------------------------------------------------
(* Balances and rows *)

\* An UPDATE of one account row leaves a table of balances.
LEMMA CreditType ==
    ASSUME NEW b \in Balances, NEW u \in Users, NEW c \in Currencies,
           NEW a \in Int, NEW r \in Int
    PROVE  Credit(b, u, c, a, r) \in Balances
<1>1. b[u][c] \in [available : Int, reserved : Int]
  BY DEF Balances
<1>2. [available |-> b[u][c].available + a, reserved |-> b[u][c].reserved + r]
        \in [available : Int, reserved : Int]
  BY <1>1
<1>. QED  BY <1>2 DEF Credit, Balances

\* Balance changes that start from nothing, and the commit of changes.
LEMMA PostedType ==
    /\ NoDelta \in Balances
    /\ \A delta \in Balances : accounts \in Balances => Posted(delta) \in Balances
<1>1. NoDelta \in Balances
  BY DEF NoDelta, Balances
<1>2. ASSUME NEW delta \in Balances, accounts \in Balances
      PROVE  Posted(delta) \in Balances
  <2>1. ASSUME NEW u \in Users, NEW c \in Currencies
        PROVE  /\ accounts[u][c].available + delta[u][c].available \in Int
               /\ accounts[u][c].reserved + delta[u][c].reserved \in Int
    <3>1. /\ accounts[u][c] \in [available : Int, reserved : Int]
          /\ delta[u][c] \in [available : Int, reserved : Int]
      BY <1>2 DEF Balances
    <3>. QED  BY <3>1
  <2>. QED  BY <2>1 DEF Posted, Balances
<1>. QED  BY <1>1, <1>2

\* Committed rows are rows.
LEMMA WrittenType ==
    ASSUME NEW S, NEW rows \in [S -> Order], orders \in [DOMAIN orders -> Order]
    PROVE  Written(rows) \in [DOMAIN orders -> Order]
BY DEF Written

\* What is still reserved for an order is a natural number of one currency.
LEMMA OutstandingType ==
    ASSUME NEW order \in Order
    PROVE  /\ Outstanding(order) \in Nat
           /\ ReservedCurrency(order) \in Currencies
<1>1. /\ order.remaining \in Nat
      /\ order.price \in Nat
      /\ order.instrument \in Instruments
  BY DEF Order
<1>. QED  BY <1>1, BalanceAmountNat, ExchangeAssumption DEF Outstanding, ReservedCurrency

\* Settling a fill between two rows of Order gives rows and balances again.
LEMMA ApplyFillType ==
    ASSUME NEW t, NEW f \in Fill, TransactionTypeOK(t), t.fills \subseteq Fill,
           f.maker \in t.locked, f.taker \in t.locked
    PROVE  /\ [s \in DOMAIN t.rows |->
                 IF s \in {f.maker, f.taker} THEN Reduced(t.rows[s], f.quantity)
                                             ELSE t.rows[s]] \in [t.locked -> Order]
           /\ SellerPaid(BuyerPaid(t.delta, t.rows[f.taker], f), t.rows[f.maker], f) \in Balances
<1>1. /\ f.quantity \in Nat
      /\ f.price \in Nat
      /\ Base[f.instrument] \in Currencies
      /\ Quote[f.instrument] \in Currencies
  BY ExchangeAssumption DEF Fill
<1>2. BalanceAmount(f.quantity, f.price) \in Nat
  BY <1>1, BalanceAmountNat
<1>3. ASSUME NEW row \in Order
      PROVE  Reduced(row, f.quantity) \in Order
  <2>1. row.remaining \in Nat
    BY DEF Order
  <2>2. (IF row.remaining > f.quantity THEN row.remaining - f.quantity ELSE 0) \in Nat
    BY <1>1, <2>1
  <2>. QED  BY <2>2 DEF Reduced, Order, Statuses
<1>4. /\ t.rows \in [t.locked -> Order]
      /\ t.delta \in Balances
  BY DEF TransactionTypeOK
<1>5. BuyerPaid(t.delta, t.rows[f.taker], f) \in Balances
  <2>. DEFINE buy == t.rows[f.taker]
              released == BalanceAmount(buy.remaining, buy.price)
                            - BalanceAmount(buy.remaining - f.quantity, buy.price)
  <2>1. buy \in Order
    BY <1>4
  <2>2. CASE buy.user = MarketMaker
    BY <2>2, <1>4 DEF BuyerPaid
  <2>3. CASE buy.user # MarketMaker
    <3>1. buy.user \in Users /\ buy.remaining \in Int /\ buy.price \in Nat
      BY <2>1, <2>3 DEF Order
    <3>2. released \in Int
      <4>1. ASSUME NEW q \in Int
            PROVE  BalanceAmount(q, buy.price) \in Int
        <5>1. q * buy.price \in Int
          BY <3>1
        <5>2. 2 * (q * buy.price) + Scale \in Int /\ 2 * Scale \in Nat \ {0}
          BY <5>1, ScaleAssumption
        <5>. QED  BY <5>2 DEF BalanceAmount, RoundHalfAway
      <4>2. buy.remaining - f.quantity \in Int
        BY <3>1, <1>1
      <4>. QED  BY <4>1, <4>2, <3>1
    <3>. HIDE DEF released, buy
    <3>3. Credit(t.delta, buy.user, Quote[f.instrument],
                 released - BalanceAmount(f.quantity, f.price), -released) \in Balances
      BY <3>1, <3>2, <1>1, <1>2, <1>4, CreditType
    <3>4. Credit(Credit(t.delta, buy.user, Quote[f.instrument],
                        released - BalanceAmount(f.quantity, f.price), -released),
                 buy.user, Base[f.instrument], f.quantity, 0) \in Balances
      BY <3>1, <3>3, <1>1, CreditType
    <3>. QED  BY <3>4, <2>3 DEF BuyerPaid, released, buy
  <2>. QED  BY <2>2, <2>3
<1>6. SellerPaid(BuyerPaid(t.delta, t.rows[f.taker], f), t.rows[f.maker], f) \in Balances
  <2>. DEFINE sell == t.rows[f.maker]
              paid == BuyerPaid(t.delta, t.rows[f.taker], f)
  <2>1. sell \in Order /\ paid \in Balances
    BY <1>4, <1>5
  <2>. HIDE DEF sell, paid
  <2>2. CASE sell.user = MarketMaker
    BY <2>1, <2>2 DEF SellerPaid, sell, paid
  <2>3. CASE sell.user # MarketMaker
    <3>1. sell.user \in Users
      BY <2>1, <2>3 DEF Order
    <3>2. Credit(paid, sell.user, Base[f.instrument], 0, -f.quantity) \in Balances
      BY <3>1, <2>1, <1>1, CreditType
    <3>3. Credit(Credit(paid, sell.user, Base[f.instrument], 0, -f.quantity),
                 sell.user, Quote[f.instrument], BalanceAmount(f.quantity, f.price), 0)
            \in Balances
      BY <3>1, <3>2, <1>1, <1>2, CreditType
    <3>. QED  BY <3>3, <2>3 DEF SellerPaid, sell, paid
  <2>. QED  BY <2>2, <2>3 DEF sell, paid
<1>. QED  BY <1>3, <1>4, <1>6

-----------------------------------------------------------------------------
(* Type correctness *)

\* The state of a transaction that has not begun is well formed.
LEMMA IdleType == CancelTypeOK(NoCancel) /\ TickTypeOK(NoTick)
<1>1. Empty \in [{} -> Order] /\ Empty \in [{} -> BookOrder]
  BY DEF Empty
<1>. QED  BY <1>1, PostedType DEF CancelTypeOK, TickTypeOK, TransactionTypeOK, NoCancel, NoTick

\* The empty tables with the opening balances are well formed.
LEMMA TypeInit == Init => TypeOK
<1>. SUFFICES ASSUME Init PROVE TypeOK
  OBVIOUS
<1>1. accounts \in Balances
  BY ExchangeAssumption DEF Init, Balances
<1>2. DOMAIN orders \subseteq Nat /\ orders \in [DOMAIN orders -> Order]
  BY DEF Init, Empty
<1>3. market \in [Instruments -> [reference : References, fresh : BOOLEAN]]
  BY DEF Init
<1>. QED  BY <1>1, <1>2, <1>3, IdleType DEF Init, TypeOK

\* place_order inserts a well-formed row and moves one balance.
LEMMA TypePlace ==
    ASSUME TypeOK, NEW u \in Users, NEW c \in ClientIds, NEW r \in Requests,
           NEW s \in NextSequence(u), PlaceOrder(u, c, r, s)
    PROVE  TypeOK'
<1>1. /\ r.instrument \in Instruments /\ r.side \in Sides /\ r.type \in OrderTypes
      /\ r.quantity \in Nat /\ r.price \in Nat
  BY ExchangeAssumption
<1>2. market[r.instrument].reference \in Nat \ {0}
  BY <1>1, ExchangeAssumption DEF TypeOK
<1>3. AcceptedPrice(r) \in Nat
  BY <1>1, <1>2, QuotesNat DEF AcceptedPrice
<1>4. Reserve(r) \in Nat
  <2>1. BalanceAmount(r.quantity, r.price) \in Nat
    BY <1>1, BalanceAmountNat
  <2>2. MarketBuyReserve(r.quantity, market[r.instrument].reference) \in Nat
    <3>1. r.quantity * market[r.instrument].reference \in Nat
      BY <1>1, <1>2
    <3>2. r.quantity * market[r.instrument].reference * 105 \in Nat /\ 100 * Scale \in Nat \ {0}
      BY <3>1, ScaleAssumption
    <3>. QED  BY <3>2, RoundHalfAwayNat DEF MarketBuyReserve
  <2>. QED  BY <1>1, <2>1, <2>2 DEF Reserve
<1>5. ReservedCurrency(r) \in Currencies
  BY <1>1, ExchangeAssumption DEF ReservedCurrency
<1>6. accounts' \in Balances
  <2>1. accounts' = Credit(accounts, u, ReservedCurrency(r), -Reserve(r), Reserve(r))
    BY DEF PlaceOrder
  <2>2. -Reserve(r) \in Int /\ Reserve(r) \in Int
    BY <1>4
  <2>. QED  BY <2>1, <2>2, <1>5, CreditType DEF TypeOK
<1>7. DOMAIN orders' \subseteq Nat /\ orders' \in [DOMAIN orders' -> Order]
  <2>1. s \in Nat
    BY DEF NextSequence
  <2>2. [user |-> u, client |-> c, instrument |-> r.instrument,
         side |-> r.side, type |-> r.type, quantity |-> r.quantity,
         remaining |-> r.quantity, price |-> AcceptedPrice(r),
         status |-> "open", charged |-> Reserve(r)] \in Order
    BY <1>1, <1>3, <1>4 DEF Order, Statuses
  <2>. QED  BY <2>1, <2>2 DEF PlaceOrder, TypeOK
<1>. QED  BY <1>6, <1>7 DEF TypeOK, PlaceOrder

\* The steps of a cancellation.
LEMMA TypeCancel ==
    ASSUME TypeOK, NEW u \in Users,
           \/ \E chosen \in SUBSET OpenOf(u) : CancelBegin(u, chosen)
           \/ \E s \in cancel[u].todo : CancelOne(u, s)
           \/ CancelCommit(u)
           \/ CancelAbort(u)
    PROVE  TypeOK'
<1>0. CancelTypeOK(cancel[u]) /\ cancel[u].rows \in [cancel[u].locked -> Order]
  BY DEF TypeOK, CancelTypeOK, TransactionTypeOK
<1>1. ASSUME NEW chosen \in SUBSET OpenOf(u), CancelBegin(u, chosen)
      PROVE  TypeOK'
  <2>1. chosen \subseteq DOMAIN orders
    BY DEF OpenOf
  <2>2. [s \in chosen |-> orders[s]] \in [chosen -> Order]
    BY <2>1 DEF TypeOK
  <2>3. CancelTypeOK(cancel'[u])
    BY <1>1, <2>1, <2>2, PostedType
       DEF CancelBegin, TypeOK, CancelTypeOK, TransactionTypeOK
  <2>. QED  BY <1>1, <2>3 DEF CancelBegin, TypeOK, tables
<1>2. ASSUME NEW s \in cancel[u].todo, CancelOne(u, s)
      PROVE  TypeOK'
  <2>. DEFINE order == cancel[u].rows[s]
              rows == [cancel[u].rows EXCEPT ![s].status = "cancelled"]
              delta == Credit(cancel[u].delta, u, ReservedCurrency(order),
                              Outstanding(order), -Outstanding(order))
  <2>1. s \in cancel[u].locked /\ order \in Order
    BY <1>0 DEF CancelTypeOK
  <2>2. rows \in [cancel[u].locked -> Order]
    BY <1>0, <2>1 DEF Order, Statuses
  <2>3. delta \in Balances
    <3>1. Outstanding(order) \in Int /\ -Outstanding(order) \in Int
      BY <2>1, OutstandingType
    <3>2. cancel[u].delta \in Balances
      BY <1>0 DEF CancelTypeOK, TransactionTypeOK
    <3>. QED  BY <2>1, <3>1, <3>2, OutstandingType, CreditType
  <2>4. cancel' = [cancel EXCEPT ![u] = [cancel[u] EXCEPT !.todo = @ \ {s}, !.rows = rows,
                                                         !.delta = delta]]
    BY <1>2 DEF CancelOne, TypeOK
  <2>. HIDE DEF rows, delta
  <2>5. CancelTypeOK(cancel'[u])
    BY <1>0, <2>2, <2>3, <2>4 DEF TypeOK, CancelTypeOK, TransactionTypeOK
  <2>. QED  BY <1>2, <2>4, <2>5 DEF CancelOne, TypeOK, tables
<1>3. ASSUME CancelCommit(u)
      PROVE  TypeOK'
  <2>1. accounts' \in Balances
    BY <1>0, <1>3, PostedType DEF CancelCommit, TypeOK, CancelTypeOK, TransactionTypeOK
  <2>2. DOMAIN orders' \subseteq Nat /\ orders' \in [DOMAIN orders' -> Order]
    BY <1>0, <1>3, WrittenType DEF CancelCommit, TypeOK
  <2>. QED  BY <1>3, <2>1, <2>2, IdleType DEF CancelCommit, TypeOK
<1>4. ASSUME CancelAbort(u)
      PROVE  TypeOK'
  BY <1>4, IdleType DEF CancelAbort, TypeOK, tables
<1>. QED  BY <1>1, <1>2, <1>3, <1>4

\* A fill the matcher finds is a well-formed row, no larger than either order.
LEMMA NextFillType ==
    ASSUME TypeOK, NEW i \in Instruments, NEW buy \in tick[i].locked, NEW sell \in tick[i].locked
    PROVE  LET f == NextFill(i, buy, sell) IN
           /\ f \in Fill
           /\ f.maker = sell /\ f.taker = buy /\ f.instrument = i
           /\ f.quantity <= tick[i].book[buy].remaining
           /\ f.quantity <= tick[i].book[sell].remaining
           /\ \/ f.quantity = tick[i].book[buy].remaining
              \/ f.quantity = tick[i].book[sell].remaining
<1>1. /\ tick[i].book[buy] \in BookOrder
      /\ tick[i].book[sell] \in BookOrder
      /\ buy \in Nat /\ sell \in Nat
      /\ tick[i].reference \in Nat
  BY DEF TypeOK, TickTypeOK, TransactionTypeOK
<1>2. ExecutionPrice(tick[i].book[buy], tick[i].book[sell], tick[i].reference) \in Nat
  BY <1>1 DEF ExecutionPrice, Smaller, BookOrder
<1>3. Smaller(tick[i].book[buy].remaining, tick[i].book[sell].remaining) \in Nat
  BY <1>1 DEF Smaller, BookOrder
<1>4. /\ Smaller(tick[i].book[buy].remaining, tick[i].book[sell].remaining)
           <= tick[i].book[buy].remaining
      /\ Smaller(tick[i].book[buy].remaining, tick[i].book[sell].remaining)
           <= tick[i].book[sell].remaining
      /\ \/ Smaller(tick[i].book[buy].remaining, tick[i].book[sell].remaining)
              = tick[i].book[buy].remaining
         \/ Smaller(tick[i].book[buy].remaining, tick[i].book[sell].remaining)
              = tick[i].book[sell].remaining
  BY <1>1 DEF Smaller, BookOrder
<1>. QED  BY <1>1, <1>2, <1>3, <1>4 DEF NextFill, Fill

\* Deducting a fill from the book in memory keeps its quantities natural.
LEMMA DeductedType ==
    ASSUME TypeOK, NEW i \in Instruments, NEW buy \in tick[i].locked, NEW sell \in tick[i].locked
    PROVE  Deducted(tick[i].book, NextFill(i, buy, sell)) \in [tick[i].locked -> BookOrder]
<1>. DEFINE f == NextFill(i, buy, sell)
<1>1. tick[i].book \in [tick[i].locked -> BookOrder]
  BY DEF TypeOK, TickTypeOK
<1>2. /\ f.quantity \in Nat
      /\ f.maker = sell /\ f.taker = buy
      /\ f.quantity <= tick[i].book[buy].remaining
      /\ f.quantity <= tick[i].book[sell].remaining
  BY NextFillType DEF Fill
<1>. HIDE DEF f
<1>3. ASSUME NEW s \in {buy, sell}
      PROVE  [tick[i].book[s] EXCEPT !.remaining = @ - f.quantity] \in BookOrder
  BY <1>1, <1>2 DEF BookOrder
<1>4. Deducted(tick[i].book, f) \in [tick[i].locked -> BookOrder]
  BY <1>1, <1>2, <1>3 DEF Deducted
<1>. QED  BY <1>4 DEF f

\* The steps of a matching tick.
LEMMA TypeTick ==
    ASSUME TypeOK, NEW i \in Instruments, WorkerStep(i)
    PROVE  TypeOK'
<1>0. TickTypeOK(tick[i])
  BY DEF TypeOK
<1>1. ASSUME TickBegin(i)
      PROVE  TypeOK'
  <2>1. BookOf(i) \subseteq Nat
    BY DEF BookOf, TypeOK
  <2>2. tick'[i] = [NoTick EXCEPT !.phase = "snapshot", !.seen = BookOf(i)]
    BY <1>1 DEF TickBegin, TypeOK
  <2>3. TickTypeOK(tick'[i])
    BY <2>1, <2>2, IdleType DEF TickTypeOK, TransactionTypeOK
  <2>. QED  BY <1>1, <2>3 DEF TickBegin, TypeOK, tables
<1>2. ASSUME TickLock(i)
      PROVE  TypeOK'
  <2>. DEFINE locked == tick[i].seen \cap BookOf(i)
              book == [s \in locked |-> BookEntry(s, orders[s])]
              rows == [s \in locked |-> orders[s]]
              buys == {s \in locked : orders[s].side = "buy"}
  <2>1. locked \subseteq Nat /\ locked \subseteq DOMAIN orders /\ buys \subseteq locked
    BY DEF BookOf, TypeOK
  <2>2. rows \in [locked -> Order]
    BY <2>1 DEF TypeOK
  <2>3. book \in [locked -> BookOrder]
    <3>1. ASSUME NEW s \in locked
          PROVE  BookEntry(s, orders[s]) \in BookOrder
      BY <2>1 DEF TypeOK, Order, BookOrder, BookEntry
    <3>. QED  BY <3>1
  <2>4. market[i].reference \in Nat
    BY ExchangeAssumption DEF TypeOK
  <2>5. tick'[i] = [NoTick EXCEPT !.phase = "matching", !.locked = locked, !.buys = buys,
                      !.book = book, !.reference = market[i].reference, !.rows = rows]
    BY <1>2 DEF TickLock, TypeOK
  <2>. HIDE DEF locked, book, rows, buys
  <2>6. TickTypeOK(tick'[i])
    BY <2>1, <2>2, <2>3, <2>4, <2>5, IdleType DEF TickTypeOK, TransactionTypeOK
  <2>. QED  BY <1>2, <2>6 DEF TickLock, TypeOK, tables
<1>3. ASSUME NEW buy \in tick[i].buys, NEW sell \in Makers(tick[i]), TickFill(i, buy, sell)
      PROVE  TypeOK'
  <2>. DEFINE f == NextFill(i, buy, sell)
              book == Deducted(tick[i].book, f)
              matched == [tick[i] EXCEPT !.book = book]
  <2>1. buy \in tick[i].locked /\ sell \in tick[i].locked
    BY <1>0 DEF TickTypeOK, Makers
  <2>2. f \in Fill /\ f.maker \in tick[i].locked /\ f.taker \in tick[i].locked
    BY <2>1, NextFillType
  <2>3. book \in [tick[i].locked -> BookOrder]
    BY <2>1, DeductedType
  <2>4. tick'[i] = IF f \in fills \cup tick[i].fills THEN matched ELSE ApplyFill(matched, f)
    BY <1>3 DEF TickFill, Settled, TypeOK
  <2>. HIDE DEF f, book
  <2>5. TickTypeOK(matched)
    BY <1>0, <2>3 DEF TickTypeOK, TransactionTypeOK
  <2>6. TickTypeOK(ApplyFill(matched, f))
    <3>1. TransactionTypeOK(matched) /\ matched.fills \subseteq Fill
          /\ matched.locked = tick[i].locked
      BY <2>5, <1>0 DEF TickTypeOK
    <3>. DEFINE rows == [s \in DOMAIN matched.rows |->
                           IF s \in {f.maker, f.taker} THEN Reduced(matched.rows[s], f.quantity)
                                                       ELSE matched.rows[s]]
                delta == SellerPaid(BuyerPaid(matched.delta, matched.rows[f.taker], f),
                                    matched.rows[f.maker], f)
    <3>2. rows \in [matched.locked -> Order] /\ delta \in Balances
      BY <3>1, <2>2, ApplyFillType
    <3>3. ApplyFill(matched, f) = [matched EXCEPT !.fills = @ \cup {f}, !.rows = rows,
                                                  !.delta = delta]
      BY DEF ApplyFill
    <3>. HIDE DEF matched, rows, delta
    <3>. QED  BY <2>2, <2>5, <3>2, <3>3 DEF TickTypeOK, TransactionTypeOK
  <2>7. TickTypeOK(tick'[i])
    BY <2>4, <2>5, <2>6
  <2>. QED  BY <1>3, <2>7 DEF TickFill, TypeOK, tables
<1>4. ASSUME NEW buy \in tick[i].buys, TickNextBuy(i, buy)
      PROVE  TypeOK'
  <2>1. tick'[i] = [tick[i] EXCEPT !.buys = @ \ {buy}]
    BY <1>4 DEF TickNextBuy, TypeOK
  <2>2. TickTypeOK(tick'[i])
    BY <1>0, <2>1 DEF TickTypeOK, TransactionTypeOK
  <2>. QED  BY <1>4, <2>2 DEF TickNextBuy, TypeOK, tables
<1>5. ASSUME TickCommit(i)
      PROVE  TypeOK'
  <2>1. accounts' \in Balances
    BY <1>0, <1>5, PostedType DEF TickCommit, TypeOK, TickTypeOK, TransactionTypeOK
  <2>2. DOMAIN orders' \subseteq Nat /\ orders' \in [DOMAIN orders' -> Order]
    BY <1>0, <1>5, WrittenType DEF TickCommit, TypeOK, TickTypeOK, TransactionTypeOK
  <2>3. fills' \subseteq Fill
    BY <1>0, <1>5 DEF TickCommit, TypeOK, TickTypeOK
  <2>. QED  BY <1>5, <2>1, <2>2, <2>3, IdleType DEF TickCommit, TypeOK
<1>6. ASSUME TickAbort(i)
      PROVE  TypeOK'
  BY <1>6, IdleType DEF TickAbort, TypeOK, tables
<1>. QED  BY <1>1, <1>2, <1>3, <1>4, <1>5, <1>6 DEF WorkerStep

\* The rows a generator tick inserts are well formed.
LEMMA SystemOrderType ==
    ASSUME NEW i \in Instruments, NEW reference \in Nat \ {0}, NEW n \in 1..4
    PROVE  SystemOrder(i, reference, QuoteSteps[n]) \in Order
<1>1. /\ QuoteSteps[n].side \in Sides
      /\ QuoteSteps[n].permille \in Nat
      /\ QuoteSteps[n].times \in Nat
  BY DEF QuoteSteps, Sides
<1>2. /\ QuotePrice(reference, QuoteSteps[n].permille) \in Nat
      /\ QuoteQuantity(reference, QuoteSteps[n].times) \in Nat
  BY <1>1, QuotesNat
<1>. QED  BY <1>1, <1>2 DEF SystemOrder, Order, OrderTypes, Statuses

\* Cancelling system orders keeps the rows.
LEMMA SystemCancelledType ==
    ASSUME TypeOK, NEW stale
    PROVE  SystemCancelled(stale) \in [DOMAIN orders -> Order]
BY DEF SystemCancelled, TypeOK, Order, Statuses

\* The steps of the market generator.
LEMMA TypeGenerator ==
    ASSUME TypeOK, GeneratorStep
    PROVE  TypeOK'
<1>1. ASSUME NEW reference \in [Instruments -> References], NEW first \in 1..MaxSequence,
             GeneratorTick(reference, first)
      PROVE  TypeOK'
  <2>. DEFINE slots == [i \in Instruments |-> first + 4 * Rank[i]]
              added == UNION {slots[i] .. (slots[i] + 3) : i \in Instruments}
              owner(s) == CHOOSE j \in Instruments : s \in slots[j] .. (slots[j] + 3)
  <2>1. \A i \in Instruments : slots[i] \in Nat
    BY ExchangeAssumption
  <2>2. added \subseteq Nat
    BY <2>1
  <2>3. ASSUME NEW s \in added
        PROVE  /\ owner(s) \in Instruments
               /\ s - slots[owner(s)] + 1 \in 1..4
    <3>1. \E j \in Instruments : s \in slots[j] .. (slots[j] + 3)
      OBVIOUS
    <3>2. owner(s) \in Instruments /\ s \in slots[owner(s)] .. (slots[owner(s)] + 3)
      BY <3>1
    <3>3. s \in Nat /\ slots[owner(s)] \in Nat
      BY <2>1, <2>2, <3>2
    <3>. HIDE DEF slots, owner
    <3>. QED  BY <3>2, <3>3
  <2>4. ASSUME NEW s \in added
        PROVE  SystemOrder(owner(s), reference[owner(s)],
                           QuoteSteps[s - slots[owner(s)] + 1]) \in Order
    <3>. HIDE DEF slots, owner, added
    <3>1. reference[owner(s)] \in Nat \ {0}
      BY <2>3, ExchangeAssumption
    <3>. QED  BY <2>3, <3>1, SystemOrderType
  <2>5. orders' = [s \in DOMAIN orders \cup added |->
                     IF s \in DOMAIN orders THEN SystemCancelled(SystemOpen)[s]
                     ELSE SystemOrder(owner(s), reference[owner(s)],
                                      QuoteSteps[s - slots[owner(s)] + 1])]
    BY <1>1 DEF GeneratorTick
  <2>. HIDE DEF slots, added, owner
  <2>6. DOMAIN orders' \subseteq Nat /\ orders' \in [DOMAIN orders' -> Order]
    BY <2>2, <2>4, <2>5, SystemCancelledType DEF TypeOK
  <2>7. market' \in [Instruments -> [reference : References, fresh : BOOLEAN]]
    BY <1>1 DEF GeneratorTick
  <2>. QED  BY <1>1, <2>6, <2>7 DEF GeneratorTick, TypeOK
<1>2. ASSUME NEW i \in Instruments, FeedStale(i)
      PROVE  TypeOK'
  BY <1>2 DEF FeedStale, TypeOK
<1>3. ASSUME CancelStaleQuotes
      PROVE  TypeOK'
  BY <1>3, SystemCancelledType DEF CancelStaleQuotes, TypeOK
<1>. QED  BY <1>1, <1>2, <1>3 DEF GeneratorStep

\* Every step keeps the shape of tables and transactions.
LEMMA TypeNext == TypeOK /\ [Next]_vars => TypeOK'
<1>. SUFFICES ASSUME TypeOK, [Next]_vars PROVE TypeOK'
  OBVIOUS
<1>1. ASSUME NEW u \in Users, UserStep(u)
      PROVE  TypeOK'
  BY <1>1, TypePlace, TypeCancel DEF UserStep
<1>2. ASSUME NEW i \in Instruments, WorkerStep(i)
      PROVE  TypeOK'
  BY <1>2, TypeTick
<1>3. CASE GeneratorStep
  BY <1>3, TypeGenerator
<1>4. CASE UNCHANGED vars
  BY <1>4 DEF vars, TypeOK
<1>. QED  BY <1>1, <1>2, <1>3, <1>4 DEF Next

\* Tables and transactions always have the shape of their columns: no step
\* makes a quantity, a price or a sequence number that the schema lacks.
THEOREM TypeCorrect == Spec => []TypeOK
<1>1. Init => TypeOK
  BY TypeInit
<1>2. TypeOK /\ [Next]_vars => TypeOK'
  BY TypeNext
<1>. QED  BY <1>1, <1>2, PTL DEF Spec

-----------------------------------------------------------------------------
(* Row locks *)

\* Rows of a tick that no step touches stay protected.
LEMMA TickHoldsKept ==
    ASSUME NEW i \in Instruments, TickHolds(tick[i], i), tick'[i] = tick[i],
           DOMAIN orders \subseteq DOMAIN orders',
           \A s \in tick[i].locked : orders'[s] = orders[s]
    PROVE  TickHolds(tick[i], i)'
BY DEF TickHolds, IsOpen

\* Rows of a cancellation that no step touches, and no tick takes, stay protected.
LEMMA CancelHoldsKept ==
    ASSUME NEW u \in Users, CancelHolds(cancel[u], u), cancel'[u] = cancel[u],
           DOMAIN orders \subseteq DOMAIN orders',
           \A s \in cancel[u].locked : orders'[s] = orders[s],
           \A s \in cancel[u].locked : \A i \in Instruments : s \notin tick'[i].locked
    PROVE  CancelHolds(cancel[u], u)'
BY DEF CancelHolds, IsOpen

\* A transaction that has not begun holds no row.
LEMMA IdleHolds ==
    /\ \A u \in Users : CancelHolds(NoCancel, u)
    /\ \A i \in Instruments : TickHolds(NoTick, i)
BY DEF CancelHolds, TickHolds, NoCancel, NoTick

\* A new order is in nobody's hands.
LEMMA LocksPlace ==
    ASSUME TypeOK, LocksHold, NEW u \in Users, NEW c \in ClientIds, NEW r \in Requests,
           NEW s \in NextSequence(u), PlaceOrder(u, c, r, s)
    PROVE  LocksHold'
<1>1. /\ DOMAIN orders \subseteq DOMAIN orders'
      /\ \A t \in DOMAIN orders : orders'[t] = orders[t]
  BY DEF PlaceOrder, NextSequence
<1>2. cancel' = cancel /\ tick' = tick
  BY DEF PlaceOrder
<1>3. ASSUME NEW v \in Users PROVE CancelHolds(cancel[v], v)'
  <2>1. \A t \in cancel[v].locked : t \in DOMAIN orders /\ \A i \in Instruments : t \notin tick[i].locked
    BY DEF LocksHold, CancelHolds
  <2>. QED  BY <1>1, <1>2, <2>1, CancelHoldsKept DEF LocksHold
<1>4. ASSUME NEW i \in Instruments PROVE TickHolds(tick[i], i)'
  <2>1. \A t \in tick[i].locked : t \in DOMAIN orders
    BY DEF LocksHold, TickHolds
  <2>. QED  BY <1>1, <1>2, <2>1, TickHoldsKept DEF LocksHold
<1>. QED  BY <1>3, <1>4 DEF LocksHold

\* A cancellation takes only rows that no tick holds, changes only its own
\* copies, and commits only rows that it holds.
LEMMA LocksCancel ==
    ASSUME TypeOK, LocksHold, NEW u \in Users,
           \/ \E chosen \in SUBSET OpenOf(u) : CancelBegin(u, chosen)
           \/ \E s \in cancel[u].todo : CancelOne(u, s)
           \/ CancelCommit(u)
           \/ CancelAbort(u)
    PROVE  LocksHold'
<1>0. /\ CancelTypeOK(cancel[u])
      /\ CancelHolds(cancel[u], u)
      /\ tick' = tick
      /\ \A v \in Users \ {u} : cancel'[v] = cancel[v]
      /\ u \in DOMAIN cancel
  BY DEF TypeOK, LocksHold, CancelBegin, CancelOne, CancelCommit, CancelAbort
<1>1. /\ DOMAIN orders' = DOMAIN orders
      /\ \A s \in DOMAIN orders : s \notin cancel[u].locked => orders'[s] = orders[s]
  BY <1>0 DEF CancelBegin, CancelOne, CancelCommit, CancelAbort, tables, Written,
              CancelTypeOK, TransactionTypeOK
<1>2. ASSUME NEW i \in Instruments PROVE TickHolds(tick[i], i)'
  <2>1. \A s \in tick[i].locked : s \in DOMAIN orders /\ s \notin cancel[u].locked
    BY <1>0 DEF LocksHold, TickHolds, CancelHolds
  <2>. QED  BY <1>0, <1>1, <2>1, TickHoldsKept DEF LocksHold
<1>3. ASSUME NEW v \in Users \ {u} PROVE CancelHolds(cancel[v], v)'
  <2>1. \A s \in cancel[v].locked :
          /\ s \in DOMAIN orders
          /\ s \notin cancel[u].locked
          /\ \A i \in Instruments : s \notin tick[i].locked
    BY <1>0 DEF LocksHold, CancelHolds
  <2>. QED  BY <1>0, <1>1, <2>1, CancelHoldsKept DEF LocksHold
<1>4. CancelHolds(cancel[u], u)'
  <2>1. ASSUME NEW chosen \in SUBSET OpenOf(u), CancelBegin(u, chosen)
        PROVE  CancelHolds(cancel[u], u)'
    <3>1. /\ cancel'[u].locked = chosen
          /\ cancel'[u].rows = [s \in chosen |-> orders[s]]
          /\ orders' = orders
      BY <1>0, <2>1 DEF CancelBegin, tables
    <3>2. ASSUME NEW s \in chosen
          PROVE  /\ s \in DOMAIN orders /\ orders[s].user = u /\ IsOpen(orders[s])
                 /\ orders[s] \in Order
                 /\ \A i \in Instruments : s \notin tick[i].locked
      BY <2>1 DEF OpenOf, CancelBegin, LockedByTick, TypeOK
    <3>. QED  BY <1>0, <3>1, <3>2 DEF CancelHolds, SameTerms, IsOpen
  <2>2. ASSUME NEW s \in cancel[u].todo, CancelOne(u, s)
        PROVE  CancelHolds(cancel[u], u)'
    <3>1. /\ cancel'[u].locked = cancel[u].locked
          /\ cancel'[u].rows = [cancel[u].rows EXCEPT ![s].status = "cancelled"]
          /\ orders' = orders
      BY <1>0, <2>2 DEF CancelOne, tables, CancelTypeOK
    <3>2. ASSUME NEW t \in cancel[u].locked
          PROVE  /\ SameTerms(cancel'[u].rows[t], cancel[u].rows[t])
                 /\ cancel'[u].rows[t].remaining = cancel[u].rows[t].remaining
      <4>1. cancel[u].rows \in [cancel[u].locked -> Order]
        BY <1>0 DEF CancelTypeOK, TransactionTypeOK
      <4>2. cancel[u].rows[t] \in Order
        BY <4>1
      <4>. QED  BY <3>1, <4>1, <4>2 DEF SameTerms, Order
    <3>. QED  BY <1>0, <3>1, <3>2 DEF CancelHolds, SameTerms, IsOpen
  <2>3. ASSUME cancel'[u] = NoCancel
        PROVE  CancelHolds(cancel[u], u)'
    BY <2>3 DEF CancelHolds, NoCancel
  <2>4. CancelCommit(u) \/ CancelAbort(u) => cancel'[u] = NoCancel
    BY <1>0 DEF CancelCommit, CancelAbort
  <2>. QED  BY <2>1, <2>2, <2>3, <2>4
<1>. QED  BY <1>2, <1>3, <1>4 DEF LocksHold

\* Two orders the matcher is about to fill have never traded with each other:
\* a recorded fill has used up one of them.
LEMMA PairIsNew ==
    ASSUME TypeOK, LocksHold, FillsSound, NEW i \in Instruments,
           NEW buy \in tick[i].buys, NEW sell \in Makers(tick[i]), TickFill(i, buy, sell)
    PROVE  \A g \in fills \cup tick[i].fills : ~SamePair(NextFill(i, buy, sell), g)
<1>1. TickTypeOK(tick[i]) /\ TickHolds(tick[i], i)
  BY DEF TypeOK, LocksHold
<1>2. buy \in tick[i].locked /\ sell \in tick[i].locked
  BY <1>1 DEF TickTypeOK, Makers
<1>3. tick[i].book[buy].remaining > 0 /\ tick[i].book[sell].remaining > 0
  BY DEF TickFill, Makers
<1>4. ASSUME NEW s \in tick[i].locked, tick[i].book[s].remaining > 0
      PROVE  tick[i].rows[s].remaining # 0 /\ orders[s].remaining # 0
  <2>0. tick[i].rows[s] \in Order /\ orders[s] \in Order
    BY <1>1 DEF TickTypeOK, TransactionTypeOK, TickHolds, TypeOK
  <2>1. tick[i].rows[s].remaining \in Nat /\ orders[s].remaining \in Nat
    BY <2>0 DEF Order
  <2>2. /\ tick[i].book[s] = BookEntry(s, tick[i].rows[s])
        /\ tick[i].rows[s].remaining <= orders[s].remaining
    BY <1>1 DEF TickHolds
  <2>3. tick[i].book[s].remaining = tick[i].rows[s].remaining
    BY <2>2 DEF BookEntry
  <2>. QED  BY <1>4, <2>1, <2>2, <2>3
<1>5. NextFill(i, buy, sell).maker = sell /\ NextFill(i, buy, sell).taker = buy
  BY DEF NextFill
<1>6. ASSUME NEW g \in fills, g.maker = sell, g.taker = buy
      PROVE  FALSE
  BY <1>2, <1>3, <1>4, <1>6 DEF FillsSound, SoundFill
<1>7. ASSUME NEW g \in tick[i].fills, g.maker = sell, g.taker = buy
      PROVE  FALSE
  BY <1>2, <1>3, <1>4, <1>7 DEF FillsSound, SoundFill
<1>. QED  BY <1>5, <1>6, <1>7 DEF SamePair

\* What a fill of q does to an order a tick holds: its version of the row has q
\* less left, and memory agrees.
Shrunk(after, before, s, q) ==
    /\ SameTerms(after.rows[s], before.rows[s])
    /\ after.rows[s].remaining = before.rows[s].remaining - q
    /\ after.rows[s].remaining <= before.rows[s].remaining
    /\ after.book[s] = BookEntry(s, after.rows[s])

UsedUp(rows, a, b) == rows[a].remaining = 0 \/ rows[b].remaining = 0

\* So every fill the matcher finds is settled, and the versions of the two rows
\* keep up with the book in memory.
LEMMA FillResult ==
    ASSUME TypeOK, LocksHold, FillsSound, NEW i \in Instruments,
           NEW buy \in tick[i].buys, NEW sell \in Makers(tick[i]), TickFill(i, buy, sell)
    PROVE  /\ buy \in tick[i].locked /\ sell \in tick[i].locked
           /\ tick'[i].phase = "matching"
           /\ tick'[i].locked = tick[i].locked
           /\ tick'[i].buys = tick[i].buys
           /\ tick'[i].fills = tick[i].fills \cup {NextFill(i, buy, sell)}
           /\ tick'[i].book = Deducted(tick[i].book, NextFill(i, buy, sell))
           /\ tick'[i].rows = [s \in tick[i].locked |->
                 IF s \in {buy, sell}
                 THEN Reduced(tick[i].rows[s], NextFill(i, buy, sell).quantity)
                 ELSE tick[i].rows[s]]
           /\ Shrunk(tick'[i], tick[i], buy, NextFill(i, buy, sell).quantity)
           /\ Shrunk(tick'[i], tick[i], sell, NextFill(i, buy, sell).quantity)
           /\ UsedUp(tick'[i].rows, buy, sell)
<1>. DEFINE t == tick[i]
            f == NextFill(i, buy, sell)
            rows == [s \in t.locked |->
                       IF s \in {buy, sell} THEN Reduced(t.rows[s], f.quantity) ELSE t.rows[s]]
<1>1. TickTypeOK(t) /\ TickHolds(t, i) /\ t.phase = "matching"
  BY DEF TypeOK, LocksHold, TickFill
<1>2. buy \in t.locked /\ sell \in t.locked
  BY <1>1 DEF TickTypeOK, Makers
<1>3. /\ f.maker = sell /\ f.taker = buy /\ f.quantity \in Nat
      /\ f.quantity <= t.book[buy].remaining
      /\ f.quantity <= t.book[sell].remaining
      /\ f.quantity = t.book[buy].remaining \/ f.quantity = t.book[sell].remaining
  BY <1>2, NextFillType DEF Fill
<1>4. f \notin fills \cup t.fills
  BY PairIsNew DEF SamePair
<1>5. t.rows \in [t.locked -> Order] /\ t.book \in [t.locked -> BookOrder]
  BY <1>1 DEF TickTypeOK, TransactionTypeOK
<1>. HIDE DEF f
<1>6. tick'[i] = ApplyFill([t EXCEPT !.book = Deducted(@, f)], f)
  BY <1>4 DEF TickFill, Settled, TypeOK, f
<1>7. /\ tick'[i].phase = "matching"
      /\ tick'[i].locked = t.locked
      /\ tick'[i].buys = t.buys
      /\ tick'[i].fills = t.fills \cup {f}
      /\ tick'[i].book = Deducted(t.book, f)
      /\ tick'[i].rows = rows
  BY <1>1, <1>3, <1>5, <1>6 DEF ApplyFill, TickTypeOK
<1>8. ASSUME NEW s \in {buy, sell}
      PROVE  /\ SameTerms(tick'[i].rows[s], t.rows[s])
             /\ tick'[i].rows[s].remaining = t.rows[s].remaining - f.quantity
             /\ tick'[i].rows[s].remaining <= t.rows[s].remaining
             /\ tick'[i].book[s] = BookEntry(s, tick'[i].rows[s])
  <2>1. /\ t.rows[s] \in Order /\ s \in t.locked
        /\ t.book[s] = BookEntry(s, t.rows[s])
        /\ f.quantity <= t.rows[s].remaining
    BY <1>1, <1>2, <1>3, <1>5 DEF TickHolds, BookEntry
  <2>2. tick'[i].rows[s] = Reduced(t.rows[s], f.quantity)
    BY <1>7, <2>1
  <2>3. Reduced(t.rows[s], f.quantity).remaining = t.rows[s].remaining - f.quantity
    BY <1>3, <2>1 DEF Reduced, Order
  <2>4. SameTerms(Reduced(t.rows[s], f.quantity), t.rows[s])
    BY <2>1 DEF Reduced, SameTerms, Order
  <2>5. tick'[i].book[s] = [t.book[s] EXCEPT !.remaining = @ - f.quantity]
    BY <1>3, <1>5, <1>7, <2>1 DEF Deducted
  <2>6. tick'[i].book[s] = BookEntry(s, tick'[i].rows[s])
    BY <2>1, <2>2, <2>3, <2>4, <2>5 DEF BookEntry, SameTerms
  <2>7. t.rows[s].remaining - f.quantity <= t.rows[s].remaining
    BY <1>3, <2>1 DEF Order
  <2>. QED  BY <2>2, <2>3, <2>4, <2>6, <2>7
<1>9. tick'[i].rows[buy].remaining = 0 \/ tick'[i].rows[sell].remaining = 0
  <2>0. t.rows[buy] \in Order /\ t.rows[sell] \in Order
    BY <1>2, <1>5
  <2>1. t.rows[buy].remaining \in Nat /\ t.rows[sell].remaining \in Nat
    BY <2>0 DEF Order
  <2>2. /\ t.book[buy] = BookEntry(buy, t.rows[buy])
        /\ t.book[sell] = BookEntry(sell, t.rows[sell])
    BY <1>1, <1>2 DEF TickHolds
  <2>3. /\ t.book[buy].remaining = t.rows[buy].remaining
        /\ t.book[sell].remaining = t.rows[sell].remaining
    BY <2>2 DEF BookEntry
  <2>. QED  BY <1>3, <1>8, <2>1, <2>3
<1>. QED  BY <1>2, <1>7, <1>8, <1>9 DEF f, Shrunk, UsedUp

\* A tick takes only open rows that no cancellation holds, changes only its own
\* versions, and commits only rows that it holds.
LEMMA LocksTick ==
    ASSUME TypeOK, LocksHold, FillsSound, NEW i \in Instruments, WorkerStep(i)
    PROVE  LocksHold'
<1>0. /\ TickTypeOK(tick[i])
      /\ TickHolds(tick[i], i)
      /\ cancel' = cancel
      /\ \A j \in Instruments \ {i} : tick'[j] = tick[j]
      /\ i \in DOMAIN tick
  BY DEF TypeOK, LocksHold, WorkerStep, TickBegin, TickLock, TickFill, TickNextBuy,
         TickCommit, TickAbort
<1>1. /\ DOMAIN orders' = DOMAIN orders
      /\ \A s \in DOMAIN orders : s \notin tick[i].locked => orders'[s] = orders[s]
  BY <1>0 DEF WorkerStep, TickBegin, TickLock, TickFill, TickNextBuy, TickCommit, TickAbort,
              tables, Written, TickTypeOK, TransactionTypeOK
<1>2. ASSUME NEW j \in Instruments \ {i} PROVE TickHolds(tick[j], j)'
  <2>1. \A s \in tick[j].locked : s \in DOMAIN orders /\ s \notin tick[i].locked
    BY <1>0 DEF LocksHold, TickHolds
  <2>. QED  BY <1>0, <1>1, <2>1, TickHoldsKept DEF LocksHold
<1>3. TickHolds(tick[i], i)' /\ (tick'[i].locked \subseteq tick[i].locked \/ TickLock(i))
  <2>1. CASE TickBegin(i)
    <3>1. tick'[i].locked = {} /\ tick'[i].fills = {}
      BY <1>0, <2>1 DEF TickBegin, NoTick
    <3>. QED  BY <3>1 DEF TickHolds
  <2>2. CASE TickLock(i)
    <3>. DEFINE locked == tick[i].seen \cap BookOf(i)
    <3>1. /\ tick'[i].phase = "matching"
          /\ tick'[i].locked = locked
          /\ tick'[i].book = [s \in locked |-> BookEntry(s, orders[s])]
          /\ tick'[i].rows = [s \in locked |-> orders[s]]
          /\ orders' = orders
      BY <1>0, <2>2 DEF TickLock, NoTick, tables
    <3>2. ASSUME NEW s \in locked
          PROVE  /\ s \in DOMAIN orders /\ orders[s].instrument = i /\ IsOpen(orders[s])
                 /\ orders[s].remaining <= orders[s].remaining
      BY DEF BookOf, TypeOK, Order
    <3>. HIDE DEF locked
    <3>. QED  BY <2>2, <3>1, <3>2 DEF TickHolds, SameTerms, IsOpen
  <2>3. ASSUME NEW buy \in tick[i].buys, NEW sell \in Makers(tick[i]), TickFill(i, buy, sell)
        PROVE  TickHolds(tick[i], i)' /\ tick'[i].locked = tick[i].locked
    <3>1. /\ tick'[i].phase = "matching"
          /\ tick'[i].locked = tick[i].locked
          /\ orders' = orders
      BY <2>3, FillResult DEF TickFill, tables
    <3>2. ASSUME NEW s \in tick[i].locked, s \notin {buy, sell}
          PROVE  /\ tick'[i].rows[s] = tick[i].rows[s]
                 /\ tick'[i].book[s] = tick[i].book[s]
      <4>1. NextFill(i, buy, sell).maker = sell /\ NextFill(i, buy, sell).taker = buy
        BY DEF NextFill
      <4>2. tick[i].book \in [tick[i].locked -> BookOrder]
        BY <1>0 DEF TickTypeOK
      <4>3. /\ tick'[i].book = Deducted(tick[i].book, NextFill(i, buy, sell))
            /\ tick'[i].rows = [t \in tick[i].locked |->
                 IF t \in {buy, sell}
                 THEN Reduced(tick[i].rows[t], NextFill(i, buy, sell).quantity)
                 ELSE tick[i].rows[t]]
        BY <2>3, FillResult
      <4>. QED  BY <3>2, <4>1, <4>2, <4>3 DEF Deducted
    <3>4. Shrunk(tick'[i], tick[i], buy, NextFill(i, buy, sell).quantity)
      BY <2>3, FillResult
    <3>5. Shrunk(tick'[i], tick[i], sell, NextFill(i, buy, sell).quantity)
      BY <2>3, FillResult
    <3>6. buy \in tick[i].locked /\ sell \in tick[i].locked
      BY <2>3, FillResult
    <3>3. ASSUME NEW s \in {buy, sell}
          PROVE  /\ SameTerms(tick'[i].rows[s], orders[s])
                 /\ tick'[i].rows[s].remaining <= orders[s].remaining
                 /\ tick'[i].book[s] = BookEntry(s, tick'[i].rows[s])
      <4>1. /\ SameTerms(tick'[i].rows[s], tick[i].rows[s])
            /\ tick'[i].rows[s].remaining <= tick[i].rows[s].remaining
            /\ tick'[i].rows[s].remaining
                 = tick[i].rows[s].remaining - NextFill(i, buy, sell).quantity
            /\ tick'[i].book[s] = BookEntry(s, tick'[i].rows[s])
            /\ buy \in tick[i].locked /\ sell \in tick[i].locked
        BY <3>4, <3>5, <3>6 DEF Shrunk
      <4>2. /\ SameTerms(tick[i].rows[s], orders[s])
            /\ tick[i].rows[s].remaining <= orders[s].remaining
            /\ tick[i].rows[s].remaining \in Nat
            /\ orders[s].remaining \in Nat
        <5>1. tick[i].rows[s] \in Order /\ orders[s] \in Order
          BY <1>0, <4>1 DEF TickHolds, TickTypeOK, TransactionTypeOK, TypeOK
        <5>. QED  BY <1>0, <4>1, <5>1 DEF TickHolds, Order
      <4>3. NextFill(i, buy, sell).quantity \in Nat
        BY <4>1, NextFillType DEF Fill
      <4>4. tick'[i].rows[s].remaining <= orders[s].remaining
        BY <4>1, <4>2, <4>3
      <4>. QED  BY <4>1, <4>2, <4>4 DEF SameTerms
    <3>. QED  BY <1>0, <3>1, <3>2, <3>3 DEF TickHolds, IsOpen
  <2>4. ASSUME NEW buy \in tick[i].buys, TickNextBuy(i, buy)
        PROVE  TickHolds(tick[i], i)' /\ tick'[i].locked = tick[i].locked
    <3>1. tick'[i] = [tick[i] EXCEPT !.buys = @ \ {buy}] /\ orders' = orders
      BY <1>0, <2>4 DEF TickNextBuy, tables
    <3>2. /\ tick'[i].phase = tick[i].phase /\ tick'[i].locked = tick[i].locked
          /\ tick'[i].fills = tick[i].fills /\ tick'[i].rows = tick[i].rows
          /\ tick'[i].book = tick[i].book
      BY <1>0, <3>1 DEF TickTypeOK
    <3>. QED  BY <1>0, <3>1, <3>2 DEF TickHolds, IsOpen
  <2>5. CASE TickCommit(i) \/ TickAbort(i)
    <3>1. tick'[i] = NoTick
      BY <1>0, <2>5 DEF TickCommit, TickAbort
    <3>. QED  BY <3>1 DEF TickHolds, NoTick
  <2>. QED  BY <2>1, <2>2, <2>3, <2>4, <2>5 DEF WorkerStep, TickHolds, TickBegin, NoTick
<1>4. ASSUME NEW u \in Users PROVE CancelHolds(cancel[u], u)'
  <2>1. \A s \in cancel[u].locked : s \in DOMAIN orders /\ \A j \in Instruments : s \notin tick[j].locked
    BY DEF LocksHold, CancelHolds
  <2>2. ASSUME NEW s \in cancel[u].locked PROVE s \notin tick'[i].locked
    <3>1. CASE tick'[i].locked \subseteq tick[i].locked
      BY <2>1, <3>1
    <3>2. CASE TickLock(i)
      <4>1. tick'[i].locked = tick[i].seen \cap BookOf(i)
        BY <1>0, <3>2 DEF TickLock, NoTick
      <4>. QED  BY <3>2, <4>1 DEF TickLock, LockedByCancel
    <3>. QED  BY <1>3, <3>1, <3>2
  <2>3. \A s \in cancel[u].locked : \A j \in Instruments : s \notin tick'[j].locked
    BY <1>0, <2>1, <2>2
  <2>. QED  BY <1>0, <1>1, <2>1, <2>3, CancelHoldsKept DEF LocksHold
<1>. QED  BY <1>0, <1>2, <1>3, <1>4 DEF LocksHold

\* The generator withdraws and inserts system orders only, and none that a tick
\* has in its hands.
LEMMA LocksGenerator ==
    ASSUME TypeOK, LocksHold, GeneratorStep
    PROVE  LocksHold'
<1>1. /\ DOMAIN orders \subseteq DOMAIN orders'
      /\ \A s \in DOMAIN orders :
           orders[s].user \in Users \/ s \in LockedByTick => orders'[s] = orders[s]
      /\ cancel' = cancel /\ tick' = tick
  <2>1. \A s \in SystemOpen : orders[s].user \notin Users
    BY ExchangeAssumption DEF SystemOpen, OpenOf
  <2>2. ASSUME NEW reference \in [Instruments -> References], NEW first \in 1..MaxSequence,
               GeneratorTick(reference, first)
        PROVE  <1>1!:
    BY <2>1, <2>2 DEF GeneratorTick, SystemCancelled
  <2>3. ASSUME NEW i \in Instruments, FeedStale(i)
        PROVE  <1>1!:
    BY <2>3 DEF FeedStale
  <2>4. ASSUME CancelStaleQuotes
        PROVE  <1>1!:
    BY <2>1, <2>4 DEF CancelStaleQuotes, SystemCancelled
  <2>. QED  BY <2>2, <2>3, <2>4 DEF GeneratorStep
<1>2. ASSUME NEW u \in Users PROVE CancelHolds(cancel[u], u)'
  <2>1. \A s \in cancel[u].locked :
          /\ s \in DOMAIN orders /\ orders[s].user = u
          /\ \A i \in Instruments : s \notin tick[i].locked
    BY DEF LocksHold, CancelHolds
  <2>. QED  BY <1>1, <2>1, CancelHoldsKept DEF LocksHold
<1>3. ASSUME NEW i \in Instruments PROVE TickHolds(tick[i], i)'
  <2>1. \A s \in tick[i].locked : s \in DOMAIN orders /\ s \in LockedByTick
    BY DEF LocksHold, TickHolds, LockedByTick
  <2>. QED  BY <1>1, <2>1, TickHoldsKept DEF LocksHold
<1>. QED  BY <1>2, <1>3 DEF LocksHold

\* Row locks do what FOR UPDATE promises, in every step.
LEMMA LocksNext ==
    ASSUME TypeOK, LocksHold, FillsSound, [Next]_vars
    PROVE  LocksHold'
<1>1. ASSUME NEW u \in Users, UserStep(u)
      PROVE  LocksHold'
  BY <1>1, LocksPlace, LocksCancel DEF UserStep
<1>2. ASSUME NEW i \in Instruments, WorkerStep(i)
      PROVE  LocksHold'
  BY <1>2, LocksTick
<1>3. CASE GeneratorStep
  BY <1>3, LocksGenerator
<1>4. CASE UNCHANGED vars
  BY <1>4 DEF vars, LocksHold, CancelHolds, TickHolds, IsOpen
<1>. QED  BY <1>1, <1>2, <1>3, <1>4 DEF Next
-----------------------------------------------------------------------------
(* Orders keep their terms *)

OrdersKept ==
    /\ DOMAIN orders \subseteq DOMAIN orders'
    /\ \A s \in DOMAIN orders :
          /\ SameTerms(orders'[s], orders[s])
          /\ orders'[s].remaining <= orders[s].remaining
          /\ ~IsOpen(orders[s]) => orders'[s] = orders[s]

\* No step touches a closed order, changes the terms of an order, or gives it
\* more to fill: a transaction commits only versions of rows that it holds.
LEMMA OrdersKeptNext ==
    ASSUME TypeOK, LocksHold, [Next]_vars
    PROVE  OrdersKept
<1>0. \A s \in DOMAIN orders : orders[s] \in Order /\ orders[s].remaining \in Nat
  BY DEF TypeOK, Order
<1>1. ASSUME orders' = orders
      PROVE  OrdersKept
  BY <1>0, <1>1 DEF OrdersKept, SameTerms
<1>2. ASSUME NEW u \in Users, NEW c \in ClientIds, NEW r \in Requests,
             NEW s \in NextSequence(u), PlaceOrder(u, c, r, s)
      PROVE  OrdersKept
  <2>1. /\ DOMAIN orders \subseteq DOMAIN orders'
        /\ \A t \in DOMAIN orders : orders'[t] = orders[t]
    BY <1>2 DEF PlaceOrder, NextSequence
  <2>. QED  BY <1>0, <2>1 DEF OrdersKept, SameTerms
<1>3. ASSUME NEW rows, DOMAIN rows \subseteq DOMAIN orders, orders' = Written(rows),
             \A s \in DOMAIN rows : /\ IsOpen(orders[s])
                                    /\ SameTerms(rows[s], orders[s])
                                    /\ rows[s].remaining <= orders[s].remaining
      PROVE  OrdersKept
  <2>1. /\ DOMAIN orders' = DOMAIN orders
        /\ \A s \in DOMAIN orders : orders'[s] = IF s \in DOMAIN rows THEN rows[s] ELSE orders[s]
    BY <1>3 DEF Written
  <2>. QED  BY <1>0, <1>3, <2>1 DEF OrdersKept, SameTerms
<1>4. ASSUME NEW u \in Users, CancelCommit(u)
      PROVE  OrdersKept
  <2>1. CancelTypeOK(cancel[u]) /\ CancelHolds(cancel[u], u)
    BY DEF TypeOK, LocksHold
  <2>2. DOMAIN cancel[u].rows = cancel[u].locked
    BY <2>1 DEF CancelTypeOK, TransactionTypeOK
  <2>3. ASSUME NEW s \in cancel[u].locked
        PROVE  /\ s \in DOMAIN orders /\ IsOpen(orders[s])
               /\ SameTerms(cancel[u].rows[s], orders[s])
               /\ cancel[u].rows[s].remaining <= orders[s].remaining
    BY <1>0, <2>1 DEF CancelHolds
  <2>. QED  BY <1>3, <1>4, <2>2, <2>3 DEF CancelCommit
<1>5. ASSUME NEW i \in Instruments, TickCommit(i)
      PROVE  OrdersKept
  <2>1. TickTypeOK(tick[i]) /\ TickHolds(tick[i], i)
    BY DEF TypeOK, LocksHold
  <2>2. DOMAIN tick[i].rows = tick[i].locked
    BY <2>1 DEF TickTypeOK, TransactionTypeOK
  <2>3. ASSUME NEW s \in tick[i].locked
        PROVE  /\ s \in DOMAIN orders /\ IsOpen(orders[s])
               /\ SameTerms(tick[i].rows[s], orders[s])
               /\ tick[i].rows[s].remaining <= orders[s].remaining
    BY <2>1 DEF TickHolds
  <2>. QED  BY <1>3, <1>5, <2>2, <2>3 DEF TickCommit
<1>6. ASSUME NEW stale \in SUBSET SystemOpen,
             DOMAIN orders \subseteq DOMAIN orders',
             \A s \in DOMAIN orders : orders'[s] = SystemCancelled(stale)[s]
      PROVE  OrdersKept
  <2>1. ASSUME NEW s \in stale
        PROVE  /\ s \in DOMAIN orders /\ IsOpen(orders[s])
               /\ orders'[s] = [orders[s] EXCEPT !.status = "cancelled"]
    BY <1>6 DEF SystemCancelled, SystemOpen, OpenOf
  <2>2. ASSUME NEW s \in stale
        PROVE  SameTerms(orders'[s], orders[s]) /\ orders'[s].remaining <= orders[s].remaining
    <3>1. orders[s] \in Order
      BY <1>0, <2>1
    <3>2. /\ SameTerms([orders[s] EXCEPT !.status = "cancelled"], orders[s])
          /\ [orders[s] EXCEPT !.status = "cancelled"].remaining = orders[s].remaining
      BY <3>1 DEF SameTerms, Order
    <3>3. orders[s].remaining <= orders[s].remaining
      <4>1. orders[s].remaining \in Nat
        BY <1>0, <2>1
      <4>. QED  BY <4>1
    <3>. QED  BY <2>1, <3>2, <3>3
  <2>3. ASSUME NEW s \in DOMAIN orders, s \notin stale
        PROVE  orders'[s] = orders[s]
    BY <1>6, <2>3 DEF SystemCancelled
  <2>4. ASSUME NEW s \in DOMAIN orders
        PROVE  /\ SameTerms(orders'[s], orders[s])
               /\ orders'[s].remaining <= orders[s].remaining
               /\ ~IsOpen(orders[s]) => orders'[s] = orders[s]
    <3>1. CASE s \in stale
      BY <2>1, <2>2, <3>1
    <3>2. CASE s \notin stale
      BY <1>0, <2>3, <3>2 DEF SameTerms
    <3>. QED  BY <3>1, <3>2
  <2>. QED  BY <1>6, <2>4 DEF OrdersKept
<1>7. ASSUME NEW reference \in [Instruments -> References], NEW first \in 1..MaxSequence,
             GeneratorTick(reference, first)
      PROVE  OrdersKept
  BY <1>6, <1>7 DEF GeneratorTick
<1>8. ASSUME CancelStaleQuotes
      PROVE  OrdersKept
  <2>1. PICK stale \in SUBSET SystemOpen : orders' = SystemCancelled(stale)
    BY <1>8 DEF CancelStaleQuotes
  <2>. QED  BY <1>6, <2>1 DEF SystemCancelled
<1>9. ASSUME NEW u \in Users, UserStep(u)
      PROVE  OrdersKept
  BY <1>1, <1>2, <1>4, <1>9 DEF UserStep, CancelBegin, CancelOne, CancelAbort, tables
<1>10. ASSUME NEW i \in Instruments, WorkerStep(i)
       PROVE  OrdersKept
  BY <1>1, <1>5, <1>10 DEF WorkerStep, TickBegin, TickLock, TickFill, TickNextBuy, TickAbort, tables
<1>11. CASE GeneratorStep
  BY <1>1, <1>7, <1>8, <1>11 DEF GeneratorStep, FeedStale
<1>. QED  BY <1>1, <1>9, <1>10, <1>11 DEF Next, vars

\* A market sell is accepted at the sentinel price and keeps it.
LEMMA SentinelNext ==
    ASSUME TypeOK, LocksHold, SentinelPrice, [Next]_vars
    PROVE  SentinelPrice'
<1>1. ASSUME DOMAIN orders' = DOMAIN orders
      PROVE  SentinelPrice'
  BY <1>1, OrdersKeptNext DEF OrdersKept, SentinelPrice, SameTerms
<1>2. ASSUME NEW u \in Users, NEW c \in ClientIds, NEW r \in Requests,
             NEW n \in NextSequence(u), PlaceOrder(u, c, r, n)
      PROVE  SentinelPrice'
  <2>1. /\ DOMAIN orders' = DOMAIN orders \cup {n}
        /\ orders'[n].side = r.side /\ orders'[n].type = r.type
        /\ orders'[n].price = AcceptedPrice(r)
    BY <1>2 DEF PlaceOrder
  <2>2. r.side = "sell" /\ r.type = "market" => AcceptedPrice(r) = 0
    BY DEF AcceptedPrice
  <2>. QED  BY <2>1, <2>2, OrdersKeptNext DEF OrdersKept, SentinelPrice, SameTerms
<1>3. ASSUME NEW reference \in [Instruments -> References], NEW first \in 1..MaxSequence,
             GeneratorTick(reference, first)
      PROVE  SentinelPrice'
  <2>1. \A s \in DOMAIN orders' : s \notin DOMAIN orders => orders'[s].type = "limit"
    BY <1>3 DEF GeneratorTick, SystemOrder
  <2>. QED  BY <2>1, OrdersKeptNext DEF OrdersKept, SentinelPrice, SameTerms
<1>4. ASSUME NEW u \in Users, UserStep(u)
      PROVE  SentinelPrice'
  BY <1>1, <1>2, <1>4
     DEF UserStep, CancelBegin, CancelOne, CancelCommit, CancelAbort, tables, Written
<1>5. ASSUME NEW i \in Instruments, WorkerStep(i)
      PROVE  SentinelPrice'
  BY <1>1, <1>5 DEF WorkerStep, TickBegin, TickLock, TickFill, TickNextBuy, TickCommit,
                    TickAbort, tables, Written
<1>6. CASE GeneratorStep
  BY <1>1, <1>3, <1>6 DEF GeneratorStep, FeedStale, CancelStaleQuotes, SystemCancelled
<1>. QED  BY <1>1, <1>4, <1>5, <1>6 DEF Next, vars
-----------------------------------------------------------------------------
(* Fills *)

\* A set of natural numbers has a least one: the sets of numbers of S up to m,
\* for m in S, are subsets of a finite set, so one of them is minimal.
LEMMA LeastNat ==
    ASSUME NEW S \in SUBSET Nat, S # {}
    PROVE  \E m \in S : \A n \in S : m <= n
<1>1. PICK a \in S : TRUE
  OBVIOUS
<1>. DEFINE T == S \cap (0 .. a)
            Upto(m) == T \cap (0 .. m)
            F == {Upto(m) : m \in T}
<1>2. IsFiniteSet(T)
  <2>1. a \in Int /\ IsFiniteSet(0 .. a) /\ T \subseteq (0 .. a)
    BY FS_Interval
  <2>. HIDE DEF T
  <2>. QED  BY <2>1, FS_Subset
<1>3. IsWellFoundedOn(StrictSubsetOrdering(T), SUBSET T)
  <2>. HIDE DEF T
  <2>1. FiniteSubsetsOf(T) = SUBSET T
    BY <1>2, FS_FiniteSubsetsOfFinite
  <2>2. IsWellFoundedOn(StrictSubsetOrdering(T), FiniteSubsetsOf(T))
    BY FS_StrictSubsetOrderingWellFounded
  <2>. QED  BY <2>1, <2>2
<1>4. F \subseteq SUBSET T /\ F # {}
  <2>1. a \in T
    BY <1>1
  <2>. QED  BY <2>1
<1>5. PICK U \in F : \A V \in F : ~ (<<V, U>> \in StrictSubsetOrdering(T))
  <2>. HIDE DEF F, T
  <2>. QED  BY <1>3, <1>4, WFMin, Zenon
<1>6. PICK m \in T : U = Upto(m)
  BY <1>5
<1>7. ASSUME NEW n \in T, n < m
      PROVE  FALSE
  <2>1. Upto(n) \in F /\ Upto(n) \subseteq U /\ m \in U /\ m \notin Upto(n)
    BY <1>6, <1>7
  <2>. QED  BY <1>4, <1>5, <2>1 DEF StrictSubsetOrdering
<1>8. \A n \in T : m <= n
  BY <1>7
<1>. QED  BY <1>8

\* Some sell is first in line while any is left: the cheapest, and the oldest of
\* those.
LEMMA FirstMaker ==
    ASSUME NEW i \in Instruments, NEW t, TickTypeOK(t), TickHolds(t, i), Makers(t) # {}
    PROVE  \E m \in Makers(t) : IsMaker(t, m)
<1>1. ASSUME NEW s \in Makers(t)
      PROVE  /\ s \in Nat /\ t.book[s].price \in Nat
             /\ t.book[s].sequence = s /\ t.book[s].side = "sell"
  <2>1. s \in t.locked /\ t.book[s].side = "sell" /\ t.book[s] = BookEntry(s, t.rows[s])
    BY DEF Makers, TickHolds
  <2>2. t.book[s] \in BookOrder /\ s \in Nat
    BY <2>1 DEF TickTypeOK, TransactionTypeOK
  <2>3. t.book[s].sequence = s
    BY <2>1 DEF BookEntry
  <2>. QED  BY <2>1, <2>2, <2>3 DEF BookOrder
<1>. DEFINE Prices == {t.book[s].price : s \in Makers(t)}
<1>2. PICK p \in Prices : \A q \in Prices : p <= q
  <2>1. Prices \in SUBSET Nat /\ Prices # {}
    BY <1>1
  <2>. HIDE DEF Prices
  <2>. QED  BY <2>1, LeastNat
<1>. DEFINE Cheapest == {s \in Makers(t) : t.book[s].price = p}
<1>3. PICK m \in Cheapest : \A n \in Cheapest : m <= n
  <2>1. Cheapest \in SUBSET Nat /\ Cheapest # {}
    BY <1>1, <1>2
  <2>. HIDE DEF Cheapest
  <2>. QED  BY <2>1, LeastNat
<1>4. ASSUME NEW s \in Makers(t) \ {m}
      PROVE  PriceTime(t.book[m], t.book[s])
  <2>1. /\ t.book[m].price = p /\ m \in Makers(t) /\ p <= t.book[s].price
        /\ p \in Nat /\ t.book[s].price \in Nat
    BY <1>1, <1>2, <1>3
  <2>2. CASE t.book[s].price = p
    <3>1. m <= s /\ m \in Nat /\ s \in Nat /\ m # s
      BY <1>1, <1>3, <2>1, <2>2
    <3>2. m < s
      BY <3>1
    <3>. QED  BY <1>1, <2>1, <2>2, <3>2 DEF PriceTime
  <2>3. CASE t.book[s].price # p
    <3>1. t.book[m].price < t.book[s].price
      BY <2>1, <2>3
    <3>. QED  BY <1>1, <2>1, <3>1 DEF PriceTime
  <2>. QED  BY <2>2, <2>3
<1>. QED  BY <1>3, <1>4 DEF IsMaker, IsFirst

\* The price of a fill is within both limits: the matcher only pairs orders that
\* cross, and a market sell's limit is the sentinel 0.
LEMMA PriceWithinLimits ==
    ASSUME TypeOK, LocksHold, SentinelPrice, BuysServed, NEW i \in Instruments,
           NEW buy \in tick[i].buys, NEW sell \in Makers(tick[i]), TickFill(i, buy, sell)
    PROVE  /\ NextFill(i, buy, sell).price <= tick[i].rows[buy].price
           /\ NextFill(i, buy, sell).price >= tick[i].rows[sell].price
<1>. DEFINE t == tick[i]
<1>1. TickTypeOK(t) /\ TickHolds(t, i)
  BY DEF TypeOK, LocksHold
<1>2. buy \in t.locked /\ sell \in t.locked
  BY <1>1 DEF TickTypeOK, Makers
<1>3. t.book[buy] \in BookOrder /\ t.book[sell] \in BookOrder /\ t.reference \in Nat
  BY <1>1, <1>2 DEF TickTypeOK
<1>4. t.book[buy] = BookEntry(buy, t.rows[buy]) /\ t.book[sell] = BookEntry(sell, t.rows[sell])
  BY <1>1, <1>2 DEF TickHolds
<1>5. t.book[buy].side = "buy" /\ t.book[sell].side = "sell"
  BY DEF BuysServed, Makers
<1>6. t.book[buy].price >= t.book[sell].price
  BY <1>5 DEF TickFill, Crosses
<1>7. t.book[sell].type = "market" => t.book[sell].price = 0
  <2>1. sell \in DOMAIN orders /\ SameTerms(t.rows[sell], orders[sell])
    BY <1>1, <1>2 DEF TickHolds
  <2>2. /\ t.book[sell].type = t.rows[sell].type /\ t.book[sell].side = t.rows[sell].side
        /\ t.book[sell].price = t.rows[sell].price
    BY <1>4 DEF BookEntry
  <2>. QED  BY <1>5, <2>1, <2>2 DEF SentinelPrice, SameTerms
<1>8. /\ t.book[buy].price \in Nat /\ t.book[sell].price \in Nat
      /\ t.book[buy].price = t.rows[buy].price /\ t.book[sell].price = t.rows[sell].price
  BY <1>3, <1>4 DEF BookEntry, BookOrder
<1>9. /\ ExecutionPrice(t.book[buy], t.book[sell], t.reference) <= t.book[buy].price
      /\ ExecutionPrice(t.book[buy], t.book[sell], t.reference) >= t.book[sell].price
  BY <1>3, <1>6, <1>7, <1>8 DEF ExecutionPrice, Smaller
<1>. QED  BY <1>8, <1>9 DEF NextFill

\* Fills stay sound while orders keep their terms and transactions their rows.
LEMMA FillsKept ==
    ASSUME FillsSound, OrdersKept, fills' = fills,
           \A s \in DOMAIN orders : orders[s].remaining = 0 => orders'[s].remaining = 0,
           \A i \in Instruments : \/ tick'[i].fills = {}
                                  \/ tick'[i].fills = tick[i].fills /\ tick'[i].rows = tick[i].rows
    PROVE  FillsSound'
<1>1. ASSUME NEW f \in fills
      PROVE  SoundFill(f, orders')
  <2>1. SoundFill(f, orders)
    BY DEF FillsSound
  <2>. QED  BY <2>1 DEF SoundFill, OrdersKept, SameTerms
<1>2. ASSUME NEW i \in Instruments, NEW f \in tick'[i].fills
      PROVE  /\ SoundFill(f, tick'[i].rows)
             /\ \A g \in tick'[i].fills : SamePair(f, g) => f = g
             /\ \A g \in fills : ~SamePair(f, g)
  BY <1>2 DEF FillsSound
<1>3. PairFilledOnce'
  BY DEF FillsSound, PairFilledOnce
<1>. QED  BY <1>1, <1>2, <1>3 DEF FillsSound
\* A new fill is sound, and the fills before it stay so: each has used up an
\* order, which the matcher does not touch again.
LEMMA FillsTickFill ==
    ASSUME TypeOK, LocksHold, SentinelPrice, FillsSound, BuysServed, NEW i \in Instruments,
           NEW buy \in tick[i].buys, NEW sell \in Makers(tick[i]), TickFill(i, buy, sell)
    PROVE  FillsSound'
<1>. DEFINE f == NextFill(i, buy, sell)
<1>1. /\ f.maker = sell /\ f.taker = buy
      /\ f.quantity \in Nat
      /\ f.price > 0
  <2>1. buy \in tick[i].locked /\ sell \in tick[i].locked
    BY FillResult
  <2>. QED  BY <2>1, NextFillType DEF NextFill, TickFill, Fill
<1>2. f.price <= tick[i].rows[buy].price /\ f.price >= tick[i].rows[sell].price
  BY PriceWithinLimits
<1>3. \A g \in fills \cup tick[i].fills : ~SamePair(f, g)
  BY PairIsNew
<1>4. fills' = fills /\ orders' = orders /\ \A j \in Instruments \ {i} : tick'[j] = tick[j]
  BY DEF TickFill, tables, TypeOK
<1>5. buy \in tick[i].locked /\ sell \in tick[i].locked
  BY FillResult
<1>6. tick'[i].fills = tick[i].fills \cup {f}
  BY FillResult
<1>7. tick'[i].rows = [s \in tick[i].locked |->
         IF s \in {buy, sell} THEN Reduced(tick[i].rows[s], f.quantity) ELSE tick[i].rows[s]]
  BY FillResult
<1>8. UsedUp(tick'[i].rows, buy, sell)
  BY FillResult
<1>9. /\ tick[i].rows \in [tick[i].locked -> Order]
      /\ DOMAIN tick[i].rows = tick[i].locked /\ DOMAIN tick'[i].rows = tick[i].locked
  BY <1>7 DEF TypeOK, TickTypeOK, TransactionTypeOK
<1>. HIDE DEF f
<1>10. ASSUME NEW s \in tick[i].locked
       PROVE  /\ tick'[i].rows[s].price = tick[i].rows[s].price
              /\ tick[i].rows[s].remaining = 0 => tick'[i].rows[s].remaining = 0
  <2>1. tick[i].rows[s] \in Order
    BY <1>9
  <2>2. /\ Reduced(tick[i].rows[s], f.quantity).price = tick[i].rows[s].price
        /\ tick[i].rows[s].remaining = 0 => Reduced(tick[i].rows[s], f.quantity).remaining = 0
    BY <1>1, <2>1 DEF Reduced, Order
  <2>. QED  BY <1>7, <2>2
<1>11. ASSUME NEW g \in tick[i].fills
       PROVE  SoundFill(g, tick'[i].rows)
  <2>1. SoundFill(g, tick[i].rows)
    BY DEF FillsSound
  <2>. QED  BY <1>9, <1>10, <2>1 DEF SoundFill
<1>12. SoundFill(f, tick'[i].rows)
  BY <1>1, <1>2, <1>5, <1>8, <1>9, <1>10 DEF SoundFill, UsedUp
<1>13. ASSUME NEW j \in Instruments, NEW g \in tick'[j].fills
       PROVE  /\ SoundFill(g, tick'[j].rows)
              /\ \A h \in tick'[j].fills : SamePair(g, h) => g = h
              /\ \A h \in fills : ~SamePair(g, h)
  <2>1. CASE j # i
    BY <1>4, <1>13, <2>1 DEF FillsSound
  <2>2. CASE j = i /\ g = f
    BY <1>3, <1>6, <1>12, <2>2 DEF SamePair
  <2>3. CASE j = i /\ g \in tick[i].fills
    BY <1>3, <1>6, <1>11, <2>3 DEF FillsSound, SamePair
  <2>. QED  BY <1>6, <1>13, <2>1, <2>2, <2>3
<1>14. PairFilledOnce' /\ \A g \in fills : SoundFill(g, orders)
  BY <1>4 DEF FillsSound, PairFilledOnce
<1>. QED  BY <1>4, <1>13, <1>14 DEF FillsSound

\* A tick commits sound fills, of pairs that nobody else can have filled: their
\* orders are locked, and another tick's orders are of another instrument.
LEMMA FillsTickCommit ==
    ASSUME TypeOK, LocksHold, FillsSound, OrdersKept, NEW i \in Instruments, TickCommit(i),
           \A s \in DOMAIN orders : orders[s].remaining = 0 => orders'[s].remaining = 0
    PROVE  FillsSound'
<1>1. /\ fills' = fills \cup tick[i].fills
      /\ orders' = Written(tick[i].rows)
      /\ tick'[i].fills = {}
      /\ \A j \in Instruments \ {i} : tick'[j] = tick[j]
  BY DEF TickCommit, NoTick, TypeOK
<1>2. DOMAIN tick[i].rows = tick[i].locked /\ tick[i].locked \subseteq DOMAIN orders
  BY DEF TypeOK, TickTypeOK, TransactionTypeOK, LocksHold, TickHolds
<1>3. ASSUME NEW f \in fills
      PROVE  SoundFill(f, orders')
  <2>1. SoundFill(f, orders)
    BY DEF FillsSound
  <2>. QED  BY <2>1 DEF SoundFill, OrdersKept, SameTerms
<1>4. ASSUME NEW f \in tick[i].fills
      PROVE  SoundFill(f, orders')
  <2>1. SoundFill(f, tick[i].rows)
    BY DEF FillsSound
  <2>2. \A s \in tick[i].locked : s \in DOMAIN orders' /\ orders'[s] = tick[i].rows[s]
    BY <1>1, <1>2 DEF Written
  <2>. QED  BY <1>2, <2>1, <2>2 DEF SoundFill
<1>5. PairFilledOnce'
  BY <1>1 DEF FillsSound, PairFilledOnce, SamePair
<1>6. ASSUME NEW j \in Instruments \ {i}, NEW f \in tick[j].fills, NEW g \in tick[i].fills
      PROVE  ~SamePair(f, g)
  <2>1. SoundFill(f, tick[j].rows) /\ SoundFill(g, tick[i].rows)
    BY DEF FillsSound
  <2>2. f.maker \in tick[j].locked /\ g.maker \in tick[i].locked
    BY <2>1 DEF SoundFill, TypeOK, TickTypeOK, TransactionTypeOK
  <2>3. orders[f.maker].instrument = j /\ orders[g.maker].instrument = i
    BY <2>2 DEF LocksHold, TickHolds
  <2>. QED  BY <2>3 DEF SamePair
<1>7. ASSUME NEW j \in Instruments, NEW f \in tick'[j].fills
      PROVE  /\ SoundFill(f, tick'[j].rows)
             /\ \A g \in tick'[j].fills : SamePair(f, g) => f = g
             /\ \A g \in fills' : ~SamePair(f, g)
  <2>1. j # i
    BY <1>1, <1>7
  <2>2. tick'[j] = tick[j] /\ f \in tick[j].fills
    BY <1>1, <1>7, <2>1
  <2>3. \A g \in fills' : ~SamePair(f, g)
    BY <1>1, <1>6, <2>1, <2>2 DEF FillsSound
  <2>. QED  BY <2>2, <2>3 DEF FillsSound
<1>. QED  BY <1>1, <1>3, <1>4, <1>5, <1>7 DEF FillsSound

\* Fills are sound in every step.
LEMMA FillsNext ==
    ASSUME TypeOK, LocksHold, SentinelPrice, FillsSound, BuysServed, [Next]_vars
    PROVE  FillsSound'
<1>1. OrdersKept
  BY OrdersKeptNext
<1>2. \A s \in DOMAIN orders : orders[s].remaining = 0 => orders'[s].remaining = 0
  <2>1. TypeOK'
    BY TypeNext
  <2>2. \A s \in DOMAIN orders : orders'[s] \in Order
    BY <1>1, <2>1 DEF TypeOK, OrdersKept
  <2>3. \A s \in DOMAIN orders : orders'[s].remaining \in Nat
    BY <2>2 DEF Order
  <2>. QED  BY <1>1, <2>3 DEF OrdersKept
<1>3. ASSUME fills' = fills, tick' = tick
      PROVE  FillsSound'
  BY <1>1, <1>2, <1>3, FillsKept
<1>4. ASSUME NEW u \in Users, UserStep(u)
      PROVE  FillsSound'
  BY <1>3, <1>4 DEF UserStep, PlaceOrder, CancelBegin, CancelOne, CancelCommit, CancelAbort, tables
<1>5. ASSUME NEW i \in Instruments, WorkerStep(i)
      PROVE  FillsSound'
  <2>1. ASSUME fills' = fills, \A j \in Instruments \ {i} : tick'[j] = tick[j],
               \/ tick'[i].fills = {}
               \/ tick'[i].fills = tick[i].fills /\ tick'[i].rows = tick[i].rows
        PROVE  FillsSound'
    BY <1>1, <1>2, <2>1, FillsKept
  <2>2. CASE TickBegin(i) \/ TickLock(i) \/ TickAbort(i)
    <3>1. fills' = fills /\ \A j \in Instruments \ {i} : tick'[j] = tick[j]
      BY <2>2 DEF TickBegin, TickLock, TickAbort, tables, TypeOK
    <3>2. tick'[i].fills = {}
      <4>1. i \in DOMAIN tick
        BY DEF TypeOK
      <4>2. TickBegin(i) => tick'[i].fills = {}
        BY <4>1 DEF TickBegin, NoTick
      <4>3. TickLock(i) => tick'[i].fills = {}
        BY <4>1 DEF TickLock, NoTick
      <4>4. TickAbort(i) => tick'[i].fills = {}
        BY <4>1 DEF TickAbort, NoTick
      <4>. QED  BY <2>2, <4>2, <4>3, <4>4
    <3>. QED  BY <2>1, <3>1, <3>2
  <2>3. ASSUME NEW buy \in tick[i].buys, TickNextBuy(i, buy)
        PROVE  FillsSound'
    <3>1. /\ fills' = fills /\ \A j \in Instruments \ {i} : tick'[j] = tick[j]
          /\ tick'[i].fills = tick[i].fills /\ tick'[i].rows = tick[i].rows
      BY <2>3 DEF TickNextBuy, tables, TypeOK, TickTypeOK
    <3>. QED  BY <2>1, <3>1
  <2>. QED  BY <1>1, <1>2, <1>5, <2>2, <2>3, FillsTickFill, FillsTickCommit DEF WorkerStep
<1>6. CASE GeneratorStep
  BY <1>3, <1>6 DEF GeneratorStep, GeneratorTick, FeedStale, CancelStaleQuotes
<1>7. CASE UNCHANGED vars
  BY <1>3, <1>7 DEF vars
<1>. QED  BY <1>4, <1>5, <1>6, <1>7 DEF Next
-----------------------------------------------------------------------------
(* Progress of a matching tick *)

\* What BuysServed and PriceTimePriority say of one tick.
Served(t) ==
    /\ \A b \in t.buys : t.book[b].side = "buy"
    /\ \A b \in t.locked \ t.buys : t.book[b].side = "buy" =>
         t.book[b].remaining = 0 \/ \A s \in Makers(t) : ~Crosses(t.book[b], t.book[s])

InPriority(t, served) ==
    \A s \in t.locked :
        t.book[s].side = t.book[served].side /\ s # served /\ PriceTime(t.book[s], t.book[served])
            => t.book[s].remaining = 0

Ordered(t) == \A f \in t.fills : InPriority(t, f.maker) /\ InPriority(t, f.taker)

\* The two invariants are these conditions of every tick.
LEMMA PerTick ==
    /\ BuysServed <=> \A i \in Instruments : Served(tick[i])
    /\ PriceTimePriority <=> \A i \in Instruments : Ordered(tick[i])
BY DEF BuysServed, Served, PriceTimePriority, Ordered, InPriority

\* The first taker and the first maker jump no queue: a buy ahead of the taker
\* has been served, so it has nothing left or does not cross what the taker
\* crosses; a sell ahead of the maker has nothing left.
LEMMA FirstInPriority ==
    ASSUME NEW i \in Instruments, TickTypeOK(tick[i]), TickHolds(tick[i], i), Served(tick[i]),
           NEW buy \in tick[i].buys, NEW sell \in Makers(tick[i]), TickFill(i, buy, sell)
    PROVE  InPriority(tick[i], buy) /\ InPriority(tick[i], sell)
<1>. DEFINE t == tick[i]
<1>1. t.buys \subseteq t.locked /\ sell \in t.locked /\ t.book \in [t.locked -> BookOrder]
  BY DEF TickTypeOK, Makers
<1>2. ASSUME NEW s \in t.locked
      PROVE  /\ t.book[s].price \in Nat /\ t.book[s].remaining \in Nat
             /\ t.book[s].sequence \in Nat
  <2>1. t.book[s] \in BookOrder
    BY <1>1
  <2>. QED  BY <2>1 DEF BookOrder
<1>3. /\ \A b \in t.buys \ {buy} : PriceTime(t.book[buy], t.book[b])
      /\ \A s \in Makers(t) \ {sell} : PriceTime(t.book[sell], t.book[s])
      /\ Crosses(t.book[buy], t.book[sell])
      /\ t.book[buy].side = "buy" /\ t.book[sell].side = "sell"
  BY DEF TickFill, IsTaker, IsMaker, IsFirst, Served, Makers
<1>4. ASSUME NEW a \in t.locked, NEW b \in t.locked, t.book[a].side = t.book[b].side,
             PriceTime(t.book[a], t.book[b]), PriceTime(t.book[b], t.book[a])
      PROVE  FALSE
  BY <1>2, <1>4 DEF PriceTime
<1>5. ASSUME NEW s \in t.locked, t.book[s].side = "buy", s # buy,
             PriceTime(t.book[s], t.book[buy])
      PROVE  t.book[s].remaining = 0
  <2>1. s \notin t.buys
    BY <1>1, <1>3, <1>4, <1>5
  <2>2. t.book[s].price >= t.book[buy].price
    BY <1>1, <1>2, <1>3, <1>5 DEF PriceTime
  <2>3. t.book[s].price >= t.book[sell].price
    BY <1>1, <1>2, <1>3, <2>2 DEF Crosses
  <2>4. Crosses(t.book[s], t.book[sell])
    BY <1>5, <2>3 DEF Crosses
  <2>. QED  BY <1>5, <2>1, <2>4 DEF Served
<1>6. ASSUME NEW s \in t.locked, t.book[s].side = "sell", s # sell,
             PriceTime(t.book[s], t.book[sell])
      PROVE  t.book[s].remaining = 0
  <2>1. s \notin Makers(t)
    BY <1>1, <1>3, <1>4, <1>6
  <2>. QED  BY <1>2, <1>6, <2>1 DEF Makers
<1>. QED  BY <1>3, <1>5, <1>6 DEF InPriority

\* A fill takes from the two orders and leaves the rest of the book alone.
LEMMA ServedFill ==
    ASSUME TypeOK, LocksHold, FillsSound, NEW i \in Instruments,
           Served(tick[i]), Ordered(tick[i]),
           NEW buy \in tick[i].buys, NEW sell \in Makers(tick[i]), TickFill(i, buy, sell)
    PROVE  Served(tick'[i]) /\ Ordered(tick'[i])
<1>1. TickTypeOK(tick[i]) /\ TickHolds(tick[i], i)
  BY DEF TypeOK, LocksHold
<1>2. tick'[i].locked = tick[i].locked /\ tick'[i].buys = tick[i].buys
  BY FillResult
<1>3. tick'[i].fills = tick[i].fills \cup {NextFill(i, buy, sell)}
  BY FillResult
<1>4. tick'[i].book = Deducted(tick[i].book, NextFill(i, buy, sell))
  BY FillResult
<1>5. buy \in tick[i].locked /\ sell \in tick[i].locked
  BY FillResult
<1>. DEFINE q == NextFill(i, buy, sell).quantity
<1>6. /\ NextFill(i, buy, sell).maker = sell /\ NextFill(i, buy, sell).taker = buy
      /\ q \in Nat
      /\ q <= tick[i].book[buy].remaining /\ q <= tick[i].book[sell].remaining
  BY <1>5, <1>1, NextFillType DEF NextFill, Fill
<1>7. tick[i].book \in [tick[i].locked -> BookOrder] /\ tick[i].buys \subseteq tick[i].locked
  BY <1>1 DEF TickTypeOK
<1>. HIDE DEF q
<1>8. ASSUME NEW s \in tick[i].locked
      PROVE  /\ tick'[i].book[s].side = tick[i].book[s].side
             /\ tick'[i].book[s].price = tick[i].book[s].price
             /\ tick'[i].book[s].sequence = tick[i].book[s].sequence
             /\ s \notin {buy, sell} => tick'[i].book[s] = tick[i].book[s]
             /\ tick[i].book[s].remaining = 0 => tick'[i].book[s].remaining = 0
             /\ tick'[i].book[s].remaining > 0 => tick[i].book[s].remaining > 0
  <2>1. tick[i].book[s] \in BookOrder
    BY <1>7
  <2>2. tick[i].book[s].remaining \in Nat
    BY <2>1 DEF BookOrder
  <2>3. CASE s \notin {buy, sell}
    <3>1. tick'[i].book[s] = tick[i].book[s]
      BY <1>4, <1>6, <1>7, <2>3 DEF Deducted
    <3>. QED  BY <3>1
  <2>4. CASE s \in {buy, sell}
    <3>1. tick'[i].book[s] = [tick[i].book[s] EXCEPT !.remaining = @ - q]
      BY <1>4, <1>6, <1>7, <2>4 DEF Deducted, q
    <3>2. /\ tick'[i].book[s].side = tick[i].book[s].side
          /\ tick'[i].book[s].price = tick[i].book[s].price
          /\ tick'[i].book[s].sequence = tick[i].book[s].sequence
          /\ tick'[i].book[s].remaining = tick[i].book[s].remaining - q
      BY <2>1, <3>1 DEF BookOrder
    <3>3. q \in Nat /\ q <= tick[i].book[s].remaining
      BY <1>6, <2>4
    <3>. QED  BY <2>2, <2>4, <3>2, <3>3
  <2>. QED  BY <2>3, <2>4
<1>9. Makers(tick'[i]) \subseteq Makers(tick[i])
  BY <1>2, <1>8 DEF Makers
<1>10. Served(tick'[i])
  <2>1. \A b \in tick[i].buys : tick'[i].book[b].side = "buy"
    BY <1>7, <1>8 DEF Served
  <2>2. ASSUME NEW b \in tick[i].locked \ tick[i].buys, tick'[i].book[b].side = "buy"
        PROVE  \/ tick'[i].book[b].remaining = 0
               \/ \A s \in Makers(tick'[i]) : ~Crosses(tick'[i].book[b], tick'[i].book[s])
    <3>1. tick[i].book[b].side = "buy"
      BY <1>8, <2>2
    <3>2. CASE tick[i].book[b].remaining = 0
      BY <1>8, <3>2
    <3>3. CASE \A s \in Makers(tick[i]) : ~Crosses(tick[i].book[b], tick[i].book[s])
      <4>1. ASSUME NEW s \in Makers(tick'[i])
            PROVE  ~Crosses(tick'[i].book[b], tick'[i].book[s])
        <5>1. s \in Makers(tick[i]) /\ s \in tick[i].locked
          BY <1>9 DEF Makers
        <5>2. ~Crosses(tick[i].book[b], tick[i].book[s])
          BY <3>3, <5>1
        <5>. QED  BY <1>8, <5>1, <5>2 DEF Crosses
      <4>. QED  BY <4>1
    <3>. QED  BY <2>2, <3>1, <3>2, <3>3 DEF Served
  <2>. QED  BY <1>2, <2>1, <2>2 DEF Served
<1>11. ASSUME NEW served \in tick[i].locked, InPriority(tick[i], served)
       PROVE  InPriority(tick'[i], served)
  <2>1. ASSUME NEW s \in tick[i].locked
        PROVE  PriceTime(tick'[i].book[s], tick'[i].book[served])
                 <=> PriceTime(tick[i].book[s], tick[i].book[served])
    BY <1>8 DEF PriceTime
  <2>. QED  BY <1>2, <1>8, <1>11, <2>1 DEF InPriority
<1>12. \A f \in tick[i].fills : f.maker \in tick[i].locked /\ f.taker \in tick[i].locked
  <2>1. DOMAIN tick[i].rows = tick[i].locked
    BY <1>1 DEF TickTypeOK, TransactionTypeOK
  <2>. QED  BY <2>1 DEF FillsSound, SoundFill
<1>13. ASSUME NEW f \in tick'[i].fills
       PROVE  InPriority(tick'[i], f.maker) /\ InPriority(tick'[i], f.taker)
  <2>1. CASE f \in tick[i].fills
    BY <1>11, <1>12, <2>1 DEF Ordered
  <2>2. CASE f = NextFill(i, buy, sell)
    BY <1>1, <1>5, <1>6, <1>11, <2>2, FirstInPriority
  <2>. QED  BY <1>3, <2>1, <2>2
<1>. QED  BY <1>10, <1>13 DEF Ordered

\* A buy is passed over only when nothing is left of it, or when the first sell
\* does not cross it: then no sell does.
LEMMA ServedNextBuy ==
    ASSUME TypeOK, LocksHold, NEW i \in Instruments,
           Served(tick[i]), Ordered(tick[i]),
           NEW buy \in tick[i].buys, TickNextBuy(i, buy)
    PROVE  Served(tick'[i]) /\ Ordered(tick'[i])
<1>1. TickTypeOK(tick[i]) /\ TickHolds(tick[i], i)
  BY DEF TypeOK, LocksHold
<1>2. /\ tick'[i].buys = tick[i].buys \ {buy} /\ tick'[i].locked = tick[i].locked
      /\ tick'[i].book = tick[i].book /\ tick'[i].fills = tick[i].fills
  BY <1>1 DEF TickNextBuy, TypeOK, TickTypeOK
<1>3. Makers(tick'[i]) = Makers(tick[i])
  BY <1>2 DEF Makers
<1>4. \/ tick[i].book[buy].remaining = 0
      \/ \A s \in Makers(tick[i]) : ~Crosses(tick[i].book[buy], tick[i].book[s])
  <2>1. SUFFICES ASSUME tick[i].book[buy].remaining # 0, NEW s \in Makers(tick[i])
                 PROVE  ~Crosses(tick[i].book[buy], tick[i].book[s])
    OBVIOUS
  <2>2. PICK m \in Makers(tick[i]) : IsMaker(tick[i], m)
    BY <1>1, <2>1, FirstMaker
  <2>3. /\ tick[i].book[buy] \in BookOrder
        /\ tick[i].book[m] \in BookOrder
        /\ tick[i].book[s] \in BookOrder
    BY <1>1, <2>1, <2>2 DEF TickTypeOK, Makers
  <2>4. /\ tick[i].book[buy].price \in Nat /\ tick[i].book[buy].remaining \in Nat
        /\ tick[i].book[m].price \in Nat /\ tick[i].book[s].price \in Nat
        /\ tick[i].book[buy].side = "buy"
        /\ tick[i].book[m].side = "sell" /\ tick[i].book[s].side = "sell"
    BY <2>3 DEF BookOrder, Makers, Served
  <2>5. ~Crosses(tick[i].book[buy], tick[i].book[m])
    BY <2>1, <2>2, <2>4 DEF TickNextBuy
  <2>6. tick[i].book[m].price <= tick[i].book[s].price
    BY <2>2, <2>4 DEF IsMaker, IsFirst, PriceTime
  <2>. QED  BY <2>4, <2>5, <2>6 DEF Crosses
<1>5. Served(tick'[i])
  BY <1>2, <1>3, <1>4 DEF Served
<1>6. Ordered(tick'[i])
  BY <1>2 DEF Ordered, InPriority
<1>. QED  BY <1>5, <1>6

\* A tick that holds no order has none to serve.
LEMMA ServedIdle ==
    ASSUME NEW t, t.locked = {}, t.buys = {}, t.fills = {}
    PROVE  Served(t) /\ Ordered(t)
BY DEF Served, Ordered

\* No step passes a buy over or jumps the queue.
LEMMA ServedNext ==
    ASSUME TypeOK, LocksHold, FillsSound, BuysServed, PriceTimePriority, [Next]_vars
    PROVE  BuysServed' /\ PriceTimePriority'
<1>0. \A i \in Instruments : Served(tick[i]) /\ Ordered(tick[i])
  BY PerTick
<1>1. ASSUME NEW i \in Instruments, WorkerStep(i)
      PROVE  Served(tick'[i]) /\ Ordered(tick'[i])
  <2>0. i \in DOMAIN tick /\ TickTypeOK(tick[i])
    BY DEF TypeOK
  <2>1. CASE TickBegin(i)
    <3>1. tick'[i].locked = {} /\ tick'[i].buys = {} /\ tick'[i].fills = {}
      BY <2>0, <2>1 DEF TickBegin, NoTick
    <3>. QED  BY <3>1, ServedIdle
  <2>2. CASE TickLock(i)
    <3>. DEFINE locked == tick[i].seen \cap BookOf(i)
    <3>1. /\ tick'[i].locked = locked
          /\ tick'[i].buys = {s \in locked : orders[s].side = "buy"}
          /\ tick'[i].book = [s \in locked |-> BookEntry(s, orders[s])]
          /\ tick'[i].fills = {}
      BY <2>0, <2>2 DEF TickLock, NoTick
    <3>. HIDE DEF locked
    <3>2. \A s \in locked : tick'[i].book[s].side = orders[s].side
      BY <3>1 DEF BookEntry
    <3>. QED  BY <3>1, <3>2 DEF Served, Ordered
  <2>3. CASE TickCommit(i) \/ TickAbort(i)
    <3>1. tick'[i] = NoTick
      BY <2>0, <2>3 DEF TickCommit, TickAbort
    <3>2. tick'[i].locked = {} /\ tick'[i].buys = {} /\ tick'[i].fills = {}
      BY <3>1 DEF NoTick
    <3>. QED  BY <3>2, ServedIdle
  <2>. QED  BY <1>0, <1>1, <2>1, <2>2, <2>3, ServedFill, ServedNextBuy DEF WorkerStep
<1>2. ASSUME NEW i \in Instruments, WorkerStep(i), NEW j \in Instruments \ {i}
      PROVE  tick'[j] = tick[j]
  BY <1>2 DEF WorkerStep, TickBegin, TickLock, TickFill, TickNextBuy, TickCommit, TickAbort, TypeOK
<1>3. CASE tick' = tick
  BY <1>0, <1>3 DEF BuysServed, PriceTimePriority, Makers
<1>4. ASSUME NEW i \in Instruments, WorkerStep(i)
      PROVE  BuysServed' /\ PriceTimePriority'
  <2>1. \A j \in Instruments : Served(tick'[j]) /\ Ordered(tick'[j])
    BY <1>0, <1>1, <1>2, <1>4
  <2>2. BuysServed'
    BY <2>1 DEF BuysServed, Served, Makers
  <2>3. PriceTimePriority'
    BY <2>1 DEF PriceTimePriority, Ordered, InPriority
  <2>. QED  BY <2>2, <2>3
<1>5. ASSUME NEW u \in Users, UserStep(u)
      PROVE  tick' = tick
  BY <1>5 DEF UserStep, PlaceOrder, CancelBegin, CancelOne, CancelCommit, CancelAbort
<1>6. GeneratorStep \/ UNCHANGED vars => tick' = tick
  BY DEF GeneratorStep, GeneratorTick, FeedStale, CancelStaleQuotes, vars
<1>. QED  BY <1>3, <1>4, <1>5, <1>6 DEF Next

-----------------------------------------------------------------------------
(* The invariant of the book, and what follows from it *)

\* Nothing is open when the exchange starts.
LEMMA BookInit == Init => BookInv
<1>. SUFFICES ASSUME Init PROVE BookInv
  OBVIOUS
<1>1. TypeOK
  BY TypeInit
<1>2. LocksHold
  <2>1. /\ \A u \in Users : cancel[u] = NoCancel
        /\ \A i \in Instruments : tick[i] = NoTick
    BY DEF Init
  <2>. QED  BY <2>1, IdleHolds DEF LocksHold
<1>3. /\ \A i \in Instruments : /\ tick[i].locked = {} /\ tick[i].buys = {}
                                /\ tick[i].fills = {}
      /\ fills = {} /\ DOMAIN orders = {}
  BY DEF Init, NoTick, Empty
<1>4. SentinelPrice /\ FillsSound
  BY <1>3 DEF SentinelPrice, FillsSound, PairFilledOnce
<1>5. BuysServed /\ PriceTimePriority
  BY <1>3, ServedIdle, PerTick
<1>. QED  BY <1>1, <1>2, <1>4, <1>5 DEF BookInv

\* Every step keeps it.
LEMMA BookNext == BookInv /\ [Next]_vars => BookInv'
<1>. SUFFICES ASSUME BookInv, [Next]_vars PROVE BookInv'
  OBVIOUS
<1>1. /\ TypeOK /\ LocksHold /\ SentinelPrice
      /\ FillsSound /\ BuysServed /\ PriceTimePriority
  BY DEF BookInv
<1>2. TypeOK'
  BY <1>1, TypeNext
<1>3. LocksHold'
  BY <1>1, LocksNext
<1>4. SentinelPrice'
  BY <1>1, SentinelNext
<1>5. FillsSound'
  BY <1>1, FillsNext
<1>6. BuysServed' /\ PriceTimePriority'
  BY <1>1, ServedNext
<1>. QED  BY <1>2, <1>3, <1>4, <1>5, <1>6 DEF BookInv

\* Row locks protect every open transaction, fills are sound, and no buy is
\* passed over, in every state the exchange reaches.
THEOREM BookInvariance == Spec => []BookInv
BY BookInit, BookNext, PTL DEF Spec

\* Nobody trades at a price worse than the limit accepted by place_order, and
\* the sentinel price of a market sell is never an execution price.
THEOREM WithinLimits == Spec => []FillsWithinLimits
<1>1. BookInv => FillsWithinLimits
  BY DEF BookInv, FillsSound, SoundFill, FillsWithinLimits
<1>. QED  BY <1>1, BookInvariance, PTL

\* Two orders trade with each other at most once over all ticks, so INSERT ...
\* ON CONFLICT DO NOTHING never skips a fill whose quantity has been deducted.
THEOREM OnePairOneFill == Spec => []PairFilledOnce
<1>1. BookInv => PairFilledOnce
  BY DEF BookInv, FillsSound
<1>. QED  BY <1>1, BookInvariance, PTL

\* A tick never serves an order while one ahead of it, on the same side, still
\* has something to fill.
THEOREM NoQueueJumping == Spec => []PriceTimePriority
<1>1. BookInv => PriceTimePriority
  BY DEF BookInv
<1>. QED  BY <1>1, BookInvariance, PTL

\* A tick that has gone through its buys leaves no two orders that cross.
THEOREM NothingCrosses == Spec => []BookUncrossed
<1>1. BookInv => BookUncrossed
  <2>. SUFFICES ASSUME BookInv, NEW i \in Instruments, tick[i].buys = {},
                       NEW b \in DOMAIN tick[i].book, NEW s \in DOMAIN tick[i].book,
                       tick[i].book[b].side = "buy", tick[i].book[s].side = "sell",
                       Crosses(tick[i].book[b], tick[i].book[s]),
                       tick[i].book[s].remaining # 0
                PROVE  tick[i].book[b].remaining = 0
    BY DEF BookUncrossed
  <2>1. TickTypeOK(tick[i]) /\ BuysServed
    BY DEF BookInv, TypeOK
  <2>2. tick[i].book \in [tick[i].locked -> BookOrder]
    BY <2>1 DEF TickTypeOK
  <2>3. tick[i].book[s] \in BookOrder /\ b \in tick[i].locked /\ s \in tick[i].locked
    BY <2>2
  <2>4. tick[i].book[s].remaining > 0
    BY <2>3 DEF BookOrder
  <2>. QED  BY <2>1, <2>3, <2>4 DEF BuysServed, Makers
<1>. QED  BY <1>1, BookInvariance, PTL

\* An order that a tick or a cancellation has closed is never written again, so
\* no reservation is released twice and nothing is filled after it is cancelled.
THEOREM ClosedIsFinal == Spec => ClosedStaysClosed
<1>1. BookInv /\ [Next]_vars
        => [\A s \in DOMAIN orders : ~IsOpen(orders[s]) => orders'[s] = orders[s]]_vars
  BY OrdersKeptNext DEF BookInv, OrdersKept
<1>. QED  BY <1>1, BookInvariance, PTL DEF Spec, ClosedStaysClosed

-----------------------------------------------------------------------------
(* Arithmetic: how far roundings can drift apart *)

\* The rounding of balance_amount is off by at most a half.
LEMMA RoundBounds ==
    ASSUME NEW n \in Nat, NEW d \in Nat \ {0}
    PROVE  /\ RoundHalfAway(n, d) \in Nat
           /\ 2 * (d * RoundHalfAway(n, d)) <= 2 * n + d
           /\ 2 * n + d < 2 * (d * RoundHalfAway(n, d)) + 2 * d
<1>. DEFINE a == 2 * n + d
            b == 2 * d
            r == a \div b
<1>1. a \in Nat /\ b \in Nat \ {0}
  OBVIOUS
<1>2. \A x \in Nat, y \in Nat \ {0} :
        x \div y \in Nat /\ y * (x \div y) <= x /\ x < y * (x \div y) + y
  OBVIOUS
<1>. HIDE DEF a, b
<1>3. r \in Nat /\ b * r <= a /\ a < b * r + b
  BY <1>1, <1>2
<1>. HIDE DEF r
<1>4. b * r = 2 * (d * r)
  BY <1>3 DEF b
<1>5. r \in Nat /\ 2 * (d * r) <= 2 * n + d /\ 2 * n + d < 2 * (d * r) + 2 * d
  BY <1>3, <1>4 DEF a, b
<1>. QED  BY <1>5 DEF RoundHalfAway, a, b, r

\* d times a difference is small only if the difference is.
LEMMA ScaledLess ==
    ASSUME NEW d \in Nat \ {0}, NEW x \in Int, NEW y \in Int, d * x < d * y
    PROVE  x < y
<1>1. CASE x >= y
  <2>1. x - y >= 0 /\ d > 0 /\ x - y \in Int
    BY <1>1
  <2>2. d * (x - y) >= 0
    BY <2>1
  <2>3. d * (x - y) = d * x - d * y
    OBVIOUS
  <2>. QED  BY <2>2, <2>3
<1>. QED  BY <1>1

\* More rounds to no less.
LEMMA RoundMonotone ==
    ASSUME NEW m \in Nat, NEW n \in Nat, m <= n, NEW d \in Nat \ {0}
    PROVE  RoundHalfAway(m, d) <= RoundHalfAway(n, d)
<1>. DEFINE x == RoundHalfAway(m, d)
            y == RoundHalfAway(n, d)
<1>1. x \in Nat /\ y \in Nat /\ 2 * (d * x) <= 2 * m + d /\ 2 * n + d < 2 * (d * y) + 2 * d
  BY RoundBounds
<1>. HIDE DEF x, y
<1>2. d * x \in Int /\ d * y \in Int /\ d * (y + 1) = d * y + d
  BY <1>1
<1>3. d * x < d * (y + 1)
  BY <1>1, <1>2
<1>4. x < y + 1
  BY <1>1, <1>3, ScaledLess
<1>. QED  BY <1>1, <1>4 DEF x, y

\* Two parts round to at most one unit more than the whole.
LEMMA RoundSplit ==
    ASSUME NEW m \in Nat, NEW n \in Nat, NEW d \in Nat \ {0}
    PROVE  RoundHalfAway(m, d) + RoundHalfAway(n, d) <= RoundHalfAway(m + n, d) + 1
<1>. DEFINE x == RoundHalfAway(m, d)
            y == RoundHalfAway(n, d)
            z == RoundHalfAway(m + n, d)
<1>0. m + n \in Nat
  OBVIOUS
<1>1. /\ x \in Nat /\ y \in Nat /\ z \in Nat
      /\ 2 * (d * x) <= 2 * m + d /\ 2 * (d * y) <= 2 * n + d
  BY <1>0, RoundBounds
<1>2. 2 * (m + n) + d < 2 * (d * z) + 2 * d
  BY <1>0, RoundBounds
<1>. HIDE DEF x, y, z
<1>3. /\ d * x \in Int /\ d * y \in Int /\ d * z \in Int
      /\ d * (2 * (x + y)) = 2 * (d * x) + 2 * (d * y)
      /\ d * (2 * z + 3) = 2 * (d * z) + 3 * d
  BY <1>1
<1>4. d * (2 * (x + y)) < d * (2 * z + 3)
  BY <1>1, <1>2, <1>3
<1>5. 2 * (x + y) < 2 * z + 3
  BY <1>1, <1>4, ScaledLess
<1>. QED  BY <1>1, <1>5 DEF x, y, z

\* Nothing is reserved for nothing.
LEMMA NothingReserved ==
    ASSUME NEW p \in Nat
    PROVE  BalanceAmount(0, p) = 0
<1>1. 0 * p = 0 /\ Scale \in Nat \ {0}
  BY ScaleAssumption
<1>2. RoundHalfAway(0, Scale) = 0
  <2>. DEFINE x == RoundHalfAway(0, Scale)
  <2>1. x \in Nat /\ 2 * (Scale * x) <= 2 * 0 + Scale
    BY <1>1, RoundBounds
  <2>. HIDE DEF x
  <2>2. Scale * x < Scale * 1
    BY <1>1, <2>1
  <2>3. x < 1
    BY <1>1, <2>1, <2>2, ScaledLess
  <2>. QED  BY <2>1, <2>3 DEF x
<1>. QED  BY <1>1, <1>2 DEF BalanceAmount

\* The unrounded 5% cap and the column's differ by half a unit, so what the two
\* cost differs by less than a unit and half a unit for every coin.
LEMMA CapRounding ==
    ASSUME NEW q \in Nat, NEW reference \in Nat \ {0}
    PROVE  LET d == MarketBuyReserve(q, reference) - BalanceAmount(q, MarketBuyCap(reference))
           IN  /\ d \in Int
               /\ 2 * Scale * d < q + 2 * Scale
               /\ -(2 * Scale * d) < q + 2 * Scale
<1>. DEFINE n == q * reference
            cap == RoundHalfAway(reference * 105, 100)
            m == q * cap
            x == RoundHalfAway(n * 105, 100 * Scale)
            y == RoundHalfAway(m, Scale)
<1>1. n \in Nat /\ n * 105 \in Nat /\ Scale \in Nat \ {0} /\ 100 * Scale \in Nat \ {0}
      /\ reference * 105 \in Nat
  BY ScaleAssumption
<1>2. cap \in Nat /\ 200 * cap <= 210 * reference + 100 /\ 210 * reference < 200 * cap + 100
  <2>1. /\ cap \in Nat /\ 2 * (100 * cap) <= 2 * (reference * 105) + 100
        /\ 2 * (reference * 105) + 100 < 2 * (100 * cap) + 2 * 100
    BY <1>1, RoundBounds
  <2>. HIDE DEF cap
  <2>. QED  BY <2>1
<1>3. m \in Nat
  <2>. HIDE DEF cap
  <2>. QED  BY <1>2
<1>4. /\ x \in Nat /\ 2 * ((100 * Scale) * x) <= 2 * (n * 105) + 100 * Scale
      /\ 2 * (n * 105) + 100 * Scale < 2 * ((100 * Scale) * x) + 2 * (100 * Scale)
  BY <1>1, RoundBounds
<1>5. y \in Nat /\ 2 * (Scale * y) <= 2 * m + Scale /\ 2 * m + Scale < 2 * (Scale * y) + 2 * Scale
  BY <1>1, <1>3, RoundBounds
<1>6. 200 * m <= 210 * n + 100 * q /\ 210 * n <= 200 * m + 100 * q
  <2>. HIDE DEF cap
  <2>. DEFINE above == 210 * reference + 100 - 200 * cap
              below == 200 * cap + 100 - 210 * reference
  <2>1. above \in Nat /\ below \in Nat
    BY <1>2
  <2>2. q * above \in Nat /\ q * below \in Nat
    BY <2>1
  <2>3. q * above = 210 * n + 100 * q - 200 * m /\ q * below = 200 * m + 100 * q - 210 * n
    BY <1>2
  <2>. HIDE DEF n, m, above, below
  <2>. QED  BY <1>1, <1>3, <2>2, <2>3
<1>7. MarketBuyReserve(q, reference) = x /\ BalanceAmount(q, MarketBuyCap(reference)) = y
  BY DEF MarketBuyReserve, BalanceAmount, MarketBuyCap
<1>. HIDE DEF n, cap, m, x, y
<1>8. /\ Scale * x \in Int /\ Scale * y \in Int /\ (100 * Scale) * x = 100 * (Scale * x)
      /\ 2 * Scale * (x - y) = 2 * (Scale * x) - 2 * (Scale * y)
  BY <1>1, <1>4, <1>5
<1>9. 2 * Scale * (x - y) < q + 2 * Scale /\ -(2 * Scale * (x - y)) < q + 2 * Scale
  <2>. DEFINE a == Scale * x
              b == Scale * y
  <2>1. /\ 200 * a <= 210 * n + 100 * Scale /\ 210 * n < 200 * a + 100 * Scale
        /\ 2 * b <= 2 * m + Scale /\ 2 * m < 2 * b + Scale
        /\ a \in Int /\ b \in Int
    BY <1>1, <1>3, <1>4, <1>5, <1>8
  <2>. HIDE DEF a, b
  <2>2. 2 * a - 2 * b < q + 2 * Scale /\ 2 * b - 2 * a < q + 2 * Scale
    BY <1>1, <1>3, <1>6, <2>1
  <2>3. 2 * Scale * (x - y) = 2 * a - 2 * b
    BY <1>8 DEF a, b
  <2>4. -(2 * a - 2 * b) = 2 * b - 2 * a
    BY <2>1
  <2>. QED  BY <2>2, <2>3, <2>4
<1>. QED  BY <1>4, <1>5, <1>7, <1>9

\* A partial fill spends at most one unit more than it releases.
LEMMA FillDust ==
    ASSUME NEW remaining \in Nat, NEW q \in Nat, q <= remaining,
           NEW limit \in Nat, NEW price \in Nat, price <= limit
    PROVE  BalanceAmount(remaining, limit) - BalanceAmount(remaining - q, limit)
             - BalanceAmount(q, price) >= -1
<1>. DEFINE rest == remaining - q
<1>1. rest \in Nat /\ rest * limit \in Nat /\ q * limit \in Nat /\ q * price \in Nat
      /\ Scale \in Nat \ {0}
  BY ScaleAssumption
<1>2. remaining * limit = rest * limit + q * limit
  OBVIOUS
<1>3. q * price <= q * limit
  <2>1. limit - price \in Nat
    OBVIOUS
  <2>2. q * (limit - price) \in Nat
    BY <2>1
  <2>3. q * (limit - price) = q * limit - q * price
    OBVIOUS
  <2>. QED  BY <1>1, <2>2, <2>3
<1>4. RoundHalfAway(q * price, Scale) <= RoundHalfAway(q * limit, Scale)
  BY <1>1, <1>3, RoundMonotone
<1>5. RoundHalfAway(rest * limit, Scale) + RoundHalfAway(q * limit, Scale)
        <= RoundHalfAway(rest * limit + q * limit, Scale) + 1
  BY <1>1, RoundSplit
<1>6. /\ RoundHalfAway(q * price, Scale) \in Nat
      /\ RoundHalfAway(q * limit, Scale) \in Nat
      /\ RoundHalfAway(rest * limit, Scale) \in Nat
      /\ RoundHalfAway(rest * limit + q * limit, Scale) \in Nat
  <2>1. \A n \in Nat : RoundHalfAway(n, Scale) \in Nat
    BY <1>1, RoundBounds
  <2>2. rest * limit + q * limit \in Nat
    BY <1>1
  <2>. QED  BY <1>1, <2>1, <2>2
<1>7. BalanceAmount(remaining, limit) = RoundHalfAway(rest * limit + q * limit, Scale)
  BY <1>2 DEF BalanceAmount
<1>8. /\ BalanceAmount(remaining - q, limit) = RoundHalfAway(rest * limit, Scale)
      /\ BalanceAmount(q, price) = RoundHalfAway(q * price, Scale)
  BY DEF BalanceAmount
<1>. HIDE DEF rest
<1>. QED  BY <1>4, <1>5, <1>6, <1>7, <1>8

-----------------------------------------------------------------------------
(* Tables of sums *)

\* Induction on natural numbers, as a fact about a set.
LEMMA NatSet ==
    ASSUME NEW X, 0 \in X, \A n \in Nat : n \in X => n + 1 \in X
    PROVE  \A n \in Nat : n \in X
<1>. SUFFICES ASSUME NEW k \in Nat, k \notin X PROVE FALSE
  OBVIOUS
<1>1. PICK m \in Nat \ X : \A n \in Nat \ X : m <= n
  BY LeastNat
<1>2. m - 1 \in Nat /\ m - 1 \in X
  <2>1. m # 0 /\ m - 1 \in Nat
    BY <1>1
  <2>. QED  BY <1>1, <2>1
<1>3. (m - 1) + 1 = m
  BY <1>1
<1>. QED  BY <1>1, <1>2, <1>3

\* How the community modules add up: an element is chosen, and a table of the sums
\* of all subsets is defined by recursion.
Chosen(T) == CHOOSE x \in T : TRUE
SumStep(f, g, T) == IF T = {} THEN 0 ELSE f[Chosen(T)] + g[T \ {Chosen(T)}]
Partial(f, S) == CHOOSE g : g = [T \in SUBSET S |-> SumStep(f, g, T)]

\* SumFunctionOnSet unfolds to an entry of that table.
LEMMA SumIsPartial == \A f, S : SumFunctionOnSet(f, S) = Partial(f, S)[S]
BY DEF SumFunctionOnSet, FoldFunctionOnSet, MapThenFoldSet, Partial, SumStep, Chosen

\* A set without one of its elements has one element less.
LEMMA SmallerSet ==
    ASSUME NEW T, IsFiniteSet(T), T # {}, NEW x \in T
    PROVE  /\ Chosen(T) \in T
           /\ IsFiniteSet(T \ {x})
           /\ Cardinality(T \ {x}) \in Nat
           /\ Cardinality(T) = Cardinality(T \ {x}) + 1
<1>1. Chosen(T) \in T
  BY DEF Chosen
<1>2. IsFiniteSet(T \ {x}) /\ Cardinality(T \ {x}) = Cardinality(T) - 1
  BY FS_RemoveElement
<1>3. Cardinality(T) \in Nat /\ Cardinality(T \ {x}) \in Nat
  BY <1>2, FS_CardinalityType
<1>. QED  BY <1>1, <1>2, <1>3

\* There is such a table: those for subsets of at most n elements extend each other.
LEMMA PartialExists ==
    ASSUME NEW f, NEW S, IsFiniteSet(S)
    PROVE  \A T \in SUBSET S : Partial(f, S)[T] = SumStep(f, Partial(f, S), T)
<1>. DEFINE Small(n) == {T \in SUBSET S : Cardinality(T) <= n}
            X == {n \in Nat : \E g : g = [T \in Small(n) |-> SumStep(f, g, T)]}
<1>0. \A T \in SUBSET S : IsFiniteSet(T) /\ Cardinality(T) \in Nat /\ Cardinality(T) <= Cardinality(S)
  BY FS_Subset, FS_CardinalityType
<1>1. 0 \in X
  <2>. DEFINE g == [T \in Small(0) |-> 0]
  <2>1. \A T \in Small(0) : T = {}
    <3>1. \A T \in Small(0) : Cardinality(T) = 0
      BY <1>0
    <3>. QED  BY <1>0, <3>1, FS_EmptySet
  <2>2. g = [T \in Small(0) |-> SumStep(f, g, T)]
    BY <2>1 DEF SumStep
  <2>. HIDE DEF g, Small
  <2>. QED  BY <2>2
<1>2. ASSUME NEW n \in Nat, n \in X
      PROVE  n + 1 \in X
  <2>1. PICK g : g = [T \in Small(n) |-> SumStep(f, g, T)]
    BY <1>2
  <2>. DEFINE h == [T \in Small(n + 1) |-> SumStep(f, g, T)]
  <2>2. ASSUME NEW T \in Small(n + 1)
        PROVE  SumStep(f, g, T) = SumStep(f, h, T)
    <3>1. CASE T = {}
      BY <3>1 DEF SumStep
    <3>2. CASE T # {}
      <4>. DEFINE U == T \ {Chosen(T)}
      <4>1. U \in SUBSET S /\ Cardinality(T) = Cardinality(U) + 1 /\ Cardinality(U) \in Nat
        BY <1>0, <3>2, SmallerSet
      <4>2. Cardinality(U) <= n
        BY <4>1
      <4>3. U \in Small(n) /\ U \in Small(n + 1)
        BY <4>1, <4>2
      <4>. HIDE DEF Small, U
      <4>4. g[U] = SumStep(f, g, U)
        BY <2>1, <4>3
      <4>5. h[U] = SumStep(f, g, U)
        BY <4>3
      <4>. QED  BY <3>2, <4>4, <4>5 DEF SumStep, U
    <3>. QED  BY <3>1, <3>2
  <2>3. h = [T \in Small(n + 1) |-> SumStep(f, h, T)]
    BY <2>2
  <2>. HIDE DEF h, Small
  <2>. QED  BY <2>3
<1>3. Cardinality(S) \in X
  <2>. HIDE DEF X
  <2>1. Cardinality(S) \in Nat
    BY FS_CardinalityType
  <2>. QED  BY <1>1, <1>2, <2>1, NatSet
<1>4. Small(Cardinality(S)) = SUBSET S
  BY <1>0
<1>. HIDE DEF Small
<1>5. \E g : g = [T \in SUBSET S |-> SumStep(f, g, T)]
  BY <1>3, <1>4
<1>6. PICK P : P = Partial(f, S) /\ P = [T \in SUBSET S |-> SumStep(f, P, T)]
  BY <1>5 DEF Partial
<1>7. \A T \in SUBSET S : P[T] = SumStep(f, P, T)
  BY <1>6
<1>. QED  BY <1>6, <1>7

\* What makes a table P one of sums of f over the subsets of S.
Adds(P, f, S) ==
    /\ P[{}] = 0
    /\ \A T \in SUBSET S : T # {} => P[T] = f[Chosen(T)] + P[T \ {Chosen(T)}]

\* So the chosen table is one of sums.
LEMMA PartialAdds ==
    ASSUME NEW f, NEW S, IsFiniteSet(S)
    PROVE  Adds(Partial(f, S), f, S)
<1>. DEFINE P == Partial(f, S)
<1>2. \A T \in SUBSET S : P[T] = SumStep(f, P, T)
  BY PartialExists
<1>. HIDE DEF P
<1>3. P[{}] = 0
  BY <1>2 DEF SumStep
<1>4. \A T \in SUBSET S : T # {} => P[T] = f[Chosen(T)] + P[T \ {Chosen(T)}]
  BY <1>2 DEF SumStep
<1>5. Adds(P, f, S)
  BY <1>3, <1>4 DEF Adds
<1>. QED  BY <1>5 DEF P

\* A sum is an entry of a table of sums.
LEMMA SumIsTable ==
    ASSUME NEW f, NEW S, IsFiniteSet(S)
    PROVE  \E P : Adds(P, f, S) /\ SumFunctionOnSet(f, S) = P[S]
BY PartialAdds, SumIsPartial

\* Tables of sums of integers hold integers.
LEMMA TableType ==
    ASSUME NEW f, NEW S, IsFiniteSet(S), \A x \in S : f[x] \in Int, NEW P, Adds(P, f, S)
    PROVE  \A T \in SUBSET S : P[T] \in Int
<1>. DEFINE X == {n \in Nat : \A T \in SUBSET S : Cardinality(T) = n => P[T] \in Int}
<1>0. \A T \in SUBSET S : IsFiniteSet(T) /\ Cardinality(T) \in Nat
  BY FS_Subset, FS_CardinalityType
<1>1. 0 \in X
  <2>1. \A T \in SUBSET S : Cardinality(T) = 0 => T = {}
    BY <1>0, FS_EmptySet
  <2>2. P[{}] \in Int
    BY DEF Adds
  <2>. QED  BY <2>1, <2>2
<1>2. ASSUME NEW n \in Nat, n \in X
      PROVE  n + 1 \in X
  <2>1. ASSUME NEW T \in SUBSET S, Cardinality(T) = n + 1
        PROVE  P[T] \in Int
    <3>. DEFINE U == T \ {Chosen(T)}
    <3>1. T # {}
      BY <2>1, FS_EmptySet
    <3>2. Chosen(T) \in S /\ U \in SUBSET S /\ Cardinality(U) \in Nat /\ Cardinality(T) = Cardinality(U) + 1
      BY <1>0, <3>1, SmallerSet
    <3>3. Cardinality(U) = n
      BY <2>1, <3>2
    <3>4. P[U] \in Int
      BY <1>2, <3>2, <3>3
    <3>5. P[T] = f[Chosen(T)] + P[U]
      BY <3>1 DEF Adds
    <3>. QED  BY <3>2, <3>4, <3>5
  <2>. QED  BY <2>1
<1>. HIDE DEF X
<1>3. \A n \in Nat : n \in X
  BY <1>1, <1>2, NatSet
<1>. QED  BY <1>0, <1>3 DEF X

\* Any element may be taken out first, because addition commutes.
LEMMA TableRemove ==
    ASSUME NEW f, NEW S, IsFiniteSet(S), \A x \in S : f[x] \in Int, NEW P, Adds(P, f, S)
    PROVE  \A T \in SUBSET S : \A x \in T : P[T] = f[x] + P[T \ {x}]
<1>. DEFINE X == {n \in Nat : \A T \in SUBSET S : Cardinality(T) = n =>
                                \A x \in T : P[T] = f[x] + P[T \ {x}]}
<1>0. \A T \in SUBSET S : IsFiniteSet(T) /\ Cardinality(T) \in Nat
  BY FS_Subset, FS_CardinalityType
<1>1. 0 \in X
  <2>1. \A T \in SUBSET S : Cardinality(T) = 0 => T = {}
    BY <1>0, FS_EmptySet
  <2>. QED  BY <2>1
<1>2. ASSUME NEW n \in Nat, n \in X
      PROVE  n + 1 \in X
  <2>1. ASSUME NEW T \in SUBSET S, Cardinality(T) = n + 1, NEW x \in T
        PROVE  P[T] = f[x] + P[T \ {x}]
    <3>0. PICK y \in T : P[T] = f[y] + P[T \ {y}]
      BY <1>0, SmallerSet DEF Adds
    <3>2. CASE x = y
      BY <3>0, <3>2
    <3>3. CASE x # y
      <4>1. /\ Cardinality(T \ {x}) = n /\ Cardinality(T \ {y}) = n
        <5>1. /\ Cardinality(T \ {x}) \in Nat /\ Cardinality(T) = Cardinality(T \ {x}) + 1
          BY <1>0, SmallerSet
        <5>2. /\ Cardinality(T \ {y}) \in Nat /\ Cardinality(T) = Cardinality(T \ {y}) + 1
          BY <1>0, SmallerSet
        <5>. QED  BY <2>1, <5>1, <5>2
      <4>. DEFINE V == (T \ {x}) \ {y}
      <4>4. V = (T \ {y}) \ {x} /\ V \in SUBSET S
        OBVIOUS
      <4>2. P[T \ {y}] = f[x] + P[V]
        <5>1. T \ {y} \in SUBSET S /\ x \in T \ {y}
          BY <3>3
        <5>. QED  BY <1>2, <4>1, <5>1, <4>4
      <4>3. P[T \ {x}] = f[y] + P[V]
        <5>1. T \ {x} \in SUBSET S /\ y \in T \ {x}
          BY <3>3
        <5>. QED  BY <1>2, <4>1, <5>1
      <4>5. f[x] \in Int /\ f[y] \in Int /\ P[V] \in Int
        BY <4>4, TableType
      <4>6. \A a, b, c \in Int : b + (a + c) = a + (b + c)
        OBVIOUS
      <4>. HIDE DEF V
      <4>. QED  BY <3>0, <4>2, <4>3, <4>5, <4>6
    <3>. QED  BY <3>2, <3>3
  <2>. QED  BY <2>1
<1>. HIDE DEF X
<1>3. \A n \in Nat : n \in X
  BY <1>1, <1>2, NatSet
<1>. QED  BY <1>0, <1>3 DEF X

\* The table depends on the values it adds up only.
LEMMA TableSame ==
    \A f, g, S, R, P, Q :
        IsFiniteSet(S) /\ S \subseteq R /\ (\A x \in S : f[x] = g[x])
          /\ Adds(P, f, S) /\ Adds(Q, g, R)
        => \A T \in SUBSET S : P[T] = Q[T]
<1>. SUFFICES ASSUME NEW f, NEW g, NEW S, NEW R, NEW P, NEW Q,
                     IsFiniteSet(S), S \subseteq R, \A x \in S : f[x] = g[x],
                     Adds(P, f, S), Adds(Q, g, R)
              PROVE  \A T \in SUBSET S : P[T] = Q[T]
  OBVIOUS
<1>. DEFINE X == {n \in Nat : \A T \in SUBSET S : Cardinality(T) = n => P[T] = Q[T]}
<1>0. \A T \in SUBSET S : IsFiniteSet(T) /\ Cardinality(T) \in Nat /\ T \in SUBSET R
  BY FS_Subset, FS_CardinalityType
<1>1. 0 \in X
  <2>1. \A T \in SUBSET S : Cardinality(T) = 0 => T = {}
    BY <1>0, FS_EmptySet
  <2>. QED  BY <2>1 DEF Adds
<1>2. ASSUME NEW n \in Nat, n \in X
      PROVE  n + 1 \in X
  <2>1. ASSUME NEW T \in SUBSET S, Cardinality(T) = n + 1
        PROVE  P[T] = Q[T]
    <3>. DEFINE U == T \ {Chosen(T)}
    <3>1. T # {}
      BY <2>1, FS_EmptySet
    <3>2. Chosen(T) \in S /\ U \in SUBSET S /\ Cardinality(U) \in Nat /\ Cardinality(T) = Cardinality(U) + 1
      BY <1>0, <3>1, SmallerSet
    <3>3. Cardinality(U) = n
      BY <2>1, <3>2
    <3>4. P[U] = Q[U]
      BY <1>2, <3>2, <3>3
    <3>5. P[T] = f[Chosen(T)] + P[U]
      BY <3>1 DEF Adds
    <3>6. Q[T] = g[Chosen(T)] + Q[U]
      BY <1>0, <3>1 DEF Adds
    <3>. QED  BY <3>2, <3>4, <3>5, <3>6
  <2>. QED  BY <2>1
<1>. HIDE DEF X
<1>3. \A n \in Nat : n \in X
  BY <1>1, <1>2, NatSet
<1>. QED  BY <1>0, <1>3 DEF X

-----------------------------------------------------------------------------
(* Sums *)

\* A sum of integers over a finite set is an integer.
LEMMA SumType ==
    ASSUME NEW f, NEW S, IsFiniteSet(S), \A x \in S : f[x] \in Int
    PROVE  SumFunctionOnSet(f, S) \in Int
<1>1. S \in SUBSET S
  OBVIOUS
<1>. QED  BY <1>1, SumIsTable, TableType

\* Nothing adds up to 0.
LEMMA SumEmpty ==
    ASSUME NEW f
    PROVE  SumFunctionOnSet(f, {}) = 0
<1>1. IsFiniteSet({})
  BY FS_EmptySet
<1>. QED  BY <1>1, SumIsTable DEF Adds

\* Sums of the same values are the same.
LEMMA SumSame ==
    ASSUME NEW f, NEW g, NEW S, IsFiniteSet(S), \A x \in S : f[x] = g[x]
    PROVE  SumFunctionOnSet(f, S) = SumFunctionOnSet(g, S)
<1>1. S \in SUBSET S
  OBVIOUS
<1>2. PICK P : Adds(P, f, S) /\ SumFunctionOnSet(f, S) = P[S]
  BY SumIsTable
<1>3. PICK Q : Adds(Q, g, S) /\ SumFunctionOnSet(g, S) = Q[S]
  BY SumIsTable
<1>. QED  BY <1>1, <1>2, <1>3, TableSame

\* One element may be split off.
LEMMA SumRemove ==
    ASSUME NEW f, NEW S, IsFiniteSet(S), \A x \in S : f[x] \in Int, NEW a \in S
    PROVE  SumFunctionOnSet(f, S) = f[a] + SumFunctionOnSet(f, S \ {a})
<1>. DEFINE R == S \ {a}
<1>1. R \subseteq S /\ IsFiniteSet(R)
  BY FS_RemoveElement
<1>2. PICK P : Adds(P, f, S) /\ SumFunctionOnSet(f, S) = P[S]
  BY SumIsTable
<1>3. PICK Q : Adds(Q, f, R) /\ SumFunctionOnSet(f, R) = Q[R]
  BY <1>1, SumIsTable
<1>4. P[S] = f[a] + P[R]
  <2>1. S \in SUBSET S
    OBVIOUS
  <2>. QED  BY <2>1, <1>2, TableRemove
<1>. HIDE DEF R
<1>5. Q[R] = P[R]
  <2>1. Adds(P, f, S) /\ Adds(Q, f, R) /\ \A x \in R : f[x] = f[x]
    BY <1>2, <1>3
  <2>2. \A T \in SUBSET R : Q[T] = P[T]
    BY <1>1, <2>1, TableSame
  <2>3. R \in SUBSET R
    OBVIOUS
  <2>. QED  BY <2>2, <2>3
<1>. QED  BY <1>2, <1>3, <1>4, <1>5 DEF R

\* A property of {} that one element more keeps is a property of a finite set.
LEMMA GrowSet ==
    ASSUME NEW S, IsFiniteSet(S), NEW X, {} \in X,
           \A T \in SUBSET S : \A x \in S \ T : T \in X => T \cup {x} \in X
    PROVE  S \in X
<1>. DEFINE N == {n \in Nat : \A T \in SUBSET S : Cardinality(T) = n => T \in X}
<1>0. \A T \in SUBSET S : IsFiniteSet(T) /\ Cardinality(T) \in Nat
  BY FS_Subset, FS_CardinalityType
<1>1. 0 \in N
  <2>1. \A T \in SUBSET S : Cardinality(T) = 0 => T = {}
    BY <1>0, FS_EmptySet
  <2>. QED  BY <2>1
<1>2. ASSUME NEW n \in Nat, n \in N
      PROVE  n + 1 \in N
  <2>1. ASSUME NEW T \in SUBSET S, Cardinality(T) = n + 1
        PROVE  T \in X
    <3>1. PICK x \in T : Cardinality(T) = Cardinality(T \ {x}) + 1
      <4>1. T # {}
        BY <2>1, FS_EmptySet
      <4>. QED  BY <1>0, <4>1, SmallerSet
    <3>2. Cardinality(T \ {x}) = n /\ T \ {x} \in SUBSET S
      BY <1>0, <2>1, <3>1
    <3>3. T \ {x} \in X
      BY <1>2, <3>2
    <3>4. x \in S \ (T \ {x}) /\ (T \ {x}) \cup {x} = T
      OBVIOUS
    <3>. QED  BY <3>2, <3>3, <3>4
  <2>. QED  BY <2>1
<1>. HIDE DEF N
<1>3. \A n \in Nat : n \in N
  BY <1>1, <1>2, NatSet
<1>. QED  BY <1>0, <1>3 DEF N

\* One element more adds its value.
LEMMA SumAdd ==
    ASSUME NEW f, NEW S, IsFiniteSet(S), NEW a, a \notin S, \A x \in S \cup {a} : f[x] \in Int
    PROVE  SumFunctionOnSet(f, S \cup {a}) = f[a] + SumFunctionOnSet(f, S)
<1>. DEFINE R == S \cup {a}
<1>1. IsFiniteSet(R) /\ a \in R /\ R \ {a} = S
  BY FS_AddElement
<1>. HIDE DEF R
<1>2. \A x \in R : f[x] \in Int
  BY DEF R
<1>3. SumFunctionOnSet(f, R) = f[a] + SumFunctionOnSet(f, R \ {a})
  BY <1>1, <1>2, SumRemove
<1>. QED  BY <1>1, <1>3 DEF R

\* Zeros add up to 0.
LEMMA SumZero ==
    ASSUME NEW f, NEW S, IsFiniteSet(S), \A x \in S : f[x] = 0
    PROVE  SumFunctionOnSet(f, S) = 0
<1>. DEFINE X == {T \in SUBSET S : SumFunctionOnSet(f, T) = 0}
<1>1. {} \in X
  BY SumEmpty
<1>2. ASSUME NEW T \in SUBSET S, NEW x \in S \ T, T \in X
      PROVE  T \cup {x} \in X
  <2>1. IsFiniteSet(T) /\ x \notin T /\ \A y \in T \cup {x} : f[y] \in Int
    BY FS_Subset
  <2>2. SumFunctionOnSet(f, T \cup {x}) = f[x] + SumFunctionOnSet(f, T)
    BY <2>1, SumAdd
  <2>. QED  BY <1>2, <2>2
<1>. HIDE DEF X
<1>3. S \in X
  BY <1>1, <1>2, GrowSet
<1>. QED  BY <1>3 DEF X

\* The sum of sums.
LEMMA SumPlus ==
    ASSUME NEW f, NEW g, NEW h, NEW S, IsFiniteSet(S),
           \A x \in S : f[x] \in Int /\ g[x] \in Int /\ h[x] = f[x] + g[x]
    PROVE  SumFunctionOnSet(h, S) = SumFunctionOnSet(f, S) + SumFunctionOnSet(g, S)
<1>. DEFINE X == {T \in SUBSET S :
                    SumFunctionOnSet(h, T) = SumFunctionOnSet(f, T) + SumFunctionOnSet(g, T)}
<1>1. {} \in X
  BY SumEmpty
<1>2. ASSUME NEW T \in SUBSET S, NEW x \in S \ T, T \in X
      PROVE  T \cup {x} \in X
  <2>1. IsFiniteSet(T) /\ x \notin T
    BY FS_Subset
  <2>2. SumFunctionOnSet(f, T \cup {x}) = f[x] + SumFunctionOnSet(f, T)
    BY <2>1, SumAdd
  <2>3. SumFunctionOnSet(g, T \cup {x}) = g[x] + SumFunctionOnSet(g, T)
    BY <2>1, SumAdd
  <2>4. SumFunctionOnSet(h, T \cup {x}) = h[x] + SumFunctionOnSet(h, T)
    <3>1. \A y \in T \cup {x} : h[y] \in Int
      OBVIOUS
    <3>. QED  BY <2>1, <3>1, SumAdd
  <2>5. SumFunctionOnSet(f, T) \in Int /\ SumFunctionOnSet(g, T) \in Int
    BY <2>1, SumType
  <2>. QED  BY <1>2, <2>2, <2>3, <2>4, <2>5
<1>. HIDE DEF X
<1>3. S \in X
  BY <1>1, <1>2, GrowSet
<1>. QED  BY <1>3 DEF X

\* Disjoint sets add up.
LEMMA SumUnion ==
    ASSUME NEW f, NEW A, NEW B, IsFiniteSet(A), IsFiniteSet(B), A \cap B = {},
           \A x \in A \cup B : f[x] \in Int
    PROVE  SumFunctionOnSet(f, A \cup B) = SumFunctionOnSet(f, A) + SumFunctionOnSet(f, B)
<1>. DEFINE X == {T \in SUBSET B :
              SumFunctionOnSet(f, A \cup T) = SumFunctionOnSet(f, A) + SumFunctionOnSet(f, T)}
<1>0. SumFunctionOnSet(f, A) \in Int
  BY SumType
<1>1. {} \in X
  <2>1. A \cup {} = A
    OBVIOUS
  <2>. QED  BY <1>0, <2>1, SumEmpty
<1>2. ASSUME NEW T \in SUBSET B, NEW x \in B \ T, T \in X
      PROVE  T \cup {x} \in X
  <2>1. IsFiniteSet(T) /\ x \notin T
    BY FS_Subset
  <2>2. SumFunctionOnSet(f, T \cup {x}) = f[x] + SumFunctionOnSet(f, T)
    BY <2>1, SumAdd
  <2>. DEFINE U == A \cup T
  <2>3. IsFiniteSet(U) /\ x \notin U /\ \A y \in U \cup {x} : f[y] \in Int
    BY <2>1, FS_Union
  <2>. HIDE DEF U
  <2>4. SumFunctionOnSet(f, U \cup {x}) = f[x] + SumFunctionOnSet(f, U)
    BY <2>3, SumAdd
  <2>5. U \cup {x} = A \cup (T \cup {x})
    BY DEF U
  <2>6. f[x] \in Int /\ SumFunctionOnSet(f, T) \in Int
    BY <2>1, SumType
  <2>7. SumFunctionOnSet(f, U) = SumFunctionOnSet(f, A) + SumFunctionOnSet(f, T)
    BY <1>2 DEF U
  <2>8. SumFunctionOnSet(f, A \cup (T \cup {x}))
          = SumFunctionOnSet(f, A) + SumFunctionOnSet(f, T \cup {x})
    <3>1. SumFunctionOnSet(f, A \cup (T \cup {x}))
            = f[x] + (SumFunctionOnSet(f, A) + SumFunctionOnSet(f, T))
      BY <2>4, <2>5, <2>7
    <3>. QED  BY <1>0, <2>2, <2>6, <3>1
  <2>. QED  BY <2>8
<1>. HIDE DEF X
<1>3. B \in X
  BY <1>1, <1>2, GrowSet
<1>. QED  BY <1>3 DEF X

\* What is 0 may be left out.
LEMMA SumOfPart ==
    ASSUME NEW f, NEW S, NEW T \in SUBSET S, IsFiniteSet(S),
           \A x \in S : f[x] \in Int, \A x \in S \ T : f[x] = 0
    PROVE  SumFunctionOnSet(f, S) = SumFunctionOnSet(f, T)
<1>. DEFINE R == S \ T
<1>1. IsFiniteSet(T) /\ IsFiniteSet(R) /\ T \cap R = {} /\ S = T \cup R
  BY FS_Subset
<1>2. SumFunctionOnSet(f, R) = 0
  BY <1>1, SumZero
<1>. HIDE DEF R
<1>3. \A x \in T \cup R : f[x] \in Int
  BY <1>1
<1>4. SumFunctionOnSet(f, T \cup R) = SumFunctionOnSet(f, T) + SumFunctionOnSet(f, R)
  BY <1>1, <1>3, SumUnion
<1>5. SumFunctionOnSet(f, T) \in Int
  BY <1>1, SumType
<1>. QED  BY <1>1, <1>2, <1>4, <1>5

\* A sum of which two summands may not be 0.
LEMMA SumOfTwo ==
    ASSUME NEW f, NEW S, IsFiniteSet(S), NEW a \in S, NEW b \in S, a # b,
           \A x \in S : f[x] \in Int, \A x \in S \ {a, b} : f[x] = 0
    PROVE  SumFunctionOnSet(f, S) = f[a] + f[b]
<1>. DEFINE A == S \ {a}
            B == A \ {b}
<1>1. IsFiniteSet(A) /\ IsFiniteSet(B) /\ b \in A /\ A \subseteq S
      /\ \A x \in B : f[x] = 0
  BY FS_RemoveElement
<1>2. SumFunctionOnSet(f, S) = f[a] + SumFunctionOnSet(f, A)
  BY SumRemove
<1>. HIDE DEF A
<1>3. SumFunctionOnSet(f, A) = f[b] + SumFunctionOnSet(f, B)
  BY <1>1, SumRemove
<1>4. SumFunctionOnSet(f, B) = 0
  BY <1>1, SumZero
<1>. QED  BY <1>2, <1>3, <1>4

-----------------------------------------------------------------------------
(* The invariant of the money, over any orders table *)

\* What the orders of a table reserve for an account.
TotalIn(u, c, table) == SumFunction([s \in DOMAIN table |-> Reserves(u, c, table[s])])

\* What placement charged an account beyond the rows of a table.
DustIn(u, c, table) == SumFunction([s \in DOMAIN table |-> Dust(u, c, table[s])])

ChangeIn(u, c, t, table) ==
    SumFunction([s \in t.locked |-> Reserves(u, c, t.rows[s]) - Reserves(u, c, table[s])])

Moved(c, f) ==
    CASE c = Base[f.instrument] -> f.quantity
      [] c = Quote[f.instrument] -> -BalanceAmount(f.quantity, f.price)
      [] OTHER -> 0

GainedIn(u, c, f, table) ==
    (IF table[f.taker].user = u THEN Moved(c, f) ELSE 0)
      - (IF table[f.maker].user = u THEN Moved(c, f) ELSE 0)

SpentIn(u, c, trades, table) ==
    {f \in trades : table[f.taker].user = u /\ Quote[f.instrument] = c}

CancelFits(t, table) ==
    /\ t.phase = "cancelling" => \A u \in Users, c \in Currencies :
         /\ t.delta[u][c].reserved = ChangeIn(u, c, t, table)
         /\ t.delta[u][c].available = -t.delta[u][c].reserved
         /\ t.delta[u][c].available >= 0
    /\ \A s \in t.locked :
         t.rows[s].status = IF s \in t.todo THEN table[s].status ELSE "cancelled"

TickFits(t, table) ==
    /\ t.phase = "matching" => \A u \in Users, c \in Currencies :
         /\ t.delta[u][c].reserved = ChangeIn(u, c, t, table)
         /\ t.delta[u][c].available + t.delta[u][c].reserved
              = SumFunction([f \in t.fills |-> GainedIn(u, c, f, table)])
         /\ t.delta[u][c].available >= -Cardinality(SpentIn(u, c, t.fills, table))
    /\ \A s \in t.locked :
         /\ t.rows[s].remaining = table[s].remaining - FilledIn(s, t.fills)
         /\ t.rows[s].status # "cancelled" /\ StatusFits(t.rows[s])
    /\ IsFiniteSet(t.fills)

\* The conjuncts of the invariant that TLC checks are these, of orders.
LEMMA InTerms ==
    /\ \A u \in Users, c \in Currencies : \A t : Change(u, c, t) = ChangeIn(u, c, t, orders)
    /\ \A u \in Users, c \in Currencies : \A f : Gained(u, c, f) = GainedIn(u, c, f, orders)
    /\ \A u \in Users, c \in Currencies : \A trades :
         BoughtIn(u, c, trades) = SpentIn(u, c, trades, orders)
BY DEF Change, ChangeIn, Gained, GainedIn, Moved, BoughtIn, SpentIn

LEMMA FitsInTerms ==
    LedgerInv <=>
        /\ BookInv
        /\ DOMAIN orders \subseteq 1 .. MaxSequence
        /\ IsFiniteSet(fills)
        /\ \A u \in Users : CancelFits(cancel[u], orders)
        /\ \A i \in Instruments : TickFits(tick[i], orders)
<1>1. CancelBalanced /\ (\A u \in Users : \A s \in cancel[u].locked :
         cancel[u].rows[s].status =
            IF s \in cancel[u].todo THEN orders[s].status ELSE "cancelled")
      <=> \A u \in Users : CancelFits(cancel[u], orders)
  BY DEF CancelBalanced, CancelFits, Change, ChangeIn
<1>2. TickBalanced /\ (\A i \in Instruments : \A s \in tick[i].locked :
         /\ tick[i].rows[s].remaining = orders[s].remaining - FilledIn(s, tick[i].fills)
         /\ tick[i].rows[s].status # "cancelled" /\ StatusFits(tick[i].rows[s]))
      /\ (\A i \in Instruments : IsFiniteSet(tick[i].fills))
      <=> \A i \in Instruments : TickFits(tick[i], orders)
  BY DEF TickBalanced, TickFits, Change, ChangeIn, Gained, GainedIn, Moved, BoughtIn, SpentIn
<1>. QED  BY <1>1, <1>2 DEF LedgerInv, RowsFit, TablesFinite

\* The same in the next state.
LEMMA FitsInTermsNext ==
    LedgerInv' <=>
        /\ BookInv'
        /\ DOMAIN orders' \subseteq 1 .. MaxSequence
        /\ IsFiniteSet(fills')
        /\ \A u \in Users : CancelFits(cancel'[u], orders')
        /\ \A i \in Instruments : TickFits(tick'[i], orders')
<1>1. (CancelBalanced /\ (\A u \in Users : \A s \in cancel[u].locked :
         cancel[u].rows[s].status =
            IF s \in cancel[u].todo THEN orders[s].status ELSE "cancelled"))'
      <=> \A u \in Users : CancelFits(cancel'[u], orders')
  BY DEF CancelBalanced, CancelFits, Change, ChangeIn
<1>2. (TickBalanced /\ (\A i \in Instruments : \A s \in tick[i].locked :
         /\ tick[i].rows[s].remaining = orders[s].remaining - FilledIn(s, tick[i].fills)
         /\ tick[i].rows[s].status # "cancelled" /\ StatusFits(tick[i].rows[s]))
      /\ (\A i \in Instruments : IsFiniteSet(tick[i].fills)))'
      <=> \A i \in Instruments : TickFits(tick'[i], orders')
  BY DEF TickBalanced, TickFits, Change, ChangeIn, Gained, GainedIn, Moved, BoughtIn, SpentIn
<1>. QED  BY <1>1, <1>2 DEF LedgerInv, RowsFit, TablesFinite

\* What an order reserves is a natural number, and nothing once it is closed.
LEMMA ReservesType ==
    ASSUME NEW order \in Order, NEW u, NEW c
    PROVE  /\ Reserves(u, c, order) \in Nat
           /\ ~IsOpen(order) => Reserves(u, c, order) = 0
           /\ order.user # u => Reserves(u, c, order) = 0
BY OutstandingType DEF Reserves

\* Only the open orders of a user count in a sum of reservations.
LEMMA OpenTotal ==
    ASSUME NEW table, IsFiniteSet(DOMAIN table), \A s \in DOMAIN table : table[s] \in Order,
           NEW u, NEW c
    PROVE  LET open == {s \in DOMAIN table : table[s].user = u /\ IsOpen(table[s])}
           IN  SumFunction([s \in open |-> Reserves(u, c, table[s])]) = TotalIn(u, c, table)
<1>. DEFINE open == {s \in DOMAIN table : table[s].user = u /\ IsOpen(table[s])}
            f == [s \in DOMAIN table |-> Reserves(u, c, table[s])]
            g == [s \in open |-> Reserves(u, c, table[s])]
<1>1. \A s \in DOMAIN table : f[s] \in Int /\ (s \notin open => f[s] = 0)
  BY ReservesType
<1>2. open \in SUBSET DOMAIN table /\ IsFiniteSet(open)
  BY FS_Subset
<1>3. \A s \in open : f[s] = g[s]
  OBVIOUS
<1>4. DOMAIN f = DOMAIN table /\ DOMAIN g = open
  OBVIOUS
<1>. HIDE DEF f, g, open
<1>5. SumFunctionOnSet(f, DOMAIN table) = SumFunctionOnSet(f, open)
  BY <1>1, <1>2, SumOfPart
<1>6. SumFunctionOnSet(f, open) = SumFunctionOnSet(g, open)
  BY <1>2, <1>3, SumSame
<1>7. SumFunction(f) = SumFunction(g)
  BY <1>4, <1>5, <1>6 DEF SumFunction
<1>. QED  BY <1>7 DEF TotalIn, f, g, open

\* The reservations the property speaks of are sums over the whole table.
LEMMA ReservedIsTotal ==
    ASSUME TypeOK, DOMAIN orders \subseteq 1 .. MaxSequence
    PROVE  ReservationsExact <=>
             /\ \A u \in Users, c \in Currencies :
                  accounts[u][c].reserved = TotalIn(u, c, orders) + DustIn(u, c, orders)
             /\ \A s \in DOMAIN orders : orders[s].user \in Users => ChargedAsStored(orders[s])
<1>1. IsFiniteSet(DOMAIN orders) /\ \A s \in DOMAIN orders : orders[s] \in Order
  <2>1. IsFiniteSet(1 .. MaxSequence)
    BY FS_Interval, ExchangeAssumption
  <2>. QED  BY <2>1, FS_Subset DEF TypeOK
<1>2. \A u \in Users, c \in Currencies :
        SumFunction([s \in OpenOf(u) |-> Reserves(u, c, orders[s])]) = TotalIn(u, c, orders)
  BY <1>1, OpenTotal DEF OpenOf
<1>. QED  BY <1>2 DEF ReservationsExact, DustIn

-----------------------------------------------------------------------------
(* Transactions that a step leaves alone, and transactions that begin *)

\* A step that does not write the rows of a cancellation leaves it in balance.
LEMMA CancelFitsKept ==
    ASSUME NEW t, NEW a, NEW b, CancelFits(t, a), \A s \in t.locked : a[s] = b[s]
    PROVE  CancelFits(t, b)
<1>1. \A u \in Users, c \in Currencies : ChangeIn(u, c, t, b) = ChangeIn(u, c, t, a)
  BY DEF ChangeIn
<1>. QED  BY <1>1 DEF CancelFits

\* Nor does one that does not write the rows of a tick, to which its fills belong.
LEMMA TickFitsKept ==
    ASSUME NEW t, NEW a, NEW b, TickFits(t, a), \A s \in t.locked : a[s] = b[s],
           \A f \in t.fills : f.maker \in t.locked /\ f.taker \in t.locked
    PROVE  TickFits(t, b)
<1>1. \A u \in Users, c \in Currencies : ChangeIn(u, c, t, b) = ChangeIn(u, c, t, a)
  BY DEF ChangeIn
<1>2. \A u \in Users, c \in Currencies : \A f \in t.fills :
        GainedIn(u, c, f, b) = GainedIn(u, c, f, a)
  BY DEF GainedIn
<1>3. \A u \in Users, c \in Currencies :
        /\ [f \in t.fills |-> GainedIn(u, c, f, b)] = [f \in t.fills |-> GainedIn(u, c, f, a)]
        /\ SpentIn(u, c, t.fills, b) = SpentIn(u, c, t.fills, a)
  BY <1>2 DEF SpentIn
<1>. QED  BY <1>1, <1>3 DEF TickFits

\* Nothing has changed for a transaction that has just read its rows.
LEMMA NothingChanged ==
    ASSUME NEW t, NEW table, IsFiniteSet(t.locked), \A s \in t.locked : t.rows[s] = table[s],
           \A s \in t.locked : table[s] \in Order, NEW u, NEW c
    PROVE  ChangeIn(u, c, t, table) = 0
<1>. DEFINE f == [s \in t.locked |-> Reserves(u, c, t.rows[s]) - Reserves(u, c, table[s])]
<1>1. \A s \in t.locked : f[s] = 0
  BY ReservesType
<1>2. DOMAIN f = t.locked
  OBVIOUS
<1>. HIDE DEF f
<1>3. SumFunctionOnSet(f, t.locked) = 0
  BY <1>1, SumZero
<1>. QED  BY <1>2, <1>3 DEF ChangeIn, SumFunction, f

LEMMA IdleFits == \A table : CancelFits(NoCancel, table) /\ TickFits(NoTick, table)
BY FS_EmptySet DEF CancelFits, TickFits, NoCancel, NoTick

-----------------------------------------------------------------------------
(* Sums that change *)

\* One summand changes.
LEMMA SumChange ==
    ASSUME NEW f, NEW g, NEW S, IsFiniteSet(S), NEW a \in S,
           \A x \in S : f[x] \in Int /\ g[x] \in Int, \A x \in S \ {a} : f[x] = g[x]
    PROVE  SumFunctionOnSet(g, S) = SumFunctionOnSet(f, S) + (g[a] - f[a])
<1>. DEFINE R == S \ {a}
<1>1. IsFiniteSet(R) /\ (\A x \in R : f[x] \in Int) /\ \A x \in R : f[x] = g[x]
  BY FS_RemoveElement
<1>2. SumFunctionOnSet(f, S) = f[a] + SumFunctionOnSet(f, R)
  BY SumRemove
<1>3. SumFunctionOnSet(g, S) = g[a] + SumFunctionOnSet(g, R)
  BY SumRemove
<1>. HIDE DEF R
<1>4. SumFunctionOnSet(f, R) = SumFunctionOnSet(g, R) /\ SumFunctionOnSet(f, R) \in Int
  BY <1>1, SumSame, SumType
<1>. QED  BY <1>2, <1>3, <1>4

\* The sum over a table that gains an entry.
LEMMA SumGrown ==
    ASSUME NEW T, IsFiniteSet(T), NEW a, a \notin T, NEW p, NEW r,
           DOMAIN p = T, DOMAIN r = T \cup {a},
           \A x \in T \cup {a} : r[x] \in Int, \A x \in T : p[x] = r[x]
    PROVE  /\ SumFunction(p) \in Int
           /\ SumFunction(r) = SumFunction(p) + r[a]
<1>1. SumFunctionOnSet(r, T \cup {a}) = r[a] + SumFunctionOnSet(r, T)
  BY SumAdd
<1>2. SumFunctionOnSet(p, T) = SumFunctionOnSet(r, T) /\ SumFunctionOnSet(p, T) \in Int
  BY SumSame, SumType
<1>. QED  BY <1>1, <1>2 DEF SumFunction

\* The reservations of a table add up.
LEMMA TotalInType ==
    ASSUME NEW a, IsFiniteSet(DOMAIN a), \A x \in DOMAIN a : a[x] \in Order, NEW u, NEW c
    PROVE  TotalIn(u, c, a) \in Int
<1>. DEFINE f == [x \in DOMAIN a |-> Reserves(u, c, a[x])]
<1>1. DOMAIN f = DOMAIN a /\ \A x \in DOMAIN a : f[x] \in Int
  BY ReservesType
<1>. HIDE DEF f
<1>2. SumFunctionOnSet(f, DOMAIN a) \in Int
  BY <1>1, SumType
<1>. QED  BY <1>1, <1>2 DEF TotalIn, SumFunction, f

\* A table that gains a row, a table that rows are written over, a table whose
\* new and changed rows reserve nothing.
LEMMA TotalGrown ==
    ASSUME NEW a, NEW b, NEW s, s \notin DOMAIN a, DOMAIN b = DOMAIN a \cup {s},
           IsFiniteSet(DOMAIN a), \A x \in DOMAIN b : b[x] \in Order,
           \A x \in DOMAIN a : b[x] = a[x], NEW u, NEW c
    PROVE  TotalIn(u, c, b) = TotalIn(u, c, a) + Reserves(u, c, b[s])
<1>. DEFINE f == [x \in DOMAIN a |-> Reserves(u, c, a[x])]
            g == [x \in DOMAIN b |-> Reserves(u, c, b[x])]
<1>1. \A x \in DOMAIN a \cup {s} : g[x] \in Int
  BY ReservesType
<1>2. \A x \in DOMAIN a : f[x] = g[x] /\ f[x] \in Int
  BY <1>1
<1>3. g[s] = Reserves(u, c, b[s]) /\ DOMAIN f = DOMAIN a /\ DOMAIN g = DOMAIN a \cup {s}
  OBVIOUS
<1>. HIDE DEF f, g
<1>4. SumFunctionOnSet(g, DOMAIN a \cup {s}) = g[s] + SumFunctionOnSet(g, DOMAIN a)
  BY <1>1, SumAdd
<1>5. SumFunctionOnSet(f, DOMAIN a) = SumFunctionOnSet(g, DOMAIN a)
  BY <1>2, SumSame
<1>6. SumFunctionOnSet(f, DOMAIN a) \in Int /\ g[s] \in Int
  BY <1>1, <1>2, SumType
<1>7. SumFunction(g) = SumFunction(f) + g[s]
  BY <1>3, <1>4, <1>5, <1>6 DEF SumFunction
<1>. QED  BY <1>3, <1>7 DEF TotalIn, f, g

LEMMA TotalKept ==
    ASSUME NEW a, NEW b, DOMAIN a \subseteq DOMAIN b, IsFiniteSet(DOMAIN b),
           \A x \in DOMAIN a : a[x] \in Order, \A x \in DOMAIN b : b[x] \in Order, NEW u, NEW c,
           \A x \in DOMAIN a : b[x] = a[x] \/ (a[x].user # u /\ b[x].user # u),
           \A x \in DOMAIN b \ DOMAIN a : b[x].user # u
    PROVE  TotalIn(u, c, b) = TotalIn(u, c, a)
<1>. DEFINE f == [x \in DOMAIN a |-> Reserves(u, c, a[x])]
            g == [x \in DOMAIN b |-> Reserves(u, c, b[x])]
<1>1. (\A x \in DOMAIN b : g[x] \in Int) /\ \A x \in DOMAIN b \ DOMAIN a : g[x] = 0
  BY ReservesType
<1>2. \A x \in DOMAIN a : f[x] = g[x]
  BY ReservesType
<1>3. DOMAIN f = DOMAIN a /\ DOMAIN g = DOMAIN b /\ IsFiniteSet(DOMAIN a)
  BY FS_Subset
<1>. HIDE DEF f, g
<1>4. SumFunctionOnSet(g, DOMAIN b) = SumFunctionOnSet(g, DOMAIN a)
  BY <1>1, SumOfPart
<1>5. SumFunctionOnSet(f, DOMAIN a) = SumFunctionOnSet(g, DOMAIN a)
  BY <1>2, <1>3, SumSame
<1>6. SumFunction(g) = SumFunction(f)
  BY <1>3, <1>4, <1>5 DEF SumFunction
<1>. QED  BY <1>6 DEF TotalIn, f, g

\* What placement charged beyond a row is an integer, fixed with the row's terms,
\* and nobody is charged for the orders of others.
LEMMA DustType ==
    ASSUME NEW order \in Order, NEW u, NEW c
    PROVE  Dust(u, c, order) \in Int /\ (order.user # u => Dust(u, c, order) = 0)
<1>1. order.charged \in Nat /\ order.quantity \in Nat
  BY DEF Order
<1>2. [order EXCEPT !.remaining = order.quantity] \in Order
  BY <1>1 DEF Order
<1>3. Outstanding([order EXCEPT !.remaining = order.quantity]) \in Nat
  BY <1>2, OutstandingType
<1>. QED  BY <1>1, <1>3 DEF Dust, Surplus

LEMMA DustFixed ==
    ASSUME NEW a \in Order, NEW b \in Order, SameTerms(a, b)
    PROVE  /\ \A u, c : Dust(u, c, a) = Dust(u, c, b)
           /\ ChargedAsStored(a) <=> ChargedAsStored(b)
<1>1. /\ a.user = b.user /\ a.instrument = b.instrument /\ a.side = b.side /\ a.type = b.type
      /\ a.quantity = b.quantity /\ a.price = b.price /\ a.charged = b.charged
  BY DEF SameTerms
<1>2. Outstanding([a EXCEPT !.remaining = a.quantity])
        = Outstanding([b EXCEPT !.remaining = b.quantity])
  BY <1>1 DEF Outstanding, Order
<1>3. Surplus(a) = Surplus(b)
  BY <1>1, <1>2 DEF Surplus
<1>. QED  BY <1>1, <1>3 DEF Dust, ReservedCurrency, ChargedAsStored

LEMMA DustInType ==
    ASSUME NEW a, IsFiniteSet(DOMAIN a), \A x \in DOMAIN a : a[x] \in Order, NEW u, NEW c
    PROVE  DustIn(u, c, a) \in Int
<1>. DEFINE f == [x \in DOMAIN a |-> Dust(u, c, a[x])]
<1>1. DOMAIN f = DOMAIN a /\ \A x \in DOMAIN a : f[x] \in Int
  BY DustType
<1>. HIDE DEF f
<1>2. SumFunctionOnSet(f, DOMAIN a) \in Int
  BY <1>1, SumType
<1>. QED  BY <1>1, <1>2 DEF DustIn, SumFunction, f

\* A table that gains a row, and a table that gains and changes rows without
\* charging the account for them.
LEMMA DustGrown ==
    ASSUME NEW a, NEW b, NEW s, s \notin DOMAIN a, DOMAIN b = DOMAIN a \cup {s},
           IsFiniteSet(DOMAIN a), \A x \in DOMAIN b : b[x] \in Order,
           \A x \in DOMAIN a : b[x] = a[x], NEW u, NEW c
    PROVE  /\ DustIn(u, c, a) \in Int
           /\ DustIn(u, c, b) = DustIn(u, c, a) + Dust(u, c, b[s])
<1>. DEFINE f == [x \in DOMAIN a |-> Dust(u, c, a[x])]
            g == [x \in DOMAIN b |-> Dust(u, c, b[x])]
<1>1. \A x \in DOMAIN a \cup {s} : g[x] \in Int
  BY DustType
<1>2. \A x \in DOMAIN a : f[x] = g[x]
  OBVIOUS
<1>3. g[s] = Dust(u, c, b[s]) /\ DOMAIN f = DOMAIN a /\ DOMAIN g = DOMAIN a \cup {s}
  OBVIOUS
<1>. HIDE DEF f, g
<1>4. SumFunction(f) \in Int /\ SumFunction(g) = SumFunction(f) + g[s]
  BY <1>1, <1>2, <1>3, SumGrown
<1>. QED  BY <1>3, <1>4 DEF DustIn, f, g

LEMMA DustKept ==
    ASSUME NEW a, NEW b, DOMAIN a \subseteq DOMAIN b, IsFiniteSet(DOMAIN b),
           \A x \in DOMAIN b : b[x] \in Order, NEW u, NEW c,
           \A x \in DOMAIN a : Dust(u, c, b[x]) = Dust(u, c, a[x]),
           \A x \in DOMAIN b \ DOMAIN a : b[x].user # u
    PROVE  DustIn(u, c, b) = DustIn(u, c, a)
<1>. DEFINE f == [x \in DOMAIN a |-> Dust(u, c, a[x])]
            g == [x \in DOMAIN b |-> Dust(u, c, b[x])]
<1>1. (\A x \in DOMAIN b : g[x] \in Int) /\ \A x \in DOMAIN b \ DOMAIN a : g[x] = 0
  BY DustType
<1>2. \A x \in DOMAIN a : f[x] = g[x]
  OBVIOUS
<1>3. DOMAIN f = DOMAIN a /\ DOMAIN g = DOMAIN b /\ IsFiniteSet(DOMAIN a)
      /\ \A x \in DOMAIN a : f[x] \in Int
  BY <1>1, <1>2, FS_Subset
<1>. HIDE DEF f, g
<1>4. SumFunctionOnSet(g, DOMAIN b) = SumFunctionOnSet(g, DOMAIN a)
  BY <1>1, SumOfPart
<1>5. SumFunctionOnSet(f, DOMAIN a) = SumFunctionOnSet(g, DOMAIN a)
  BY <1>2, <1>3, SumSame
<1>6. SumFunction(g) = SumFunction(f)
  BY <1>3, <1>4, <1>5 DEF SumFunction
<1>. QED  BY <1>6 DEF DustIn, f, g

\* What a transaction writes changes the reservations by what it has computed.
RowsWritten(t, a, b) ==
    /\ t.locked \subseteq DOMAIN a /\ DOMAIN b = DOMAIN a
    /\ IsFiniteSet(DOMAIN a) /\ \A x \in DOMAIN a : a[x] \in Order
    /\ \A x \in t.locked : t.rows[x] \in Order /\ b[x] = t.rows[x]
    /\ \A x \in DOMAIN a \ t.locked : b[x] = a[x]

LEMMA TotalWritten ==
    ASSUME NEW t, NEW a, NEW b, RowsWritten(t, a, b), NEW u, NEW c
    PROVE  TotalIn(u, c, b) = TotalIn(u, c, a) + ChangeIn(u, c, t, a)
<1>. DEFINE f == [x \in DOMAIN a |-> Reserves(u, c, a[x])]
            g == [x \in DOMAIN b |-> Reserves(u, c, b[x])]
            h == [x \in t.locked |-> Reserves(u, c, t.rows[x]) - Reserves(u, c, a[x])]
            L == t.locked
            R == DOMAIN a \ t.locked
<1>0. /\ t.locked \subseteq DOMAIN a /\ DOMAIN b = DOMAIN a
      /\ IsFiniteSet(DOMAIN a) /\ \A x \in DOMAIN a : a[x] \in Order
      /\ \A x \in t.locked : t.rows[x] \in Order /\ b[x] = t.rows[x]
      /\ \A x \in DOMAIN a \ t.locked : b[x] = a[x]
  BY DEF RowsWritten
<1>1. \A x \in DOMAIN a : f[x] \in Int /\ g[x] \in Int
  BY <1>0, ReservesType
<1>2. (\A x \in L : h[x] \in Int /\ g[x] = f[x] + h[x]) /\ \A x \in R : g[x] = f[x]
  BY <1>0, ReservesType
<1>3. DOMAIN f = L \cup R /\ DOMAIN g = L \cup R /\ DOMAIN h = L /\ L \cap R = {}
      /\ IsFiniteSet(L) /\ IsFiniteSet(R) /\ L \cup R = DOMAIN a
  BY <1>0, FS_Subset
<1>. HIDE DEF f, g, h, L, R
<1>4. SumFunctionOnSet(f, L \cup R) = SumFunctionOnSet(f, L) + SumFunctionOnSet(f, R)
  BY <1>1, <1>3, SumUnion
<1>5. SumFunctionOnSet(g, L \cup R) = SumFunctionOnSet(g, L) + SumFunctionOnSet(g, R)
  BY <1>1, <1>3, SumUnion
<1>6. SumFunctionOnSet(g, R) = SumFunctionOnSet(f, R)
  BY <1>2, <1>3, SumSame
<1>7. SumFunctionOnSet(g, L) = SumFunctionOnSet(f, L) + SumFunctionOnSet(h, L)
  BY <1>1, <1>2, <1>3, SumPlus
<1>8. /\ SumFunctionOnSet(f, L) \in Int /\ SumFunctionOnSet(f, R) \in Int
      /\ SumFunctionOnSet(h, L) \in Int
  BY <1>1, <1>2, <1>3, SumType
<1>9. SumFunction(g) = SumFunction(f) + SumFunction(h)
  BY <1>3, <1>4, <1>5, <1>6, <1>7, <1>8 DEF SumFunction
<1>. QED  BY <1>9 DEF TotalIn, ChangeIn, f, g, h

-----------------------------------------------------------------------------
(* Fills that a table explains *)

\* What an account gains by a fill is an integer.
LEMMA GainedType ==
    ASSUME NEW f \in Fill, NEW u, NEW c, NEW table
    PROVE  Moved(c, f) \in Int /\ GainedIn(u, c, f, table) \in Int
<1>1. f.quantity \in Nat /\ f.price \in Nat
  BY DEF Fill
<1>2. BalanceAmount(f.quantity, f.price) \in Nat
  BY <1>1, BalanceAmountNat
<1>3. Moved(c, f) \in Int
  BY <1>1, <1>2 DEF Moved
<1>. QED  BY <1>3 DEF GainedIn

\* The sum over two tables that have no entry in common.
LEMMA SumJoined ==
    ASSUME NEW p, NEW q, NEW r, DOMAIN r = DOMAIN p \cup DOMAIN q, DOMAIN p \cap DOMAIN q = {},
           IsFiniteSet(DOMAIN p), IsFiniteSet(DOMAIN q), \A x \in DOMAIN r : r[x] \in Int,
           \A x \in DOMAIN p : p[x] = r[x], \A x \in DOMAIN q : q[x] = r[x]
    PROVE  SumFunction(r) = SumFunction(p) + SumFunction(q)
<1>. DEFINE A == DOMAIN p
            B == DOMAIN q
<1>1. SumFunctionOnSet(r, A \cup B) = SumFunctionOnSet(r, A) + SumFunctionOnSet(r, B)
  BY SumUnion
<1>2. SumFunctionOnSet(p, A) = SumFunctionOnSet(r, A)
  BY SumSame
<1>3. SumFunctionOnSet(q, B) = SumFunctionOnSet(r, B)
  BY SumSame
<1>. QED  BY <1>1, <1>2, <1>3 DEF SumFunction

\* One fill more.
LEMMA OneMoreFill ==
    ASSUME NEW T, IsFiniteSet(T), T \subseteq Fill, NEW f \in Fill, f \notin T,
           NEW u, NEW c, NEW table
    PROVE  /\ SumFunction([g \in T |-> GainedIn(u, c, g, table)]) \in Int
           /\ SumFunction([g \in T \cup {f} |-> GainedIn(u, c, g, table)])
                = SumFunction([g \in T |-> GainedIn(u, c, g, table)]) + GainedIn(u, c, f, table)
<1>. DEFINE p == [g \in T |-> GainedIn(u, c, g, table)]
            r == [g \in T \cup {f} |-> GainedIn(u, c, g, table)]
<1>1. DOMAIN p = T /\ DOMAIN r = T \cup {f} /\ \A x \in T : p[x] = r[x]
  OBVIOUS
<1>2. \A x \in T \cup {f} : r[x] \in Int
  BY GainedType
<1>3. r[f] = GainedIn(u, c, f, table)
  OBVIOUS
<1>. HIDE DEF p, r
<1>4. SumFunction(p) \in Int /\ SumFunction(r) = SumFunction(p) + r[f]
  BY <1>1, <1>2, SumGrown
<1>. QED  BY <1>3, <1>4 DEF p, r

LEMMA OneMoreFilled ==
    ASSUME NEW T, IsFiniteSet(T), T \subseteq Fill, NEW f \in Fill, f \notin T, NEW s
    PROVE  /\ FilledIn(s, T) \in Int
           /\ FilledIn(s, T \cup {f})
                = FilledIn(s, T) + (IF s \in {f.maker, f.taker} THEN f.quantity ELSE 0)
<1>. DEFINE p == [g \in T |-> IF s \in {g.maker, g.taker} THEN g.quantity ELSE 0]
            r == [g \in T \cup {f} |-> IF s \in {g.maker, g.taker} THEN g.quantity ELSE 0]
<1>1. DOMAIN p = T /\ DOMAIN r = T \cup {f} /\ \A x \in T : p[x] = r[x]
  OBVIOUS
<1>2. \A x \in T \cup {f} : r[x] \in Int
  BY DEF Fill
<1>3. r[f] = IF s \in {f.maker, f.taker} THEN f.quantity ELSE 0
  OBVIOUS
<1>. HIDE DEF p, r
<1>4. SumFunction(p) \in Int /\ SumFunction(r) = SumFunction(p) + r[f]
  BY <1>1, <1>2, SumGrown
<1>. QED  BY <1>3, <1>4 DEF FilledIn, p, r

\* The fills of a tick join those of the table.
Apart(A, B) ==
    IsFiniteSet(A) /\ IsFiniteSet(B) /\ A \cap B = {} /\ A \cup B \subseteq Fill

LEMMA GainsJoined ==
    ASSUME NEW A, NEW B, Apart(A, B), NEW u, NEW c, NEW table
    PROVE  SumFunction([g \in A \cup B |-> GainedIn(u, c, g, table)])
             = SumFunction([g \in A |-> GainedIn(u, c, g, table)])
                 + SumFunction([g \in B |-> GainedIn(u, c, g, table)])
<1>. DEFINE p == [g \in A |-> GainedIn(u, c, g, table)]
            q == [g \in B |-> GainedIn(u, c, g, table)]
            r == [g \in A \cup B |-> GainedIn(u, c, g, table)]
<1>1. /\ DOMAIN p = A /\ DOMAIN q = B /\ DOMAIN r = A \cup B
      /\ (\A x \in A : p[x] = r[x]) /\ \A x \in B : q[x] = r[x]
  OBVIOUS
<1>2. \A x \in A \cup B : r[x] \in Int
  BY GainedType DEF Apart
<1>. HIDE DEF p, q, r
<1>3. SumFunction(r) = SumFunction(p) + SumFunction(q)
  BY <1>1, <1>2, SumJoined DEF Apart
<1>. QED  BY <1>3 DEF p, q, r

LEMMA FilledJoined ==
    ASSUME NEW A, NEW B, Apart(A, B), NEW s
    PROVE  FilledIn(s, A \cup B) = FilledIn(s, A) + FilledIn(s, B)
<1>. DEFINE p == [g \in A |-> IF s \in {g.maker, g.taker} THEN g.quantity ELSE 0]
            q == [g \in B |-> IF s \in {g.maker, g.taker} THEN g.quantity ELSE 0]
            r == [g \in A \cup B |-> IF s \in {g.maker, g.taker} THEN g.quantity ELSE 0]
<1>1. /\ DOMAIN p = A /\ DOMAIN q = B /\ DOMAIN r = A \cup B
      /\ (\A x \in A : p[x] = r[x]) /\ \A x \in B : q[x] = r[x]
  OBVIOUS
<1>2. \A x \in A \cup B : r[x] \in Int
  BY DEF Apart, Fill
<1>. HIDE DEF p, q, r
<1>3. SumFunction(r) = SumFunction(p) + SumFunction(q)
  BY <1>1, <1>2, SumJoined DEF Apart
<1>. QED  BY <1>3 DEF FilledIn, p, q, r

LEMMA SpentJoined ==
    ASSUME NEW A, NEW B, Apart(A, B), NEW u, NEW c, NEW table
    PROVE  Cardinality(SpentIn(u, c, A \cup B, table))
             = Cardinality(SpentIn(u, c, A, table)) + Cardinality(SpentIn(u, c, B, table))
<1>. DEFINE C == SpentIn(u, c, A, table)
            D == SpentIn(u, c, B, table)
<1>1. /\ C \subseteq A /\ D \subseteq B /\ C \cap D = {}
      /\ SpentIn(u, c, A \cup B, table) = C \cup D
  BY DEF Apart, SpentIn
<1>. HIDE DEF C, D
<1>2. IsFiniteSet(C) /\ IsFiniteSet(D)
  BY <1>1, FS_Subset DEF Apart
<1>3. Cardinality(C \cup D) = Cardinality(C) + Cardinality(D) - Cardinality(C \cap D)
  BY <1>2, FS_Union
<1>4. Cardinality(C) \in Nat /\ Cardinality(D) \in Nat /\ Cardinality(C \cap D) = 0
  BY <1>1, <1>2, FS_CardinalityType, FS_EmptySet
<1>5. Cardinality(C \cup D) = Cardinality(C) + Cardinality(D)
  BY <1>3, <1>4
<1>. QED  BY <1>1, <1>5 DEF C, D

\* An order that no fill names has not been filled.
LEMMA NeverFilled ==
    ASSUME NEW T, IsFiniteSet(T), NEW s, \A f \in T : s # f.maker /\ s # f.taker
    PROVE  FilledIn(s, T) = 0
<1>. DEFINE p == [g \in T |-> IF s \in {g.maker, g.taker} THEN g.quantity ELSE 0]
<1>1. DOMAIN p = T /\ \A x \in T : p[x] = 0
  OBVIOUS
<1>. HIDE DEF p
<1>2. SumFunctionOnSet(p, T) = 0
  BY <1>1, SumZero
<1>. QED  BY <1>1, <1>2 DEF FilledIn, SumFunction, p

\* What fills say depends on whose orders they name only.
SameOwners(T, a, b) ==
    \A f \in T : a[f.maker].user = b[f.maker].user /\ a[f.taker].user = b[f.taker].user

LEMMA FillsSay ==
    ASSUME NEW T, NEW a, NEW b, SameOwners(T, a, b), NEW u, NEW c
    PROVE  /\ SumFunction([f \in T |-> GainedIn(u, c, f, b)])
                = SumFunction([f \in T |-> GainedIn(u, c, f, a)])
           /\ SpentIn(u, c, T, b) = SpentIn(u, c, T, a)
<1>1. \A f \in T : GainedIn(u, c, f, b) = GainedIn(u, c, f, a)
  BY DEF GainedIn, SameOwners
<1>2. [f \in T |-> GainedIn(u, c, f, b)] = [f \in T |-> GainedIn(u, c, f, a)]
  BY <1>1
<1>3. SpentIn(u, c, T, b) = SpentIn(u, c, T, a)
  BY DEF SpentIn, SameOwners
<1>. QED  BY <1>2, <1>3

-----------------------------------------------------------------------------
(* A cancellation keeps its account *)

\* What UPDATE accounts does to each balance.
LEMMA CreditEffect ==
    ASSUME NEW b \in Balances, NEW u \in Users, NEW c \in Currencies, NEW a \in Int, NEW r \in Int,
           NEW v \in Users, NEW d \in Currencies
    PROVE  /\ b[v][d].available \in Int /\ b[v][d].reserved \in Int
           /\ Credit(b, u, c, a, r)[v][d].available
                = b[v][d].available + (IF v = u /\ d = c THEN a ELSE 0)
           /\ Credit(b, u, c, a, r)[v][d].reserved
                = b[v][d].reserved + (IF v = u /\ d = c THEN r ELSE 0)
<1>1. b[v][d] \in [available : Int, reserved : Int]
  BY DEF Balances
<1>2. b[v][d].available \in Int /\ b[v][d].reserved \in Int
  BY <1>1
<1>3. CASE v = u /\ d = c
  <2>1. Credit(b, u, c, a, r)[v][d]
          = [available |-> b[v][d].available + a, reserved |-> b[v][d].reserved + r]
    BY <1>3 DEF Credit, Balances
  <2>. QED  BY <1>2, <1>3, <2>1
<1>4. CASE ~(v = u /\ d = c)
  <2>1. Credit(b, u, c, a, r)[v][d] = b[v][d]
    BY <1>4 DEF Credit, Balances
  <2>. QED  BY <1>2, <1>4, <2>1
<1>. QED  BY <1>3, <1>4

\* A change of reservations is an integer.
LEMMA ChangeType ==
    ASSUME NEW t, NEW table, IsFiniteSet(t.locked),
           \A s \in t.locked : t.rows[s] \in Order /\ table[s] \in Order, NEW u, NEW c
    PROVE  ChangeIn(u, c, t, table) \in Int
<1>. DEFINE f == [s \in t.locked |-> Reserves(u, c, t.rows[s]) - Reserves(u, c, table[s])]
<1>1. \A s \in t.locked : f[s] \in Int
  BY ReservesType
<1>2. DOMAIN f = t.locked
  OBVIOUS
<1>. HIDE DEF f
<1>3. SumFunctionOnSet(f, t.locked) \in Int
  BY <1>1, SumType
<1>. QED  BY <1>2, <1>3 DEF ChangeIn, SumFunction, f

\* Two states of a transaction that differ in one row.
OneRowApart(t, v, s, table) ==
    /\ IsFiniteSet(t.locked) /\ v.locked = t.locked /\ s \in t.locked
    /\ \A x \in t.locked : t.rows[x] \in Order /\ v.rows[x] \in Order /\ table[x] \in Order
    /\ \A x \in t.locked \ {s} : v.rows[x] = t.rows[x]

\* One row of a transaction changes.
LEMMA OneRowChanges ==
    ASSUME NEW t, NEW v, NEW table, NEW s, OneRowApart(t, v, s, table), NEW u, NEW c
    PROVE  /\ ChangeIn(u, c, t, table) \in Int
           /\ ChangeIn(u, c, v, table)
                = ChangeIn(u, c, t, table) + (Reserves(u, c, v.rows[s]) - Reserves(u, c, t.rows[s]))
<1>. DEFINE L == t.locked
            f == [x \in L |-> Reserves(u, c, t.rows[x]) - Reserves(u, c, table[x])]
            g == [x \in L |-> Reserves(u, c, v.rows[x]) - Reserves(u, c, table[x])]
<1>0. /\ IsFiniteSet(L) /\ v.locked = L /\ s \in L
      /\ \A x \in L : t.rows[x] \in Order /\ v.rows[x] \in Order /\ table[x] \in Order
      /\ \A x \in L \ {s} : v.rows[x] = t.rows[x]
  BY DEF OneRowApart
<1>1. \A x \in L : /\ Reserves(u, c, t.rows[x]) \in Int /\ Reserves(u, c, v.rows[x]) \in Int
                   /\ Reserves(u, c, table[x]) \in Int
  BY <1>0, ReservesType
<1>2. (\A x \in L : f[x] \in Int /\ g[x] \in Int) /\ \A x \in L \ {s} : f[x] = g[x]
  BY <1>0, <1>1
<1>3. /\ g[s] - f[s] = Reserves(u, c, v.rows[s]) - Reserves(u, c, t.rows[s])
      /\ DOMAIN f = L /\ DOMAIN g = L
  BY <1>0, <1>1
<1>. HIDE DEF f, g, L
<1>4. SumFunctionOnSet(g, L) = SumFunctionOnSet(f, L) + (g[s] - f[s])
  BY <1>0, <1>2, SumChange
<1>5. SumFunctionOnSet(f, L) \in Int
  BY <1>0, <1>2, SumType
<1>6. SumFunction(g) = SumFunction(f) + (g[s] - f[s]) /\ SumFunction(f) \in Int
  BY <1>3, <1>4, <1>5 DEF SumFunction
<1>7. ChangeIn(u, c, v, table) = SumFunction(g) /\ ChangeIn(u, c, t, table) = SumFunction(f)
  BY <1>0 DEF ChangeIn, f, g, L
<1>. QED  BY <1>3, <1>6, <1>7

\* A cancellation that begins, and one that goes through one of its orders.
LEMMA CancelBeginFits ==
    ASSUME TypeOK, DOMAIN orders \subseteq 1 .. MaxSequence, NEW u \in Users,
           NEW chosen \in SUBSET OpenOf(u), CancelBegin(u, chosen)
    PROVE  CancelFits(cancel'[u], orders)
<1>1. /\ cancel'[u].phase = "cancelling" /\ cancel'[u].locked = chosen
      /\ cancel'[u].todo = chosen /\ cancel'[u].rows = [s \in chosen |-> orders[s]]
      /\ cancel'[u].delta = NoDelta
  BY DEF CancelBegin, TypeOK
<1>2. IsFiniteSet(chosen) /\ \A s \in chosen : orders[s] \in Order
  <2>1. IsFiniteSet(1 .. MaxSequence) /\ chosen \subseteq DOMAIN orders
    BY FS_Interval, ExchangeAssumption DEF OpenOf
  <2>. QED  BY <2>1, FS_Subset DEF TypeOK
<1>3. \A v \in Users, c \in Currencies : ChangeIn(v, c, cancel'[u], orders) = 0
  BY <1>1, <1>2, NothingChanged
<1>. QED  BY <1>1, <1>3 DEF CancelFits, NoDelta

LEMMA CancelOneFits ==
    ASSUME TypeOK, DOMAIN orders \subseteq 1 .. MaxSequence, NEW u \in Users,
           CancelHolds(cancel[u], u), CancelFits(cancel[u], orders),
           NEW s \in cancel[u].todo, CancelOne(u, s)
    PROVE  CancelFits(cancel'[u], orders)
<1>. DEFINE t == cancel[u]
            w == cancel'[u]
            order == t.rows[s]
            currency == ReservedCurrency(order)
            release == Outstanding(order)
<1>1. CancelTypeOK(t) /\ t.rows \in [t.locked -> Order] /\ s \in t.locked /\ t.delta \in Balances
  BY DEF TypeOK, CancelTypeOK, TransactionTypeOK
<1>2. /\ w.phase = t.phase /\ w.locked = t.locked
      /\ w.todo = t.todo \ {s}
      /\ w.rows = [t.rows EXCEPT ![s].status = "cancelled"]
      /\ w.delta = Credit(t.delta, u, currency, release, -release)
  BY <1>1 DEF CancelOne, TypeOK, CancelTypeOK
<1>3. \A x \in t.locked : orders[x] \in Order
  BY DEF CancelHolds, TypeOK
<1>4. IsFiniteSet(t.locked)
  <2>1. IsFiniteSet(1 .. MaxSequence) /\ t.locked \subseteq DOMAIN orders
    BY FS_Interval, ExchangeAssumption DEF CancelHolds
  <2>. QED  BY <2>1, FS_Subset
<1>5. /\ order \in Order /\ order.user = u /\ order.status = orders[s].status /\ IsOpen(orders[s])
  BY <1>1 DEF CancelHolds, SameTerms, CancelFits
<1>6. IsOpen(order) /\ release \in Nat /\ currency \in Currencies
  BY <1>5, OutstandingType DEF IsOpen
<1>7. /\ w.rows[s] = [order EXCEPT !.status = "cancelled"]
      /\ \A x \in t.locked \ {s} : w.rows[x] = t.rows[x]
      /\ \A x \in t.locked : w.rows[x] \in Order
  BY <1>1, <1>2 DEF Order, Statuses
<1>8. w.rows[s].status = "cancelled" /\ ~IsOpen(w.rows[s])
  BY <1>5, <1>7 DEF Order, IsOpen
<1>. HIDE DEF w, order, currency, release, t
<1>9. ASSUME t.phase = "cancelling", NEW v \in Users, NEW c \in Currencies
      PROVE  /\ w.delta[v][c].reserved = ChangeIn(v, c, w, orders)
             /\ w.delta[v][c].available = -w.delta[v][c].reserved
             /\ w.delta[v][c].available >= 0
  <2>. DEFINE held == Reserves(v, c, order)
              d == t.delta[v][c]
              e == w.delta[v][c]
  <2>1. held = IF v = u /\ c = currency THEN release ELSE 0
    BY <1>5, <1>6 DEF Reserves, currency, release
  <2>2. Reserves(v, c, w.rows[s]) = 0 /\ held \in Nat
    BY <1>1, <1>5, <1>7, <1>8, ReservesType
  <2>3. /\ ChangeIn(v, c, t, orders) \in Int
        /\ ChangeIn(v, c, w, orders)
             = ChangeIn(v, c, t, orders) + (Reserves(v, c, w.rows[s]) - held)
    <3>1. OneRowApart(t, w, s, orders)
      BY <1>1, <1>2, <1>3, <1>4, <1>7 DEF OneRowApart
    <3>. QED  BY <3>1, OneRowChanges DEF order
  <2>4. /\ d.available \in Int /\ d.reserved \in Int
        /\ e.available = d.available + held /\ e.reserved = d.reserved - held
    <3>1. -release \in Int
      BY <1>6
    <3>2. /\ d.available \in Int /\ d.reserved \in Int
          /\ e.available = d.available + (IF v = u /\ c = currency THEN release ELSE 0)
          /\ e.reserved = d.reserved + (IF v = u /\ c = currency THEN -release ELSE 0)
      <4>1. t.delta \in Balances /\ release \in Int /\ currency \in Currencies
        BY <1>1, <1>6
      <4>2. w.delta = Credit(t.delta, u, currency, release, -release)
        BY <1>2
      <4>. QED  BY ONLY <3>1, <4>1, <4>2, CreditEffect, u \in Users, v \in Users, c \in Currencies
    <3>. QED  BY <1>6, <2>1, <3>2
  <2>5. /\ d.reserved = ChangeIn(v, c, t, orders) /\ d.available = -d.reserved /\ d.available >= 0
    BY <1>9 DEF CancelFits, t
  <2>. HIDE DEF held, d, e
  <2>6. /\ e.reserved = ChangeIn(v, c, w, orders)
        /\ e.available = -e.reserved /\ e.available >= 0
    BY <2>2, <2>3, <2>4, <2>5
  <2>. QED  BY <2>6 DEF e
<1>10. ASSUME NEW x \in t.locked
       PROVE  w.rows[x].status = IF x \in w.todo THEN orders[x].status ELSE "cancelled"
  BY <1>2, <1>7, <1>8 DEF CancelFits, t
<1>. QED  BY <1>2, <1>9, <1>10 DEF CancelFits, w

-----------------------------------------------------------------------------
(* A tick keeps its account *)

\* A tick that has its locks has changed nothing yet.
LEMMA TickLockFits ==
    ASSUME TypeOK, DOMAIN orders \subseteq 1 .. MaxSequence,
           \A s \in DOMAIN orders : StatusFits(orders[s]),
           NEW i \in Instruments, TickLock(i)
    PROVE  TickFits(tick'[i], orders)
<1>. DEFINE t == tick'[i]
            locked == tick[i].seen \cap BookOf(i)
<1>1. /\ t.phase = "matching" /\ t.locked = locked /\ t.fills = {}
      /\ t.rows = [s \in locked |-> orders[s]] /\ t.delta = NoDelta
  BY DEF TickLock, TypeOK, NoTick
<1>2. locked \subseteq DOMAIN orders /\ \A s \in locked : IsOpen(orders[s])
  BY DEF BookOf
<1>. HIDE DEF locked, t
<1>3. IsFiniteSet(locked) /\ \A s \in locked : orders[s] \in Order
  <2>1. IsFiniteSet(1 .. MaxSequence)
    BY FS_Interval, ExchangeAssumption
  <2>. QED  BY <1>2, <2>1, FS_Subset DEF TypeOK
<1>4. \A u \in Users, c \in Currencies : ChangeIn(u, c, t, orders) = 0
  BY <1>1, <1>3, NothingChanged
<1>5. ASSUME NEW u \in Users, NEW c \in Currencies
      PROVE  /\ SumFunction([f \in t.fills |-> GainedIn(u, c, f, orders)]) = 0
             /\ Cardinality(SpentIn(u, c, t.fills, orders)) = 0
  <2>. DEFINE p == [f \in t.fills |-> GainedIn(u, c, f, orders)]
  <2>1. DOMAIN p = {} /\ SpentIn(u, c, t.fills, orders) = {}
    BY <1>1 DEF SpentIn
  <2>. HIDE DEF p
  <2>2. SumFunction(p) = 0
    BY <2>1, SumEmpty DEF SumFunction
  <2>. QED  BY <2>1, <2>2, FS_EmptySet DEF p
<1>6. \A u \in Users, c \in Currencies : /\ t.delta[u][c].reserved = 0
                                         /\ t.delta[u][c].available = 0
  BY <1>1 DEF NoDelta
<1>7. ASSUME NEW s \in locked
      PROVE  /\ t.rows[s].remaining = orders[s].remaining - FilledIn(s, t.fills)
             /\ t.rows[s].status # "cancelled" /\ StatusFits(t.rows[s])
  <2>1. FilledIn(s, t.fills) = 0
    BY <1>1, NeverFilled, FS_EmptySet
  <2>2. orders[s].remaining \in Nat /\ t.rows[s] = orders[s]
    BY <1>1, <1>3 DEF Order
  <2>. QED  BY <1>2, <2>1, <2>2 DEF IsOpen
<1>8. IsFiniteSet(t.fills)
  BY <1>1, FS_EmptySet
<1>9. TickFits(t, orders)
  BY <1>1, <1>4, <1>5, <1>6, <1>7, <1>8 DEF TickFits
<1>. QED  BY <1>9 DEF t

\* What a fill does to the balances of the buyer and of the seller.
LEMMA BuyerPosting ==
    ASSUME NEW delta \in Balances, NEW row \in Order, NEW f \in Fill, f.quantity <= row.remaining,
           f.price <= row.price, f.instrument \in Instruments,
           NEW u \in Users, NEW c \in Currencies
    PROVE  LET d == BuyerPaid(delta, row, f)
               released == IF row.user = u /\ c = Quote[f.instrument]
                           THEN BalanceAmount(row.remaining, row.price)
                                  - BalanceAmount(row.remaining - f.quantity, row.price)
                           ELSE 0
               moved == IF row.user = u THEN Moved(c, f) ELSE 0
           IN  /\ d \in Balances /\ released \in Int /\ moved \in Int
               /\ d[u][c].reserved = delta[u][c].reserved - released
               /\ d[u][c].available = delta[u][c].available + released + moved
               /\ released + moved
                    >= (IF row.user = u /\ c = Quote[f.instrument] THEN -1 ELSE 0)
<1>. DEFINE base == Base[f.instrument]
            quote == Quote[f.instrument]
            diff == BalanceAmount(row.remaining, row.price)
                      - BalanceAmount(row.remaining - f.quantity, row.price)
            spent == BalanceAmount(f.quantity, f.price)
            q == f.quantity
            first == Credit(delta, row.user, quote, diff - spent, -diff)
            d == BuyerPaid(delta, row, f)
            released == IF row.user = u /\ c = quote THEN diff ELSE 0
            moved == IF row.user = u THEN Moved(c, f) ELSE 0
<1>1. /\ base \in Currencies /\ quote \in Currencies /\ base # quote
      /\ q \in Nat /\ f.price \in Nat /\ row.remaining \in Nat /\ row.price \in Nat
      /\ row.user \in Users \cup {MarketMaker} /\ u # MarketMaker
  BY ExchangeAssumption DEF Fill, Order
<1>2. spent \in Nat /\ diff \in Int /\ diff - spent \in Int /\ -diff \in Int /\ diff - spent >= -1
  <2>1. row.remaining - q \in Nat
    BY <1>1
  <2>2. /\ BalanceAmount(row.remaining, row.price) \in Nat
        /\ BalanceAmount(row.remaining - q, row.price) \in Nat
        /\ spent \in Nat
    BY <1>1, <2>1, BalanceAmountNat
  <2>3. BalanceAmount(row.remaining, row.price) - BalanceAmount(row.remaining - q, row.price)
          - spent >= -1
    BY <1>1, FillDust
  <2>. QED  BY <2>2, <2>3
<1>3. moved = IF row.user = u THEN (IF c = base THEN q ELSE IF c = quote THEN -spent ELSE 0) ELSE 0
  BY <1>1 DEF Moved
<1>4. delta[u][c].available \in Int /\ delta[u][c].reserved \in Int
  BY DEF Balances
<1>5. d = IF row.user = MarketMaker THEN delta ELSE Credit(first, row.user, base, q, 0)
  BY DEF BuyerPaid
<1>. HIDE DEF base, quote, diff, spent, q, first, moved, d
<1>6. /\ d \in Balances /\ released \in Int /\ moved \in Int
      /\ d[u][c].reserved = delta[u][c].reserved - released
      /\ d[u][c].available = delta[u][c].available + released + moved
      /\ released + moved >= (IF row.user = u /\ c = quote THEN -1 ELSE 0)
  <2>1. CASE row.user # u
    <3>1. CASE row.user = MarketMaker
      BY <1>3, <1>4, <1>5, <2>1, <3>1
    <3>2. CASE row.user # MarketMaker
      <4>1. row.user \in Users /\ q \in Int /\ 0 \in Int
        BY <1>1, <3>2
      <4>2. first \in Balances /\ d \in Balances
        BY <1>1, <1>2, <1>5, <3>2, <4>1, CreditType DEF first
      <4>3. /\ first[u][c].available = delta[u][c].available + 0
            /\ first[u][c].reserved = delta[u][c].reserved + 0
        BY <1>1, <1>2, <2>1, <4>1, CreditEffect DEF first
      <4>4. /\ d[u][c].available = first[u][c].available + 0
            /\ d[u][c].reserved = first[u][c].reserved + 0
        BY <1>1, <1>5, <2>1, <3>2, <4>1, <4>2, CreditEffect
      <4>. QED  BY <1>3, <1>4, <2>1, <4>2, <4>3, <4>4
    <3>. QED  BY <3>1, <3>2
  <2>2. CASE row.user = u
    <3>1. row.user # MarketMaker /\ q \in Int /\ 0 \in Int
      BY <1>1, <2>2
    <3>2. first \in Balances /\ d \in Balances
      BY <1>1, <1>2, <1>5, <2>2, <3>1, CreditType DEF first
    <3>3. /\ first[u][c].available = delta[u][c].available + (IF c = quote THEN diff - spent ELSE 0)
          /\ first[u][c].reserved = delta[u][c].reserved + (IF c = quote THEN -diff ELSE 0)
      BY <1>1, <1>2, <2>2, CreditEffect DEF first
    <3>4. /\ d[u][c].available = first[u][c].available + (IF c = base THEN q ELSE 0)
          /\ d[u][c].reserved = first[u][c].reserved + 0
      BY <1>1, <1>5, <2>2, <3>1, <3>2, CreditEffect
    <3>5. CASE c = quote
      BY <1>1, <1>2, <1>3, <1>4, <2>2, <3>2, <3>3, <3>4, <3>5
    <3>6. CASE c # quote
      BY <1>1, <1>2, <1>3, <1>4, <2>2, <3>2, <3>3, <3>4, <3>6
    <3>. QED  BY <3>5, <3>6
  <2>. QED  BY <2>1, <2>2
<1>. QED  BY <1>6 DEF d, moved, quote, diff

LEMMA SellerPosting ==
    ASSUME NEW delta \in Balances, NEW row \in Order, NEW f \in Fill,
           f.instrument \in Instruments, NEW u \in Users, NEW c \in Currencies
    PROVE  LET d == SellerPaid(delta, row, f)
               released == IF row.user = u /\ c = Base[f.instrument] THEN f.quantity ELSE 0
               moved == IF row.user = u THEN Moved(c, f) ELSE 0
           IN  /\ d \in Balances /\ released \in Int /\ moved \in Int
               /\ d[u][c].reserved = delta[u][c].reserved - released
               /\ d[u][c].available = delta[u][c].available + released - moved
               /\ released - moved >= 0
<1>. DEFINE base == Base[f.instrument]
            quote == Quote[f.instrument]
            spent == BalanceAmount(f.quantity, f.price)
            q == f.quantity
            first == Credit(delta, row.user, base, 0, -q)
            d == SellerPaid(delta, row, f)
            released == IF row.user = u /\ c = base THEN q ELSE 0
            moved == IF row.user = u THEN Moved(c, f) ELSE 0
<1>1. /\ base \in Currencies /\ quote \in Currencies /\ base # quote
      /\ q \in Nat /\ f.price \in Nat
      /\ row.user \in Users \cup {MarketMaker} /\ u # MarketMaker
  BY ExchangeAssumption DEF Fill, Order
<1>2. spent \in Nat /\ -q \in Int /\ 0 \in Int /\ spent \in Int
  <2>1. spent \in Nat
    BY <1>1, BalanceAmountNat
  <2>. HIDE DEF spent
  <2>. QED  BY <1>1, <2>1
<1>3. moved = IF row.user = u THEN (IF c = base THEN q ELSE IF c = quote THEN -spent ELSE 0) ELSE 0
  BY <1>1 DEF Moved
<1>4. delta[u][c].available \in Int /\ delta[u][c].reserved \in Int
  BY DEF Balances
<1>5. d = IF row.user = MarketMaker THEN delta ELSE Credit(first, row.user, quote, spent, 0)
  BY DEF SellerPaid
<1>. HIDE DEF base, quote, spent, q, first, moved, d
<1>6. /\ d \in Balances /\ released \in Int /\ moved \in Int
      /\ d[u][c].reserved = delta[u][c].reserved - released
      /\ d[u][c].available = delta[u][c].available + released - moved
      /\ released - moved >= 0
  <2>1. CASE row.user # u
    <3>1. CASE row.user = MarketMaker
      BY <1>3, <1>4, <1>5, <2>1, <3>1
    <3>2. CASE row.user # MarketMaker
      <4>1. row.user \in Users
        BY <1>1, <3>2
      <4>2. first \in Balances /\ d \in Balances
        BY <1>1, <1>2, <1>5, <3>2, <4>1, CreditType DEF first
      <4>3. /\ first[u][c].available = delta[u][c].available + 0
            /\ first[u][c].reserved = delta[u][c].reserved + 0
        BY <1>1, <1>2, <2>1, <4>1, CreditEffect DEF first
      <4>4. /\ d[u][c].available = first[u][c].available + 0
            /\ d[u][c].reserved = first[u][c].reserved + 0
        BY <1>1, <1>2, <1>5, <2>1, <3>2, <4>1, <4>2, CreditEffect
      <4>. QED  BY <1>3, <1>4, <2>1, <4>2, <4>3, <4>4
    <3>. QED  BY <3>1, <3>2
  <2>2. CASE row.user = u
    <3>1. row.user # MarketMaker
      BY <1>1, <2>2
    <3>2. first \in Balances /\ d \in Balances
      BY <1>1, <1>2, <1>5, <2>2, <3>1, CreditType DEF first
    <3>3. /\ first[u][c].available = delta[u][c].available + 0
          /\ first[u][c].reserved = delta[u][c].reserved + (IF c = base THEN -q ELSE 0)
      BY <1>1, <1>2, <2>2, CreditEffect DEF first
    <3>4. /\ d[u][c].available = first[u][c].available + (IF c = quote THEN spent ELSE 0)
          /\ d[u][c].reserved = first[u][c].reserved + 0
      BY <1>1, <1>2, <1>5, <2>2, <3>1, <3>2, CreditEffect
    <3>5. CASE c = base
      BY <1>1, <1>2, <1>3, <1>4, <2>2, <3>2, <3>3, <3>4, <3>5
    <3>6. CASE c # base
      BY <1>1, <1>2, <1>3, <1>4, <2>2, <3>2, <3>3, <3>4, <3>6
    <3>. QED  BY <3>5, <3>6
  <2>. QED  BY <2>1, <2>2
<1>. QED  BY <1>6 DEF d, moved, base, q

\* A row that a fill takes from: what is left, and what it still reserves.
LEMMA ReducedRow ==
    ASSUME NEW row \in Order, StatusFits(row), row.status # "cancelled",
           NEW q \in Nat, 0 < q, q <= row.remaining
    PROVE  LET r == Reduced(row, q)
           IN  /\ r \in Order /\ r.status # "cancelled" /\ StatusFits(r)
               /\ SameTerms(r, row) /\ r.remaining = row.remaining - q
               /\ IsOpen(row)
               /\ r.remaining > 0 => IsOpen(r)
               /\ r.remaining = 0 => ~IsOpen(r)
<1>. DEFINE r == Reduced(row, q)
<1>1. row.remaining \in Nat /\ row.quantity \in Nat /\ row.status \in Statuses
  BY DEF Order
<1>2. /\ (IF row.remaining > q THEN row.remaining - q ELSE 0) = row.remaining - q
      /\ row.remaining <= q <=> row.remaining = q
      /\ row.remaining - q \in Nat
  BY <1>1
<1>3. /\ r.remaining = row.remaining - q /\ r.remaining \in Nat
      /\ r.status = (IF row.remaining = q THEN "filled" ELSE "partially_filled")
      /\ SameTerms(r, row) /\ r.quantity = row.quantity /\ r.user = row.user
      /\ r \in Order
  <2>. DEFINE left == IF row.remaining > q THEN row.remaining - q ELSE 0
              status == IF row.remaining <= q THEN "filled" ELSE "partially_filled"
  <2>1. r = [row EXCEPT !.remaining = left, !.status = status]
    BY DEF Reduced
  <2>2. left \in Nat /\ left = row.remaining - q /\ status \in Statuses
        /\ status = (IF row.remaining = q THEN "filled" ELSE "partially_filled")
    BY <1>2 DEF Statuses
  <2>. HIDE DEF left, status, r
  <2>. QED  BY <2>1, <2>2 DEF Order, SameTerms
<1>. HIDE DEF r
<1>4. row.status \in {"open", "partially_filled"} /\ row.quantity > 0 /\ row.remaining <= row.quantity
  <2>1. row.status # "filled"
    <3>1. row.remaining # 0
      BY <1>1
    <3>. QED  BY <3>1 DEF StatusFits
  <2>2. row.status \in {"open", "partially_filled"}
    BY <1>1, <2>1 DEF Statuses
  <2>3. row.status = "open" => row.remaining = row.quantity
    BY DEF StatusFits
  <2>4. row.status = "partially_filled" => row.remaining \in 1 .. (row.quantity - 1)
    BY DEF StatusFits
  <2>. QED  BY <1>1, <2>2, <2>3, <2>4
<1>5. StatusFits(r)
  <2>1. CASE row.remaining = q
    <3>1. r.status = "filled" /\ r.remaining = 0 /\ r.quantity > 0
      BY <1>1, <1>3, <1>4, <2>1
    <3>. QED  BY <3>1 DEF StatusFits
  <2>2. CASE row.remaining # q
    <3>1. r.status = "partially_filled" /\ r.remaining \in 1 .. (r.quantity - 1) /\ r.quantity > 0
      BY <1>1, <1>3, <1>4, <2>2
    <3>. QED  BY <3>1 DEF StatusFits
  <2>. QED  BY <2>1, <2>2
<1>6. r.status # "cancelled" /\ (r.remaining > 0 => IsOpen(r)) /\ (r.remaining = 0 => ~IsOpen(r))
  BY <1>1, <1>3 DEF IsOpen
<1>. QED  BY <1>3, <1>4, <1>5, <1>6 DEF r, IsOpen

\* So a fill releases of the reservation what apply_fill takes off the account.
LEMMA ReducedReserves ==
    ASSUME NEW row \in Order, StatusFits(row), row.status # "cancelled",
           NEW q \in Nat, 0 < q, q <= row.remaining, NEW u, NEW c
    PROVE  Reserves(u, c, Reduced(row, q)) - Reserves(u, c, row)
             = -(IF row.user = u /\ c = ReservedCurrency(row)
                 THEN IF row.side = "buy"
                      THEN BalanceAmount(row.remaining, row.price)
                             - BalanceAmount(row.remaining - q, row.price)
                      ELSE q
                 ELSE 0)
<1>. DEFINE r == Reduced(row, q)
<1>1. /\ r.remaining = row.remaining - q /\ SameTerms(r, row) /\ IsOpen(row) /\ r \in Order
      /\ r.remaining > 0 => IsOpen(r)
      /\ r.remaining = 0 => ~IsOpen(r)
  BY ReducedRow
<1>. HIDE DEF r
<1>2. /\ row.remaining \in Nat /\ r.remaining \in Nat /\ row.price \in Nat
      /\ r.price = row.price /\ r.side = row.side /\ r.user = row.user
      /\ ReservedCurrency(r) = ReservedCurrency(row)
  BY <1>1 DEF Order, SameTerms, ReservedCurrency
<1>3. BalanceAmount(row.remaining, row.price) \in Nat /\ BalanceAmount(r.remaining, row.price) \in Nat
  BY <1>2, BalanceAmountNat
<1>4. Reserves(u, c, row) = IF row.user = u /\ ReservedCurrency(row) = c THEN Outstanding(row) ELSE 0
  BY <1>1 DEF Reserves
<1>5. Reserves(u, c, r) = IF row.user = u /\ ReservedCurrency(row) = c THEN Outstanding(r) ELSE 0
  <2>1. CASE r.remaining > 0
    BY <1>1, <1>2, <2>1 DEF Reserves
  <2>2. CASE r.remaining = 0
    BY <1>1, <1>2, <2>2, NothingReserved DEF Reserves, Outstanding
  <2>. QED  BY <1>2, <2>1, <2>2
<1>6. CASE row.user = u /\ c = ReservedCurrency(row) /\ row.side = "buy"
  <2>1. /\ Reserves(u, c, row) = BalanceAmount(row.remaining, row.price)
        /\ Reserves(u, c, r) = BalanceAmount(row.remaining - q, row.price)
    BY <1>1, <1>2, <1>4, <1>5, <1>6 DEF Outstanding
  <2>. QED  BY <1>1, <1>3, <1>6, <2>1 DEF r
<1>7. CASE row.user = u /\ c = ReservedCurrency(row) /\ row.side # "buy"
  <2>1. Reserves(u, c, row) = row.remaining /\ Reserves(u, c, r) = row.remaining - q
    BY <1>1, <1>2, <1>4, <1>5, <1>7 DEF Outstanding
  <2>. QED  BY <1>2, <1>7, <2>1 DEF r
<1>8. CASE ~(row.user = u /\ c = ReservedCurrency(row))
  BY <1>4, <1>5, <1>8 DEF r
<1>. QED  BY <1>6, <1>7, <1>8

\* A fill f takes a tick from t to w, over the orders of a table.
Fills(t, w, f, table) ==
    /\ t.phase = "matching" /\ w.phase = "matching"
    /\ IsFiniteSet(t.locked) /\ w.locked = t.locked
    /\ f \in Fill /\ f \notin t.fills /\ t.fills \subseteq Fill /\ w.fills = t.fills \cup {f}
    /\ f.maker \in t.locked /\ f.taker \in t.locked /\ f.maker # f.taker
    /\ f.instrument \in Instruments
    /\ \A s \in t.locked : /\ t.rows[s] \in Order /\ table[s] \in Order
                           /\ t.rows[s].user = table[s].user
    /\ \A s \in {f.maker, f.taker} :
         t.rows[s].instrument = f.instrument /\ f.quantity <= t.rows[s].remaining
    /\ t.rows[f.taker].side = "buy" /\ t.rows[f.maker].side = "sell"
    /\ f.quantity > 0 /\ f.price <= t.rows[f.taker].price
    /\ w.rows = [s \in t.locked |-> IF s \in {f.maker, f.taker}
                                    THEN Reduced(t.rows[s], f.quantity) ELSE t.rows[s]]
    /\ t.delta \in Balances
    /\ w.delta = SellerPaid(BuyerPaid(t.delta, t.rows[f.taker], f), t.rows[f.maker], f)

\* What the two rows of a fill release is what the reservations change by.
LEMMA FillChange ==
    ASSUME NEW t, NEW w, NEW f, NEW table, Fills(t, w, f, table), TickFits(t, table),
           NEW u \in Users, NEW c \in Currencies
    PROVE  /\ ChangeIn(u, c, t, table) \in Int
           /\ ChangeIn(u, c, w, table)
                = ChangeIn(u, c, t, table)
                    + (Reserves(u, c, w.rows[f.taker]) - Reserves(u, c, t.rows[f.taker]))
                    + (Reserves(u, c, w.rows[f.maker]) - Reserves(u, c, t.rows[f.maker]))
<1>. DEFINE b == f.taker
            s == f.maker
            m == [locked |-> t.locked,
                  rows |-> [x \in t.locked |-> IF x = b THEN w.rows[b] ELSE t.rows[x]]]
<1>1. /\ b \in t.locked /\ s \in t.locked /\ b # s /\ w.locked = t.locked /\ IsFiniteSet(t.locked)
      /\ (\A x \in t.locked : t.rows[x] \in Order /\ table[x] \in Order)
      /\ \A x \in t.locked : w.rows[x] = IF x \in {b, s} THEN Reduced(t.rows[x], f.quantity) ELSE t.rows[x]
      /\ \A x \in {b, s} : f.quantity <= t.rows[x].remaining
      /\ f.quantity > 0 /\ f.quantity \in Nat
  BY DEF Fills, Fill
<1>2. \A x \in t.locked : t.rows[x].status # "cancelled" /\ StatusFits(t.rows[x])
  BY DEF TickFits
<1>3. /\ m.locked = t.locked
      /\ \A x \in t.locked : m.rows[x] = IF x = b THEN w.rows[b] ELSE t.rows[x]
  OBVIOUS
<1>. HIDE DEF b, s, m
<1>4. \A x \in t.locked : w.rows[x] \in Order
  BY <1>1, <1>2, ReducedRow
<1>5. OneRowApart(t, m, b, table) /\ OneRowApart(m, w, s, table)
  BY <1>1, <1>3, <1>4 DEF OneRowApart
<1>6. /\ ChangeIn(u, c, t, table) \in Int
      /\ ChangeIn(u, c, m, table)
           = ChangeIn(u, c, t, table) + (Reserves(u, c, m.rows[b]) - Reserves(u, c, t.rows[b]))
      /\ ChangeIn(u, c, w, table)
           = ChangeIn(u, c, m, table) + (Reserves(u, c, w.rows[s]) - Reserves(u, c, m.rows[s]))
  BY <1>5, OneRowChanges
<1>7. m.rows[b] = w.rows[b] /\ m.rows[s] = t.rows[s]
  BY <1>1, <1>3
<1>8. ChangeIn(u, c, w, table)
        = ChangeIn(u, c, t, table) + (Reserves(u, c, w.rows[b]) - Reserves(u, c, t.rows[b]))
            + (Reserves(u, c, w.rows[s]) - Reserves(u, c, t.rows[s]))
  BY <1>6, <1>7
<1>. QED  BY <1>6, <1>8 DEF b, s

\* The balances of a tick follow its rows and its fills.
LEMMA FillBalances ==
    ASSUME NEW t, NEW w, NEW f, NEW table, Fills(t, w, f, table), TickFits(t, table),
           NEW u \in Users, NEW c \in Currencies
    PROVE  /\ w.delta[u][c].reserved = ChangeIn(u, c, w, table)
           /\ w.delta[u][c].available + w.delta[u][c].reserved
                = SumFunction([g \in w.fills |-> GainedIn(u, c, g, table)])
           /\ w.delta[u][c].available >= -Cardinality(SpentIn(u, c, w.fills, table))
<1>. DEFINE b == f.taker
            s == f.maker
            q == f.quantity
            buy == t.rows[b]
            sell == t.rows[s]
            paid == BuyerPaid(t.delta, buy, f)
            diff == BalanceAmount(buy.remaining, buy.price) - BalanceAmount(buy.remaining - q, buy.price)
            fromBuy == IF buy.user = u /\ c = Quote[f.instrument] THEN diff ELSE 0
            fromSell == IF sell.user = u /\ c = Base[f.instrument] THEN q ELSE 0
            bought == IF buy.user = u THEN Moved(c, f) ELSE 0
            sold == IF sell.user = u THEN Moved(c, f) ELSE 0
            dust == IF buy.user = u /\ c = Quote[f.instrument] THEN 1 ELSE 0
            gained == SumFunction([g \in t.fills |-> GainedIn(u, c, g, table)])
            change == ChangeIn(u, c, t, table)
            spent == Cardinality(SpentIn(u, c, t.fills, table))
            d == t.delta[u][c]
            e == w.delta[u][c]
<1>1. /\ t.phase = "matching" /\ IsFiniteSet(t.fills) /\ t.fills \subseteq Fill
      /\ f \in Fill /\ f \notin t.fills /\ w.fills = t.fills \cup {f} /\ f.instrument \in Instruments
      /\ t.delta \in Balances /\ w.delta = SellerPaid(paid, sell, f)
  BY DEF Fills, TickFits
<1>2. /\ b \in t.locked /\ s \in t.locked
      /\ buy \in Order /\ sell \in Order /\ q \in Nat /\ 0 < q
      /\ q <= buy.remaining /\ q <= sell.remaining /\ f.price <= buy.price
      /\ buy.instrument = f.instrument /\ sell.instrument = f.instrument
      /\ buy.side = "buy" /\ sell.side = "sell"
      /\ w.rows[b] = Reduced(buy, q) /\ w.rows[s] = Reduced(sell, q)
      /\ table[b].user = buy.user /\ table[s].user = sell.user
  BY DEF Fills, Fill
<1>3. /\ buy.status # "cancelled" /\ StatusFits(buy)
      /\ sell.status # "cancelled" /\ StatusFits(sell)
  BY <1>2 DEF TickFits
<1>4. /\ d.available \in Int /\ d.reserved \in Int
      /\ d.reserved = change /\ d.available + d.reserved = gained /\ d.available >= -spent
  BY <1>1 DEF TickFits, Balances
<1>5. /\ paid \in Balances /\ fromBuy \in Int /\ bought \in Int
      /\ paid[u][c].reserved = d.reserved - fromBuy
      /\ paid[u][c].available = d.available + fromBuy + bought
      /\ fromBuy + bought >= -dust
  <2>1. -dust = IF buy.user = u /\ c = Quote[f.instrument] THEN -1 ELSE 0
    OBVIOUS
  <2>. QED  BY <1>1, <1>2, <2>1, BuyerPosting
<1>6. /\ fromSell \in Int /\ sold \in Int
      /\ e.reserved = paid[u][c].reserved - fromSell
      /\ e.available = paid[u][c].available + fromSell - sold
      /\ fromSell - sold >= 0
  BY <1>1, <1>2, <1>5, SellerPosting
<1>7. change \in Int /\ ChangeIn(u, c, w, table) = change - fromBuy - fromSell
  <2>1. ReservedCurrency(buy) = Quote[f.instrument] /\ ReservedCurrency(sell) = Base[f.instrument]
    BY <1>2 DEF ReservedCurrency
  <2>2. Reserves(u, c, w.rows[b]) - Reserves(u, c, buy) = -fromBuy
    BY <1>2, <1>3, <2>1, ReducedReserves
  <2>3. Reserves(u, c, w.rows[s]) - Reserves(u, c, sell) = -fromSell
    BY <1>2, <1>3, <2>1, ReducedReserves
  <2>4. change \in Int /\ ChangeIn(u, c, w, table)
          = change + (Reserves(u, c, w.rows[b]) - Reserves(u, c, buy))
                   + (Reserves(u, c, w.rows[s]) - Reserves(u, c, sell))
    BY FillChange
  <2>. HIDE DEF change, fromBuy, fromSell
  <2>. QED  BY <1>5, <1>6, <2>2, <2>3, <2>4
<1>8. gained \in Int
      /\ SumFunction([g \in w.fills |-> GainedIn(u, c, g, table)]) = gained + (bought - sold)
  <2>1. GainedIn(u, c, f, table) = bought - sold
    BY <1>2 DEF GainedIn
  <2>2. /\ gained \in Int
        /\ SumFunction([g \in t.fills \cup {f} |-> GainedIn(u, c, g, table)])
             = gained + GainedIn(u, c, f, table)
    BY <1>1, OneMoreFill
  <2>. HIDE DEF gained, bought, sold
  <2>. QED  BY <1>1, <2>1, <2>2
<1>9. spent \in Nat /\ Cardinality(SpentIn(u, c, w.fills, table)) = spent + dust
  <2>. DEFINE S == SpentIn(u, c, t.fills, table)
  <2>1. IsFiniteSet(S) /\ f \notin S
    BY <1>1, FS_Subset DEF SpentIn
  <2>2. SpentIn(u, c, w.fills, table) = IF dust = 1 THEN S \cup {f} ELSE S
    BY <1>1, <1>2 DEF SpentIn
  <2>. HIDE DEF S
  <2>3. Cardinality(S) \in Nat /\ Cardinality(S \cup {f}) = Cardinality(S) + 1
    BY <2>1, FS_CardinalityType, FS_AddElement
  <2>. QED  BY <2>2, <2>3 DEF S
<1>10. dust \in Nat
  OBVIOUS
<1>. HIDE DEF b, s, q, buy, sell, paid, diff, fromBuy, fromSell, bought, sold, dust, gained, change,
              spent, d, e
<1>11. e.reserved = change - fromBuy - fromSell
  BY <1>4, <1>5, <1>6, <1>7
<1>12. e.available + e.reserved = gained + (bought - sold)
  <2>1. e.available = d.available + fromBuy + bought + fromSell - sold
    BY <1>6, <1>5
  <2>2. e.reserved = d.reserved - fromBuy - fromSell
    BY <1>4, <1>11
  <2>3. /\ d.available \in Int /\ d.reserved \in Int /\ fromBuy \in Int /\ fromSell \in Int
        /\ bought \in Int /\ sold \in Int /\ d.available + d.reserved = gained
    BY <1>4, <1>5, <1>6
  <2>. QED  BY ONLY <2>1, <2>2, <2>3
<1>13. e.available >= -(spent + dust)
  BY <1>4, <1>5, <1>6, <1>9, <1>10
<1>14. /\ e.reserved = ChangeIn(u, c, w, table)
       /\ e.available + e.reserved = SumFunction([g \in w.fills |-> GainedIn(u, c, g, table)])
       /\ e.available >= -Cardinality(SpentIn(u, c, w.fills, table))
  BY <1>7, <1>8, <1>9, <1>11, <1>12, <1>13
<1>. QED  BY <1>14 DEF e

\* The rows of a tick have lost what its fills took.
LEMMA FillRows ==
    ASSUME NEW t, NEW w, NEW f, NEW table, Fills(t, w, f, table), TickFits(t, table),
           NEW s \in t.locked
    PROVE  /\ w.rows[s].remaining = table[s].remaining - FilledIn(s, w.fills)
           /\ w.rows[s].status # "cancelled" /\ StatusFits(w.rows[s])
<1>1. /\ IsFiniteSet(t.fills) /\ t.fills \subseteq Fill
      /\ f \in Fill /\ f \notin t.fills /\ w.fills = t.fills \cup {f}
      /\ f.quantity \in Nat /\ 0 < f.quantity
  BY DEF Fills, TickFits, Fill
<1>2. /\ t.rows[s] \in Order /\ t.rows[s].remaining \in Nat /\ table[s].remaining \in Nat
      /\ s \in {f.maker, f.taker} => f.quantity <= t.rows[s].remaining
      /\ w.rows[s] = IF s \in {f.maker, f.taker} THEN Reduced(t.rows[s], f.quantity) ELSE t.rows[s]
  BY DEF Fills, Order
<1>3. /\ t.rows[s].remaining = table[s].remaining - FilledIn(s, t.fills)
      /\ t.rows[s].status # "cancelled" /\ StatusFits(t.rows[s])
  BY DEF TickFits
<1>4. /\ FilledIn(s, t.fills) \in Int
      /\ FilledIn(s, w.fills)
           = FilledIn(s, t.fills) + (IF s \in {f.maker, f.taker} THEN f.quantity ELSE 0)
  BY <1>1, OneMoreFilled
<1>5. CASE s \in {f.maker, f.taker}
  <2>1. LET r == w.rows[s]
        IN  /\ r.status # "cancelled" /\ StatusFits(r)
            /\ r.remaining = t.rows[s].remaining - f.quantity
    BY <1>1, <1>2, <1>3, <1>5, ReducedRow
  <2>. QED  BY <1>1, <1>2, <1>3, <1>4, <1>5, <2>1
<1>6. CASE s \notin {f.maker, f.taker}
  BY <1>2, <1>3, <1>4, <1>6
<1>. QED  BY <1>5, <1>6

LEMMA FillFits ==
    ASSUME NEW t, NEW w, NEW f, NEW table, Fills(t, w, f, table), TickFits(t, table)
    PROVE  TickFits(w, table)
<1>1. w.locked = t.locked /\ IsFiniteSet(w.fills)
  BY FS_AddElement DEF Fills, TickFits
<1>2. \A u \in Users, c \in Currencies :
        /\ w.delta[u][c].reserved = ChangeIn(u, c, w, table)
        /\ w.delta[u][c].available + w.delta[u][c].reserved
             = SumFunction([g \in w.fills |-> GainedIn(u, c, g, table)])
        /\ w.delta[u][c].available >= -Cardinality(SpentIn(u, c, w.fills, table))
  BY FillBalances
<1>3. \A s \in w.locked :
        /\ w.rows[s].remaining = table[s].remaining - FilledIn(s, w.fills)
        /\ w.rows[s].status # "cancelled" /\ StatusFits(w.rows[s])
  BY <1>1, FillRows
<1>. QED  BY <1>1, <1>2, <1>3 DEF TickFits

\* A step of match_taker is such a fill.
LEMMA TickFillFits ==
    ASSUME BookInv, DOMAIN orders \subseteq 1 .. MaxSequence, NEW i \in Instruments,
           TickFits(tick[i], orders),
           NEW buy \in tick[i].buys, NEW sell \in Makers(tick[i]), TickFill(i, buy, sell)
    PROVE  TickFits(tick'[i], orders)
<1>. DEFINE t == tick[i]
            w == tick'[i]
            f == NextFill(i, buy, sell)
<1>0. TypeOK /\ LocksHold /\ SentinelPrice /\ FillsSound /\ BuysServed
  BY DEF BookInv
<1>1. /\ TickTypeOK(t) /\ TickHolds(t, i) /\ t.phase = "matching"
      /\ t.fills \subseteq Fill /\ t.delta \in Balances /\ t.rows \in [t.locked -> Order]
  BY <1>0 DEF TypeOK, TickTypeOK, TransactionTypeOK, LocksHold, TickFill
<1>2. /\ buy \in t.locked /\ sell \in t.locked
      /\ w.phase = "matching" /\ w.locked = t.locked /\ w.fills = t.fills \cup {f}
      /\ w.rows = [s \in t.locked |->
                     IF s \in {buy, sell} THEN Reduced(t.rows[s], f.quantity) ELSE t.rows[s]]
  BY <1>0, FillResult
<1>3. /\ f \in Fill /\ f.maker = sell /\ f.taker = buy /\ f.instrument = i
      /\ f.quantity <= t.book[buy].remaining /\ f.quantity <= t.book[sell].remaining
      /\ f.quantity = t.book[buy].remaining \/ f.quantity = t.book[sell].remaining
  BY <1>0, <1>2, NextFillType
<1>4. f.price <= t.rows[buy].price
  BY <1>0, PriceWithinLimits
<1>5. f \notin fills \cup t.fills
  BY <1>0, PairIsNew DEF SamePair
<1>6. t.book[buy].side = "buy" /\ t.book[sell].side = "sell"
      /\ t.book[buy].remaining > 0 /\ t.book[sell].remaining > 0
  BY <1>0 DEF BuysServed, Makers, TickFill
<1>. HIDE DEF f
<1>7. w = ApplyFill([t EXCEPT !.book = Deducted(@, f)], f)
  BY <1>0, <1>5 DEF TickFill, Settled, TypeOK, f
<1>8. w.delta = SellerPaid(BuyerPaid(t.delta, t.rows[buy], f), t.rows[sell], f)
  BY <1>1, <1>3, <1>7 DEF ApplyFill, TickTypeOK
<1>9. \A s \in {buy, sell} : t.book[s] = BookEntry(s, t.rows[s]) /\ t.rows[s].instrument = i
  BY <1>1, <1>2 DEF TickHolds, SameTerms
<1>10. /\ t.rows[buy].side = "buy" /\ t.rows[sell].side = "sell" /\ buy # sell
       /\ f.quantity <= t.rows[buy].remaining /\ f.quantity <= t.rows[sell].remaining
       /\ f.quantity > 0
  BY <1>3, <1>6, <1>9 DEF BookEntry
<1>11. \A s \in t.locked : orders[s] \in Order /\ t.rows[s].user = orders[s].user
  BY <1>0, <1>1 DEF TickHolds, SameTerms, TypeOK
<1>12. IsFiniteSet(t.locked)
  <2>1. IsFiniteSet(1 .. MaxSequence) /\ t.locked \subseteq DOMAIN orders
    BY <1>1, FS_Interval, ExchangeAssumption DEF TickHolds
  <2>. QED  BY <2>1, FS_Subset
<1>. HIDE DEF t, w
<1>13. Fills(t, w, f, orders)
  BY <1>1, <1>2, <1>3, <1>4, <1>5, <1>8, <1>9, <1>10, <1>11, <1>12 DEF Fills
<1>. QED  BY <1>13, FillFits DEF t, w

-----------------------------------------------------------------------------
(* The tables and the transactions together *)

\* What the tables say of each other.
Books(acc, table, trades) ==
    /\ \A u \in Users, c \in Currencies :
         /\ acc[u][c].reserved = TotalIn(u, c, table) + DustIn(u, c, table)
         /\ acc[u][c].available + acc[u][c].reserved
              = Grant[u][c] + SumFunction([f \in trades |-> GainedIn(u, c, f, table)])
         /\ acc[u][c].available >= -Cardinality(SpentIn(u, c, trades, table))
    /\ \A s \in DOMAIN table :
         /\ table[s].remaining = table[s].quantity - FilledIn(s, trades)
         /\ StatusFits(table[s])
         /\ table[s].user \in Users => ChargedAsStored(table[s])

Ledger == LedgerInv /\ Books(accounts, orders, fills)

\* The same properties as the runs check.
LEMMA LedgerSays ==
    Ledger => ReservationsExact /\ FillsExplainBalances /\ OrdersMatchFills /\ OverdraftIsDust
<1>. SUFFICES ASSUME Ledger
              PROVE  ReservationsExact /\ FillsExplainBalances /\ OrdersMatchFills /\ OverdraftIsDust
  OBVIOUS
<1>1. TypeOK /\ DOMAIN orders \subseteq 1 .. MaxSequence
  BY FitsInTerms DEF Ledger, BookInv
<1>2. ReservationsExact
  BY <1>1, ReservedIsTotal DEF Ledger, Books
<1>3. FillsExplainBalances
  <2>1. \A u \in Users, c \in Currencies :
          [f \in fills |-> Gained(u, c, f)] = [f \in fills |-> GainedIn(u, c, f, orders)]
    BY InTerms
  <2>. QED  BY <2>1 DEF Ledger, Books, FillsExplainBalances
<1>4. OverdraftIsDust
  BY InTerms DEF Ledger, Books, OverdraftIsDust
<1>. QED  BY <1>2, <1>3, <1>4 DEF Ledger, Books, OrdersMatchFills

\* What a step has to keep, besides the book.
LedgerKept ==
    /\ DOMAIN orders' \subseteq 1 .. MaxSequence
    /\ IsFiniteSet(fills')
    /\ \A u \in Users : CancelFits(cancel'[u], orders')
    /\ \A i \in Instruments : TickFits(tick'[i], orders')
    /\ Books(accounts', orders', fills')

\* Facts of the ledger that its steps need.
LEMMA LedgerFacts ==
    ASSUME Ledger
    PROVE  /\ BookInv /\ TypeOK /\ LocksHold /\ FillsSound
           /\ DOMAIN orders \subseteq 1 .. MaxSequence /\ IsFiniteSet(DOMAIN orders)
           /\ \A s \in DOMAIN orders : orders[s] \in Order
           /\ fills \subseteq Fill /\ IsFiniteSet(fills)
           /\ \A f \in fills : f.maker \in DOMAIN orders /\ f.taker \in DOMAIN orders
           /\ \A i \in Instruments : \A f \in tick[i].fills :
                f.maker \in tick[i].locked /\ f.taker \in tick[i].locked
           /\ \A u \in Users : CancelFits(cancel[u], orders)
           /\ \A i \in Instruments : TickFits(tick[i], orders)
           /\ Books(accounts, orders, fills)
<1>1. /\ BookInv /\ TypeOK /\ LocksHold /\ FillsSound /\ fills \subseteq Fill
      /\ DOMAIN orders \subseteq 1 .. MaxSequence /\ IsFiniteSet(fills)
      /\ \A u \in Users : CancelFits(cancel[u], orders)
      /\ \A i \in Instruments : TickFits(tick[i], orders)
      /\ Books(accounts, orders, fills)
  BY FitsInTerms DEF Ledger, BookInv, TypeOK
<1>2. IsFiniteSet(DOMAIN orders)
  <2>1. IsFiniteSet(1 .. MaxSequence)
    BY FS_Interval, ExchangeAssumption
  <2>. QED  BY <1>1, <2>1, FS_Subset
<1>3. \A s \in DOMAIN orders : orders[s] \in Order
  BY <1>1 DEF TypeOK
<1>4. \A f \in fills : f.maker \in DOMAIN orders /\ f.taker \in DOMAIN orders
  BY <1>1 DEF FillsSound, SoundFill
<1>5. ASSUME NEW i \in Instruments, NEW f \in tick[i].fills
      PROVE  f.maker \in tick[i].locked /\ f.taker \in tick[i].locked
  <2>1. DOMAIN tick[i].rows = tick[i].locked
    BY <1>1 DEF TypeOK, TickTypeOK, TransactionTypeOK
  <2>. QED  BY <1>1, <2>1 DEF FillsSound, SoundFill
<1>. QED  BY <1>1, <1>2, <1>3, <1>4, <1>5

\* Sums of quantities are integers.
LEMMA FilledType ==
    ASSUME NEW T, IsFiniteSet(T), T \subseteq Fill, NEW s
    PROVE  FilledIn(s, T) \in Int
<1>. DEFINE p == [g \in T |-> IF s \in {g.maker, g.taker} THEN g.quantity ELSE 0]
<1>1. DOMAIN p = T /\ \A x \in T : p[x] \in Int
  BY DEF Fill
<1>. HIDE DEF p
<1>2. SumFunctionOnSet(p, T) \in Int
  BY <1>1, SumType
<1>. QED  BY <1>1, <1>2 DEF FilledIn, SumFunction, p

LEMMA GainsType ==
    ASSUME NEW T, IsFiniteSet(T), T \subseteq Fill, NEW u, NEW c, NEW table
    PROVE  /\ SumFunction([f \in T |-> GainedIn(u, c, f, table)]) \in Int
           /\ Cardinality(SpentIn(u, c, T, table)) \in Nat
<1>. DEFINE p == [f \in T |-> GainedIn(u, c, f, table)]
<1>1. DOMAIN p = T /\ \A x \in T : p[x] \in Int
  BY GainedType
<1>2. Cardinality(SpentIn(u, c, T, table)) \in Nat
  BY FS_Subset, FS_CardinalityType DEF SpentIn
<1>. HIDE DEF p
<1>3. SumFunctionOnSet(p, T) \in Int
  BY <1>1, SumType
<1>. QED  BY <1>1, <1>2, <1>3 DEF SumFunction, p

\* Steps inside a transaction write no table.
LEMMA LedgerCancelSteps ==
    ASSUME Ledger, NEW u \in Users,
           \/ \E chosen \in SUBSET OpenOf(u) : CancelBegin(u, chosen)
           \/ \E s \in cancel[u].todo : CancelOne(u, s)
           \/ CancelAbort(u)
    PROVE  LedgerKept
<1>0. /\ TypeOK /\ DOMAIN orders \subseteq 1 .. MaxSequence /\ IsFiniteSet(fills)
      /\ CancelHolds(cancel[u], u)
      /\ \A v \in Users : CancelFits(cancel[v], orders)
      /\ \A i \in Instruments : TickFits(tick[i], orders)
      /\ Books(accounts, orders, fills)
  BY LedgerFacts DEF LocksHold
<1>1. /\ accounts' = accounts /\ orders' = orders /\ fills' = fills /\ tick' = tick
      /\ \A v \in Users \ {u} : cancel'[v] = cancel[v]
  BY <1>0 DEF CancelBegin, CancelOne, CancelAbort, tables, TypeOK
<1>2. CancelFits(cancel'[u], orders)
  <2>1. ASSUME NEW chosen \in SUBSET OpenOf(u), CancelBegin(u, chosen)
        PROVE  CancelFits(cancel'[u], orders)
    BY <1>0, <2>1, CancelBeginFits
  <2>2. ASSUME NEW s \in cancel[u].todo, CancelOne(u, s)
        PROVE  CancelFits(cancel'[u], orders)
    BY <1>0, <2>2, CancelOneFits
  <2>3. ASSUME CancelAbort(u)
        PROVE  CancelFits(cancel'[u], orders)
    BY <1>0, <2>3, IdleFits DEF CancelAbort, TypeOK
  <2>. QED  BY <2>1, <2>2, <2>3
<1>. QED  BY <1>0, <1>1, <1>2 DEF LedgerKept

LEMMA LedgerTickSteps ==
    ASSUME Ledger, NEW i \in Instruments,
           \/ TickBegin(i)
           \/ TickLock(i)
           \/ \E buy \in tick[i].buys, sell \in Makers(tick[i]) : TickFill(i, buy, sell)
           \/ \E buy \in tick[i].buys : TickNextBuy(i, buy)
           \/ TickAbort(i)
    PROVE  LedgerKept
<1>0. /\ BookInv /\ TypeOK /\ DOMAIN orders \subseteq 1 .. MaxSequence /\ IsFiniteSet(fills)
      /\ \A v \in Users : CancelFits(cancel[v], orders)
      /\ \A j \in Instruments : TickFits(tick[j], orders)
      /\ Books(accounts, orders, fills)
  BY LedgerFacts
<1>1. /\ accounts' = accounts /\ orders' = orders /\ fills' = fills /\ cancel' = cancel
      /\ \A j \in Instruments \ {i} : tick'[j] = tick[j]
  BY <1>0 DEF TickBegin, TickLock, TickFill, TickNextBuy, TickAbort, tables, TypeOK
<1>2. TickFits(tick'[i], orders)
  <2>1. ASSUME TickBegin(i)
        PROVE  TickFits(tick'[i], orders)
    <3>1. tick'[i].phase = "snapshot" /\ tick'[i].locked = {} /\ tick'[i].fills = {}
      BY <1>0, <2>1 DEF TickBegin, NoTick, TypeOK
    <3>. QED  BY <3>1, FS_EmptySet DEF TickFits
  <2>2. ASSUME TickLock(i)
        PROVE  TickFits(tick'[i], orders)
    BY <1>0, <2>2, TickLockFits DEF Books
  <2>3. ASSUME NEW buy \in tick[i].buys, NEW sell \in Makers(tick[i]), TickFill(i, buy, sell)
        PROVE  TickFits(tick'[i], orders)
    BY <1>0, <2>3, TickFillFits
  <2>4. ASSUME NEW buy \in tick[i].buys, TickNextBuy(i, buy)
        PROVE  TickFits(tick'[i], orders)
    <3>1. /\ tick'[i].phase = tick[i].phase /\ tick'[i].locked = tick[i].locked
          /\ tick'[i].rows = tick[i].rows /\ tick'[i].delta = tick[i].delta
          /\ tick'[i].fills = tick[i].fills
      BY <1>0, <2>4 DEF TickNextBuy, TypeOK, TickTypeOK
    <3>2. \A v, c : ChangeIn(v, c, tick'[i], orders) = ChangeIn(v, c, tick[i], orders)
      BY <3>1 DEF ChangeIn
    <3>. QED  BY <1>0, <3>1, <3>2 DEF TickFits
  <2>5. ASSUME TickAbort(i)
        PROVE  TickFits(tick'[i], orders)
    BY <1>0, <2>5, IdleFits DEF TickAbort, TypeOK
  <2>. QED  BY <2>1, <2>2, <2>3, <2>4, <2>5
<1>. QED  BY <1>0, <1>1, <1>2 DEF LedgerKept

\* Steps that write no row a transaction holds leave every transaction in balance.
LEMMA TransactionsKept ==
    ASSUME Ledger, cancel' = cancel, tick' = tick,
           \A u \in Users : \A s \in cancel[u].locked : orders'[s] = orders[s],
           \A i \in Instruments : \A s \in tick[i].locked : orders'[s] = orders[s]
    PROVE  /\ \A u \in Users : CancelFits(cancel'[u], orders')
           /\ \A i \in Instruments : TickFits(tick'[i], orders')
<1>1. ASSUME NEW u \in Users PROVE CancelFits(cancel'[u], orders')
  <2>1. CancelFits(cancel[u], orders) /\ \A s \in cancel[u].locked : orders[s] = orders'[s]
    BY LedgerFacts
  <2>2. CancelFits(cancel[u], orders')
    BY <2>1, CancelFitsKept
  <2>. QED  BY <2>2
<1>2. ASSUME NEW i \in Instruments PROVE TickFits(tick'[i], orders')
  <2>1. /\ TickFits(tick[i], orders) /\ \A s \in tick[i].locked : orders[s] = orders'[s]
        /\ \A f \in tick[i].fills : f.maker \in tick[i].locked /\ f.taker \in tick[i].locked
    BY LedgerFacts
  <2>2. TickFits(tick[i], orders')
    BY <2>1, TickFitsKept
  <2>. QED  BY <2>2
<1>. QED  BY <1>1, <1>2

\* A step that keeps the terms of all orders and adds none of a user's keeps what
\* placement charged beyond the rows.
LEMMA ChargesKept ==
    ASSUME Ledger, TypeOK', DOMAIN orders \subseteq DOMAIN orders',
           DOMAIN orders' \subseteq 1 .. MaxSequence,
           \A s \in DOMAIN orders : SameTerms(orders'[s], orders[s]),
           \A s \in DOMAIN orders' \ DOMAIN orders : orders'[s].user \notin Users
    PROVE  /\ \A u \in Users, c \in Currencies :
                DustIn(u, c, orders') = DustIn(u, c, orders) /\ DustIn(u, c, orders) \in Int
           /\ \A s \in DOMAIN orders' : orders'[s].user \in Users => ChargedAsStored(orders'[s])
<1>1. /\ \A s \in DOMAIN orders : orders[s] \in Order
      /\ \A s \in DOMAIN orders : orders[s].user \in Users => ChargedAsStored(orders[s])
      /\ IsFiniteSet(DOMAIN orders)
  BY LedgerFacts DEF Books
<1>2. IsFiniteSet(DOMAIN orders') /\ \A s \in DOMAIN orders' : orders'[s] \in Order
  <2>1. IsFiniteSet(1 .. MaxSequence)
    BY FS_Interval, ExchangeAssumption
  <2>2. IsFiniteSet(DOMAIN orders')
    BY ONLY <2>1, FS_Subset, DOMAIN orders' \subseteq 1 .. MaxSequence
  <2>. QED  BY <2>2 DEF TypeOK
<1>3. ASSUME NEW s \in DOMAIN orders
      PROVE  /\ \A u, c : Dust(u, c, orders'[s]) = Dust(u, c, orders[s])
             /\ ChargedAsStored(orders'[s]) <=> ChargedAsStored(orders[s])
             /\ orders'[s].user = orders[s].user
  <2>1. orders[s] \in Order /\ orders'[s] \in Order /\ SameTerms(orders'[s], orders[s])
    BY <1>1, <1>2
  <2>. QED  BY <2>1, DustFixed DEF SameTerms
<1>4. ASSUME NEW u \in Users, NEW c \in Currencies
      PROVE  DustIn(u, c, orders') = DustIn(u, c, orders) /\ DustIn(u, c, orders) \in Int
  <2>1. /\ \A x \in DOMAIN orders : Dust(u, c, orders'[x]) = Dust(u, c, orders[x])
        /\ \A x \in DOMAIN orders' \ DOMAIN orders : orders'[x].user # u
    BY <1>3
  <2>2. DustIn(u, c, orders') = DustIn(u, c, orders)
    BY <1>2, <2>1, DustKept
  <2>3. DustIn(u, c, orders) \in Int
    BY <1>1, DustInType
  <2>. QED  BY <2>2, <2>3
<1>5. ASSUME NEW s \in DOMAIN orders', orders'[s].user \in Users
      PROVE  ChargedAsStored(orders'[s])
  <2>1. s \in DOMAIN orders
    BY <1>5
  <2>. QED  BY <1>1, <1>3, <1>5, <2>1
<1>. QED  BY <1>4, <1>5

\* What place_order charges, against what it stores.
LEMMA PlaceCharges ==
    ASSUME Ledger, TypeOK', NEW u \in Users, NEW c \in ClientIds, NEW r \in Requests,
           NEW s \in NextSequence(u), PlaceOrder(u, c, r, s)
    PROVE  /\ Reserve(r) = Outstanding(orders'[s]) + Surplus(orders'[s])
           /\ ChargedAsStored(orders'[s])
<1>. DEFINE n == orders'[s]
            reference == market[r.instrument].reference
<1>1. /\ n.instrument = r.instrument /\ n.side = r.side /\ n.type = r.type
      /\ n.quantity = r.quantity /\ n.remaining = r.quantity /\ n.price = AcceptedPrice(r)
      /\ n.charged = Reserve(r)
  BY DEF PlaceOrder, NextSequence
<1>2. n \in Order
  <2>1. s \in DOMAIN orders'
    BY DEF PlaceOrder
  <2>. QED  BY <2>1 DEF TypeOK
<1>3. /\ r.instrument \in Instruments /\ r.side \in Sides /\ r.type \in OrderTypes
      /\ r.quantity \in Nat /\ r.price \in Nat
  BY ExchangeAssumption
<1>4. reference \in Nat \ {0}
  BY <1>3, LedgerFacts, ExchangeAssumption DEF TypeOK
<1>. HIDE DEF n, reference
<1>5. /\ n.remaining = n.quantity /\ n.quantity \in Nat /\ n.charged \in Nat
      /\ n.side \in Sides /\ n.type \in OrderTypes
  BY <1>1, <1>2, <1>3 DEF Order
<1>6. [n EXCEPT !.remaining = n.quantity] = n
  BY <1>2, <1>5 DEF Order
<1>7. Surplus(n) = n.charged - Outstanding(n) /\ Outstanding(n) \in Nat
  BY <1>2, <1>6, OutstandingType DEF Surplus
<1>8. Reserve(r) = Outstanding(n) + Surplus(n)
  BY <1>1, <1>5, <1>7
<1>9. CASE n.type = "market" /\ n.side = "buy"
  <2>1. /\ n.charged = MarketBuyReserve(n.quantity, reference)
        /\ Outstanding(n) = BalanceAmount(n.quantity, MarketBuyCap(reference))
    BY <1>1, <1>9 DEF Reserve, AcceptedPrice, Outstanding, reference
  <2>. DEFINE d == MarketBuyReserve(n.quantity, reference)
                     - BalanceAmount(n.quantity, MarketBuyCap(reference))
  <2>2. 2 * Scale * d < n.quantity + 2 * Scale /\ -(2 * Scale * d) < n.quantity + 2 * Scale
    BY <1>4, <1>5, CapRounding
  <2>3. Surplus(n) = d
    BY <1>7, <2>1
  <2>. HIDE DEF d
  <2>. QED  BY <1>8, <1>9, <2>2, <2>3 DEF ChargedAsStored, n
<1>10. CASE ~(n.type = "market" /\ n.side = "buy")
  <2>1. n.charged = Outstanding(n)
    BY <1>1, <1>5, <1>10 DEF Reserve, AcceptedPrice, Outstanding, Sides, OrderTypes
  <2>2. Surplus(n) = 0
    BY <1>5, <1>7, <2>1
  <2>. QED  BY <1>8, <1>10, <2>2 DEF ChargedAsStored, n
<1>. QED  BY <1>9, <1>10

\* An accepted order moves its reservation from one column to the other.
LEMMA LedgerPlace ==
    ASSUME Ledger, TypeOK', NEW u \in Users, NEW c \in ClientIds, NEW r \in Requests,
           NEW s \in NextSequence(u), PlaceOrder(u, c, r, s)
    PROVE  LedgerKept
<1>. DEFINE currency == ReservedCurrency(r)
            reserve == Reserve(r)
            n == orders'[s]
<1>0. /\ TypeOK /\ LocksHold /\ DOMAIN orders \subseteq 1 .. MaxSequence
      /\ IsFiniteSet(DOMAIN orders) /\ IsFiniteSet(fills) /\ fills \subseteq Fill
      /\ \A f \in fills : f.maker \in DOMAIN orders /\ f.taker \in DOMAIN orders
      /\ Books(accounts, orders, fills) /\ accounts \in Balances
  BY LedgerFacts DEF TypeOK
<1>1. /\ s \in 1 .. MaxSequence /\ s \notin DOMAIN orders
      /\ DOMAIN orders' = DOMAIN orders \cup {s}
      /\ \A t \in DOMAIN orders : orders'[t] = orders[t]
      /\ fills' = fills /\ cancel' = cancel /\ tick' = tick
  BY DEF PlaceOrder, NextSequence
<1>2. /\ n.user = u /\ n.instrument = r.instrument /\ n.side = r.side
      /\ n.quantity = r.quantity /\ n.remaining = r.quantity /\ n.price = AcceptedPrice(r)
      /\ n.status = "open" /\ n \in Order
  BY <1>1 DEF PlaceOrder, TypeOK
<1>3. /\ accounts[u][currency].available >= reserve
      /\ accounts' = Credit(accounts, u, currency, -reserve, reserve)
      /\ r.quantity > 0
  BY DEF PlaceOrder, Valid
<1>4. currency = ReservedCurrency(n) /\ currency \in Currencies
  BY <1>2, OutstandingType DEF ReservedCurrency
<1>5. reserve \in Nat /\ -reserve \in Int
  <2>1. reserve = n.charged /\ n.charged \in Nat
    BY <1>1, <1>2 DEF PlaceOrder, Order
  <2>. QED  BY <2>1
<1>6. reserve = Outstanding(n) + Surplus(n) /\ ChargedAsStored(n)
  BY PlaceCharges
<1>. HIDE DEF currency, reserve, n
<1>7. ASSUME NEW v \in Users, NEW d \in Currencies
      PROVE  /\ accounts'[v][d].reserved = TotalIn(v, d, orders') + DustIn(v, d, orders')
             /\ accounts'[v][d].available + accounts'[v][d].reserved
                  = Grant[v][d] + SumFunction([f \in fills |-> GainedIn(v, d, f, orders')])
             /\ accounts'[v][d].available >= -Cardinality(SpentIn(v, d, fills, orders'))
  <2>. DEFINE held == IF v = u /\ d = currency THEN reserve ELSE 0
              a == accounts[v][d]
              b == accounts'[v][d]
              debts == Cardinality(SpentIn(v, d, fills, orders))
  <2>1. /\ a.available \in Int /\ a.reserved \in Int
        /\ b.available = a.available - held /\ b.reserved = a.reserved + held
    <3>1. /\ a.available \in Int /\ a.reserved \in Int
          /\ b.available = a.available + (IF v = u /\ d = currency THEN -reserve ELSE 0)
          /\ b.reserved = a.reserved + (IF v = u /\ d = currency THEN reserve ELSE 0)
      BY <1>0, <1>3, <1>4, <1>5, CreditEffect
    <3>. QED  BY <1>5, <3>1
  <2>2. /\ TotalIn(v, d, orders') + DustIn(v, d, orders')
             = TotalIn(v, d, orders) + DustIn(v, d, orders) + held
        /\ TotalIn(v, d, orders) \in Int /\ DustIn(v, d, orders) \in Int
    <3>1. Reserves(v, d, n) + Dust(v, d, n) = held
      BY <1>2, <1>4, <1>6 DEF Reserves, Dust, IsOpen
    <3>2. /\ s \notin DOMAIN orders /\ DOMAIN orders' = DOMAIN orders \cup {s}
          /\ IsFiniteSet(DOMAIN orders) /\ \A x \in DOMAIN orders' : orders'[x] \in Order
          /\ \A x \in DOMAIN orders : orders'[x] = orders[x]
      BY <1>0, <1>1 DEF TypeOK
    <3>3. TotalIn(v, d, orders') = TotalIn(v, d, orders) + Reserves(v, d, orders'[s])
      BY <3>2, TotalGrown
    <3>4. DustIn(v, d, orders') = DustIn(v, d, orders) + Dust(v, d, orders'[s])
      BY <3>2, DustGrown
    <3>5. TotalIn(v, d, orders) \in Int /\ DustIn(v, d, orders) \in Int
      BY <3>2, TotalInType, DustInType
    <3>6. Reserves(v, d, n) \in Int /\ Dust(v, d, n) \in Int
      BY <1>2, ReservesType, DustType
    <3>. QED  BY <3>1, <3>3, <3>4, <3>5, <3>6 DEF n
  <2>3. /\ SumFunction([f \in fills |-> GainedIn(v, d, f, orders')])
             = SumFunction([f \in fills |-> GainedIn(v, d, f, orders)])
        /\ SpentIn(v, d, fills, orders') = SpentIn(v, d, fills, orders)
    <3>1. SameOwners(fills, orders, orders')
      BY <1>0, <1>1 DEF SameOwners
    <3>. QED  BY ONLY <3>1, FillsSay
  <2>4. debts \in Nat
    BY <1>0, GainsType
  <2>5. /\ a.reserved = TotalIn(v, d, orders) + DustIn(v, d, orders)
        /\ a.available + a.reserved
             = Grant[v][d] + SumFunction([f \in fills |-> GainedIn(v, d, f, orders)])
        /\ a.available >= -debts
    BY <1>0 DEF Books
  <2>6. v = u /\ d = currency => a.available >= reserve
    BY <1>3
  <2>. HIDE DEF a, b, debts
  <2>7. b.available + b.reserved = a.available + a.reserved /\ b.available >= -debts
    BY <1>5, <2>1, <2>4, <2>5, <2>6
  <2>8. b.reserved = TotalIn(v, d, orders') + DustIn(v, d, orders')
    BY <2>1, <2>2, <2>5
  <2>. QED  BY <2>3, <2>5, <2>7, <2>8 DEF b, debts
<1>8. ASSUME NEW t \in DOMAIN orders'
      PROVE  /\ orders'[t].remaining = orders'[t].quantity - FilledIn(t, fills)
             /\ StatusFits(orders'[t])
             /\ orders'[t].user \in Users => ChargedAsStored(orders'[t])
  <2>1. CASE t \in DOMAIN orders
    BY <1>0, <1>1, <2>1 DEF Books
  <2>2. CASE t = s
    <3>1. FilledIn(s, fills) = 0
      BY <1>0, <1>1, NeverFilled
    <3>2. n.quantity \in Nat /\ n.quantity > 0
      BY <1>2, <1>3 DEF Order
    <3>3. StatusFits(n)
      BY <1>2, <3>2 DEF StatusFits
    <3>. QED  BY <1>2, <1>6, <2>2, <3>1, <3>2, <3>3 DEF n
  <2>. QED  BY <1>1, <2>1, <2>2
<1>9. Books(accounts', orders', fills')
  BY <1>1, <1>7, <1>8 DEF Books
<1>10. /\ \A v \in Users : \A t \in cancel[v].locked : orders'[t] = orders[t]
       /\ \A i \in Instruments : \A t \in tick[i].locked : orders'[t] = orders[t]
  BY <1>0, <1>1 DEF LocksHold, CancelHolds, TickHolds
<1>11. /\ \A v \in Users : CancelFits(cancel'[v], orders')
       /\ \A i \in Instruments : TickFits(tick'[i], orders')
  BY <1>1, <1>10, TransactionsKept
<1>. QED  BY <1>0, <1>1, <1>9, <1>11 DEF LedgerKept

\* An open order that is not of no size has something left.
LEMMA OpenHasLeft ==
    ASSUME NEW order \in Order, IsOpen(order), StatusFits(order)
    PROVE  order.remaining > 0 \/ order.quantity = 0
<1>1. order.remaining \in Nat /\ order.quantity \in Nat
  BY DEF Order
<1>2. order.status = "open" => order.remaining = order.quantity
  BY DEF StatusFits
<1>3. order.status = "partially_filled" => order.remaining > 0
  <2>1. order.status = "partially_filled" => order.remaining \in 1 .. (order.quantity - 1)
    BY DEF StatusFits
  <2>. QED  BY <1>1, <2>1
<1>. QED  BY <1>1, <1>2, <1>3 DEF IsOpen

\* Orders of the system reserve nothing, and a withdrawn one keeps its fills.
LEMMA LedgerSystem ==
    ASSUME Ledger, TypeOK', DOMAIN orders \subseteq DOMAIN orders', DOMAIN orders' \subseteq 1 .. MaxSequence,
           accounts' = accounts, fills' = fills, cancel' = cancel, tick' = tick,
           NEW stale \in SUBSET SystemOpen, stale \cap LockedByTick = {},
           \A s \in stale : orders'[s] = [orders[s] EXCEPT !.status = "cancelled"],
           \A s \in DOMAIN orders \ stale : orders'[s] = orders[s],
           \A s \in DOMAIN orders' \ DOMAIN orders :
              /\ orders'[s].user = MarketMaker /\ orders'[s].status = "open"
              /\ orders'[s].remaining = orders'[s].quantity
    PROVE  LedgerKept
<1>0. /\ TypeOK /\ LocksHold /\ \A s \in DOMAIN orders : orders[s] \in Order
      /\ IsFiniteSet(fills) /\ fills \subseteq Fill
      /\ \A f \in fills : f.maker \in DOMAIN orders /\ f.taker \in DOMAIN orders
      /\ Books(accounts, orders, fills)
  BY LedgerFacts
<1>1. IsFiniteSet(DOMAIN orders') /\ \A s \in DOMAIN orders' : orders'[s] \in Order
  <2>1. IsFiniteSet(1 .. MaxSequence)
    BY ONLY FS_Interval, ExchangeAssumption
  <2>2. IsFiniteSet(DOMAIN orders')
    BY <2>1, FS_Subset
  <2>3. \A s \in DOMAIN orders' : orders'[s] \in Order
    BY DEF TypeOK
  <2>. QED  BY <2>2, <2>3
<1>2. ASSUME NEW s \in stale
      PROVE  /\ s \in DOMAIN orders /\ IsOpen(orders[s]) /\ orders[s].user = MarketMaker
             /\ orders'[s].user = MarketMaker /\ orders'[s].status = "cancelled"
             /\ orders'[s].remaining = orders[s].remaining
             /\ orders'[s].quantity = orders[s].quantity
  <2>1. s \in DOMAIN orders /\ IsOpen(orders[s]) /\ orders[s].user = MarketMaker
    BY DEF SystemOpen, OpenOf
  <2>. QED  BY <1>0, <2>1 DEF Order
<1>3. MarketMaker \notin Users
  BY ExchangeAssumption
<1>4. ASSUME NEW u \in Users, NEW c \in Currencies
      PROVE  TotalIn(u, c, orders') = TotalIn(u, c, orders)
  <2>1. /\ \A x \in DOMAIN orders : orders'[x] = orders[x]
                                      \/ (orders[x].user # u /\ orders'[x].user # u)
        /\ \A x \in DOMAIN orders' \ DOMAIN orders : orders'[x].user # u
    BY <1>2, <1>3
  <2>. QED  BY <1>0, <1>1, <2>1, TotalKept
<1>5. ASSUME NEW u \in Users, NEW c \in Currencies
      PROVE  /\ SumFunction([f \in fills |-> GainedIn(u, c, f, orders')])
                  = SumFunction([f \in fills |-> GainedIn(u, c, f, orders)])
             /\ SpentIn(u, c, fills, orders') = SpentIn(u, c, fills, orders)
  <2>1. SameOwners(fills, orders, orders')
    BY <1>0, <1>2 DEF SameOwners
  <2>. QED  BY ONLY <2>1, FillsSay
<1>6. ASSUME NEW s \in DOMAIN orders'
      PROVE  orders'[s].remaining = orders'[s].quantity - FilledIn(s, fills) /\ StatusFits(orders'[s])
  <2>1. CASE s \in DOMAIN orders \ stale
    BY <1>0, <2>1 DEF Books
  <2>2. CASE s \in stale
    <3>1. /\ orders[s].remaining = orders[s].quantity - FilledIn(s, fills) /\ StatusFits(orders[s])
          /\ orders[s].remaining \in Nat /\ orders[s].quantity \in Nat
      BY <1>0, <1>2, <2>2 DEF Books, Order
    <3>4. orders[s].remaining > 0 \/ orders[s].quantity = 0
      BY <1>0, <1>2, <2>2, <3>1, OpenHasLeft
    <3>5. StatusFits(orders'[s])
      BY <1>2, <2>2, <3>4 DEF StatusFits
    <3>. QED  BY <1>2, <2>2, <3>1, <3>5
  <2>3. CASE s \notin DOMAIN orders
    <3>1. FilledIn(s, fills) = 0
      BY <1>0, <2>3, NeverFilled
    <3>2. orders'[s].quantity \in Nat
      BY <1>1 DEF Order
    <3>3. StatusFits(orders'[s])
      BY <2>3 DEF StatusFits
    <3>. QED  BY <2>3, <3>1, <3>2, <3>3
  <2>. QED  BY <2>1, <2>2, <2>3
<1>7. /\ \A u \in Users, c \in Currencies : DustIn(u, c, orders') = DustIn(u, c, orders)
      /\ \A s \in DOMAIN orders' : orders'[s].user \in Users => ChargedAsStored(orders'[s])
  <2>1. \A s \in DOMAIN orders : SameTerms(orders'[s], orders[s])
    <3>1. \A s \in stale : s \in DOMAIN orders /\ SameTerms(orders'[s], orders[s])
      BY <1>0, <1>2 DEF Order, SameTerms
    <3>2. \A s \in DOMAIN orders \ stale : SameTerms(orders'[s], orders[s])
      BY DEF SameTerms
    <3>. QED  BY <3>1, <3>2
  <2>2. \A s \in DOMAIN orders' \ DOMAIN orders : orders'[s].user \notin Users
    BY <1>3
  <2>. QED  BY <2>1, <2>2, ChargesKept
<1>8. Books(accounts', orders', fills')
  BY <1>0, <1>4, <1>5, <1>6, <1>7 DEF Books
<1>9. /\ \A u \in Users : \A s \in cancel[u].locked : orders'[s] = orders[s]
      /\ \A i \in Instruments : \A s \in tick[i].locked : orders'[s] = orders[s]
  <2>1. ASSUME NEW u \in Users, NEW s \in cancel[u].locked
        PROVE  orders'[s] = orders[s]
    <3>1. s \in DOMAIN orders /\ orders[s].user # MarketMaker
      BY <1>0, <1>3 DEF LocksHold, CancelHolds
    <3>. QED  BY <1>2, <3>1
  <2>2. ASSUME NEW i \in Instruments, NEW s \in tick[i].locked
        PROVE  orders'[s] = orders[s]
    <3>1. s \in DOMAIN orders /\ s \in LockedByTick
      BY <1>0 DEF LocksHold, TickHolds, LockedByTick
    <3>. QED  BY <3>1
  <2>. QED  BY <2>1, <2>2
<1>10. /\ \A u \in Users : CancelFits(cancel'[u], orders')
       /\ \A i \in Instruments : TickFits(tick'[i], orders')
  BY <1>9, TransactionsKept
<1>. QED  BY <1>0, <1>8, <1>10 DEF LedgerKept

LEMMA LedgerGenerator ==
    ASSUME Ledger, TypeOK', GeneratorStep
    PROVE  LedgerKept
<1>0. TypeOK /\ \A s \in DOMAIN orders : orders[s] \in Order
  BY LedgerFacts
<1>1. ASSUME NEW reference \in [Instruments -> References], NEW first \in 1 .. MaxSequence,
             GeneratorTick(reference, first)
      PROVE  LedgerKept
  <2>. DEFINE slots == [i \in Instruments |-> first + 4 * Rank[i]]
              added == UNION {slots[i] .. (slots[i] + 3) : i \in Instruments}
              owner(s) == CHOOSE j \in Instruments : s \in slots[j] .. (slots[j] + 3)
              step(s) == QuoteSteps[s - slots[owner(s)] + 1]
  <2>1. /\ accounts' = accounts /\ fills' = fills /\ cancel' = cancel /\ tick' = tick
        /\ SystemOpen \cap LockedByTick = {}
        /\ \A s \in added : s <= MaxSequence /\ s \notin DOMAIN orders
        /\ DOMAIN orders' = DOMAIN orders \cup added
        /\ \A s \in DOMAIN orders : orders'[s] = SystemCancelled(SystemOpen)[s]
        /\ \A s \in added \ DOMAIN orders :
             orders'[s] = SystemOrder(owner(s), reference[owner(s)], step(s))
    BY <1>1 DEF GeneratorTick
  <2>2. \A i \in Instruments : slots[i] \in Nat \ {0}
    BY ExchangeAssumption
  <2>3. added \subseteq 1 .. MaxSequence
    <3>1. \A i \in Instruments : \A s \in slots[i] .. (slots[i] + 3) : s \in Nat \ {0}
      BY <2>2
    <3>2. \A s \in added : s \in Nat \ {0}
      BY <3>1
    <3>. HIDE DEF added
    <3>. QED  BY <2>1, <3>2, ExchangeAssumption
  <2>. HIDE DEF slots, added, owner, step
  <2>4. DOMAIN orders \subseteq DOMAIN orders' /\ DOMAIN orders' \subseteq 1 .. MaxSequence
    BY <2>1, <2>3, LedgerFacts
  <2>5. /\ \A s \in SystemOpen : orders'[s] = [orders[s] EXCEPT !.status = "cancelled"]
        /\ \A s \in DOMAIN orders \ SystemOpen : orders'[s] = orders[s]
    <3>1. SystemOpen \subseteq DOMAIN orders
      BY DEF SystemOpen, OpenOf
    <3>. QED  BY <2>1, <3>1 DEF SystemCancelled
  <2>6. \A s \in DOMAIN orders' \ DOMAIN orders :
          /\ orders'[s].user = MarketMaker /\ orders'[s].status = "open"
          /\ orders'[s].remaining = orders'[s].quantity
    BY <2>1 DEF SystemOrder
  <2>. QED  BY <2>1, <2>4, <2>5, <2>6, LedgerSystem
<1>2. ASSUME NEW i \in Instruments, FeedStale(i)
      PROVE  LedgerKept
  <2>1. /\ accounts' = accounts /\ orders' = orders /\ fills' = fills
        /\ cancel' = cancel /\ tick' = tick
    BY <1>2 DEF FeedStale
  <2>. QED  BY <2>1, LedgerFacts DEF LedgerKept
<1>3. ASSUME CancelStaleQuotes
      PROVE  LedgerKept
  <2>. DEFINE stale == {s \in SystemOpen : ~market[orders[s].instrument].fresh}
  <2>1. /\ accounts' = accounts /\ fills' = fills /\ cancel' = cancel /\ tick' = tick
        /\ stale \cap LockedByTick = {} /\ orders' = SystemCancelled(stale)
    BY <1>3 DEF CancelStaleQuotes
  <2>2. stale \in SUBSET SystemOpen /\ SystemOpen \subseteq DOMAIN orders
    BY DEF SystemOpen, OpenOf
  <2>. HIDE DEF stale
  <2>3. /\ DOMAIN orders' = DOMAIN orders
        /\ \A s \in stale : orders'[s] = [orders[s] EXCEPT !.status = "cancelled"]
        /\ \A s \in DOMAIN orders \ stale : orders'[s] = orders[s]
    BY <2>1, <2>2 DEF SystemCancelled
  <2>4. DOMAIN orders' \subseteq 1 .. MaxSequence
    BY <2>3, LedgerFacts
  <2>. QED  BY <2>1, <2>2, <2>3, <2>4, LedgerSystem
<1>. QED  BY <1>1, <1>2, <1>3 DEF GeneratorStep

-----------------------------------------------------------------------------
(* Transactions that commit *)

\* What a commit of either transaction does to the tables.
Commits(t) ==
    /\ t.locked \subseteq DOMAIN orders /\ t.rows \in [t.locked -> Order] /\ t.delta \in Balances
    /\ \A s \in t.locked : SameTerms(t.rows[s], orders[s])
    /\ accounts' = Posted(t.delta) /\ orders' = Written(t.rows)

LEMMA CommitRows ==
    ASSUME Ledger, NEW t, Commits(t)
    PROVE  /\ DOMAIN orders' = DOMAIN orders /\ DOMAIN orders' \subseteq 1 .. MaxSequence
           /\ \A s \in t.locked : orders'[s] = t.rows[s]
           /\ \A s \in DOMAIN orders \ t.locked : orders'[s] = orders[s]
           /\ \A s \in DOMAIN orders : SameTerms(orders'[s], orders[s])
<1>1. /\ DOMAIN orders' = DOMAIN orders
      /\ \A s \in t.locked : orders'[s] = t.rows[s]
      /\ \A s \in DOMAIN orders \ t.locked : orders'[s] = orders[s]
  BY DEF Commits, Written
<1>2. \A s \in DOMAIN orders : SameTerms(orders'[s], orders[s])
  BY <1>1 DEF Commits, SameTerms
<1>. QED  BY <1>1, <1>2, LedgerFacts

LEMMA CommitBalances ==
    ASSUME Ledger, NEW t, Commits(t), NEW u \in Users, NEW c \in Currencies
    PROVE  LET a == accounts[u][c]
               b == accounts'[u][c]
               d == t.delta[u][c]
           IN  /\ a.available \in Int /\ a.reserved \in Int
               /\ d.available \in Int /\ d.reserved \in Int
               /\ b.available = a.available + d.available
               /\ b.reserved = a.reserved + d.reserved
               /\ TotalIn(u, c, orders') = TotalIn(u, c, orders) + ChangeIn(u, c, t, orders)
<1>1. accounts \in Balances /\ t.delta \in Balances /\ accounts' = Posted(t.delta)
  BY LedgerFacts DEF Commits, TypeOK
<1>2. /\ accounts[u][c].available \in Int /\ accounts[u][c].reserved \in Int
      /\ t.delta[u][c].available \in Int /\ t.delta[u][c].reserved \in Int
  BY <1>1 DEF Balances
<1>3. accounts'[u][c] = [available |-> accounts[u][c].available + t.delta[u][c].available,
                         reserved |-> accounts[u][c].reserved + t.delta[u][c].reserved]
  BY <1>1 DEF Posted
<1>4. TotalIn(u, c, orders') = TotalIn(u, c, orders) + ChangeIn(u, c, t, orders)
  <2>1. RowsWritten(t, orders, orders')
    BY LedgerFacts, CommitRows DEF Commits, RowsWritten
  <2>. QED  BY ONLY <2>1, TotalWritten
<1>. QED  BY <1>2, <1>3, <1>4

\* A cancellation that commits.
LEMMA LedgerCancelCommit ==
    ASSUME Ledger, TypeOK', NEW u \in Users, CancelCommit(u)
    PROVE  LedgerKept
<1>. DEFINE t == cancel[u]
<1>0. /\ TypeOK /\ LocksHold /\ fills \subseteq Fill /\ IsFiniteSet(fills)
      /\ \A f \in fills : f.maker \in DOMAIN orders /\ f.taker \in DOMAIN orders
      /\ \A s \in DOMAIN orders : orders[s] \in Order
      /\ CancelFits(t, orders) /\ Books(accounts, orders, fills)
  BY LedgerFacts
<1>1. /\ t.phase = "cancelling" /\ t.todo = {} /\ fills' = fills /\ tick' = tick
      /\ cancel'[u] = NoCancel /\ \A v \in Users \ {u} : cancel'[v] = cancel[v]
  BY <1>0 DEF CancelCommit, TypeOK
<1>2. /\ CancelTypeOK(t) /\ CancelHolds(t, u)
  BY <1>0 DEF TypeOK, LocksHold
<1>3. Commits(t)
  BY <1>2 DEF Commits, CancelCommit, CancelTypeOK, TransactionTypeOK, CancelHolds
<1>4. /\ DOMAIN orders' = DOMAIN orders /\ DOMAIN orders' \subseteq 1 .. MaxSequence
      /\ \A s \in t.locked : orders'[s] = t.rows[s]
      /\ \A s \in DOMAIN orders \ t.locked : orders'[s] = orders[s]
      /\ \A s \in DOMAIN orders : SameTerms(orders'[s], orders[s])
  BY <1>3, CommitRows
<1>4a. /\ \A v \in Users, c \in Currencies :
            /\ DustIn(v, c, orders') = DustIn(v, c, orders) /\ DustIn(v, c, orders) \in Int
            /\ TotalIn(v, c, orders) \in Int
       /\ \A s \in DOMAIN orders' : orders'[s].user \in Users => ChargedAsStored(orders'[s])
  <2>1. \A v, c : TotalIn(v, c, orders) \in Int
    BY LedgerFacts, TotalInType
  <2>. QED  BY <1>4, <2>1, ChargesKept
<1>. HIDE DEF t
<1>5. ASSUME NEW v \in Users, NEW c \in Currencies
      PROVE  /\ accounts'[v][c].reserved = TotalIn(v, c, orders') + DustIn(v, c, orders')
             /\ accounts'[v][c].available + accounts'[v][c].reserved
                  = Grant[v][c] + SumFunction([f \in fills |-> GainedIn(v, c, f, orders')])
             /\ accounts'[v][c].available >= -Cardinality(SpentIn(v, c, fills, orders'))
  <2>. DEFINE a == accounts[v][c]
              b == accounts'[v][c]
              d == t.delta[v][c]
              debts == Cardinality(SpentIn(v, c, fills, orders))
  <2>1. /\ a.available \in Int /\ a.reserved \in Int
        /\ d.available \in Int /\ d.reserved \in Int
        /\ b.available = a.available + d.available /\ b.reserved = a.reserved + d.reserved
        /\ TotalIn(v, c, orders') = TotalIn(v, c, orders) + ChangeIn(v, c, t, orders)
    BY <1>3, CommitBalances
  <2>2. d.reserved = ChangeIn(v, c, t, orders) /\ d.available = -d.reserved /\ d.available >= 0
    BY <1>0, <1>1 DEF CancelFits
  <2>3. SameOwners(fills, orders, orders')
    BY <1>0, <1>4 DEF SameOwners, SameTerms
  <2>4. /\ SumFunction([f \in fills |-> GainedIn(v, c, f, orders')])
             = SumFunction([f \in fills |-> GainedIn(v, c, f, orders)])
        /\ SpentIn(v, c, fills, orders') = SpentIn(v, c, fills, orders)
    BY ONLY <2>3, FillsSay
  <2>5. debts \in Nat
    BY <1>0, GainsType
  <2>6. /\ a.reserved = TotalIn(v, c, orders) + DustIn(v, c, orders)
        /\ a.available + a.reserved
             = Grant[v][c] + SumFunction([f \in fills |-> GainedIn(v, c, f, orders)])
        /\ a.available >= -debts
    BY <1>0 DEF Books
  <2>6a. /\ DustIn(v, c, orders') = DustIn(v, c, orders) /\ DustIn(v, c, orders) \in Int
        /\ TotalIn(v, c, orders) \in Int
    BY <1>4a
  <2>. HIDE DEF a, b, d, debts
  <2>7. b.available + b.reserved = a.available + a.reserved /\ b.available >= -debts
    BY <2>1, <2>2, <2>5, <2>6
  <2>8. b.reserved = TotalIn(v, c, orders') + DustIn(v, c, orders')
    BY <2>1, <2>2, <2>6, <2>6a
  <2>. QED  BY <2>4, <2>6, <2>7, <2>8 DEF b, debts
<1>6. ASSUME NEW s \in DOMAIN orders'
      PROVE  orders'[s].remaining = orders'[s].quantity - FilledIn(s, fills) /\ StatusFits(orders'[s])
  <2>1. CASE s \in t.locked
    <3>1. /\ s \in DOMAIN orders /\ IsOpen(orders[s]) /\ SameTerms(t.rows[s], orders[s])
          /\ t.rows[s].remaining = orders[s].remaining
      BY <1>2, <2>1 DEF CancelHolds
    <3>2. orders'[s].status = "cancelled"
      BY <1>0, <1>1, <1>4, <2>1 DEF CancelFits
    <3>3. /\ orders[s].remaining = orders[s].quantity - FilledIn(s, fills)
          /\ StatusFits(orders[s]) /\ orders[s] \in Order
      BY <1>0, <3>1 DEF Books
    <3>4. orders[s].remaining > 0 \/ orders[s].quantity = 0
      BY <3>1, <3>3, OpenHasLeft
    <3>5. /\ orders'[s].remaining = orders[s].remaining /\ orders'[s].quantity = orders[s].quantity
          /\ orders'[s].user = orders[s].user
      BY <1>4, <2>1, <3>1 DEF SameTerms
    <3>6. StatusFits(orders'[s])
      BY <3>2, <3>3, <3>4, <3>5 DEF StatusFits
    <3>. QED  BY <3>3, <3>5, <3>6
  <2>2. CASE s \notin t.locked
    BY <1>0, <1>4, <2>2 DEF Books
  <2>. QED  BY <2>1, <2>2
<1>7. Books(accounts', orders', fills')
  BY <1>4a, <1>1, <1>5, <1>6 DEF Books
<1>8. ASSUME NEW v \in Users
      PROVE  CancelFits(cancel'[v], orders')
  <2>1. CASE v = u
    BY <1>1, <2>1, IdleFits
  <2>2. CASE v # u
    <3>1. \A s \in cancel[v].locked : orders[s] = orders'[s]
      <4>1. ASSUME NEW s \in cancel[v].locked
            PROVE  s \in DOMAIN orders \ t.locked
        BY <1>0, <1>2, <2>2 DEF LocksHold, CancelHolds
      <4>. QED  BY <1>4, <4>1
    <3>2. CancelFits(cancel[v], orders)
      BY LedgerFacts
    <3>3. CancelFits(cancel[v], orders')
      BY ONLY <3>1, <3>2, CancelFitsKept
    <3>. QED  BY <1>1, <2>2, <3>3
  <2>. QED  BY <2>1, <2>2
<1>9. ASSUME NEW i \in Instruments
      PROVE  TickFits(tick'[i], orders')
  <2>1. \A s \in tick[i].locked : orders[s] = orders'[s]
    <3>1. ASSUME NEW s \in tick[i].locked
          PROVE  s \in DOMAIN orders \ t.locked
      BY <1>0, <1>2 DEF LocksHold, CancelHolds, TickHolds
    <3>. QED  BY <1>4, <3>1
  <2>2. /\ TickFits(tick[i], orders)
        /\ \A f \in tick[i].fills : f.maker \in tick[i].locked /\ f.taker \in tick[i].locked
    BY LedgerFacts
  <2>3. TickFits(tick[i], orders')
    BY ONLY <2>1, <2>2, TickFitsKept
  <2>. QED  BY <1>1, <2>3
<1>. QED  BY <1>0, <1>1, <1>4, <1>7, <1>8, <1>9 DEF LedgerKept

\* A tick that commits: its fills join the table's, and its rows have lost them.
LEMMA LedgerTickCommit ==
    ASSUME Ledger, TypeOK', NEW i \in Instruments, TickCommit(i)
    PROVE  LedgerKept
<1>. DEFINE t == tick[i]
            new == tick[i].fills
<1>0. /\ TypeOK /\ LocksHold /\ FillsSound /\ fills \subseteq Fill /\ IsFiniteSet(fills)
      /\ \A f \in fills : f.maker \in DOMAIN orders /\ f.taker \in DOMAIN orders
      /\ \A f \in new : f.maker \in t.locked /\ f.taker \in t.locked
      /\ TickFits(t, orders) /\ Books(accounts, orders, fills)
  BY LedgerFacts
<1>1. /\ t.phase = "matching" /\ fills' = fills \cup new /\ cancel' = cancel
      /\ tick'[i] = NoTick /\ \A j \in Instruments \ {i} : tick'[j] = tick[j]
  BY <1>0 DEF TickCommit, TypeOK
<1>2. /\ TickTypeOK(t) /\ TickHolds(t, i)
  BY <1>0 DEF TypeOK, LocksHold
<1>3. Commits(t)
  BY <1>2 DEF Commits, TickCommit, TickTypeOK, TransactionTypeOK, TickHolds
<1>4. /\ DOMAIN orders' = DOMAIN orders /\ DOMAIN orders' \subseteq 1 .. MaxSequence
      /\ \A s \in t.locked : orders'[s] = t.rows[s]
      /\ \A s \in DOMAIN orders \ t.locked : orders'[s] = orders[s]
      /\ \A s \in DOMAIN orders : SameTerms(orders'[s], orders[s])
  BY <1>3, CommitRows
<1>5. /\ IsFiniteSet(new) /\ new \subseteq Fill /\ fills \cap new = {}
      /\ IsFiniteSet(fills') /\ fills \cup new \subseteq Fill /\ t.locked \subseteq DOMAIN orders
  <2>1. IsFiniteSet(new) /\ new \subseteq Fill /\ t.locked \subseteq DOMAIN orders
    BY <1>0, <1>2 DEF TickFits, TickTypeOK, TickHolds
  <2>2. fills \cap new = {}
    BY <1>0 DEF FillsSound, SamePair
  <2>3. IsFiniteSet(fills \cup new)
    BY <1>0, <2>1, FS_Union
  <2>. QED  BY <1>0, <1>1, <2>1, <2>2, <2>3
<1>6. SameOwners(fills, orders, orders') /\ SameOwners(new, orders, orders')
  BY <1>0, <1>4, <1>5 DEF SameOwners, SameTerms
<1>7. Apart(fills, new)
  BY <1>0, <1>5 DEF Apart
<1>7a. /\ \A v \in Users, c \in Currencies :
            /\ DustIn(v, c, orders') = DustIn(v, c, orders) /\ DustIn(v, c, orders) \in Int
            /\ TotalIn(v, c, orders) \in Int
       /\ \A s \in DOMAIN orders' : orders'[s].user \in Users => ChargedAsStored(orders'[s])
  <2>1. \A v, c : TotalIn(v, c, orders) \in Int
    BY LedgerFacts, TotalInType
  <2>. QED  BY <1>4, <2>1, ChargesKept
<1>. HIDE DEF t, new
<1>8. ASSUME NEW v \in Users, NEW c \in Currencies
      PROVE  /\ accounts'[v][c].reserved = TotalIn(v, c, orders') + DustIn(v, c, orders')
             /\ accounts'[v][c].available + accounts'[v][c].reserved
                  = Grant[v][c] + SumFunction([f \in fills' |-> GainedIn(v, c, f, orders')])
             /\ accounts'[v][c].available >= -Cardinality(SpentIn(v, c, fills', orders'))
  <2>. DEFINE a == accounts[v][c]
              b == accounts'[v][c]
              d == t.delta[v][c]
              before == SumFunction([f \in fills |-> GainedIn(v, c, f, orders)])
              gained == SumFunction([f \in new |-> GainedIn(v, c, f, orders)])
              debts == Cardinality(SpentIn(v, c, fills, orders))
              more == Cardinality(SpentIn(v, c, new, orders))
  <2>1. /\ a.available \in Int /\ a.reserved \in Int
        /\ d.available \in Int /\ d.reserved \in Int
        /\ b.available = a.available + d.available /\ b.reserved = a.reserved + d.reserved
        /\ TotalIn(v, c, orders') = TotalIn(v, c, orders) + ChangeIn(v, c, t, orders)
    BY <1>3, CommitBalances
  <2>2. /\ d.reserved = ChangeIn(v, c, t, orders) /\ d.available + d.reserved = gained
        /\ d.available >= -more
    BY <1>0, <1>1 DEF TickFits, t, new
  <2>3. /\ SumFunction([f \in fills |-> GainedIn(v, c, f, orders')]) = before
        /\ SpentIn(v, c, fills, orders') = SpentIn(v, c, fills, orders)
    BY ONLY <1>6, FillsSay
  <2>4. /\ SumFunction([f \in new |-> GainedIn(v, c, f, orders')]) = gained
        /\ SpentIn(v, c, new, orders') = SpentIn(v, c, new, orders)
    BY ONLY <1>6, FillsSay
  <2>5. /\ SumFunction([f \in fills \cup new |-> GainedIn(v, c, f, orders')])
             = SumFunction([f \in fills |-> GainedIn(v, c, f, orders')])
                 + SumFunction([f \in new |-> GainedIn(v, c, f, orders')])
        /\ Cardinality(SpentIn(v, c, fills \cup new, orders'))
             = Cardinality(SpentIn(v, c, fills, orders')) + Cardinality(SpentIn(v, c, new, orders'))
    BY ONLY <1>7, GainsJoined, SpentJoined
  <2>6. debts \in Nat /\ more \in Nat /\ before \in Int /\ gained \in Int
    BY <1>0, <1>5, GainsType
  <2>7. /\ a.reserved = TotalIn(v, c, orders) + DustIn(v, c, orders)
        /\ a.available + a.reserved = Grant[v][c] + before
        /\ a.available >= -debts
    BY <1>0 DEF Books
  <2>8. Grant[v][c] \in Int
    BY ExchangeAssumption
  <2>9. /\ SumFunction([f \in fills' |-> GainedIn(v, c, f, orders')]) = before + gained
        /\ Cardinality(SpentIn(v, c, fills', orders')) = debts + more
    BY <1>1, <2>3, <2>4, <2>5
  <2>9a. /\ DustIn(v, c, orders') = DustIn(v, c, orders) /\ DustIn(v, c, orders) \in Int
         /\ TotalIn(v, c, orders) \in Int
    BY <1>7a
  <2>. HIDE DEF a, b, d, before, gained, debts, more
  <2>10. b.reserved = TotalIn(v, c, orders') + DustIn(v, c, orders')
    BY <2>1, <2>2, <2>7, <2>9a
  <2>11. b.available + b.reserved = Grant[v][c] + (before + gained) /\ b.available >= -(debts + more)
    BY <2>1, <2>2, <2>6, <2>7, <2>8
  <2>. QED  BY <2>9, <2>10, <2>11 DEF b
<1>9. ASSUME NEW s \in DOMAIN orders'
      PROVE  orders'[s].remaining = orders'[s].quantity - FilledIn(s, fills') /\ StatusFits(orders'[s])
  <2>1. FilledIn(s, fills') = FilledIn(s, fills) + FilledIn(s, new)
    <3>1. FilledIn(s, fills \cup new) = FilledIn(s, fills) + FilledIn(s, new)
      BY ONLY <1>7, FilledJoined
    <3>. QED  BY <1>1, <3>1
  <2>2. FilledIn(s, fills) \in Int /\ FilledIn(s, new) \in Int
    BY <1>0, <1>5, FilledType
  <2>3. /\ s \in DOMAIN orders /\ orders[s].remaining = orders[s].quantity - FilledIn(s, fills)
        /\ StatusFits(orders[s]) /\ orders[s].quantity \in Int
    BY <1>0, <1>4 DEF Books, TypeOK, Order
  <2>4. CASE s \in t.locked
    <3>1. orders'[s] = t.rows[s] /\ orders'[s].quantity = orders[s].quantity
      BY <1>4, <2>3, <2>4 DEF SameTerms
    <3>2. t.rows[s].remaining = orders[s].remaining - FilledIn(s, new) /\ StatusFits(t.rows[s])
      BY <1>0, <2>4 DEF TickFits, t, new
    <3>. QED  BY <2>1, <2>2, <2>3, <3>1, <3>2
  <2>5. CASE s \notin t.locked
    <3>1. FilledIn(s, new) = 0
      <4>1. \A f \in new : s # f.maker /\ s # f.taker
        BY <1>0, <2>5
      <4>. QED  BY <1>5, <4>1, NeverFilled
    <3>2. orders'[s] = orders[s]
      BY <1>4, <2>3, <2>5
    <3>. QED  BY <2>1, <2>2, <2>3, <3>1, <3>2
  <2>. QED  BY <2>4, <2>5
<1>10. Books(accounts', orders', fills')
  BY <1>7a, <1>8, <1>9 DEF Books
<1>11. ASSUME NEW v \in Users
       PROVE  CancelFits(cancel'[v], orders')
  <2>1. \A s \in cancel[v].locked : orders[s] = orders'[s]
    <3>1. ASSUME NEW s \in cancel[v].locked
          PROVE  s \in DOMAIN orders \ t.locked
      BY <1>0 DEF LocksHold, CancelHolds, t
    <3>. QED  BY <1>4, <3>1
  <2>2. CancelFits(cancel[v], orders)
    BY LedgerFacts
  <2>3. CancelFits(cancel[v], orders')
    BY ONLY <2>1, <2>2, CancelFitsKept
  <2>. QED  BY <1>1, <2>3
<1>12. ASSUME NEW j \in Instruments
       PROVE  TickFits(tick'[j], orders')
  <2>1. CASE j = i
    BY <1>1, <2>1, IdleFits
  <2>2. CASE j # i
    <3>1. \A s \in tick[j].locked : orders[s] = orders'[s]
      <4>1. ASSUME NEW s \in tick[j].locked
            PROVE  s \in DOMAIN orders \ t.locked
        BY <1>0, <1>2, <2>2 DEF LocksHold, TickHolds
      <4>. QED  BY <1>4, <4>1
    <3>2. /\ TickFits(tick[j], orders)
          /\ \A f \in tick[j].fills : f.maker \in tick[j].locked /\ f.taker \in tick[j].locked
      BY LedgerFacts
    <3>3. TickFits(tick[j], orders')
      BY ONLY <3>1, <3>2, TickFitsKept
    <3>. QED  BY <1>1, <2>2, <3>3
  <2>. QED  BY <2>1, <2>2
<1>. QED  BY <1>4, <1>5, <1>10, <1>11, <1>12 DEF LedgerKept

-----------------------------------------------------------------------------
(* The ledger is right in every state *)

\* At the start there are no orders and no fills, only the opening balances.
LEMMA LedgerInit == Init => Ledger
<1>. SUFFICES ASSUME Init PROVE Ledger
  OBVIOUS
<1>1. BookInv
  BY BookInit
<1>2. DOMAIN orders = {} /\ fills = {}
  BY DEF Init, Empty
<1>3. /\ \A u \in Users : CancelFits(cancel[u], orders)
      /\ \A i \in Instruments : TickFits(tick[i], orders)
  BY IdleFits DEF Init
<1>4. LedgerInv
  BY <1>1, <1>2, <1>3, FitsInTerms, FS_EmptySet
<1>5. ASSUME NEW u \in Users, NEW c \in Currencies
      PROVE  /\ TotalIn(u, c, orders) = 0 /\ DustIn(u, c, orders) = 0
             /\ SumFunction([f \in fills |-> GainedIn(u, c, f, orders)]) = 0
             /\ Cardinality(SpentIn(u, c, fills, orders)) = 0
  <2>. DEFINE p == [s \in DOMAIN orders |-> Reserves(u, c, orders[s])]
              q == [f \in fills |-> GainedIn(u, c, f, orders)]
              e == [s \in DOMAIN orders |-> Dust(u, c, orders[s])]
  <2>1. DOMAIN p = {} /\ DOMAIN q = {} /\ DOMAIN e = {} /\ SpentIn(u, c, fills, orders) = {}
    BY <1>2 DEF SpentIn
  <2>. HIDE DEF p, q, e
  <2>2. /\ SumFunctionOnSet(p, {}) = 0 /\ SumFunctionOnSet(q, {}) = 0
        /\ SumFunctionOnSet(e, {}) = 0
    BY SumZero, FS_EmptySet
  <2>. QED  BY <2>1, <2>2, FS_EmptySet DEF SumFunction, TotalIn, DustIn, p, q, e
<1>6. \A u \in Users, c \in Currencies :
        /\ accounts[u][c].available = Grant[u][c] /\ accounts[u][c].reserved = 0
        /\ Grant[u][c] \in Nat
  BY ExchangeAssumption DEF Init
<1>7. Books(accounts, orders, fills)
  BY <1>2, <1>5, <1>6 DEF Books
<1>. QED  BY <1>4, <1>7 DEF Ledger

LEMMA LedgerNext == Ledger /\ [Next]_vars => Ledger'
<1>. SUFFICES ASSUME Ledger, [Next]_vars PROVE Ledger'
  OBVIOUS
<1>1. BookInv' /\ TypeOK'
  BY LedgerFacts, BookNext DEF BookInv
<1>2. LedgerKept
  <2>1. ASSUME NEW u \in Users, UserStep(u)
        PROVE  LedgerKept
    BY <1>1, <2>1, LedgerPlace, LedgerCancelSteps, LedgerCancelCommit DEF UserStep
  <2>2. ASSUME NEW i \in Instruments, WorkerStep(i)
        PROVE  LedgerKept
    BY <1>1, <2>2, LedgerTickSteps, LedgerTickCommit DEF WorkerStep
  <2>3. CASE GeneratorStep
    BY <1>1, <2>3, LedgerGenerator
  <2>4. CASE UNCHANGED vars
    BY <2>4, LedgerFacts DEF LedgerKept, vars
  <2>. QED  BY <2>1, <2>2, <2>3, <2>4 DEF Next
<1>3. LedgerInv'
  BY <1>1, <1>2, FitsInTermsNext DEF LedgerKept
<1>. QED  BY <1>2, <1>3 DEF Ledger, LedgerKept

\* The tables and every open transaction are in balance in every state the
\* exchange reaches, whatever cancellations and ticks run side by side, commit
\* or fail.
THEOREM LedgerInvariance == Spec => []Ledger
BY LedgerInit, LedgerNext, PTL DEF Spec

\* A user's reserved balance is, to the last unit, the sum of what the open orders
\* still hold and of what place_order's roundings charged beyond the stored rows,
\* after any placements, partial fills and cancellations, whatever the reference
\* prices; beyond its row only a market buy is charged, by little.
THEOREM ReservedToTheUnit == Spec => []ReservationsExact
<1>1. Ledger => ReservationsExact
  BY LedgerSays
<1>. QED  BY <1>1, LedgerInvariance, PTL

\* What a user holds is the opening balance and the recorded fills: nothing in
\* place_order, cancel_orders, apply_fill or an abort makes or loses money.
THEOREM MoneyIsConserved == Spec => []FillsExplainBalances
<1>1. Ledger => FillsExplainBalances
  BY LedgerSays
<1>. QED  BY <1>1, LedgerInvariance, PTL

\* What is left of an order is its quantity less its recorded fills, and its
\* status says so.
THEOREM OrdersAgreeWithFills == Spec => []OrdersMatchFills
<1>1. Ledger => OrdersMatchFills
  BY LedgerSays
<1>. QED  BY <1>1, LedgerInvariance, PTL

\* An available balance lacks at most one unit for each of the account's buys,
\* what the roundings of release and cost can differ by.
THEOREM OverdraftBounded == Spec => []OverdraftIsDust
<1>1. Ledger => OverdraftIsDust
  BY LedgerSays
<1>. QED  BY <1>1, LedgerInvariance, PTL

\* The rows a tick has locked stay in the table as it read them until it ends,
\* and memory and the tick's own rows agree on what its fills have left.
THEOREM LockedRowsStay == Spec => []LockedRowsUnchanged
<1>1. Ledger => LockedRowsUnchanged
  <2>. SUFFICES ASSUME Ledger, NEW i \in Instruments, NEW s \in tick[i].locked
                PROVE  /\ IsOpen(orders[s])
                       /\ orders[s].remaining = tick[i].book[s].remaining + FilledIn(s, tick[i].fills)
                       /\ tick[i].rows[s].remaining = tick[i].book[s].remaining
    BY DEF LockedRowsUnchanged
  <2>1. /\ TickHolds(tick[i], i) /\ TickFits(tick[i], orders) /\ TickTypeOK(tick[i])
        /\ \A x \in DOMAIN orders : orders[x] \in Order
    BY LedgerFacts DEF LocksHold, TypeOK
  <2>2. /\ s \in DOMAIN orders /\ IsOpen(orders[s])
        /\ tick[i].book[s].remaining = tick[i].rows[s].remaining
    <3>1. /\ s \in DOMAIN orders /\ IsOpen(orders[s])
          /\ tick[i].book[s] = BookEntry(s, tick[i].rows[s])
      BY <2>1 DEF TickHolds
    <3>. QED  BY <3>1 DEF BookEntry
  <2>3. tick[i].rows[s].remaining = orders[s].remaining - FilledIn(s, tick[i].fills)
    BY <2>1 DEF TickFits
  <2>4. FilledIn(s, tick[i].fills) \in Int /\ orders[s].remaining \in Int
    BY <2>1, <2>2, FilledType DEF TickFits, TickTypeOK, Order
  <2>. QED  BY <2>2, <2>3, <2>4
<1>. QED  BY <1>1, LedgerInvariance, PTL

-----------------------------------------------------------------------------
(* What the fills of a tick are: quantities laid end to end *)

\* Natural numbers add up to a natural number.
LEMMA SumNatural ==
    ASSUME NEW f, NEW S, IsFiniteSet(S), \A x \in S : f[x] \in Nat
    PROVE  SumFunctionOnSet(f, S) \in Nat
<1>. DEFINE X == {T \in SUBSET S : SumFunctionOnSet(f, T) \in Nat}
<1>1. {} \in X
  BY SumEmpty
<1>2. ASSUME NEW T \in SUBSET S, NEW x \in S \ T, T \in X
      PROVE  T \cup {x} \in X
  <2>1. IsFiniteSet(T) /\ x \notin T /\ \A y \in T \cup {x} : f[y] \in Int
    BY FS_Subset
  <2>2. SumFunctionOnSet(f, T \cup {x}) = f[x] + SumFunctionOnSet(f, T)
    BY <2>1, SumAdd
  <2>. QED  BY <1>2, <2>2
<1>. HIDE DEF X
<1>3. S \in X
  BY <1>1, <1>2, GrowSet
<1>. QED  BY <1>3 DEF X

\* One side of the book: ahead[s] are the orders of the side that are ahead of s.
Line(side, ahead) ==
    /\ IsFiniteSet(side)
    /\ \A s \in side : ahead[s] \subseteq side \ {s}
    /\ \A s \in side : \A p \in ahead[s] : ahead[p] \subseteq ahead[s]
    /\ \A p, s \in side : p = s \/ p \in ahead[s] \/ s \in ahead[p]

\* An order ends before what is behind it begins.
LEMMA LineOrder ==
    ASSUME NEW side, NEW ahead, Line(side, ahead), NEW R, \A s \in side : R[s] \in Nat,
           NEW s \in side
    PROVE  /\ StartsAt(R, ahead, s) \in Nat
           /\ \A p \in ahead[s] : EndsAt(R, ahead, p) <= StartsAt(R, ahead, s)
<1>1. ASSUME NEW a \in side
      PROVE  /\ IsFiniteSet(ahead[a]) /\ ahead[a] \subseteq side /\ a \notin ahead[a]
             /\ \A x \in ahead[a] : R[x] \in Nat
             /\ SumFunctionOnSet(R, ahead[a]) \in Nat
  <2>1. ahead[a] \subseteq side /\ a \notin ahead[a] /\ IsFiniteSet(side)
    BY DEF Line
  <2>2. IsFiniteSet(ahead[a]) /\ \A x \in ahead[a] : R[x] \in Nat
    BY <2>1, FS_Subset
  <2>3. SumFunctionOnSet(R, ahead[a]) \in Nat
    BY <2>2, SumNatural
  <2>. QED  BY <2>1, <2>2, <2>3
<1>2. ASSUME NEW p \in ahead[s]
      PROVE  SumFunctionOnSet(R, ahead[p]) + R[p] <= SumFunctionOnSet(R, ahead[s])
  <2>. DEFINE T == ahead[p] \cup {p}
              Z == ahead[s] \ T
  <2>1. p \in side /\ ahead[p] \subseteq ahead[s]
    BY <1>1 DEF Line
  <2>2. SumFunctionOnSet(R, T) = R[p] + SumFunctionOnSet(R, ahead[p])
    <3>1. IsFiniteSet(ahead[p]) /\ p \notin ahead[p] /\ \A x \in ahead[p] \cup {p} : R[x] \in Int
      BY <1>1, <2>1
    <3>. QED  BY <3>1, SumAdd
  <2>3. T \cup Z = ahead[s] /\ T \cap Z = {} /\ IsFiniteSet(T) /\ IsFiniteSet(Z)
    <3>1. T \subseteq ahead[s] /\ Z \subseteq ahead[s] /\ T \cup Z = ahead[s] /\ T \cap Z = {}
      BY <2>1
    <3>. QED  BY <1>1, <3>1, FS_Subset
  <2>. HIDE DEF T, Z
  <2>4. \A x \in T \cup Z : R[x] \in Nat
    BY <1>1, <2>3
  <2>5. SumFunctionOnSet(R, T \cup Z) = SumFunctionOnSet(R, T) + SumFunctionOnSet(R, Z)
    <3>1. \A x \in T \cup Z : R[x] \in Int
      BY <2>4
    <3>. QED  BY <2>3, <3>1, SumUnion
  <2>6. SumFunctionOnSet(R, Z) \in Nat
    BY <2>3, <2>4, SumNatural
  <2>7. SumFunctionOnSet(R, ahead[s])
          = R[p] + SumFunctionOnSet(R, ahead[p]) + SumFunctionOnSet(R, Z)
    BY <2>2, <2>3, <2>5
  <2>8. R[p] \in Nat /\ SumFunctionOnSet(R, ahead[p]) \in Nat
    BY <1>1, <2>1
  <2>. QED  BY <2>6, <2>7, <2>8
<1>. QED  BY <1>1, <1>2 DEF StartsAt, EndsAt

\* When all that is ahead of s is used up, its side has been served up to s at
\* least; and no further when nothing behind s has been touched.
LEMMA LineServed ==
    ASSUME NEW side, NEW ahead, Line(side, ahead), NEW R, NEW x,
           \A a \in side : R[a] \in Nat /\ x[a] \in Nat,
           NEW s \in side, \A p \in ahead[s] : x[p] = R[p]
    PROVE  /\ SumFunctionOnSet(x, side) \in Nat
           /\ StartsAt(R, ahead, s) + x[s] <= SumFunctionOnSet(x, side)
           /\ (\A p \in side : s \in ahead[p] => x[p] = 0)
                => SumFunctionOnSet(x, side) = StartsAt(R, ahead, s) + x[s]
<1>. DEFINE T == ahead[s] \cup {s}
            Z == side \ T
<1>1. /\ IsFiniteSet(side) /\ ahead[s] \subseteq side /\ s \notin ahead[s]
      /\ \A p \in Z : s \in ahead[p]
  BY DEF Line
<1>2. IsFiniteSet(ahead[s]) /\ \A a \in T : x[a] \in Nat
  BY <1>1, FS_Subset
<1>3. SumFunctionOnSet(x, T) = x[s] + SumFunctionOnSet(x, ahead[s])
  <2>1. \A a \in ahead[s] \cup {s} : x[a] \in Int
    BY <1>2
  <2>. QED  BY <1>1, <1>2, <2>1, SumAdd
<1>4. SumFunctionOnSet(x, ahead[s]) = StartsAt(R, ahead, s) /\ StartsAt(R, ahead, s) \in Nat
  <2>1. SumFunctionOnSet(x, ahead[s]) = SumFunctionOnSet(R, ahead[s])
    BY <1>2, SumSame
  <2>. QED  BY <2>1, LineOrder DEF StartsAt
<1>5. T \cup Z = side /\ T \cap Z = {} /\ IsFiniteSet(T) /\ IsFiniteSet(Z)
  <2>1. T \subseteq side /\ Z \subseteq side /\ T \cup Z = side /\ T \cap Z = {}
    BY <1>1
  <2>. QED  BY <1>1, <2>1, FS_Subset
<1>6. Z \subseteq side
  OBVIOUS
<1>. HIDE DEF T, Z
<1>7. SumFunctionOnSet(x, T \cup Z) = SumFunctionOnSet(x, T) + SumFunctionOnSet(x, Z)
  <2>1. \A a \in T \cup Z : x[a] \in Int
    BY <1>5
  <2>. QED  BY <1>5, <2>1, SumUnion
<1>8. SumFunctionOnSet(x, Z) \in Nat
  BY <1>5, <1>6, SumNatural
<1>9. ASSUME \A p \in side : s \in ahead[p] => x[p] = 0
      PROVE  SumFunctionOnSet(x, Z) = 0
  BY <1>1, <1>5, <1>6, <1>9, SumZero
<1>10. SumFunctionOnSet(x, side) = x[s] + StartsAt(R, ahead, s) + SumFunctionOnSet(x, Z)
  BY <1>3, <1>4, <1>5, <1>7
<1>. QED  BY <1>4, <1>8, <1>9, <1>10

\* Nothing is taken from an order before what is ahead of it is used up.
InLine(side, ahead, R, x) ==
    \A s \in side : /\ R[s] \in Nat /\ x[s] \in Nat /\ x[s] <= R[s]
                    /\ x[s] > 0 => \A p \in ahead[s] : x[p] = R[p]

\* An order of which something is left, with all ahead of it used up, is where
\* its side has got to; no other order of the side is half way.
LEMMA NextInLine ==
    ASSUME NEW side, NEW ahead, Line(side, ahead), NEW R, NEW x, InLine(side, ahead, R, x),
           NEW s \in side, x[s] < R[s], \A p \in ahead[s] : x[p] = R[p]
    PROVE  /\ SumFunctionOnSet(x, side) = StartsAt(R, ahead, s) + x[s]
           /\ StartsAt(R, ahead, s) \in Nat /\ SumFunctionOnSet(x, side) \in Nat
           /\ \A a \in side \ {s} : x[a] \in {0, R[a]}
           /\ \A a \in side : a = s \/ \/ EndsAt(R, ahead, a) <= StartsAt(R, ahead, s)
                                       \/ EndsAt(R, ahead, s) <= StartsAt(R, ahead, a)
<1>1. \A a \in side : R[a] \in Nat /\ x[a] \in Nat /\ x[a] <= R[a]
  BY DEF InLine
<1>2. \A p \in side : s \in ahead[p] => x[p] = 0
  BY <1>1 DEF InLine
<1>3. /\ SumFunctionOnSet(x, side) \in Nat
      /\ SumFunctionOnSet(x, side) = StartsAt(R, ahead, s) + x[s]
  BY <1>1, <1>2, LineServed
<1>4. StartsAt(R, ahead, s) \in Nat /\ \A p \in ahead[s] : EndsAt(R, ahead, p) <= StartsAt(R, ahead, s)
  BY <1>1, LineOrder
<1>5. ASSUME NEW a \in side, a # s
      PROVE  /\ x[a] \in {0, R[a]}
             /\ \/ EndsAt(R, ahead, a) <= StartsAt(R, ahead, s)
                \/ EndsAt(R, ahead, s) <= StartsAt(R, ahead, a)
  <2>1. a \in ahead[s] \/ s \in ahead[a]
    BY <1>5 DEF Line
  <2>2. CASE a \in ahead[s]
    BY <1>4, <2>2
  <2>3. CASE s \in ahead[a]
    <3>1. \A p \in ahead[a] : EndsAt(R, ahead, p) <= StartsAt(R, ahead, a)
      BY <1>1, LineOrder
    <3>. QED  BY <1>2, <2>3, <3>1
  <2>. QED  BY <2>1, <2>2, <2>3
<1>. QED  BY <1>3, <1>4, <1>5

\* The fill the matcher makes next is the next overlap.
LEMMA NextOverlap ==
    ASSUME NEW buys, NEW sells, NEW ahead, Line(buys, ahead), Line(sells, ahead), NEW R, NEW x,
           InLine(buys, ahead, R, x), InLine(sells, ahead, R, x), NEW trades,
           Laid(buys, sells, ahead, R, x, trades),
           NEW b \in buys, x[b] < R[b], \A p \in ahead[b] : x[p] = R[p],
           NEW s \in sells, x[s] < R[s], \A p \in ahead[s] : x[p] = R[p],
           NEW q, q = Smaller(R[b] - x[b], R[s] - x[s])
    PROVE  /\ q \in Nat /\ q > 0 /\ q = Common(R, ahead, b, s)
           /\ SumFunctionOnSet(x, buys) + q = FirstEnd(R, ahead, b, s)
           /\ SumFunctionOnSet(x, buys) \in Nat
           /\ LastStart(R, ahead, b, s) = SumFunctionOnSet(x, buys)
<1>1. /\ SumFunctionOnSet(x, buys) = StartsAt(R, ahead, b) + x[b]
      /\ StartsAt(R, ahead, b) \in Nat /\ SumFunctionOnSet(x, buys) \in Nat
  BY NextInLine
<1>2. /\ SumFunctionOnSet(x, sells) = StartsAt(R, ahead, s) + x[s]
      /\ StartsAt(R, ahead, s) \in Nat
  BY NextInLine
<1>3. R[b] \in Nat /\ x[b] \in Nat /\ R[s] \in Nat /\ x[s] \in Nat
  BY DEF InLine
<1>4. SumFunctionOnSet(x, buys) = SumFunctionOnSet(x, sells)
  BY DEF Laid
<1>5. x[b] = 0 \/ x[s] = 0
  BY <1>3 DEF Laid
<1>. DEFINE A == StartsAt(R, ahead, b)
            B == StartsAt(R, ahead, s)
            Q == SumFunctionOnSet(x, buys)
<1>6. /\ Q = A + x[b] /\ Q = B + x[s] /\ A \in Nat /\ B \in Nat /\ Q \in Nat
  BY <1>1, <1>2, <1>4
<1>7. /\ FirstEnd(R, ahead, b, s) = Smaller(A + R[b], B + R[s])
      /\ LastStart(R, ahead, b, s) = IF A < B THEN B ELSE A
      /\ Common(R, ahead, b, s) = FirstEnd(R, ahead, b, s) - LastStart(R, ahead, b, s)
  BY DEF FirstEnd, LastStart, Common, EndsAt
<1>. HIDE DEF A, B, Q
<1>8. (IF A < B THEN B ELSE A) = Q
  BY <1>3, <1>5, <1>6
<1>9. q \in Nat /\ q > 0 /\ Q + q = Smaller(A + R[b], B + R[s])
  BY <1>3, <1>6 DEF Smaller
<1>10. q = Smaller(A + R[b], B + R[s]) - Q
  BY <1>6, <1>9
<1>. QED  BY <1>6, <1>7, <1>8, <1>9, <1>10 DEF Q

\* No other overlap begins before it and ends with it or earlier, except those
\* that are reached already.
LEMMA NoOtherOverlap ==
    ASSUME NEW buys, NEW sells, NEW ahead, Line(buys, ahead), Line(sells, ahead), NEW R, NEW x,
           InLine(buys, ahead, R, x), InLine(sells, ahead, R, x), NEW trades,
           Laid(buys, sells, ahead, R, x, trades),
           NEW b \in buys, x[b] < R[b], \A p \in ahead[b] : x[p] = R[p],
           NEW s \in sells, x[s] < R[s], \A p \in ahead[s] : x[p] = R[p],
           NEW a \in buys, NEW c \in sells, Common(R, ahead, a, c) > 0,
           FirstEnd(R, ahead, a, c) <= FirstEnd(R, ahead, b, s)
    PROVE  \/ FirstEnd(R, ahead, a, c) <= SumFunctionOnSet(x, buys)
           \/ a = b /\ c = s
<1>. DEFINE Q == SumFunctionOnSet(x, buys)
<1>1. /\ Q = StartsAt(R, ahead, b) + x[b] /\ StartsAt(R, ahead, b) \in Nat
      /\ a = b \/ EndsAt(R, ahead, a) <= StartsAt(R, ahead, b)
               \/ EndsAt(R, ahead, b) <= StartsAt(R, ahead, a)
  BY NextInLine
<1>2. /\ SumFunctionOnSet(x, sells) = StartsAt(R, ahead, s) + x[s] /\ StartsAt(R, ahead, s) \in Nat
      /\ c = s \/ EndsAt(R, ahead, c) <= StartsAt(R, ahead, s)
               \/ EndsAt(R, ahead, s) <= StartsAt(R, ahead, c)
  BY NextInLine
<1>3. Q = SumFunctionOnSet(x, sells)
  BY DEF Laid
<1>4. /\ R[a] \in Nat /\ R[b] \in Nat /\ R[c] \in Nat /\ R[s] \in Nat
      /\ x[b] \in Nat /\ x[s] \in Nat
      /\ \A y \in buys : R[y] \in Nat
      /\ \A y \in sells : R[y] \in Nat
  BY DEF InLine
<1>5. StartsAt(R, ahead, a) \in Nat /\ StartsAt(R, ahead, c) \in Nat
  BY <1>4, LineOrder
<1>. DEFINE A == StartsAt(R, ahead, a)
            B == StartsAt(R, ahead, b)
            C == StartsAt(R, ahead, c)
            S == StartsAt(R, ahead, s)
<1>6. /\ FirstEnd(R, ahead, a, c) = Smaller(A + R[a], C + R[c])
      /\ FirstEnd(R, ahead, b, s) = Smaller(B + R[b], S + R[s])
      /\ (IF A < C THEN C ELSE A) < Smaller(A + R[a], C + R[c])
  <2>1. /\ Common(R, ahead, a, c) = Smaller(A + R[a], C + R[c]) - (IF A < C THEN C ELSE A)
        /\ FirstEnd(R, ahead, a, c) = Smaller(A + R[a], C + R[c])
        /\ FirstEnd(R, ahead, b, s) = Smaller(B + R[b], S + R[s])
    BY DEF FirstEnd, LastStart, Common, EndsAt
  <2>2. A \in Nat /\ C \in Nat
    BY <1>5
  <2>. HIDE DEF A, B, C, S
  <2>. QED  BY <1>4, <2>1, <2>2 DEF Smaller
<1>7. /\ Q = B + x[b] /\ Q = S + x[s] /\ A \in Nat /\ B \in Nat /\ C \in Nat /\ S \in Nat
      /\ a = b \/ A + R[a] <= B \/ B + R[b] <= A
      /\ c = s \/ C + R[c] <= S \/ S + R[s] <= C
  BY <1>1, <1>2, <1>3, <1>5 DEF EndsAt
<1>8. Smaller(A + R[a], C + R[c]) <= Smaller(B + R[b], S + R[s])
  BY <1>6
<1>. HIDE DEF A, B, C, S, Q
<1>9. /\ Smaller(A + R[a], C + R[c]) <= A + R[a]
      /\ Smaller(A + R[a], C + R[c]) <= C + R[c]
      /\ Smaller(A + R[a], C + R[c]) \in Nat
      /\ Smaller(B + R[b], S + R[s]) <= B + R[b]
      /\ Smaller(B + R[b], S + R[s]) <= S + R[s]
      /\ Smaller(B + R[b], S + R[s]) \in Nat
  BY <1>4, <1>7 DEF Smaller
<1>10. ASSUME ~(Smaller(A + R[a], C + R[c]) <= Q)
       PROVE  a = b /\ c = s
  <2>1. ~(A + R[a] <= B) /\ ~(C + R[c] <= S)
    BY <1>4, <1>7, <1>9, <1>10
  <2>2. A < B + R[b] /\ C < S + R[s]
    BY <1>4, <1>6, <1>7, <1>8, <1>9
  <2>. QED  BY <1>4, <1>7, <2>1, <2>2
<1>. QED  BY <1>6, <1>10 DEF Q

\* So a fill of the two orders that are next in line keeps the trades laid.
LEMMA LaidFill ==
    ASSUME NEW buys, NEW sells, buys \cap sells = {}, NEW ahead,
           Line(buys, ahead), Line(sells, ahead), NEW R, NEW x,
           InLine(buys, ahead, R, x), InLine(sells, ahead, R, x), NEW trades,
           Laid(buys, sells, ahead, R, x, trades),
           NEW b \in buys, x[b] < R[b], \A p \in ahead[b] : x[p] = R[p],
           NEW s \in sells, x[s] < R[s], \A p \in ahead[s] : x[p] = R[p],
           NEW f, f.taker = b, f.maker = s, f.quantity = Smaller(R[b] - x[b], R[s] - x[s]),
           NEW y, \A a \in buys \cup sells :
                    y[a] = x[a] + (IF a \in {b, s} THEN f.quantity ELSE 0)
    PROVE  Laid(buys, sells, ahead, R, y, trades \cup {f})
<1>. DEFINE q == f.quantity
            Q == SumFunctionOnSet(x, buys)
<1>1. /\ q \in Nat /\ q > 0 /\ q = Common(R, ahead, b, s)
      /\ Q + q = FirstEnd(R, ahead, b, s) /\ Q \in Nat
  BY NextOverlap
<1>2. /\ \A a \in buys : R[a] \in Nat /\ x[a] \in Nat
      /\ \A a \in sells : R[a] \in Nat /\ x[a] \in Nat
      /\ IsFiniteSet(buys) /\ IsFiniteSet(sells)
  BY DEF InLine, Line
<1>3. /\ \A a \in buys \ {b} : y[a] = x[a]
      /\ \A a \in sells \ {s} : y[a] = x[a]
      /\ y[b] = x[b] + q /\ y[s] = x[s] + q
  BY <1>2
<1>4. SumFunctionOnSet(y, buys) = Q + q
  <2>1. \A a \in buys : x[a] \in Int /\ y[a] \in Int
    BY <1>1, <1>2, <1>3
  <2>2. SumFunctionOnSet(y, buys) = SumFunctionOnSet(x, buys) + (y[b] - x[b])
    BY <1>2, <1>3, <2>1, SumChange
  <2>. QED  BY <1>1, <1>2, <1>3, <2>2
<1>5. SumFunctionOnSet(y, sells) = SumFunctionOnSet(x, sells) + q
  <2>1. \A a \in sells : x[a] \in Int /\ y[a] \in Int
    BY <1>1, <1>2, <1>3
  <2>2. SumFunctionOnSet(y, sells) = SumFunctionOnSet(x, sells) + (y[s] - x[s])
    BY <1>2, <1>3, <2>1, SumChange
  <2>3. y[s] - x[s] = q
    BY <1>1, <1>2, <1>3
  <2>. QED  BY <2>2, <2>3
<1>6. Q = SumFunctionOnSet(x, sells)
  BY DEF Laid
<1>. HIDE DEF q, Q
<1>7. ASSUME NEW a \in buys, NEW c \in sells
      PROVE  y[a] \in {0, R[a]} \/ y[c] \in {0, R[c]}
  <2>1. \A d \in buys \ {b} : x[d] \in {0, R[d]}
    BY NextInLine
  <2>2. \A d \in sells \ {s} : x[d] \in {0, R[d]}
    BY NextInLine
  <2>3. CASE a # b
    BY <1>3, <2>1, <2>3
  <2>4. CASE c # s
    BY <1>3, <2>2, <2>4
  <2>5. CASE a = b /\ c = s
    BY <1>2, <1>3, <2>5 DEF Smaller, q
  <2>. QED  BY <2>3, <2>4, <2>5
<1>8. ASSUME NEW g \in trades \cup {f}
      PROVE  /\ g.taker \in buys /\ g.maker \in sells
             /\ g.quantity = Common(R, ahead, g.taker, g.maker) /\ g.quantity > 0
  BY <1>1 DEF Laid, q
<1>9. ASSUME NEW a \in buys, NEW c \in sells, Common(R, ahead, a, c) > 0,
             FirstEnd(R, ahead, a, c) <= Q + q
      PROVE  \E g \in trades \cup {f} : g.taker = a /\ g.maker = c
  <2>1. \/ FirstEnd(R, ahead, a, c) <= Q
        \/ a = b /\ c = s
    BY <1>1, <1>9, NoOtherOverlap DEF Q
  <2>. QED  BY <1>9, <2>1 DEF Laid, Q
<1>. QED  BY <1>4, <1>5, <1>6, <1>7, <1>8, <1>9 DEF Laid

\* An overlap that has been passed by one of its two orders has been traded.
LEMMA OverlapTraded ==
    ASSUME NEW buys, NEW sells, NEW ahead,
           Line(buys, ahead), Line(sells, ahead), NEW R, NEW x,
           InLine(buys, ahead, R, x), InLine(sells, ahead, R, x), NEW trades,
           Laid(buys, sells, ahead, R, x, trades),
           NEW b \in buys, NEW s \in sells, x[b] = R[b] \/ x[s] = R[s],
           Common(R, ahead, b, s) > 0
    PROVE  \E f \in trades : f.taker = b /\ f.maker = s /\ f.quantity = Common(R, ahead, b, s)
<1>. DEFINE A == StartsAt(R, ahead, b)
            B == StartsAt(R, ahead, s)
            Q == SumFunctionOnSet(x, buys)
<1>1. /\ \A y \in buys : R[y] \in Nat /\ x[y] \in Nat
      /\ \A y \in sells : R[y] \in Nat /\ x[y] \in Nat
  BY DEF InLine
<1>2. A \in Nat /\ B \in Nat
  BY <1>1, LineOrder
<1>3. Q = SumFunctionOnSet(x, sells)
  BY DEF Laid
<1>4. x[b] > 0 => A + x[b] <= Q
  <2>1. x[b] > 0 => \A p \in ahead[b] : x[p] = R[p]
    BY DEF InLine
  <2>. QED  BY <1>1, <2>1, LineServed
<1>5. x[s] > 0 => B + x[s] <= Q
  <2>1. x[s] > 0 => \A p \in ahead[s] : x[p] = R[p]
    BY DEF InLine
  <2>. QED  BY <1>1, <1>3, <2>1, LineServed
<1>6. Q \in Nat
  BY <1>1, SumNatural DEF Line
<1>7. /\ FirstEnd(R, ahead, b, s) = Smaller(A + R[b], B + R[s])
      /\ Common(R, ahead, b, s) = Smaller(A + R[b], B + R[s]) - (IF A < B THEN B ELSE A)
  BY DEF FirstEnd, LastStart, Common, EndsAt
<1>. HIDE DEF A, B, Q
<1>8. /\ R[b] \in Nat /\ R[s] \in Nat /\ x[b] \in Nat /\ x[s] \in Nat
  BY <1>1
<1>9. R[b] > 0 /\ R[s] > 0
  BY <1>2, <1>7, <1>8 DEF Smaller
<1>10. Smaller(A + R[b], B + R[s]) <= Q
  BY <1>2, <1>4, <1>5, <1>6, <1>8, <1>9 DEF Smaller
<1>11. PICK f \in trades : f.taker = b /\ f.maker = s
  BY <1>7, <1>10 DEF Laid, Q
<1>. QED  BY <1>11 DEF Laid

\* A book in memory, and what the tick has taken from it.
BookFits(t) ==
    /\ t.locked \subseteq Nat /\ IsFiniteSet(t.locked)
    /\ t.book \in [t.locked -> BookOrder]
    /\ \A s \in t.locked : t.book[s].sequence = s
    /\ t.fills \subseteq Fill /\ IsFiniteSet(t.fills)

\* price_time puts the orders of one side into a line.
LEMMA SidesAreLines ==
    ASSUME NEW t, BookFits(t), NEW side
    PROVE  Line(SideOf(t, side), AheadIn(t))
<1>. DEFINE S == SideOf(t, side)
            B == AheadIn(t)
<1>1. ASSUME NEW s \in t.locked
      PROVE  /\ s \in Nat /\ t.book[s].sequence = s /\ t.book[s].price \in Nat
             /\ t.book[s].side \in {"buy", "sell"}
  <2>1. t.book[s] \in BookOrder /\ t.book[s].sequence = s /\ s \in Nat
    BY DEF BookFits
  <2>. QED  BY <2>1 DEF BookOrder, Sides
<1>2. S \subseteq t.locked /\ IsFiniteSet(S)
  BY FS_Subset DEF BookFits, SideOf
<1>3. \A s \in S : B[s] = {p \in S : p # s /\ PriceTime(t.book[p], t.book[s])}
  BY DEF SideOf, AheadIn
<1>4. \A s \in S : t.book[s].side = side
  BY DEF SideOf
<1>. HIDE DEF S, B
<1>5. \A s \in S : B[s] \subseteq S \ {s}
  BY <1>3
<1>6. ASSUME NEW s \in S, NEW p \in B[s], NEW q \in B[p]
      PROVE  q \in B[s]
  <2>1. p \in S /\ q \in S /\ p # s /\ q # p
    BY <1>3
  <2>2. PriceTime(t.book[p], t.book[s]) /\ PriceTime(t.book[q], t.book[p])
    BY <1>3, <2>1
  <2>3. /\ t.book[s].side = side /\ t.book[p].side = side /\ t.book[q].side = side
        /\ s \in t.locked /\ p \in t.locked /\ q \in t.locked
    BY <1>2, <1>4, <2>1
  <2>4. PriceTime(t.book[q], t.book[s]) /\ q # s
    BY <1>1, <2>2, <2>3 DEF PriceTime
  <2>. QED  BY <1>3, <2>1, <2>4
<1>7. ASSUME NEW p \in S, NEW s \in S
      PROVE  p = s \/ p \in B[s] \/ s \in B[p]
  <2>1. /\ t.book[s].side = side /\ t.book[p].side = side
        /\ s \in t.locked /\ p \in t.locked
    BY <1>2, <1>4
  <2>2. p = s \/ PriceTime(t.book[p], t.book[s]) \/ PriceTime(t.book[s], t.book[p])
    BY <1>1, <2>1 DEF PriceTime
  <2>. QED  BY <1>3, <2>2
<1>8. \A s \in S : \A p \in B[s] : B[p] \subseteq B[s]
  BY <1>6
<1>9. Line(S, B)
  BY <1>2, <1>5, <1>7, <1>8 DEF Line
<1>. QED  BY <1>9 DEF S, B

\* What fills have taken from an order is a natural number.
LEMMA FilledNatural ==
    ASSUME NEW T, IsFiniteSet(T), T \subseteq Fill, NEW s
    PROVE  FilledIn(s, T) \in Nat
<1>. DEFINE p == [g \in T |-> IF s \in {g.maker, g.taker} THEN g.quantity ELSE 0]
<1>1. DOMAIN p = T /\ \A x \in T : p[x] \in Nat
  BY DEF Fill
<1>. HIDE DEF p
<1>2. SumFunctionOnSet(p, T) \in Nat
  BY <1>1, SumNatural
<1>. QED  BY <1>1, <1>2 DEF FilledIn, SumFunction, p

\* Orders of which a tick says how much it was locked with and how much is
\* taken, and the one is what is left with the other.
LEMMA SizesFit ==
    ASSUME NEW t, BookFits(t), NEW s \in t.locked
    PROVE  /\ LockedWith(t)[s] \in Nat /\ Taken(t)[s] \in Nat /\ t.book[s].remaining \in Nat
           /\ LockedWith(t)[s] = t.book[s].remaining + Taken(t)[s]
           /\ Taken(t)[s] <= LockedWith(t)[s]
           /\ Taken(t)[s] = FilledIn(s, t.fills)
<1>1. t.book[s] \in BookOrder /\ FilledIn(s, t.fills) \in Nat
  BY FilledNatural DEF BookFits
<1>2. t.book[s].remaining \in Nat
  BY <1>1 DEF BookOrder
<1>3. /\ LockedWith(t)[s] = t.book[s].remaining + FilledIn(s, t.fills)
      /\ Taken(t)[s] = FilledIn(s, t.fills)
  BY DEF LockedWith, Taken
<1>. QED  BY <1>1, <1>2, <1>3

\* An order in priority has only used up orders ahead of it.
LEMMA AheadUsedUp ==
    ASSUME NEW t, BookFits(t), NEW s \in t.locked, InPriority(t, s)
    PROVE  \A p \in AheadIn(t)[s] : p \in t.locked /\ Taken(t)[p] = LockedWith(t)[p]
<1>1. ASSUME NEW p \in AheadIn(t)[s]
      PROVE  p \in t.locked /\ Taken(t)[p] = LockedWith(t)[p]
  <2>1. /\ p \in t.locked /\ p # s /\ t.book[p].side = t.book[s].side
        /\ PriceTime(t.book[p], t.book[s])
    BY DEF AheadIn
  <2>2. t.book[p].remaining = 0
    BY <2>1 DEF InPriority
  <2>3. LockedWith(t)[p] = t.book[p].remaining + Taken(t)[p] /\ Taken(t)[p] \in Nat
    BY <2>1, SizesFit
  <2>. QED  BY <2>1, <2>2, <2>3
<1>. QED  BY <1>1

\* A tick that jumps no queue takes from each side in line.
LEMMA TakenInLine ==
    ASSUME NEW t, BookFits(t), Ordered(t), NEW side
    PROVE  InLine(SideOf(t, side), AheadIn(t), LockedWith(t), Taken(t))
<1>1. ASSUME NEW s \in SideOf(t, side)
      PROVE  /\ LockedWith(t)[s] \in Nat /\ Taken(t)[s] \in Nat
             /\ Taken(t)[s] <= LockedWith(t)[s]
             /\ Taken(t)[s] > 0 => \A p \in AheadIn(t)[s] : Taken(t)[p] = LockedWith(t)[p]
  <2>1. s \in t.locked
    BY DEF SideOf
  <2>2. ASSUME Taken(t)[s] > 0
        PROVE  InPriority(t, s)
    <3>1. FilledIn(s, t.fills) # 0
      BY <2>1, <2>2, SizesFit
    <3>2. PICK f \in t.fills : s = f.maker \/ s = f.taker
      BY <3>1, NeverFilled DEF BookFits
    <3>. QED  BY <3>2 DEF Ordered
  <2>. QED  BY <2>1, <2>2, SizesFit, AheadUsedUp
<1>. QED  BY <1>1 DEF InLine

\* A tick that has filled nothing has no overlap behind it.
LEMMA OverlapsStart ==
    ASSUME NEW t, BookFits(t), t.fills = {}
    PROVE  FilledByOverlap(t)
<1>. DEFINE U == SideOf(t, "buy")
            V == SideOf(t, "sell")
            B == AheadIn(t)
            R == LockedWith(t)
            x == Taken(t)
<1>1. U \subseteq t.locked /\ V \subseteq t.locked /\ IsFiniteSet(U) /\ IsFiniteSet(V)
  BY FS_Subset DEF BookFits, SideOf
<1>2. \A s \in t.locked : x[s] = 0
  <2>1. \A s : FilledIn(s, t.fills) = 0
    BY NeverFilled, FS_EmptySet
  <2>. QED  BY <2>1 DEF Taken
<1>3. SumFunctionOnSet(x, U) = 0 /\ SumFunctionOnSet(x, V) = 0
  BY <1>1, <1>2, SumZero
<1>4. \A s \in t.locked : R[s] \in Nat
  BY SizesFit
<1>5. Line(U, B) /\ Line(V, B)
  BY SidesAreLines
<1>. HIDE DEF U, V, B, R, x
<1>6. ASSUME NEW b \in U, NEW s \in V, Common(R, B, b, s) > 0, FirstEnd(R, B, b, s) <= 0
      PROVE  FALSE
  <2>1. \A a \in U : R[a] \in Nat
    BY <1>1, <1>4
  <2>2. \A a \in V : R[a] \in Nat
    BY <1>1, <1>4
  <2>3. StartsAt(R, B, b) \in Nat
    BY <1>5, <2>1, LineOrder
  <2>4. StartsAt(R, B, s) \in Nat
    BY <1>5, <2>2, LineOrder
  <2>5. FirstEnd(R, B, b, s) \in Nat /\ LastStart(R, B, b, s) \in Nat
    BY <2>1, <2>2, <2>3, <2>4 DEF FirstEnd, LastStart, EndsAt, Smaller
  <2>. QED  BY <1>6, <2>5 DEF Common
<1>7. Laid(U, V, B, R, x, t.fills)
  BY <1>1, <1>2, <1>3, <1>6 DEF Laid
<1>. QED  BY <1>7 DEF FilledByOverlap, U, V, B, R, x

\* Every tick of a ledger has such a book.
LEMMA TicksHaveBooks ==
    ASSUME Ledger, NEW i \in Instruments
    PROVE  BookFits(tick[i])
<1>1. /\ TickTypeOK(tick[i]) /\ TickHolds(tick[i], i) /\ TickFits(tick[i], orders)
      /\ IsFiniteSet(DOMAIN orders)
  BY LedgerFacts DEF TypeOK, LocksHold
<1>2. /\ tick[i].locked \subseteq Nat /\ tick[i].book \in [tick[i].locked -> BookOrder]
      /\ tick[i].fills \subseteq Fill /\ IsFiniteSet(tick[i].fills)
  BY <1>1 DEF TickTypeOK, TransactionTypeOK, TickFits
<1>3. tick[i].locked \subseteq DOMAIN orders /\ IsFiniteSet(tick[i].locked)
  <2>1. tick[i].locked \subseteq DOMAIN orders
    BY <1>1 DEF TickHolds
  <2>. QED  BY <1>1, <2>1, FS_Subset
<1>4. \A s \in tick[i].locked : tick[i].book[s].sequence = s
  <2>1. \A s \in tick[i].locked : tick[i].book[s] = BookEntry(s, tick[i].rows[s])
    BY <1>1 DEF TickHolds
  <2>2. \A s, row : BookEntry(s, row).sequence = s
    BY DEF BookEntry
  <2>. QED  BY <2>1, <2>2
<1>5. /\ tick[i].locked \subseteq Nat /\ IsFiniteSet(tick[i].locked)
      /\ tick[i].book \in [tick[i].locked -> BookOrder]
      /\ tick[i].fills \subseteq Fill /\ IsFiniteSet(tick[i].fills)
  BY <1>2, <1>3
<1>. QED  BY ONLY <1>4, <1>5 DEF BookFits

\* A fill leaves the sides, their order and the sizes they were locked with, and
\* adds its quantity to what is taken from the two orders.
LEMMA FillTakes ==
    ASSUME NEW t, BookFits(t), NEW w, NEW f \in Fill, f \notin t.fills,
           f.maker \in t.locked, f.taker \in t.locked,
           w.locked = t.locked, w.fills = t.fills \cup {f}, w.book = Deducted(t.book, f)
    PROVE  /\ \A side : SideOf(w, side) = SideOf(t, side)
           /\ AheadIn(w) = AheadIn(t)
           /\ LockedWith(w) = LockedWith(t)
           /\ \A s \in t.locked :
                Taken(w)[s] = Taken(t)[s] + (IF s \in {f.maker, f.taker} THEN f.quantity ELSE 0)
<1>1. t.book \in [t.locked -> BookOrder] /\ DOMAIN t.book = t.locked
  BY DEF BookFits
<1>2. f.quantity \in Nat
  BY DEF Fill
<1>. DEFINE d(s) == IF s \in {f.maker, f.taker} THEN f.quantity ELSE 0
<1>3. ASSUME NEW s \in t.locked
      PROVE  /\ w.book[s].side = t.book[s].side
             /\ w.book[s].price = t.book[s].price
             /\ w.book[s].sequence = t.book[s].sequence
             /\ w.book[s].remaining = t.book[s].remaining - d(s)
             /\ t.book[s].remaining \in Nat
  <2>1. t.book[s] \in BookOrder
    BY <1>1
  <2>2. w.book[s] = IF s \in {f.maker, f.taker}
                    THEN [t.book[s] EXCEPT !.remaining = @ - f.quantity] ELSE t.book[s]
    BY <1>1 DEF Deducted
  <2>3. CASE s \in {f.maker, f.taker}
    BY <2>1, <2>2, <2>3 DEF BookOrder
  <2>4. CASE s \notin {f.maker, f.taker}
    BY <2>1, <2>2, <2>4 DEF BookOrder
  <2>. QED  BY <2>3, <2>4
<1>4. ASSUME NEW s
      PROVE  /\ FilledIn(s, t.fills) \in Int
             /\ FilledIn(s, w.fills) = FilledIn(s, t.fills) + d(s)
  <2>1. IsFiniteSet(t.fills) /\ t.fills \subseteq Fill
    BY DEF BookFits
  <2>2. FilledIn(s, t.fills) \in Int
    BY <2>1, FilledType
  <2>3. FilledIn(s, t.fills \cup {f})
          = FilledIn(s, t.fills) + (IF s \in {f.maker, f.taker} THEN f.quantity ELSE 0)
    BY <2>1, OneMoreFilled
  <2>. QED  BY <2>2, <2>3
<1>5. \A s : d(s) \in Int
  BY <1>2
<1>. HIDE DEF d
<1>6. \A side : SideOf(w, side) = SideOf(t, side)
  BY <1>3 DEF SideOf
<1>7. \A p, s \in t.locked : PriceTime(w.book[p], w.book[s]) <=> PriceTime(t.book[p], t.book[s])
  BY <1>3 DEF PriceTime
<1>8. AheadIn(w) = AheadIn(t)
  <2>1. \A s \in t.locked :
          {p \in w.locked : w.book[p].side = w.book[s].side /\ p # s
                            /\ PriceTime(w.book[p], w.book[s])}
            = {p \in t.locked : t.book[p].side = t.book[s].side /\ p # s
                            /\ PriceTime(t.book[p], t.book[s])}
    BY <1>3, <1>7
  <2>. QED  BY <2>1 DEF AheadIn
<1>9. \A s \in t.locked : w.book[s].remaining + FilledIn(s, w.fills)
                            = t.book[s].remaining + FilledIn(s, t.fills)
  <2>1. ASSUME NEW s \in t.locked
        PROVE  w.book[s].remaining + FilledIn(s, w.fills)
                 = t.book[s].remaining + FilledIn(s, t.fills)
    <3>1. /\ w.book[s].remaining = t.book[s].remaining - d(s) /\ t.book[s].remaining \in Nat
          /\ FilledIn(s, t.fills) \in Int /\ d(s) \in Int
          /\ FilledIn(s, w.fills) = FilledIn(s, t.fills) + d(s)
      BY <1>3, <1>4, <1>5
    <3>. QED  BY ONLY <3>1
  <2>. QED  BY <2>1
<1>10. LockedWith(w) = LockedWith(t)
  BY <1>9 DEF LockedWith
<1>11. \A s \in t.locked : Taken(w)[s] = Taken(t)[s] + d(s)
  BY <1>4 DEF Taken
<1>. QED  BY <1>6, <1>8, <1>10, <1>11 DEF d

\* A step of match_taker fills the next overlap: nothing is left ahead of its
\* two orders.
LEMMA OverlapsFill ==
    ASSUME Ledger, NEW i \in Instruments, FilledByOverlap(tick[i]),
           NEW buy \in tick[i].buys, NEW sell \in Makers(tick[i]), TickFill(i, buy, sell)
    PROVE  FilledByOverlap(tick'[i])
<1>. DEFINE t == tick[i]
            w == tick'[i]
            f == NextFill(i, buy, sell)
            U == SideOf(t, "buy")
            V == SideOf(t, "sell")
            B == AheadIn(t)
            R == LockedWith(t)
            x == Taken(t)
            y == Taken(w)
<1>1. TypeOK /\ LocksHold /\ FillsSound /\ BookFits(t)
  BY LedgerFacts, TicksHaveBooks
<1>2. Served(t) /\ Ordered(t) /\ TickTypeOK(t) /\ TickHolds(t, i)
  BY <1>1, PerTick, LedgerFacts DEF BookInv, TypeOK, LocksHold
<1>3. /\ buy \in t.locked /\ sell \in t.locked
      /\ w.locked = t.locked /\ w.fills = t.fills \cup {f} /\ w.book = Deducted(t.book, f)
  BY <1>1, FillResult
<1>4. f \in Fill /\ f.maker = sell /\ f.taker = buy
  BY <1>1, <1>3, NextFillType
<1>5. f \notin t.fills
  BY <1>1, PairIsNew DEF SamePair
<1>6. /\ t.book[buy].side = "buy" /\ t.book[sell].side = "sell"
      /\ t.book[buy].remaining > 0 /\ t.book[sell].remaining > 0
      /\ f.quantity = Smaller(t.book[buy].remaining, t.book[sell].remaining)
  BY <1>2 DEF TickFill, Served, Makers, NextFill
<1>7. InPriority(t, buy) /\ InPriority(t, sell)
  BY <1>2, FirstInPriority
<1>. HIDE DEF f
<1>8. /\ SideOf(w, "buy") = U /\ SideOf(w, "sell") = V /\ AheadIn(w) = B /\ LockedWith(w) = R
      /\ \A s \in t.locked : y[s] = x[s] + (IF s \in {f.maker, f.taker} THEN f.quantity ELSE 0)
  BY <1>1, <1>3, <1>4, <1>5, FillTakes
<1>9. /\ Line(U, B) /\ Line(V, B) /\ InLine(U, B, R, x) /\ InLine(V, B, R, x)
      /\ Laid(U, V, B, R, x, t.fills)
  BY <1>1, <1>2, SidesAreLines, TakenInLine DEF FilledByOverlap
<1>10. /\ \A p \in B[buy] : x[p] = R[p]
       /\ \A p \in B[sell] : x[p] = R[p]
  BY <1>1, <1>3, <1>7, AheadUsedUp
<1>11. /\ R[buy] - x[buy] = t.book[buy].remaining /\ R[sell] - x[sell] = t.book[sell].remaining
       /\ x[buy] < R[buy] /\ x[sell] < R[sell]
  <2>1. /\ R[buy] \in Nat /\ x[buy] \in Nat /\ t.book[buy].remaining \in Nat
        /\ R[buy] = t.book[buy].remaining + x[buy]
    BY <1>1, <1>3, SizesFit
  <2>2. /\ R[sell] \in Nat /\ x[sell] \in Nat /\ t.book[sell].remaining \in Nat
        /\ R[sell] = t.book[sell].remaining + x[sell]
    BY <1>1, <1>3, SizesFit
  <2>. HIDE DEF R, x
  <2>. QED  BY <1>6, <2>1, <2>2
<1>12. /\ buy \in U /\ sell \in V /\ U \cap V = {}
       /\ U \subseteq t.locked /\ V \subseteq t.locked
  BY <1>3, <1>6 DEF SideOf
<1>13. \A a \in U \cup V : y[a] = x[a] + (IF a \in {buy, sell} THEN f.quantity ELSE 0)
  BY <1>4, <1>8, <1>12
<1>14. f.quantity = Smaller(R[buy] - x[buy], R[sell] - x[sell])
  BY <1>6, <1>11
<1>15. Laid(SideOf(w, "buy"), SideOf(w, "sell"), AheadIn(w), LockedWith(w), y, w.fills)
       <=> Laid(U, V, B, R, y, t.fills \cup {f})
  BY <1>3, <1>8
<1>. HIDE DEF U, V, B, R, x, y, t, w
<1>16. Laid(U, V, B, R, y, t.fills \cup {f})
  BY <1>4, <1>9, <1>10, <1>11, <1>12, <1>13, <1>14, LaidFill
<1>. QED  BY <1>15, <1>16 DEF FilledByOverlap, y, w

\* No tick runs when the exchange starts.
LEMMA MatchInit == Init => MatchInv
<1>. SUFFICES ASSUME Init, NEW i \in Instruments PROVE FilledByOverlap(tick[i])
  BY DEF MatchInv
<1>1. tick[i].fills = {} /\ Ledger
  BY LedgerInit DEF Init, NoTick
<1>. QED  BY <1>1, TicksHaveBooks, OverlapsStart

\* A tick begins with a book and no fills, fills the next overlap, leaves buys
\* behind, or ends.
LEMMA MatchTick ==
    ASSUME Ledger, NEW i \in Instruments, FilledByOverlap(tick[i]), WorkerStep(i)
    PROVE  FilledByOverlap(tick'[i])
<1>0. /\ TypeOK /\ i \in DOMAIN tick /\ TickTypeOK(tick[i]) /\ IsFiniteSet(DOMAIN orders)
      /\ DOMAIN orders \subseteq Nat /\ \A s \in DOMAIN orders : orders[s] \in Order
  BY LedgerFacts DEF TypeOK
<1>1. ASSUME tick'[i].locked = {}, tick'[i].book = Empty, tick'[i].fills = {}
      PROVE  FilledByOverlap(tick'[i])
  <2>1. BookFits(tick'[i])
    BY <1>1, FS_EmptySet DEF BookFits, Empty
  <2>. QED  BY <1>1, <2>1, OverlapsStart
<1>2. CASE TickBegin(i) \/ TickCommit(i) \/ TickAbort(i)
  <2>1. tick'[i].locked = {} /\ tick'[i].book = Empty /\ tick'[i].fills = {}
    <3>1. TickBegin(i) => tick'[i] = [NoTick EXCEPT !.phase = "snapshot", !.seen = BookOf(i)]
      BY <1>0 DEF TickBegin
    <3>2. TickCommit(i) \/ TickAbort(i) => tick'[i] = NoTick
      BY <1>0 DEF TickCommit, TickAbort
    <3>3. NoTick.locked = {} /\ NoTick.book = Empty /\ NoTick.fills = {}
      BY DEF NoTick
    <3>4. ASSUME NEW seen, NEW begun, begun = [NoTick EXCEPT !.phase = "snapshot", !.seen = seen]
          PROVE  begun.locked = {} /\ begun.book = Empty /\ begun.fills = {}
      BY <3>4 DEF NoTick
    <3>. QED  BY <1>2, <3>1, <3>2, <3>3, <3>4
  <2>. QED  BY <1>1, <2>1
<1>3. CASE TickLock(i)
  <2>. DEFINE locked == tick[i].seen \cap BookOf(i)
  <2>1. /\ tick'[i].locked = locked
        /\ tick'[i].book = [s \in locked |-> BookEntry(s, orders[s])]
        /\ tick'[i].fills = {}
    BY <1>0, <1>3 DEF TickLock, NoTick
  <2>2. locked \subseteq DOMAIN orders
    BY DEF BookOf
  <2>. HIDE DEF locked
  <2>3. IsFiniteSet(locked) /\ locked \subseteq Nat
    BY <1>0, <2>2, FS_Subset
  <2>4. ASSUME NEW s \in locked
        PROVE  BookEntry(s, orders[s]) \in BookOrder /\ BookEntry(s, orders[s]).sequence = s
    <3>1. orders[s] \in Order /\ s \in Nat
      BY <1>0, <2>2
    <3>. QED  BY <3>1 DEF BookEntry, BookOrder, Order
  <2>5. BookFits(tick'[i])
    <3>1. tick'[i].book \in [tick'[i].locked -> BookOrder]
      BY <2>1, <2>4
    <3>2. \A s \in tick'[i].locked : tick'[i].book[s].sequence = s
      BY <2>1, <2>4
    <3>3. tick'[i].fills \subseteq Fill /\ IsFiniteSet(tick'[i].fills)
      BY <2>1, FS_EmptySet
    <3>4. tick'[i].locked \subseteq Nat /\ IsFiniteSet(tick'[i].locked)
      BY <2>1, <2>3
    <3>. QED  BY ONLY <3>1, <3>2, <3>3, <3>4 DEF BookFits
  <2>. QED  BY <2>1, <2>5, OverlapsStart
<1>4. ASSUME NEW buy \in tick[i].buys, TickNextBuy(i, buy)
      PROVE  FilledByOverlap(tick'[i])
  <2>1. /\ tick'[i].locked = tick[i].locked /\ tick'[i].book = tick[i].book
        /\ tick'[i].fills = tick[i].fills
    BY <1>0, <1>4 DEF TickNextBuy, TickTypeOK
  <2>. QED  BY <2>1 DEF FilledByOverlap, SideOf, AheadIn, LockedWith, Taken
<1>. QED  BY <1>2, <1>3, <1>4, OverlapsFill DEF WorkerStep

LEMMA MatchNext == Ledger /\ MatchInv /\ [Next]_vars => MatchInv'
<1>. SUFFICES ASSUME Ledger, MatchInv, [Next]_vars
              PROVE  \A i \in Instruments : FilledByOverlap(tick'[i])
  BY DEF MatchInv, FilledByOverlap, SideOf, AheadIn, LockedWith, Taken
<1>1. \A i \in Instruments : FilledByOverlap(tick[i])
  BY DEF MatchInv
<1>2. ASSUME NEW i \in Instruments, WorkerStep(i), NEW j \in Instruments
      PROVE  FilledByOverlap(tick'[j])
  <2>1. CASE i = j
    BY <1>1, <1>2, <2>1, MatchTick
  <2>2. CASE i # j
    <3>1. DOMAIN tick = Instruments
      BY LedgerFacts DEF TypeOK
    <3>2. tick'[j] = tick[j]
      BY <1>2, <2>2, <3>1 DEF WorkerStep, TickBegin, TickLock, TickFill, TickNextBuy, TickCommit,
                              TickAbort
    <3>. QED  BY <1>1, <3>2
  <2>. QED  BY <2>1, <2>2
<1>3. ASSUME NEW u \in Users, UserStep(u)
      PROVE  tick' = tick
  BY <1>3 DEF UserStep, PlaceOrder, CancelBegin, CancelOne, CancelCommit, CancelAbort
<1>4. GeneratorStep \/ UNCHANGED vars => tick' = tick
  BY DEF GeneratorStep, GeneratorTick, FeedStale, CancelStaleQuotes, vars
<1>. QED  BY <1>1, <1>2, <1>3, <1>4 DEF Next

\* The overlaps of the property, of orders in the table, are those of the
\* tick's own copies.
LEMMA OverlapsInTable ==
    ASSUME Ledger, NEW i \in Instruments, NEW s \in tick[i].locked
    PROVE  /\ orders[s].side = tick[i].book[s].side
           /\ orders[s].price = tick[i].book[s].price
           /\ orders[s].remaining = LockedWith(tick[i])[s]
           /\ Ahead(i, s) = StartsAt(LockedWith(tick[i]), AheadIn(tick[i]), s)
<1>. DEFINE t == tick[i]
            R == LockedWith(t)
<1>1. /\ TickTypeOK(t) /\ TickHolds(t, i) /\ TickFits(t, orders) /\ BookFits(t)
      /\ \A x \in DOMAIN orders : orders[x] \in Order
  BY LedgerFacts, TicksHaveBooks DEF LocksHold, TypeOK
<1>2. ASSUME NEW p \in t.locked
      PROVE  /\ orders[p].side = t.book[p].side /\ orders[p].price = t.book[p].price
             /\ orders[p].remaining = R[p] /\ R[p] \in Nat
             /\ t.book[p].sequence = p
             /\ t.book[p].side \in {"buy", "sell"}
  <2>1. /\ p \in DOMAIN orders /\ SameTerms(t.rows[p], orders[p])
        /\ t.book[p] = BookEntry(p, t.rows[p])
    BY <1>1 DEF TickHolds
  <2>2. /\ t.book[p].side = t.rows[p].side /\ t.book[p].price = t.rows[p].price
        /\ t.book[p].remaining = t.rows[p].remaining
    BY <2>1 DEF BookEntry
  <2>3. t.rows[p].side = orders[p].side /\ t.rows[p].price = orders[p].price
    BY <2>1 DEF SameTerms
  <2>4. t.rows[p].remaining = orders[p].remaining - FilledIn(p, t.fills)
    BY <1>1 DEF TickFits
  <2>5. orders[p].remaining \in Nat
    BY <1>1, <2>1 DEF Order
  <2>6. /\ R[p] = t.book[p].remaining + FilledIn(p, t.fills) /\ R[p] \in Nat
        /\ FilledIn(p, t.fills) \in Nat
    BY <1>1, SizesFit, FilledNatural DEF LockedWith, BookFits
  <2>7. orders[p].remaining = R[p]
    BY <2>2, <2>4, <2>5, <2>6
  <2>8. t.book[p] \in BookOrder /\ t.book[p].sequence = p
    BY <1>1 DEF BookFits
  <2>. QED  BY <2>2, <2>3, <2>6, <2>7, <2>8 DEF BookOrder, Sides
<1>. DEFINE before == {p \in t.locked :
                         /\ orders[p].side = orders[s].side
                         /\ \/ orders[s].side = "buy" /\ orders[p].price > orders[s].price
                            \/ orders[s].side = "sell" /\ orders[p].price < orders[s].price
                            \/ orders[p].price = orders[s].price /\ p < s}
            left == [p \in before |-> orders[p].remaining]
<1>3. Ahead(i, s) = SumFunctionOnSet(left, before)
  BY DEF Ahead, SumFunction
<1>4. before \subseteq t.locked /\ IsFiniteSet(before)
  BY <1>1, FS_Subset DEF BookFits
<1>5. \A p \in before : left[p] = R[p]
  BY <1>2
<1>6. before = AheadIn(t)[s]
  <2>1. ASSUME NEW p \in t.locked
        PROVE  p \in before <=> /\ t.book[p].side = t.book[s].side /\ p # s
                                /\ PriceTime(t.book[p], t.book[s])
    <3>1. orders[p].price \in Nat /\ orders[s].price \in Nat /\ p \in Nat /\ s \in Nat
      <4>1. p \in DOMAIN orders /\ s \in DOMAIN orders /\ p \in Nat /\ s \in Nat
        BY <1>1 DEF TickHolds, BookFits
      <4>. QED  BY <1>1, <4>1 DEF Order
    <3>. QED  BY <1>2, <3>1 DEF PriceTime
  <2>. QED  BY <1>4, <2>1 DEF AheadIn
<1>. HIDE DEF before, left, R
<1>7. SumFunctionOnSet(left, before) = SumFunctionOnSet(R, before)
  BY <1>4, <1>5, SumSame
<1>8. Ahead(i, s) = StartsAt(R, AheadIn(t), s)
  BY <1>3, <1>6, <1>7 DEF StartsAt
<1>. QED  BY <1>2, <1>8 DEF R

LEMMA OverlapIsCommon ==
    ASSUME Ledger, NEW i \in Instruments, NEW b \in tick[i].locked, NEW s \in tick[i].locked
    PROVE  Overlap(i, b, s) = Common(LockedWith(tick[i]), AheadIn(tick[i]), b, s)
BY OverlapsInTable DEF Overlap, Common, FirstEnd, LastStart, EndsAt

\* When a buy is served, it or a sell that it crosses is used up.
LEMMA ServedCrosses ==
    ASSUME Ledger, NEW i \in Instruments,
           NEW b \in tick[i].locked \ tick[i].buys, orders[b].side = "buy",
           NEW s \in tick[i].locked, orders[s].side = "sell", orders[b].price >= orders[s].price
    PROVE  \/ Taken(tick[i])[b] = LockedWith(tick[i])[b]
           \/ Taken(tick[i])[s] = LockedWith(tick[i])[s]
<1>. DEFINE t == tick[i]
<1>1. Served(t) /\ BookFits(t)
  BY LedgerFacts, PerTick, TicksHaveBooks DEF BookInv
<1>2. /\ t.book[b].side = "buy" /\ t.book[s].side = "sell"
      /\ t.book[b].price >= t.book[s].price
  BY OverlapsInTable
<1>3. t.book[b].remaining = 0 \/ s \notin Makers(t)
  BY <1>1, <1>2 DEF Served, Crosses
<1>4. /\ LockedWith(t)[b] = t.book[b].remaining + Taken(t)[b] /\ Taken(t)[b] \in Nat
      /\ LockedWith(t)[s] = t.book[s].remaining + Taken(t)[s] /\ Taken(t)[s] \in Nat
      /\ t.book[s].remaining \in Nat
  BY <1>1, SizesFit
<1>5. t.book[b].remaining = 0 \/ t.book[s].remaining = 0
  BY <1>2, <1>3, <1>4 DEF Makers
<1>. QED  BY <1>4, <1>5

LEMMA MatchSays == Ledger /\ MatchInv => FillsAreOverlaps
<1>. SUFFICES ASSUME Ledger, MatchInv, NEW i \in Instruments
              PROVE  LET served == {b \in tick[i].locked \ tick[i].buys : orders[b].side = "buy"}
                         sells == {s \in tick[i].locked : orders[s].side = "sell"}
                         trades == {p \in served \X sells :
                                      /\ orders[p[1]].price >= orders[p[2]].price
                                      /\ Overlap(i, p[1], p[2]) > 0}
                     IN  {<<f.taker, f.maker, f.quantity>> :
                            f \in {f \in tick[i].fills : f.taker \in served}}
                           = {<<p[1], p[2], Overlap(i, p[1], p[2])>> : p \in trades}
  BY DEF FillsAreOverlaps
<1>. DEFINE t == tick[i]
            served == {b \in t.locked \ t.buys : orders[b].side = "buy"}
            sells == {s \in t.locked : orders[s].side = "sell"}
            trades == {p \in served \X sells : /\ orders[p[1]].price >= orders[p[2]].price
                                               /\ Overlap(i, p[1], p[2]) > 0}
            U == SideOf(t, "buy")
            V == SideOf(t, "sell")
            B == AheadIn(t)
            R == LockedWith(t)
            x == Taken(t)
<1>1. /\ BookFits(t) /\ Ordered(t) /\ TickTypeOK(t) /\ TickHolds(t, i) /\ FillsSound
  BY LedgerFacts, PerTick, TicksHaveBooks DEF BookInv, TypeOK, LocksHold
<1>2. /\ Line(U, B) /\ Line(V, B) /\ InLine(U, B, R, x) /\ InLine(V, B, R, x)
      /\ Laid(U, V, B, R, x, t.fills)
  BY <1>1, SidesAreLines, TakenInLine DEF MatchInv, FilledByOverlap
<1>3. /\ \A b \in served : b \in U /\ b \in t.locked
      /\ \A s \in t.locked : s \in sells <=> s \in V
      /\ \A s \in sells : s \in V /\ s \in t.locked
      /\ V \subseteq t.locked
  BY OverlapsInTable DEF SideOf
<1>4. ASSUME NEW f \in t.fills, f.taker \in served
      PROVE  /\ f.maker \in sells /\ <<f.taker, f.maker>> \in trades
             /\ f.quantity = Overlap(i, f.taker, f.maker)
  <2>1. /\ f.maker \in V /\ f.quantity = Common(R, B, f.taker, f.maker) /\ f.quantity > 0
    BY <1>2 DEF Laid
  <2>2. f.maker \in sells /\ f.maker \in t.locked /\ f.taker \in t.locked
    BY <1>3, <1>4, <2>1
  <2>3. Overlap(i, f.taker, f.maker) = Common(R, B, f.taker, f.maker)
    BY <2>2, OverlapIsCommon
  <2>4. orders[f.taker].price >= orders[f.maker].price
    <3>1. SoundFill(f, t.rows) /\ f \in Fill
      BY <1>1 DEF FillsSound, BookFits
    <3>2. /\ SameTerms(t.rows[f.taker], orders[f.taker])
          /\ SameTerms(t.rows[f.maker], orders[f.maker])
          /\ f.taker \in DOMAIN orders /\ f.maker \in DOMAIN orders
      BY <1>1, <2>2 DEF TickHolds
    <3>3. orders[f.taker] \in Order /\ orders[f.maker] \in Order
      BY <3>2, LedgerFacts
    <3>4. /\ f.price <= orders[f.taker].price /\ f.price >= orders[f.maker].price
          /\ f.price \in Nat /\ orders[f.taker].price \in Nat /\ orders[f.maker].price \in Nat
      BY <3>1, <3>2, <3>3 DEF SoundFill, SameTerms, Order, Fill
    <3>. QED  BY <3>4
  <2>. QED  BY <1>4, <2>1, <2>2, <2>3, <2>4
<1>5. ASSUME NEW b \in served, NEW s \in sells, orders[b].price >= orders[s].price,
             Overlap(i, b, s) > 0
      PROVE  \E f \in t.fills : f.taker = b /\ f.maker = s /\ f.quantity = Overlap(i, b, s)
  <2>1. Overlap(i, b, s) = Common(R, B, b, s)
    BY <1>3, OverlapIsCommon
  <2>2. x[b] = R[b] \/ x[s] = R[s]
    BY <1>5, ServedCrosses
  <2>3. b \in U /\ s \in V
    BY <1>3
  <2>. HIDE DEF U, V, B, R, x, served, sells, t
  <2>4. \E f \in t.fills : f.taker = b /\ f.maker = s /\ f.quantity = Common(R, B, b, s)
    BY <1>2, <1>5, <2>1, <2>2, <2>3, OverlapTraded
  <2>. QED  BY <2>1, <2>4
<1>6. ASSUME NEW p \in trades
      PROVE  \E f \in t.fills : /\ f.taker \in served
                                /\ <<f.taker, f.maker, f.quantity>>
                                     = <<p[1], p[2], Overlap(i, p[1], p[2])>>
  <2>1. /\ p[1] \in served /\ p[2] \in sells /\ orders[p[1]].price >= orders[p[2]].price
        /\ Overlap(i, p[1], p[2]) > 0
    OBVIOUS
  <2>. HIDE DEF served, sells, trades
  <2>2. PICK f \in t.fills :
           f.taker = p[1] /\ f.maker = p[2] /\ f.quantity = Overlap(i, p[1], p[2])
    BY <1>5, <2>1
  <2>. QED  BY <2>1, <2>2
<1>. HIDE DEF trades, served, sells
<1>7. {<<f.taker, f.maker, f.quantity>> : f \in {f \in t.fills : f.taker \in served}}
        = {<<p[1], p[2], Overlap(i, p[1], p[2])>> : p \in trades}
  <2>1. ASSUME NEW f \in t.fills, f.taker \in served
        PROVE  \E p \in trades : <<f.taker, f.maker, f.quantity>>
                                   = <<p[1], p[2], Overlap(i, p[1], p[2])>>
    <3>. DEFINE p == <<f.taker, f.maker>>
    <3>1. p \in trades /\ p[1] = f.taker /\ p[2] = f.maker
          /\ f.quantity = Overlap(i, f.taker, f.maker)
      BY <1>4, <2>1
    <3>. QED  BY <3>1
  <2>. QED  BY <1>6, <2>1
<1>. QED  BY <1>7 DEF trades, served, sells

\* In every state the fills of every tick are the overlaps of its orders, up to
\* the point that both sides have reached: nobody is passed over, nothing is
\* filled twice.
THEOREM MatchInvariance == Spec => []MatchInv
<1>1. Init => Ledger /\ MatchInv
  BY LedgerInit, MatchInit
<1>2. Ledger /\ MatchInv /\ [Next]_vars => (Ledger /\ MatchInv)'
  BY LedgerNext, MatchNext
<1>. QED  BY <1>1, <1>2, PTL DEF Spec

\* The inductive invariant that the runs check: rows and balances that a
\* transaction is about to write are those its fills explain, and its fills are
\* the overlaps of the orders it holds.
THEOREM Invariance == Spec => []IInv
<1>1. Ledger => LedgerInv
  BY DEF Ledger
<1>. QED  BY <1>1, LedgerInvariance, MatchInvariance, PTL DEF IInv

\* Each buy a tick is done with has traded exactly what it overlaps in with the
\* sells that it crosses, and nothing else.
THEOREM FillsOverlap == Spec => []FillsAreOverlaps
<1>1. Ledger /\ MatchInv => FillsAreOverlaps
  BY MatchSays
<1>. QED  BY <1>1, LedgerInvariance, MatchInvariance, PTL
=============================================================================
