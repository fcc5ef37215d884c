------------------------------ MODULE Sizing ------------------------------
(***************************************************************************)
(* How much an order may be for.  The page's shortcuts "25%" to "All"      *)
(* (crates/frontend/src/sizing.rs) and the autonomous traders (trader.rs)  *)
(* divide a part of the available balance by what a unit will cost and cut *)
(* the quotient to 10^-8; place_order later multiplies again, rounds to    *)
(* 10^-10, and reserves the product, at the reference price and from the   *)
(* balance of that time: both have moved since they were read, by fills,   *)
(* other orders, cancellations and commands that were still under way.     *)
(* Decimal's quotient of 28 digits is exact here.                          *)
(***************************************************************************)
EXTENDS Amounts

CONSTANTS
    Balances,       \* available balances, in units
    References,     \* reference prices, in units
    Limits,         \* the limit prices a user types, in units
    Percents,       \* {25, 50, 75, 100}
    Fractions,      \* the traders' parts, in 1/10000: 100 .. 1000
    Spreads,        \* the traders' limits, in 1/10000 of the reference: 9960 .. 10040
    MaxQuantity     \* 1,000,000, in units

ASSUME SizingAssumption ==
    /\ Balances \subseteq Nat /\ References \subseteq Nat /\ Limits \subseteq Nat
    /\ \A p \in Percents : p \in Nat /\ p =< 100
    /\ \A f \in Fractions : f \in Nat /\ f =< 10000
    /\ Spreads \subseteq Nat /\ MaxQuantity \in Nat

VARIABLES
    available,      \* accounts: of the currency that the order's side pays with
    reference,      \* market_state: the reference price
    read,           \* both as the page or the trader has read them
    order           \* the sized order, until it is placed

sizingVars == <<available, reference, read, order>>

NoOrder == [kind |-> "none"]

SizingInit ==
    /\ available \in Balances
    /\ reference \in References
    /\ read = [available |-> available, reference |-> reference]
    /\ order = NoOrder

-----------------------------------------------------------------------------
\* Unit costs are in units of 1 / (100 Scale): a market buy costs 5% more.
UnitCost(side, kind, limit, ref) ==
    IF side = "sell" THEN 100 * Scale
    ELSE IF kind = "limit" THEN 100 * limit
    ELSE 105 * ref

\* Faulty: the quotient is rounded to the nearest lot.
NearestLot(amount, parts, unit) == Lot * RoundHalfAway(amount * 100 * Scale, parts * unit * Lot)

\* amount / parts / unit, cut to 8 decimal places (ToZero).
CutToLot(amount, parts, unit) == Lot * ((amount * 100 * Scale) \div (parts * unit * Lot))

Lesser(a, b) == IF a < b THEN a ELSE b

\* sizing::quantity; 0 where it returns None.
Quantity(percent, unit) ==
    IF unit = 0 THEN 0 ELSE Lesser(CutToLot(read.available * percent, 100, unit), MaxQuantity)

\* The trader's quantity has no cap.
TraderQuantity(fraction, unit) == CutToLot(read.available * fraction, 10000, unit)

Sized(side, kind, limit, quantity, part) ==
    /\ order = NoOrder
    /\ quantity > 0
    /\ order' = [side |-> side, kind |-> kind, limit |-> limit, quantity |-> quantity, part |-> part]
    /\ UNCHANGED <<available, reference, read>>

Shortcut(side, kind, limit, percent) ==
    Sized(side, kind, limit, Quantity(percent, UnitCost(side, kind, limit, read.reference)), percent * 100)

(* round_dp(2) of the reference and a spread. *)
TraderLimit(spread) == Cent * RoundHalfEven(read.reference * spread, 10000 * Cent)

TraderOrders(side, kind, spread, fraction) ==
    LET limit == TraderLimit(spread)
        unit  == UnitCost(side, kind, limit, read.reference)
    IN  /\ unit > 0
        /\ Sized(side, kind, limit, TraderQuantity(fraction, unit), fraction)

(* The balance and the price are read by requests or statements of their   *)
(* own.  What is read while an order is under way is for the next one.     *)
ReadBalance ==
    /\ order = NoOrder
    /\ read' = [read EXCEPT !.available = available]
    /\ UNCHANGED <<available, reference, order>>

ReadReference ==
    /\ order = NoOrder
    /\ read' = [read EXCEPT !.reference = reference]
    /\ UNCHANGED <<available, reference, order>>

(* Fills, cancellations, other orders and commands not yet applied. *)
BalanceMoves == available' \in Balances /\ UNCHANGED <<reference, read, order>>

PriceMoves == reference' \in References /\ UNCHANGED <<available, read, order>>

\* What place_order reserves for q units of the order at a reference price.
Reserve(o, q, ref) ==
    IF o.side = "sell" THEN q
    ELSE IF o.kind = "limit" THEN BalanceAmount(q, o.limit)
    ELSE MarketBuyReserve(q, ref)

Fits(o) == Reserve(o, o.quantity, reference) <= available

(* It is accepted and its funds reserved, or refused: the ticket is open again. *)
Place ==
    /\ order # NoOrder
    /\ available' = IF Fits(order) THEN available - Reserve(order, order.quantity, reference)
                                   ELSE available
    /\ order' = NoOrder
    /\ UNCHANGED <<reference, read>>

SizingNext ==
    \/ \E side \in {"buy", "sell"}, kind \in {"limit", "market"} :
          \/ \E limit \in Limits, percent \in Percents : Shortcut(side, kind, limit, percent)
          \/ \E spread \in Spreads, fraction \in Fractions : TraderOrders(side, kind, spread, fraction)
    \/ ReadBalance \/ ReadReference
    \/ BalanceMoves \/ PriceMoves
    \/ Place

SizingSpec == SizingInit /\ [][SizingNext]_sizingVars

-----------------------------------------------------------------------------
\* Properties.

(* A sized order is refused for want of funds only when the balance has     *)
(* fallen since it was read, or when it is a market buy and the price has   *)
(* risen: cutting at 10^-8, the 5% and the rounding to 10^-10 at the other  *)
(* end agree (sizing.rs:26, trader.rs:181, trading/src/lib.rs:83).          *)
IsAccepted ==
    \/ Fits(order)
    \/ available < read.available
    \/ order.side = "buy" /\ order.kind = "market" /\ reference > read.reference

(* Nor is it smaller than it should be: of the balance that was read, "All" *)
(* leaves less than the cost of one more lot, or orders the maximum.        *)
LeavesNothing ==
    order.part = 10000 =>
        \/ Reserve(order, order.quantity + Lot, read.reference) >= read.available
        \/ order.quantity = MaxQuantity

(* Both hold of every order that the shortcuts and the traders size.        *)
SizedExactly == order # NoOrder => IsAccepted /\ LeavesNothing

-----------------------------------------------------------------------------
\* The inductive invariant.

SizingTypeOK ==
    /\ available \in Nat /\ reference \in Nat
    /\ read \in [available : Nat, reference : Nat]
    /\ \/ order = NoOrder
       \/ order \in [side : {"buy", "sell"}, kind : {"limit", "market"}, limit : Nat,
                     quantity : Nat, part : Nat]

\* The order can be paid from the balance it was sized with, and no larger one.
Affordable ==
    LET unit  == UnitCost(order.side, order.kind, order.limit, read.reference)
        funds == read.available * 100 * Scale
    IN  /\ order.quantity * unit <= funds
        /\ \/ order.part # 10000
           \/ (order.quantity + Lot) * unit > funds
           \/ order.quantity = MaxQuantity

SizingInv == SizingTypeOK /\ (order # NoOrder => Affordable)
=============================================================================
