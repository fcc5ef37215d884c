------------------------------- MODULE Amounts -------------------------------
(***************************************************************************)
(* Decimal arithmetic of the exchange.  Every stored price, quantity and   *)
(* balance is a numeric(30,10) column, so it is an integer here: a number  *)
(* of units of 1 / Scale.  The product of two of them is in units of       *)
(* 1 / Scale^2 and is brought back to units by the rounding of the code.   *)
(* All the amounts that the code rounds are nonnegative.                   *)
(***************************************************************************)
EXTENDS Integers, Rounding

CONSTANTS
    Scale,          \* units in 1; the columns have Scale = 10^10
    Cent,           \* units in 0.01, the granule of the market maker's prices
    Lot,            \* units in 10^-8, the granule of the market maker's sizes
    Liquidity       \* LIQUIDITY_NOTIONAL_USD, in units

ASSUME ScaleAssumption ==
    /\ Scale \in Nat \ {0}
    /\ Cent \in Nat \ {0}
    /\ Lot \in Nat \ {0}
    /\ Liquidity \in Nat \ {0}

\* balance_amount of the product of two column values.
BalanceAmount(quantity, price) == RoundHalfAway(quantity * price, Scale)

\* limit_price of a market buy: 5% over the reference, as the column stores it.
MarketBuyCap(reference) == RoundHalfAway(reference * 105, 100)

\* What place_order reserves for a market buy: the cap is not rounded first.
MarketBuyReserve(quantity, reference) ==
    RoundHalfAway(quantity * reference * 105, 100 * Scale)

\* The market maker's price at permille/1000 of the reference.
QuotePrice(reference, permille) == Cent * RoundHalfEven(reference * permille, 1000 * Cent)

\* The market maker's size for `times` the configured dollar depth.
QuoteQuantity(reference, times) ==
    Lot * RoundHalfEven(times * Liquidity * Scale, reference * Lot)
=============================================================================
