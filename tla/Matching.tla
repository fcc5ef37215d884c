------------------------------- MODULE Matching ------------------------------
(***************************************************************************)
(* The rules of the book in exchange_domain: which orders cross, which of  *)
(* two orders on one side is served first, and the price of a fill.  An    *)
(* order in the matcher's memory is a BookOrder record                     *)
(*   [side, price, remaining, sequence, type]                              *)
(* (`type` is kept beside it in tick_instrument's `originals`).            *)
(***************************************************************************)
EXTENDS Integers

Sides == {"buy", "sell"}
OrderTypes == {"limit", "market"}

\* crosses: a taker trades with a maker whose price is no worse than its own.
Crosses(taker, maker) ==
    IF taker.side = "buy" THEN taker.price >= maker.price
                          ELSE taker.price <= maker.price

\* Faulty: the sells are ordered like the buys, the highest price first.
HighestFirst(first, second) ==
    \/ first.price > second.price
    \/ first.price = second.price /\ first.sequence < second.sequence

\* price_time = Less: a better price first, the older order among equals.
PriceTime(first, second) ==
    \/ first.side = "buy" /\ first.price > second.price
    \/ first.side = "sell" /\ first.price < second.price
    \/ first.price = second.price /\ first.sequence < second.sequence

\* `a` comes first in the slice of `ids` sorted by price_time.
IsFirst(a, ids, book) ==
    a \in ids /\ \A b \in ids \ {a} : PriceTime(book[a], book[b])

Smaller(a, b) == IF a <= b THEN a ELSE b

\* Faulty: every fill is priced like one of two market orders.
MarketPrice(buy, sell, reference) == Smaller(reference, buy.price)

\* execution_price: limit prices of the originals, never a market order's
\* sentinel price of 0.
ExecutionPrice(buy, sell, reference) ==
    CASE buy.type = "market" /\ sell.type = "market" -> Smaller(reference, buy.price)
      [] buy.type # "market" /\ sell.type = "market" -> buy.price
      [] buy.type = "market" /\ sell.type # "market" -> sell.price
      [] OTHER -> IF buy.sequence < sell.sequence THEN buy.price ELSE sell.price
=============================================================================
