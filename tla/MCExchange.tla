----------------------------- MODULE MCExchange ------------------------------
(***************************************************************************)
(* Instances of Exchange for TLC.  A unit is 1/10 and a price of 1000 is   *)
(* $100, so that a quantity of 1 at 1005 rounds and the market maker's     *)
(* four prices differ.                                                     *)
(***************************************************************************)
EXTENDS Exchange, TLC

CONSTANTS ann, bob, id1, id2, usd, btc, eth, btcusd, ethusd, dollars, coins

MCBase == (btcusd :> btc) @@ (ethusd :> eth)
MCQuote == (btcusd :> usd) @@ (ethusd :> usd)
MCRank == (btcusd :> 0) @@ (ethusd :> 1)

\* One instrument.
OneBase == btcusd :> btc
OneQuote == btcusd :> usd
OneRank == btcusd :> 0

MCGrant == [u \in Users |-> [c \in Currencies |-> IF c = usd THEN dollars ELSE coins]]

Limit(i, side, quantity, price) ==
    [instrument |-> i, side |-> side, type |-> "limit", quantity |-> quantity, price |-> price]
AtMarket(i, side, quantity) ==
    [instrument |-> i, side |-> side, type |-> "market", quantity |-> quantity, price |-> 0]

\* Both sides at two prices, full and partial fills, and what validation refuses.
BookRequests ==
    {Limit(btcusd, "buy", 2, 1005), Limit(btcusd, "buy", 1, 995),
     Limit(btcusd, "sell", 2, 995), Limit(btcusd, "sell", 1, 1005),
     Limit(btcusd, "buy", 0, 1005), [AtMarket(btcusd, "sell", 1) EXCEPT !.price = 995]}

\* Orders that trade with the market maker, one and several levels deep, and one
\* that rests between its prices.  The buy is charged a unit less than its row
\* holds when the reference is 995.
QuoteRequests ==
    {Limit(btcusd, "buy", 1, 1003), AtMarket(btcusd, "buy", 1), AtMarket(btcusd, "sell", 3)}

\* Two of them, which also cross each other.
CrossingRequests == {Limit(btcusd, "buy", 1, 1003), AtMarket(btcusd, "sell", 3)}

BookSymmetry == Permutations(Users) \cup Permutations(ClientIds)
==============================================================================
