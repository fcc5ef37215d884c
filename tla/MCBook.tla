------------------------------- MODULE MCBook --------------------------------
(***************************************************************************)
(* Scenarios of Exchange and of LockOrder in one run, each of which TLC    *)
(* explores completely; `scenario` says which, and whose role is special.  *)
(*   book    users place and cancel on one instrument, without generator   *)
(*   failures  the same with fewer orders, when a transaction may fail     *)
(*   quotes  one user against the generator's quotes, on a live feed       *)
(*   pair    two instruments are matched at the same time: one user buys,  *)
(*           the other sells, and nobody cancels                           *)
(* In the others the exchange rests and LockOrder moves:                   *)
(*   ticks   two ticks settle on the same accounts, one user calls         *)
(*   calls   two users call while their orders are matched                 *)
(*   system  a tick and the generator meet on the system's orders          *)
(***************************************************************************)
EXTENDS MCExchange, LockOrder

CONSTANTS kim, lee, call1, call2

VARIABLE scenario

LockScenarios == {"ticks", "calls", "system"}
Scenarios == [kind : {"book", "failures"} \cup LockScenarios] \cup [kind : {"quotes", "pair"}, user : Users]

\* Two books that share the users' dollars.
PairRequests ==
    {Limit(btcusd, "buy", 2, 1005), Limit(btcusd, "sell", 1, 1005),
     AtMarket(ethusd, "buy", 1), AtMarket(ethusd, "sell", 1)}

AllRequests == BookRequests \cup QuoteRequests \cup PairRequests

\* The next of the numbers, as if every transaction committed in their order.
NextNumber == Cardinality(DOMAIN orders) + 1

BookStep(most) ==
    \/ \E u \in Users :
         \/ \E c \in ClientIds, r \in BookRequests, s \in NextSequence(u) \cap 1 .. most :
               PlaceOrder(u, c, r, s)
         \/ \E chosen \in SUBSET OpenOf(u) : CancelBegin(u, chosen)
         \/ \E s \in cancel[u].todo : CancelOne(u, s)
         \/ CancelCommit(u) \/ CancelAbort(u)
    \/ WorkerStep(btcusd)

QuotesStep(u) ==
    \/ /\ OpenOf(u) = {}
       /\ \E c \in ClientIds, r \in QuoteRequests : PlaceOrder(u, c, r, NextNumber)
    \/ \E chosen \in SUBSET OpenOf(u) : CancelBegin(u, chosen)
    \/ \E s \in cancel[u].todo : CancelOne(u, s)
    \/ CancelCommit(u)
    \/ \E new \in References :
          GeneratorTick([i \in Instruments |-> IF i = btcusd THEN new ELSE 1000], NextNumber)
    \/ FeedStale(btcusd) \/ CancelStaleQuotes
    \/ WorkerStep(btcusd) /\ UNCHANGED aborts

PairStep(buyer) ==
    \/ \E u \in Users, c \in ClientIds, r \in PairRequests :
          /\ NextNumber =< 4
          /\ r.side = "buy" <=> u = buyer
          /\ PlaceOrder(u, c, r, NextNumber)
    \/ \E i \in Instruments : WorkerStep(i)

\* Who has not to rest in a scenario of LockOrder, and the orders open at first.
Moving == [ticks |-> {"BTC", "ETH", call1}, calls |-> {"BTC", "ETH", call1, call2},
           system |-> {"BTC", "ETH", call1, Generator}]
OpenAtFirst == [ticks |-> 2 .. 5, calls |-> {4, 5}, system |-> {1, 2, 5, 6}]

Row(u, i, s) == [user |-> u, instrument |-> i, side |-> s]

\* 2 and 3 settle on the accounts of 4 and 5 in the other order; the system's are
\* older than those of the users on one instrument and younger on the other; 7 is not
\* placed yet.
BookTerms == <<Row(System, "BTC", "sell"), Row(kim, "BTC", "buy"), Row(lee, "BTC", "sell"),
               Row(lee, "ETH", "buy"), Row(kim, "ETH", "sell"), Row(System, "ETH", "sell"),
               Row(kim, "BTC", "sell")>>
BookSymbols == <<"BTC", "ETH">>
BookCallerOf == call1 :> kim @@ call2 :> lee

LocksStart ==
    /\ LockInit
    /\ open = IF scenario.kind \in LockScenarios THEN OpenAtFirst[scenario.kind] ELSE {}

LocksStep ==
    /\ scenario.kind \in LockScenarios
    /\ LockNext
    /\ \A t \in Transactions \ Moving[scenario.kind] : phase'[t] = "idle"
    /\ scenario.kind = "system" => phase'[call1] \notin {"place", "cancel"}
    /\ scenario.kind = "ticks" => 7 \notin open'

ScenarioInit ==
    /\ Init
    /\ scenario \in Scenarios
    /\ LocksStart
    /\ \A i \in Instruments : market[i].reference = 1000

ScenarioNext ==
    /\ UNCHANGED scenario
    /\ \/ /\ \/ scenario.kind = "book" /\ BookStep(3) /\ UNCHANGED aborts
             \/ scenario.kind = "failures" /\ BookStep(2)
             \/ scenario.kind = "quotes" /\ QuotesStep(scenario.user)
             \/ scenario.kind = "pair" /\ PairStep(scenario.user)
          /\ UNCHANGED lockVars
       \/ LocksStep /\ UNCHANGED vars

ScenarioSpec == ScenarioInit /\ [][ScenarioNext]_<<vars, scenario, lockVars>>
==============================================================================
