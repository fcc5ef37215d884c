------------------------------ MODULE Generator ------------------------------
(***************************************************************************)
(* The market generators (simulator/main.rs, generator.rs) and the traders *)
(* that open their accounts while they run (trader.rs).                    *)
(*                                                                         *)
(* A generator owns the markets by an advisory lock that one of its        *)
(* connections holds, and writes through others of the same pool.  All     *)
(* markets move in one transaction, so they are one record here.  Prices   *)
(* are in half cents: the bounds of generated prices fall on them.         *)
(***************************************************************************)
EXTENDS Integers, Rounding

CONSTANTS
    Generators,
    Mode,               \* PRICE_SOURCE of each: "simulated" or "coinbase"
    Traders,            \* whose accounts are not opened yet
    Seeds,
    SeedOf,             \* market_seed of SIMULATION_SEED, per generator
    Noise(_, _),        \* the random number of a seed and a step
    LivePrices,         \* what the feed may answer
    Published,          \* market_state's price before the first tick
    Nobody,             \* no owner, no lock
    Unset,              \* NULL
    MaxSteps,           \* bound: generated prices
    MaxFailures         \* bound: lost sessions, failed ticks and exits

VARIABLES
    owner,      \* PostgreSQL: whose session holds the advisory lock
    pc,         \* where each generator is in run_market
    quote,      \* the live price it has fetched
    seen,       \* the market as its tick has read it
    writer,     \* who has the rows of market_state locked
    market,     \* market_state; `invented` is no column but where the price came from
    quotes,     \* the price the system's open orders were made for
    joining,    \* per trader: how far bootstrap is
    baseline,   \* users: profit_baseline_source, and whether its prices were invented;
                \* visible when the trader is "open"
    failures

vars == <<owner, pc, quote, seen, writer, market, quotes, joining, baseline, failures>>

Places == {"stopped", "claimed", "switched", "loop", "pinged", "fetched", "tick", "failed"}
Price == Nat \ {0}
Market == [price : Price, anchor : Price \cup {Unset}, seed : Seeds \cup {Unset}, step : Nat,
           source : {"simulated", "coinbase"}, invented : BOOLEAN, fresh : BOOLEAN]
Baseline == [source : {"simulated", "coinbase"}, invented : BOOLEAN]

ASSUME GeneratorAssumption ==
    /\ Mode \in [Generators -> {"simulated", "coinbase"}]
    /\ SeedOf \in [Generators -> Seeds]
    /\ \A s \in Seeds : \A n \in 0 .. MaxSteps : Noise(s, n) \in -15 .. 15
    /\ Published \in Price /\ LivePrices \subseteq Price
    /\ \A p \in LivePrices \cup {Published} : p % 2 = 0
    /\ Nobody \notin Generators
    /\ Unset \notin Price /\ Unset \notin Seeds
    /\ MaxSteps \in Nat

Fails == failures < MaxFailures /\ failures' = failures + 1
Goes(g, place) == pc' = [pc EXCEPT ![g] = place]
Live(g) == Mode[g] = "coinbase"

Init ==
    /\ owner = Nobody
    /\ pc = [g \in Generators |-> "stopped"]
    /\ quote = [g \in Generators |-> Unset]
    /\ seen = [g \in Generators |-> Unset]
    /\ writer = Nobody
    /\ market = [price |-> Published, anchor |-> Unset, seed |-> Unset, step |-> 0,
                 source |-> "simulated", invented |-> TRUE, fresh |-> TRUE]
    /\ quotes = Unset
    /\ joining = [t \in Traders |-> "new"]
    /\ baseline = [t \in Traders |-> [source |-> "simulated", invented |-> TRUE]]
    /\ failures = 0

-----------------------------------------------------------------------------
(* Generated prices                                                        *)

Higher(a, b) == IF a > b THEN a ELSE b
Lower(a, b) == IF a < b THEN a ELSE b

\* Faulty: nothing keeps the price near its anchor.
FreePrice(current, anchor, noise) ==
    Higher(2, 2 * RoundHalfEven(current * (10000 + noise) + (anchor - current) * 2, 20000))

\* A step of up to 0.15% and a weak pull to the anchor, rounded to cents, kept
\* between half and one and a half of the anchor, and above 0.
NextPrice(current, anchor, noise) ==
    LET next == 2 * RoundHalfEven(current * (10000 + noise) + (anchor - current) * 2, 20000)
    IN  Lower(Higher(next, Higher(anchor \div 2, 2)), Higher(3 * (anchor \div 2), 2))

\* Faulty: a restarted generator uses its own seed.
GeneratedAnew(g) ==
    LET m == seen[g]
        anchor == IF m.anchor = Unset THEN m.price ELSE m.anchor
    IN  [price |-> NextPrice(m.price, anchor, Noise(SeedOf[g], m.step)),
         anchor |-> anchor, seed |-> SeedOf[g], step |-> market.step + 1,
         source |-> "simulated", invented |-> TRUE, fresh |-> TRUE]

\* What a tick in simulated mode makes of the market it has read.
Generated(g) ==
    LET m == seen[g]
        anchor == IF m.anchor = Unset THEN m.price ELSE m.anchor
        seed == IF m.seed = Unset THEN SeedOf[g] ELSE m.seed
    IN  [price |-> NextPrice(m.price, anchor, Noise(seed, m.step)),
         anchor |-> anchor, seed |-> seed, step |-> market.step + 1,
         source |-> "simulated", invented |-> TRUE, fresh |-> TRUE]

\* What a tick in live mode makes of it.
Fetched(g) ==
    [market EXCEPT !.price = quote[g], !.source = "coinbase", !.invented = FALSE, !.fresh = TRUE]

-----------------------------------------------------------------------------
(* A generator                                                             *)

\* It runs if it gets the lock.  (If not, the process ends.)
Claim(g) ==
    /\ pc[g] = "stopped"
    /\ owner = Nobody
    /\ owner' = g
    /\ Goes(g, "claimed")
    /\ UNCHANGED <<quote, seen, writer, market, quotes, joining, baseline, failures>>

\* A live generator first declares the prices it finds stale ...
Launch(g) ==
    /\ pc[g] = "claimed"
    /\ IF Live(g)
       THEN /\ writer = Nobody
            /\ market' = [market EXCEPT !.source = "coinbase", !.fresh = FALSE]
            /\ Goes(g, "switched")
       ELSE Goes(g, "loop") /\ UNCHANGED market
    /\ UNCHANGED <<owner, quote, seen, writer, quotes, joining, baseline, failures>>

\* ... and then withdraws the quotes.
Withdraw(g) ==
    /\ pc[g] = "switched"
    /\ quotes' = Unset
    /\ Goes(g, "loop")
    /\ UNCHANGED <<owner, quote, seen, writer, market, joining, baseline, failures>>

\* The connection that holds the lock still works, or the process ends.
Ping(g) ==
    /\ pc[g] = "loop"
    /\ Goes(g, IF owner = g THEN "pinged" ELSE "stopped")
    /\ UNCHANGED <<owner, quote, seen, writer, market, quotes, joining, baseline, failures>>

\* The feed answers for every market, or the tick fails.
Fetch(g) ==
    /\ pc[g] = "pinged" /\ Live(g)
    /\ \/ quote' \in {[quote EXCEPT ![g] = price] : price \in LivePrices} /\ Goes(g, "fetched")
       \/ Goes(g, "failed") /\ UNCHANGED quote
    /\ UNCHANGED <<owner, seen, writer, market, quotes, joining, baseline, failures>>

\* A tick begins by locking the markets and reading them.
TickBegin(g) ==
    /\ pc[g] = IF Live(g) THEN "fetched" ELSE "pinged"
    /\ writer = Nobody
    /\ writer' = g
    /\ seen' = [seen EXCEPT ![g] = market]
    /\ Goes(g, "tick")
    /\ UNCHANGED <<owner, quote, market, quotes, joining, baseline, failures>>

\* A live tick resets the baselines that were taken at simulated prices.
Rebaseline == baseline' = [t \in Traders |->
    IF joining[t] = "open" /\ baseline[t].source = "simulated"
    THEN [source |-> "coinbase", invented |-> FALSE]
    ELSE baseline[t]]

\* The transaction is over, and with it what the tick knew.
EndTick(g) ==
    /\ writer' = IF writer = g THEN Nobody ELSE writer
    /\ quote' = [quote EXCEPT ![g] = Unset]
    /\ seen' = [seen EXCEPT ![g] = Unset]

\* The tick commits, whoever holds the advisory lock by now.
TickCommit(g) ==
    /\ pc[g] = "tick"
    /\ market.step < MaxSteps \/ Live(g)
    /\ market' = IF Live(g) THEN Fetched(g) ELSE Generated(g)
    /\ quotes' = market'.price
    /\ IF Live(g) THEN Rebaseline ELSE UNCHANGED baseline
    /\ EndTick(g)
    /\ Goes(g, "loop")
    /\ UNCHANGED <<owner, joining, failures>>

\* A database error before the commit.
TickFails(g) ==
    /\ pc[g] \in {"pinged", "fetched", "tick"}
    /\ Fails
    /\ EndTick(g)
    /\ Goes(g, "failed")
    /\ UNCHANGED <<owner, market, quotes, joining, baseline>>

\* Faulty: quotes are left alone after a failed tick.
GoOn(g) ==
    /\ pc[g] = "failed"
    /\ Goes(g, "loop")
    /\ UNCHANGED <<owner, quote, seen, writer, market, quotes, joining, baseline, failures>>

\* After a failed tick a live generator withdraws quotes of stale markets; an
\* error of the database is ignored.
AfterFailure(g) ==
    /\ pc[g] = "failed"
    /\ \/ quotes' = (IF Live(g) /\ ~market.fresh THEN Unset ELSE quotes) /\ UNCHANGED failures
       \/ Live(g) /\ Fails /\ UNCHANGED quotes
    /\ Goes(g, "loop")
    /\ UNCHANGED <<owner, quote, seen, writer, market, joining, baseline>>

\* The lock's connection breaks, and the generator does not know.
SessionLost(g) ==
    /\ owner = g
    /\ Fails
    /\ owner' = Nobody
    /\ UNCHANGED <<pc, quote, seen, writer, market, quotes, joining, baseline>>

\* The process ends: all its connections are closed.
Exit(g) ==
    /\ pc[g] # "stopped"
    /\ Fails
    /\ owner' = IF owner = g THEN Nobody ELSE owner
    /\ EndTick(g)
    /\ Goes(g, "stopped")
    /\ UNCHANGED <<market, quotes, joining, baseline>>

\* 30 seconds without a tick.
GrowsStale ==
    /\ market.fresh
    /\ market' = [market EXCEPT !.fresh = FALSE]
    /\ UNCHANGED <<owner, pc, quote, seen, writer, quotes, joining, baseline, failures>>

-----------------------------------------------------------------------------
(* A trader opens its account: one transaction, at READ COMMITTED          *)

Joins(t, from, to) == joining[t] = from /\ joining' = [joining EXCEPT ![t] = to]

\* The prices must not be stale ones.
JoinBegin(t) ==
    /\ market.source = "simulated" \/ market.fresh
    /\ Joins(t, "new", "checked")
    /\ UNCHANGED <<owner, pc, quote, seen, writer, market, quotes, baseline, failures>>

\* The opening balances are valued at the prices of a later statement.
JoinValue(t) ==
    /\ Joins(t, "checked", "valued")
    /\ baseline' = [baseline EXCEPT ![t] =
           [source |-> market.source, invented |-> market.invented]]
    /\ UNCHANGED <<owner, pc, quote, seen, writer, market, quotes, failures>>

JoinCommit(t) ==
    /\ Joins(t, "valued", "open")
    /\ UNCHANGED <<owner, pc, quote, seen, writer, market, quotes, baseline, failures>>

\* The transaction fails.
JoinFails(t) ==
    /\ \/ Joins(t, "checked", "new")
       \/ Joins(t, "valued", "new")
    /\ UNCHANGED <<owner, pc, quote, seen, writer, market, quotes, baseline, failures>>

-----------------------------------------------------------------------------

Next ==
    \/ \E g \in Generators : Claim(g)
    \/ \E g \in Generators : Launch(g)
    \/ \E g \in Generators : Withdraw(g)
    \/ \E g \in Generators : Ping(g)
    \/ \E g \in Generators : Fetch(g)
    \/ \E g \in Generators : TickBegin(g)
    \/ \E g \in Generators : TickCommit(g)
    \/ \E g \in Generators : TickFails(g)
    \/ \E g \in Generators : AfterFailure(g)
    \/ \E g \in Generators : SessionLost(g)
    \/ \E g \in Generators : Exit(g)
    \/ GrowsStale
    \/ \E t \in Traders : JoinBegin(t)
    \/ \E t \in Traders : JoinValue(t)
    \/ \E t \in Traders : JoinCommit(t)
    \/ \E t \in Traders : JoinFails(t)

Spec == Init /\ [][Next]_vars

\* Generators are restarted when they end and take their steps.  The feed may
\* fail for ever.
Fairness == \A g \in Generators :
    /\ WF_vars(Claim(g)) /\ WF_vars(Launch(g)) /\ WF_vars(Withdraw(g)) /\ WF_vars(Ping(g))
    /\ WF_vars(Fetch(g)) /\ WF_vars(TickBegin(g)) /\ WF_vars(TickCommit(g))
    /\ WF_vars(AfterFailure(g))

FairSpec == Spec /\ Fairness

-----------------------------------------------------------------------------
(* Properties                                                              *)

\* The type invariant.
TypeOK ==
    /\ owner \in Generators \cup {Nobody}
    /\ pc \in [Generators -> Places]
    /\ quote \in [Generators -> LivePrices \cup {Unset}]
    /\ seen \in [Generators -> Market \cup {Unset}]
    /\ writer \in Generators \cup {Nobody}
    /\ market \in Market
    /\ quotes \in Price \cup {Unset}
    /\ joining \in [Traders -> {"new", "checked", "valued", "open"}]
    /\ baseline \in [Traders -> Baseline]
    /\ failures \in Nat

\* A tick has the markets locked, and they are as it read them.
TickHasLock ==
    \A g \in Generators :
        /\ pc[g] = "tick" =>
               /\ writer = g /\ seen[g] \in Market
               /\ seen[g].price = market.price /\ seen[g].anchor = market.anchor
               /\ seen[g].seed = market.seed /\ seen[g].step = market.step
        /\ pc[g] \in {"fetched", "tick"} /\ Live(g) => quote[g] # Unset

\* Restarts and overlapping generators continue the saved sequence of prices
\* (restart_continues_the_saved_sequence in generator.rs): every step counted is
\* one step from the price before it, with the anchor and the seed of the first.
SequenceContinues ==
    [][market'.step # market.step =>
        /\ market'.step = market.step + 1
        /\ market.anchor # Unset => market'.anchor = market.anchor /\ market'.seed = market.seed
        /\ market.anchor = Unset => market'.anchor = market.price
        /\ market'.price = NextPrice(market.price, market'.anchor, Noise(market'.seed, market.step))
      ]_vars

\* The sequence of generated prices stays between half and one and a half of
\* the anchor, also when it goes on after a time of live prices.
PriceNearAnchor ==
    market.invented /\ market.anchor # Unset =>
        /\ 2 * market.price >= market.anchor
        /\ market.price <= Higher(3 * (market.anchor \div 2), 2)

\* An anchor is a price as published, in whole cents, and comes with its seed.
AnchorInCents ==
    /\ market.anchor = Unset => market.price \in LivePrices \cup {Published}
    /\ market.anchor # Unset => market.anchor % 2 = 0 /\ market.seed # Unset

\* The inductive invariant.
IInv == TypeOK /\ TickHasLock /\ AnchorInCents /\ PriceNearAnchor

\* The switch to live prices is no profit or loss (docs/autonomous-traders.md):
\* whoever is ranked by live prices started from live prices.
NoInventedProfit ==
    \A t \in Traders : joining[t] = "open" /\ baseline[t].source = "coinbase" => ~baseline[t].invented

\* Another generator can claim ownership without duplicate ticks
\* (simulator/main.rs:54): nobody writes while somebody else is the owner.
NoDuplicateTicks == [][\A g \in Generators : TickCommit(g) => owner \in {g, Nobody}]_vars

\* When live prices have gone stale their quotes are withdrawn, however long the
\* feed is down (docs/autonomous-traders.md); up to the bound on simulated prices,
\* with which a simulated generator would make new ones.
StaleQuotesGo ==
    market.source = "coinbase" /\ ~market.fresh ~>
        market.fresh \/ quotes = Unset \/ market.step = MaxSteps
==============================================================================
