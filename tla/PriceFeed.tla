----------------------------- MODULE PriceFeed -----------------------------
(***************************************************************************)
(* The live reference prices in time (crates/simulator/src/prices.rs and   *)
(* the loop and tick of main.rs in "coinbase" mode).  The generator lists  *)
(* the markets, asks the provider for one after another, accepts an answer *)
(* by the age of its trade, and writes all markets in one transaction.  If *)
(* any step fails nothing is written, and the system's quotes of the       *)
(* markets that have gone stale are withdrawn, unless that fails as well.  *)
(* Every statement may wait for a connection of the pool first.            *)
(* Generator.tla has what this leaves out: several generators, the         *)
(* simulated mode, crashes and restarts.                                   *)
(***************************************************************************)
EXTENDS Integers, Sequences, FiniteSetsExt

CONSTANTS
    Products,       \* the sequence of markets, ORDER BY instrument
    Ages,           \* how old the trades are that the provider answers with
    Second,         \* how many units of time a second has
    MaxAge,         \* 120: the oldest trade that is accepted, in whole seconds
    MaxAhead,       \* 30: the trade furthest in the future, in whole seconds
    FreshFor,       \* 30 seconds: how long a price counts as fresh
    RequestTime,    \* 3 seconds: the timeout of a request
    PoolTime,       \* 30 seconds: the pool's timeout for a connection
    WorkTime,       \* how long a statement or a transaction takes, locks included:
                    \* the code has no timeout for it
    Period,         \* 5 seconds between two ticks
    Horizon         \* bound: the end of time

Names == {Products[i] : i \in DOMAIN Products}

ASSUME FeedAssumption ==
    /\ Products \in Seq(Names) /\ Products # <<>>
    /\ Ages \subseteq Int /\ Second \in Nat \ {0}
    /\ MaxAge \in Nat /\ MaxAhead \in Nat /\ FreshFor \in Nat
    /\ RequestTime \in Nat /\ PoolTime \in Nat /\ WorkTime \in Nat
    /\ Period \in Nat /\ Horizon \in Nat

VARIABLES
    now,
    price,      \* market_state: the trade it is from, and updated_at
    quoted,     \* the markets with open system quotes
    pc, due,    \* what the generator does, and by when it is done
    stamp,      \* now() of the transaction or the withdrawal under way
    asked,      \* how many markets have been asked for
    answer,     \* the trade in the provider's answer, once there is one
    accepted,   \* live_quotes: the trades that have been accepted
    missed      \* history: how many withdrawals have failed in a row

generator == <<pc, due, stamp, asked, answer, accepted, missed>>
feedVars == <<now, price, quoted, generator>>

(* Launched: the prices found count as stale and the quotes are withdrawn. *)
Launched == -(FreshFor + Second)

FeedInit ==
    /\ now = 0
    /\ price = [m \in Names |-> [trade |-> 0, updated |-> Launched]]
    /\ quoted = {}
    /\ pc = "sleeps" /\ due = 0 /\ stamp = 0
    /\ asked = 0
    /\ answer = <<>>
    /\ accepted = <<>>
    /\ missed = 0

Fresh(m) == price[m].updated > now - FreshFor

-----------------------------------------------------------------------------
Passes ==
    /\ now < Horizon
    /\ now < due
    /\ now' = now + 1
    /\ UNCHANGED <<price, quoted, generator>>

-----------------------------------------------------------------------------
\* The tick.

Goes(to, within) == pc' = to /\ due' = now + within

(* owner.ping() and the list of the markets. *)
Wake ==
    /\ pc = "sleeps" /\ now = due
    /\ Goes("lists", PoolTime + WorkTime)
    /\ UNCHANGED <<now, price, quoted, stamp, asked, answer, accepted, missed>>

List ==
    /\ pc = "lists"
    /\ asked' = 1
    /\ Goes("asks", RequestTime)
    /\ UNCHANGED <<now, price, quoted, stamp, answer, accepted, missed>>

(* Stamped by the provider's clock, which may be ahead. *)
Provides ==
    /\ pc = "asks"
    /\ answer = <<>>
    /\ \E age \in Ages : answer' = <<now - age>>
    /\ UNCHANGED <<now, price, quoted, pc, due, stamp, asked, accepted, missed>>

(* num_seconds() cuts towards zero. *)
WholeSeconds(time) == IF time >= 0 THEN time \div Second ELSE -((-time) \div Second)

Acceptable(trade) == WholeSeconds(now - trade) \in -MaxAhead .. MaxAge

\* The next market is asked for; after the last one the transaction begins.
Proceed ==
    /\ answer' = <<>>
    /\ \/ /\ asked < Len(Products)
          /\ asked' = asked + 1
          /\ Goes("asks", RequestTime)
       \/ /\ asked = Len(Products)
          /\ asked' = asked
          /\ Goes("begins", PoolTime)
    /\ UNCHANGED <<now, price, quoted, stamp, missed>>

\* Faulty: a market that does not answer keeps its price and is written with
\* the others.
AcceptOld ==
    /\ pc = "asks"
    /\ accepted' = Append(accepted, price[Products[asked]].trade)
    /\ Proceed

(* parse succeeds, with positive prices. *)
Accept ==
    /\ pc = "asks"
    /\ answer # <<>>
    /\ Acceptable(answer[1])
    /\ accepted' = accepted \o answer
    /\ Proceed

Begin ==
    /\ pc = "begins"
    /\ stamp' = now
    /\ Goes("writes", WorkTime)
    /\ UNCHANGED <<now, price, quoted, asked, answer, accepted, missed>>

Sleep ==
    /\ asked' = 0
    /\ accepted' = <<>>
    /\ Goes("sleeps", Period)

(* The commit of the tick: updated_at is the time its transaction began. *)
Write ==
    /\ pc = "writes"
    /\ price' = [m \in Names |->
          [trade |-> accepted[CHOOSE i \in DOMAIN Products : Products[i] = m], updated |-> stamp]]
    /\ quoted' = Names
    /\ missed' = 0
    /\ Sleep
    /\ UNCHANGED <<now, stamp, answer>>

(* A refused trade, a malformed or an oversized answer, a timeout, an error *)
(* of the database: the withdrawal is next.                                 *)
Fail ==
    /\ pc \in {"lists", "asks", "begins", "writes"}
    /\ answer' = <<>>
    /\ Goes("failed", PoolTime)
    /\ UNCHANGED <<now, price, quoted, stamp, asked, accepted, missed>>

-----------------------------------------------------------------------------
\* After a failed tick the quotes of stale markets are cancelled.

BeginWithdrawal ==
    /\ pc = "failed"
    /\ stamp' = now
    /\ Goes("withdraws", WorkTime)
    /\ UNCHANGED <<now, price, quoted, asked, answer, accepted, missed>>

\* Faulty: the quotes stay until the feed is back.
WithdrawNothing ==
    /\ pc = "withdraws"
    /\ missed' = 0
    /\ Sleep
    /\ UNCHANGED <<now, price, quoted, stamp, answer>>

Withdraw ==
    /\ pc = "withdraws"
    /\ quoted' = {m \in quoted : price[m].updated >= stamp - FreshFor}
    /\ missed' = 0
    /\ Sleep
    /\ UNCHANGED <<now, price, stamp, answer>>

(* The error of the withdrawal is ignored: `let _`. *)
MissWithdrawal ==
    /\ pc \in {"failed", "withdraws"}
    /\ missed' = missed + 1
    /\ Sleep
    /\ UNCHANGED <<now, price, quoted, stamp, answer>>

FeedNext ==
    \/ Passes
    \/ Wake \/ List \/ Provides \/ Accept \/ Begin \/ Write
    \/ Fail \/ BeginWithdrawal \/ Withdraw \/ MissWithdrawal

FeedSpec == FeedInit /\ [][FeedNext]_feedVars

-----------------------------------------------------------------------------
\* Properties.

(* The oldest age that counts as MaxAge whole seconds. *)
OldestAge == (MaxAge + 1) * Second - 1

(* The longest time from one now() that decides about the quotes to the     *)
(* next: the rest of its statement, the sleep, and a tick that fails in its *)
(* last step.                                                               *)
Round == Period + Len(Products) * RequestTime + 3 * PoolTime + 3 * WorkTime

(* The price of an order is from a recent trade when its transaction begins *)
(* (place_order tests with that time; what it waits for the user's lock is  *)
(* on top of this): up to 121 seconds when it was accepted, the requests    *)
(* for the other markets, the wait for a connection and the 30 seconds that *)
(* a price counts as fresh (prices.rs:47, main.rs:153 and 188,              *)
(* trading/src/lib.rs:63).                                                  *)
PriceIsRecent ==
    \A m \in Names : Fresh(m) =>
        now - price[m].trade < OldestAge + (Len(Products) - 1) * RequestTime + PoolTime + FreshFor

(* "After 30 seconds without a successful refresh [...] stale system        *)
(* liquidity is cancelled" (docs/autonomous-traders.md:30): however the     *)
(* answers come and fail, at the latest one round of the loop later, and    *)
(* one more for each withdrawal in a row that has failed (main.rs:96).      *)
StaleQuotesGo ==
    \A m \in quoted : now - price[m].updated <= FreshFor + (missed + 1) * Round + WorkTime

-----------------------------------------------------------------------------
\* The inductive invariant.

FeedTypeOK ==
    /\ now \in Nat /\ due \in Nat /\ stamp \in Nat /\ missed \in Nat
    /\ price \in [Names -> [trade : Int, updated : Int]]
    /\ quoted \subseteq Names
    /\ pc \in {"sleeps", "lists", "asks", "begins", "writes", "failed", "withdraws"}
    /\ asked \in 0 .. Len(Products)
    /\ answer \in Seq(Int) /\ Len(answer) <= 1
    /\ accepted \in Seq(Int)

\* How old a trade can be when it is written: the market's answer, those of the
\* others, a connection.
OldestTrade == OldestAge + (Len(Products) - 1) * RequestTime + PoolTime

\* Of each accepted trade: its age at the time t, with so many waits since.
NotOlder(t, waits) ==
    \A i \in 1 .. Len(accepted) : t - accepted[i] <= OldestAge + (asked - i) * RequestTime + waits

\* Each market asked for since has cost a request's time.
AcceptedInv ==
    /\ pc \in {"sleeps", "lists"} => asked = 0 /\ accepted = <<>>
    /\ pc = "asks" => asked > 0 /\ Len(accepted) = asked - 1 /\ NotOlder(due, 0)
    /\ pc \in {"begins", "writes"} => asked = Len(Products) /\ Len(accepted) = asked
    /\ pc = "begins" => NotOlder(due, PoolTime)
    /\ pc = "writes" => NotOlder(stamp, PoolTime)

StampInv == pc \in {"writes", "withdraws"} => stamp <= now /\ due = stamp + WorkTime

PriceInv ==
    \A m \in Names :
        /\ price[m].updated <= now
        /\ \/ price[m].updated = Launched
           \/ price[m].updated - price[m].trade <= OldestTrade

\* When the next withdrawal takes its now(), at the latest.
NextStamp ==
    CASE pc = "sleeps"    -> due + Len(Products) * RequestTime + 3 * PoolTime + 2 * WorkTime
      [] pc = "lists"     -> due + Len(Products) * RequestTime + 2 * PoolTime + WorkTime
      [] pc = "asks"      -> due + (Len(Products) - asked) * RequestTime + 2 * PoolTime + WorkTime
      [] pc = "begins"    -> due + PoolTime + WorkTime
      [] pc = "writes"    -> due + PoolTime
      [] pc = "failed"    -> due
      [] pc = "withdraws" -> stamp

VisitInv == \A m \in quoted : NextStamp - price[m].updated <= FreshFor + (missed + 1) * Round

FeedInv == FeedTypeOK /\ now <= due /\ AcceptedInv /\ StampInv /\ PriceInv /\ VisitInv
=============================================================================
