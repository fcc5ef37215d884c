------------------------------- MODULE MCPage --------------------------------
(***************************************************************************)
(* Instances of Browser, Sizing, Leaderboard and PriceFeed for TLC.        *)
(* `part` says which of them moves; the others stay in an initial state.   *)
(*   browser   two users, whose tokens expire                              *)
(*   resting   the same page when everything else comes to rest            *)
(*   sizing    amounts of up to two digits, with a lot of two units        *)
(*   board     four accounts and the system's, pages of two                *)
(*   feed      two markets; a request is shorter than the period, that      *)
(*             than the freshness, and all times are a few units            *)
(***************************************************************************)
EXTENDS Browser, Sizing, Leaderboard, PriceFeed, TLC

CONSTANTS ann, bob, t1, t2

VARIABLE part

\* The constants of the four modules.
MCOwnerOf == t1 :> ann @@ t2 :> bob
MCBalances == {0, 1, 4, 7, 9, 13, 20}
MCReferences == {1, 3, 8}
MCAccounts == 1 .. 5
\* A null profit is 0, the others are greater.
MCProfits == {[percent |-> 0, usd |-> 0], [percent |-> 0, usd |-> 1], [percent |-> 1, usd |-> 1]}
MCProducts == <<"BTC-USD", "ETH-USD">>
\* As old as a trade may be, and one unit older.
MCAges == {3, 4}

Resting == INSTANCE Browser WITH MayExpire <- FALSE, Changes <- 1, Clicks <- 2, Failures <- 1

Parts == {"browser", "resting", "sizing", "board", "feed"}

PartInit ==
    /\ part \in Parts
    /\ Init /\ SizingInit /\ BoardInit /\ FeedInit
    /\ part \notin {"browser", "resting"} => chosen.market = CHOOSE m \in Markets : TRUE
    /\ part # "sizing" => available = 0 /\ reference = 1
    /\ part # "board" => DOMAIN profit = {3} /\ profit[3].usd = 0

PartNext ==
    \/ part = "browser" /\ Next /\ UNCHANGED <<part, sizingVars, boardVars, feedVars>>
    \/ part = "resting" /\ Resting!Next /\ UNCHANGED <<part, sizingVars, boardVars, feedVars>>
    \/ part = "sizing" /\ SizingNext /\ UNCHANGED <<part, vars, boardVars, feedVars>>
    \/ part = "board" /\ BoardNext /\ UNCHANGED <<part, vars, sizingVars, feedVars>>
    \/ part = "feed" /\ FeedNext /\ UNCHANGED <<part, vars, sizingVars, boardVars>>
    \/ part = "feed" /\ now = Horizon /\ UNCHANGED <<part, vars, sizingVars, boardVars, feedVars>>

PartSpec ==
    /\ PartInit /\ [][PartNext]_<<part, vars, sizingVars, boardVars, feedVars>>
    /\ part = "resting" => Resting!Fairness

\* Browser's liveness property, of the part whose specification is fair.
PageSettles == part = "resting" => Settles
==============================================================================
