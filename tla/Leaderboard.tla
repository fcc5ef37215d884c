---------------------------- MODULE Leaderboard ----------------------------
(***************************************************************************)
(* The ranking of the accounts by profit and the user who pages through it *)
(* (leaderboard in crates/api/src/main.rs, the section's two buttons in    *)
(* crates/frontend/src/browser.rs).  Every request is one statement, but   *)
(* the ledger moves between two requests.                                  *)
(***************************************************************************)
EXTENDS Integers, FiniteSets, Functions

CONSTANTS
    Accounts,       \* a set of numbers: the ranking's last resort is the id
    System,         \* the market maker's account
    PageSize,       \* 100
    Profits,        \* what the ledger may make of an account: [percent, usd]; a
                    \* null is a number less than all others, for it comes last
    MaxMoves        \* bound: changes of the ledger

ASSUME BoardAssumption ==
    /\ Accounts \subseteq Nat /\ IsFiniteSet(Accounts) /\ System \in Accounts
    /\ PageSize \in Nat \ {0} /\ MaxMoves \in Nat
    /\ Profits \subseteq [percent : Int, usd : Int]

VARIABLES
    profit,     \* the profit of each account there is
    offset,     \* the page, as the page's signal leaderboard_offset
    ranking,    \* the answer on the page, or Nothing
    seen,       \* the rows of the pages since the first, all of one ledger
    moves

boardVars == <<profit, offset, ranking, seen, moves>>

Nothing == [accounts |-> {}, total |-> 0, has_more |-> FALSE]

BoardInit ==
    /\ \E members \in SUBSET Accounts : System \in members /\ profit \in [members -> Profits]
    /\ offset = 0
    /\ ranking = Nothing
    /\ seen = {}
    /\ moves = 0

-----------------------------------------------------------------------------
\* Faulty: the profit alone decides, and equals come in any order: here, in
\* one that depends on the page.
BeforeByProfit(a, b) ==
    \/ profit[a].percent > profit[b].percent
    \/ profit[a].percent = profit[b].percent /\ IF offset = 0 THEN a < b ELSE a > b

\* ORDER BY profit_percent DESC NULLS LAST, profit_usd DESC NULLS LAST, id
Before(a, b) ==
    LET p == profit[a]
        q == profit[b]
    IN  \/ p.percent > q.percent
        \/ p.percent = q.percent /\ p.usd > q.usd
        \/ p.percent = q.percent /\ p.usd = q.usd /\ a < b

\* ROW_NUMBER() of everybody but the system.
Competitors == DOMAIN profit \ {System}
Rank(a) == 1 + Cardinality({b \in Competitors : Before(b, a)})
Row(a) == [rank |-> Rank(a), id |-> a, is |-> profit[a]]

\* LIMIT 101 OFFSET $1: one row more than is shown tells whether there is more.
Page(from) == {a \in Competitors : Rank(a) \in from + 1 .. from + PageSize + 1}
Visible(from) == {a \in Page(from) : Rank(a) <= from + PageSize}

LeaderboardPage(from) ==
    [accounts |-> {Row(a) : a \in Visible(from)},
     total    |-> Cardinality(Competitors),
     has_more |-> Cardinality(Page(from)) > PageSize]

-----------------------------------------------------------------------------
(* The poll of the page: what it shows is of the page that is selected. *)
PollRanking ==
    /\ ranking' = LeaderboardPage(offset)
    /\ seen' = seen \union ranking'.accounts
    /\ UNCHANGED <<profit, offset, moves>>

Turn(to) ==
    /\ offset' = to
    /\ ranking' = Nothing
    /\ UNCHANGED <<profit, seen, moves>>

Previous == offset > 0 /\ Turn(IF offset < PageSize THEN 0 ELSE offset - PageSize)

\* "Next" is disabled unless the answer on the page has more.
Forward == ranking.has_more /\ Turn(offset + PageSize)

(* A trade, a price, a registration or a reset of the bots moves the ranking. *)
Moves ==
    /\ moves < MaxMoves
    /\ moves' = moves + 1
    /\ \E a \in Accounts \ {System} :
          \/ \E p \in Profits :
                profit' = [b \in DOMAIN profit \union {a} |-> IF b = a THEN p ELSE profit[b]]
          \/ profit' = Restrict(profit, DOMAIN profit \ {a})
    /\ seen' = {}
    /\ UNCHANGED <<offset, ranking>>

BoardNext == PollRanking \/ Previous \/ Forward \/ Moves

BoardSpec == BoardInit /\ [][BoardNext]_boardVars

-----------------------------------------------------------------------------
\* Properties.

(* The pages of one ledger rank everybody but the system consistently: no   *)
(* rank and no account twice, and nobody behind a better rank with less     *)
(* profit (main.rs:397; nulls last).                                        *)
RankedOnce ==
    \A r, s \in seen :
        /\ r.rank = s.rank <=> r.id = s.id
        /\ r.rank < s.rank => \/ r.is.percent > s.is.percent
                              \/ r.is.percent = s.is.percent /\ r.is.usd >= s.is.usd
        /\ r.id # System

(* The last page is the last: when the first page's user has gone on until  *)
(* there is no more, and the ledger has not moved, everyone has been shown  *)
(* (main.rs:400, 412; browser.rs:322).                                      *)
LastIsLast ==
    (\E r \in seen : r.rank = 1) /\ ranking # Nothing /\ ~ ranking.has_more
        => {r.id : r \in seen} = Competitors

(* Whoever reads a ranking from its first page to its last, while nothing   *)
(* moves, sees everyone, and nobody twice.                                  *)
EveryoneOnce == RankedOnce /\ LastIsLast

-----------------------------------------------------------------------------
\* The inductive invariant.

BoardTypeOK ==
    /\ DOMAIN profit \subseteq Accounts /\ profit \in [DOMAIN profit -> Profits]
    /\ offset \in Nat /\ moves \in Nat

\* What is on the page is of the ledger as it is, unless that has just moved.
Current ==
    \/ ranking = Nothing
    \/ ranking = LeaderboardPage(offset) /\ ranking.accounts \subseteq seen

\* Who has seen the first page since has seen all up to the page selected.
BoardInv ==
    /\ BoardTypeOK
    /\ seen \subseteq {Row(a) : a \in Competitors}
    /\ seen = {} \/ Current
    /\ (\E r \in seen : r.rank = 1) =>
          \A a \in Competitors : Rank(a) <= offset => Row(a) \in seen
=============================================================================
