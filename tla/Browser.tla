------------------------------ MODULE Browser ------------------------------
(***************************************************************************)
(* The trading page (crates/frontend/src/browser.rs).  One loop polls the  *)
(* API for ever: it notes what is selected (market, leaderboard page,      *)
(* session token), makes its requests one after another into a copy of     *)
(* what is shown, and shows the copy at the end if the selection is still  *)
(* the one it noted.  Between two of its requests the user may select      *)
(* something else, sign in or out, or cancel all orders, which itself      *)
(* writes what is shown when its answers arrive.                           *)
(*                                                                         *)
(* An answer is what it is about and how much of the exchange's history    *)
(* (the counter world) it tells.  "feed" stands for the data that depend   *)
(* on no selection (instruments, trade feed, simulation) and "book" for    *)
(* those of a market (ticker, book, trades).                               *)
(***************************************************************************)
EXTENDS Naturals, Sequences

CONSTANTS
    Markets,
    MaxOffset,        \* the last page of the leaderboard, in pages of 100
    Tokens,           \* the session tokens the API may issue
    OwnerOf,          \* [Tokens -> users]
    SignedOut,        \* the empty token
    None,             \* nothing is shown: null, or an empty list
    MayExpire,        \* do tokens reach the end of their 24 hours
    Changes,          \* bound: changes at the exchange
    Clicks,           \* bound: things the user does
    Failures          \* bound: requests that fail although they are legal

ASSUME BrowserAssumption ==
    /\ SignedOut \notin Tokens
    /\ MaxOffset \in Nat /\ Changes \in Nat /\ Clicks \in Nat /\ Failures \in Nat
    /\ MayExpire \in BOOLEAN

VARIABLES
    chosen,      \* the signals market, leaderboard_offset and token
    shown,       \* the signal snapshot
    connected,
    busy,
    poll,        \* the loop's locals, or None while it sleeps
    tasks,       \* the futures authenticate, cancel_all and submit have spawned
    world,       \* how many changes the exchange has seen
    expired,     \* the tokens that are 24 hours old
    clicks, failures, changes

page   == <<chosen, shown, connected, busy>>
server == <<world, expired>>
bounds == <<clicks, failures, changes>>
vars   == <<page, poll, tasks, server, bounds>>

Private == {"balances", "orders", "fills"}
Fields  == {"feed", "book", "leaderboard"} \union Private

Selections == [market : Markets, offset : 0 .. MaxOffset, token : Tokens \union {SignedOut}]

Init ==
    /\ chosen \in {s \in Selections : s.offset = 0 /\ s.token = SignedOut}
    /\ shown = [f \in Fields |-> None]
    /\ connected = FALSE
    /\ busy = FALSE
    /\ poll = None
    /\ tasks = {}
    /\ world = 0
    /\ expired = {}
    /\ clicks = 0
    /\ failures = 0
    /\ changes = 0

-----------------------------------------------------------------------------
\* The API.

(* What the answer for a field is about, under a selection. *)
About(f, s) ==
    CASE f = "feed"        -> "all markets"
      [] f = "book"        -> s.market
      [] f = "leaderboard" -> s.offset
      [] f \in Private     -> IF s.token = SignedOut THEN SignedOut ELSE OwnerOf[s.token]

Answer(f, s) == [of |-> About(f, s), at |-> world]

Accepts(token) == token \in Tokens \ expired

(* A request fails: the network, a 429, a 503, the ten seconds' timeout. *)
RequestFails ==
    /\ failures < Failures
    /\ failures' = failures + 1
    /\ UNCHANGED <<clicks, changes>>

Happens ==
    /\ changes < Changes
    /\ changes' = changes + 1
    /\ world' = world + 1
    /\ UNCHANGED <<page, poll, tasks, expired, clicks, failures>>

Expires(token) ==
    /\ MayExpire
    /\ token \notin expired
    /\ expired' = expired \union {token}
    /\ UNCHANGED <<page, poll, tasks, world, bounds>>

-----------------------------------------------------------------------------
\* The polling loop.

(* The requests of one poll, in the code's order. *)
Requests(s) ==
    <<"feed", "book", "leaderboard">>
        \o IF s.token = SignedOut THEN <<>> ELSE <<"balances", "orders", "fills">>

Without(fields, snapshot) == [f \in Fields |-> IF f \in fields THEN None ELSE snapshot[f]]

(* The locals of a poll for a selection; without a token the copy's private *)
(* data are cleared.                                                        *)
Asks(s) ==
    [of     |-> s,
     todo   |-> Requests(s),
     failed |-> FALSE,
     next   |-> IF s.token = SignedOut THEN Without(Private, shown) ELSE shown]

\* Faulty: the loop keeps asking for the page of the leaderboard it started with.
BeginPollOfFirstPage ==
    /\ poll = None
    /\ poll' = Asks([chosen EXCEPT !.offset = 0])
    /\ UNCHANGED <<page, tasks, server, bounds>>

BeginPoll ==
    /\ poll = None
    /\ poll' = Asks(chosen)
    /\ UNCHANGED <<page, tasks, server, bounds>>

Asking == poll # None /\ ~ poll.failed /\ poll.todo # <<>>

Fetch ==
    /\ Asking
    /\ LET f == Head(poll.todo) IN
       /\ f \in Private => Accepts(poll.of.token)
       /\ poll' = [poll EXCEPT !.todo = Tail(@), !.next[f] = Answer(f, poll.of)]
    /\ UNCHANGED <<page, tasks, server, bounds>>

PollFails ==
    /\ Asking
    /\ \/ RequestFails
       \/ /\ Head(poll.todo) \in Private      \* 401
          /\ ~ Accepts(poll.of.token)
          /\ UNCHANGED bounds
    /\ poll' = [poll EXCEPT !.failed = TRUE]
    /\ UNCHANGED <<page, tasks, server>>

StillWanted == poll.of = chosen

EndPoll ==
    /\ poll # None /\ ~ Asking
    /\ connected' = IF StillWanted THEN ~ poll.failed ELSE connected
    /\ shown' = IF StillWanted /\ ~ poll.failed THEN poll.next ELSE shown
    /\ poll' = None
    /\ UNCHANGED <<chosen, busy, tasks, server, bounds>>

-----------------------------------------------------------------------------
\* What the user does.

Click ==
    /\ clicks < Clicks
    /\ clicks' = clicks + 1
    /\ UNCHANGED <<failures, changes>>

ChooseMarket(m) ==
    /\ Click
    /\ m # chosen.market
    /\ chosen' = [chosen EXCEPT !.market = m]
    /\ connected' = FALSE
    /\ shown' = Without({"book"}, shown)
    /\ UNCHANGED <<busy, poll, tasks, server>>

(* "Previous" and "Next"; the latter waits for an answer with has_more. *)
TurnPage(offset) ==
    /\ Click
    /\ \/ offset + 1 = chosen.offset
       \/ offset = chosen.offset + 1 /\ shown["leaderboard"] # None
    /\ chosen' = [chosen EXCEPT !.offset = offset]
    /\ shown' = Without({"leaderboard"}, shown)
    /\ UNCHANGED <<connected, busy, poll, tasks, server>>

SignOut ==
    /\ Click
    /\ chosen.token # SignedOut
    /\ chosen' = [chosen EXCEPT !.token = SignedOut]
    /\ shown' = Without(Private, shown)
    /\ UNCHANGED <<connected, busy, poll, tasks, server>>

(* The early return of authenticate, cancel_all and submit, and their future. *)
Spawn(task) ==
    /\ Click
    /\ ~ busy
    /\ busy' = TRUE
    /\ tasks' = tasks \union {task}
    /\ UNCHANGED <<chosen, shown, connected, poll, server>>

Authenticate(user) ==
    /\ chosen.token = SignedOut
    /\ Spawn([kind |-> "authenticate", user |-> user])

CancelAll ==
    /\ chosen.token # SignedOut
    /\ shown["orders"] # None
    /\ Spawn([kind |-> "cancel", auth |-> chosen.token])

(* The generated order id; without a random source submit returns at once. *)
Submit ==
    /\ chosen.token # SignedOut
    /\ Spawn([kind |-> "submit", auth |-> chosen.token])

-----------------------------------------------------------------------------
\* The answers to what the user did.

Ends(task) ==
    /\ tasks' = tasks \ {task}
    /\ busy' = FALSE

(* A failed request, or one with a token that has expired. *)
TaskFails(task) ==
    /\ \/ RequestFails
       \/ /\ task.kind # "authenticate"
          /\ ~ Accepts(task.auth)
          /\ UNCHANGED bounds
    /\ Ends(task)
    /\ UNCHANGED <<chosen, shown, connected, poll, server>>

(* A token of the user, old ones included: a token names a second. *)
SignedIn(task) ==
    /\ task.kind = "authenticate"
    /\ \E t \in Tokens \ expired :
          /\ OwnerOf[t] = task.user
          /\ chosen' = [chosen EXCEPT !.token = t]
    /\ Ends(task)
    /\ UNCHANGED <<shown, connected, poll, server, bounds>>

Submitted(task) ==
    /\ task.kind = "submit"
    /\ Accepts(task.auth)
    /\ world' = world + 1
    /\ Ends(task)
    /\ UNCHANGED <<chosen, shown, connected, poll, expired, bounds>>

(* The exchange cancels; the page hears of it and asks for the balances. *)
Cancelled(task) ==
    /\ task.kind = "cancel"
    /\ Accepts(task.auth)
    /\ tasks' = (tasks \ {task}) \union {[kind |-> "refresh", auth |-> task.auth]}
    /\ world' = world + 1
    /\ UNCHANGED <<page, poll, expired, bounds>>

Refreshed(task) ==
    /\ task.kind = "refresh"
    /\ Accepts(task.auth)
    /\ tasks' = (tasks \ {task}) \union
          {[kind |-> "arrived", auth |-> task.auth,
            value |-> Answer("balances", [chosen EXCEPT !.token = task.auth])]}
    /\ UNCHANGED <<page, poll, server, bounds>>

\* Faulty: the balances are shown although the user has signed out or in again.
ShowsAnyway(task) ==
    /\ task.kind = "arrived"
    /\ shown' = [Without({"orders"}, shown) EXCEPT !["balances"] = task.value]
    /\ Ends(task)
    /\ UNCHANGED <<chosen, connected, poll, server, bounds>>

Shows(task) ==
    /\ task.kind = "arrived"
    /\ shown' = IF chosen.token # task.auth THEN shown
                ELSE [Without({"orders"}, shown) EXCEPT !["balances"] = task.value]
    /\ Ends(task)
    /\ UNCHANGED <<chosen, connected, poll, server, bounds>>

Answered(task) ==
    \/ SignedIn(task)
    \/ Submitted(task)
    \/ Cancelled(task)
    \/ Refreshed(task)
    \/ Shows(task)
    \/ task.kind # "arrived" /\ TaskFails(task)

-----------------------------------------------------------------------------
Polls == BeginPoll \/ Fetch \/ PollFails \/ EndPoll

Acts ==
    \/ \E m \in Markets : ChooseMarket(m)
    \/ \E offset \in 0 .. MaxOffset : TurnPage(offset)
    \/ SignOut
    \/ \E t \in Tokens : Authenticate(OwnerOf[t])
    \/ CancelAll
    \/ Submit

Next ==
    \/ Polls
    \/ Acts
    \/ \E task \in tasks : Answered(task)
    \/ Happens
    \/ \E t \in Tokens : Expires(t)

Spec == Init /\ [][Next]_vars

(* The browser runs its futures, and every request is answered or fails: *)
(* the API gives up after ten seconds.                                    *)
Fairness == WF_vars(Polls) /\ WF_vars(\E task \in tasks : Answered(task))

FairSpec == Spec /\ Fairness

-----------------------------------------------------------------------------
\* Properties.

IsAbout(snapshot, s) ==
    /\ \A f \in Fields : snapshot[f] # None => snapshot[f].of = About(f, s)
    /\ s.token = SignedOut => \A f \in Private : snapshot[f] = None

(* What the page shows is what is selected: the book, ticker and trades are *)
(* of the market, the ranking is the page, balances, orders and fills are   *)
(* of the user who is signed in, and there are none when nobody is.  So it  *)
(* is however the user's clicks, the answers of a poll and those of a       *)
(* cancel-all have crossed (browser.rs:128, 229, 274), and no second        *)
(* sign-in replaces a session whose data are on the page (browser.rs:145).  *)
ShownIsChosen == IsAbout(shown, chosen)

Settled ==
    /\ connected
    /\ ~ busy
    /\ \A f \in Fields :
          shown[f] = IF f \in Private /\ chosen.token = SignedOut THEN None ELSE Answer(f, chosen)

(* When the user rests, the exchange rests and no more requests fail, the   *)
(* page ends up showing what the exchange holds, all of it and of the       *)
(* selection, and takes clicks again.                                       *)
Settles == <>[]Settled

-----------------------------------------------------------------------------
\* The inductive invariant.

IsSnapshot(s) == s = [f \in Fields |-> s[f]]

\* The copy is about the selection the poll has noted.
PollInv ==
    /\ poll = [of |-> poll.of, todo |-> poll.todo, failed |-> poll.failed, next |-> poll.next]
    /\ poll.of \in Selections /\ poll.todo \in Seq(Fields) /\ IsSnapshot(poll.next)
    /\ IsAbout(poll.next, poll.of)
    /\ poll.of.token = SignedOut => poll.todo \in Seq(Fields \ Private)

\* A sign-in finds nobody signed in, and a balance is of the one who cancelled.
TaskInv(task) ==
    /\ task.kind = "authenticate" => chosen.token = SignedOut
    /\ task.kind # "authenticate" => task.auth \in Tokens
    /\ task.kind = "arrived" => task.value.of = OwnerOf[task.auth]

PageInv ==
    /\ chosen \in Selections
    /\ IsSnapshot(shown) /\ ShownIsChosen
    /\ poll # None => PollInv
    /\ tasks # {} => busy /\ \A s, t \in tasks : s = t
    /\ \A task \in tasks : TaskInv(task)
=============================================================================
