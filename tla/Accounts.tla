------------------------------ MODULE Accounts -------------------------------
(***************************************************************************)
(* Registration and login of one API instance (api/main.rs), with the few  *)
(* permits under which it hashes passwords on threads of their own.        *)
(***************************************************************************)
EXTENDS Integers, FiniteSets

CONSTANTS
    Requests,       \* requests in progress at a time
    Emails, Passwords,
    Permits,        \* of the semaphore: 4
    Nobody, None

VARIABLES
    users,          \* committed rows: the hash stored for each email
    inserting,      \* who has an uncommitted row of an email
    call,           \* what each request asks for
    pc,             \* what it does next
    stored,         \* the hash that a login has read
    answer,
    free,           \* permits
    threads,        \* requests that wait for a thread of theirs
    orphans         \* threads whose request is gone

vars == <<users, inserting, call, pc, stored, answer, free, threads, orphans>>

Calls == [kind : {"register", "login"}, email : Emails, password : Passwords]
Hashes == [scheme : {"sha256", "argon2id"}, of : Passwords, salt : Requests \cup {Nobody}]
    \cup {[scheme |-> "disabled"]}
Steps == {"hash", "hashing", "insert", "commit", "read", "verify", "verifying", "rehash", "rehashing", "update"}
Answers == {"none", "ok", "unauthorized", "conflict", "too many", "error", "timeout"}

Legacy(p) == [scheme |-> "sha256", of |-> p, salt |-> Nobody]
Salted(p, r) == [scheme |-> "argon2id", of |-> p, salt |-> r]
Matches(hash, p) == hash # None /\ hash.scheme # "disabled" /\ hash.of = p

ASSUME AccountsAssumption ==
    /\ IsFiniteSet(Requests) /\ Nobody \notin Requests /\ None \notin Hashes
    /\ Permits \in Nat

\* Bots have a disabled password, early users one without salt.
Init ==
    /\ users \in [Emails -> {None, [scheme |-> "disabled"]} \cup {Legacy(p) : p \in Passwords}]
    /\ inserting = [e \in Emails |-> Nobody]
    /\ call \in [Requests -> Calls]
    /\ pc = [r \in Requests |-> "idle"]
    /\ stored = [r \in Requests |-> None]
    /\ answer = [r \in Requests |-> "none"]
    /\ free = Permits
    /\ threads = {}
    /\ orphans = 0

Email(r) == call[r].email
Goes(r, step) == pc' = [pc EXCEPT ![r] = step] /\ UNCHANGED answer
AnswersWith(r, a) ==
    /\ pc' = [pc EXCEPT ![r] = "idle"]
    /\ answer' = [answer EXCEPT ![r] = a]

Hashing == <<free, threads, orphans>>
Tables == <<users, inserting>>

Call(r) ==
    /\ pc[r] = "idle"
    /\ call' \in {[call EXCEPT ![r] = c] : c \in Calls}
    /\ pc' = [pc EXCEPT ![r] = IF call'[r].kind = "register" THEN "hash" ELSE "read"]
    /\ answer' = [answer EXCEPT ![r] = "none"]
    /\ stored' = [stored EXCEPT ![r] = None]
    /\ UNCHANGED <<Tables, Hashing>>

-----------------------------------------------------------------------------
(* Hashing                                                                 *)

Thread == [hash |-> "hashing", verify |-> "verifying", rehash |-> "rehashing"]

\* try_acquire_owned and spawn_blocking: 429 when all permits are taken.
StartThread(r) ==
    /\ pc[r] \in DOMAIN Thread
    /\ \/ /\ free > 0
          /\ free' = free - 1
          /\ threads' = threads \cup {r}
          /\ Goes(r, Thread[pc[r]])
       \/ /\ free = 0
          /\ AnswersWith(r, "too many")
          /\ UNCHANGED <<free, threads>>
    /\ UNCHANGED <<Tables, call, stored, orphans>>

\* The thread drops the permit, and the request goes on.
Returns(r) ==
    /\ r \in threads
    /\ threads' = threads \ {r}
    /\ free' = free + 1
    /\ UNCHANGED <<Tables, call, stored, orphans>>

Hashed(r) ==
    /\ pc[r] \in {"hashing", "rehashing"}
    /\ Returns(r)
    /\ Goes(r, IF pc[r] = "hashing" THEN "insert" ELSE "update")

Verified(r) ==
    /\ pc[r] = "verifying"
    /\ Returns(r)
    /\ IF ~Matches(stored[r], call[r].password) THEN AnswersWith(r, "unauthorized")
       ELSE IF stored[r].scheme = "sha256" THEN Goes(r, "rehash") ELSE AnswersWith(r, "ok")

\* Faulty: the permit belonged to the request.
OrphanEndsAlone ==
    /\ orphans > 0
    /\ orphans' = orphans - 1
    /\ UNCHANGED <<Tables, call, pc, stored, answer, threads, free>>

OrphanEnds ==
    /\ orphans > 0
    /\ orphans' = orphans - 1
    /\ free' = free + 1
    /\ UNCHANGED <<Tables, call, pc, stored, answer, threads>>

-----------------------------------------------------------------------------
(* Registration                                                            *)

\* Faulty: ON CONFLICT DO UPDATE, or a lookup in place of the unique index.
InsertAnyway(r) ==
    /\ pc[r] = "insert" /\ inserting[Email(r)] = Nobody
    /\ inserting' = [inserting EXCEPT ![Email(r)] = r] /\ Goes(r, "commit")
    /\ UNCHANGED <<users, call, stored, Hashing>>
\* The unique index waits for an uncommitted row of the same email.
Insert(r) ==
    /\ pc[r] = "insert" /\ inserting[Email(r)] = Nobody
    /\ IF users[Email(r)] = None
         THEN inserting' = [inserting EXCEPT ![Email(r)] = r] /\ Goes(r, "commit")
         ELSE AnswersWith(r, "conflict") /\ UNCHANGED inserting
    /\ UNCHANGED <<users, call, stored, Hashing>>

\* Any error of the INSERT is reported as a conflict, also one of the database.
InsertFails(r) ==
    /\ pc[r] = "insert"
    /\ AnswersWith(r, "conflict")
    /\ UNCHANGED <<Tables, call, stored, Hashing>>

Withdrawn(r) == [e \in Emails |-> IF inserting[e] = r THEN Nobody ELSE inserting[e]]

\* The row and its four accounts; the answer may be lost.
Commit(r) ==
    /\ pc[r] = "commit"
    /\ users' = [users EXCEPT ![Email(r)] = Salted(call[r].password, r)]
    /\ inserting' = Withdrawn(r)
    /\ \E a \in {"ok", "error"} : AnswersWith(r, a)
    /\ UNCHANGED <<call, stored, Hashing>>

-----------------------------------------------------------------------------
(* Login                                                                   *)

Read(r) ==
    /\ pc[r] = "read"
    /\ stored' = [stored EXCEPT ![r] = users[Email(r)]]
    /\ Goes(r, "verify")
    /\ UNCHANGED <<Tables, call, Hashing>>

\* Faulty: does not compare.
UpdateAnyway(r) ==
    /\ pc[r] = "update"
    /\ users' = [users EXCEPT ![Email(r)] = Salted(call[r].password, r)]
    /\ \E a \in {"ok", "error"} : AnswersWith(r, a)
    /\ UNCHANGED <<inserting, call, stored, Hashing>>

\* UPDATE ... WHERE password_hash = the hash that was read.
Update(r) ==
    /\ pc[r] = "update"
    /\ users' = [users EXCEPT ![Email(r)] =
                    IF @ = stored[r] THEN Salted(call[r].password, r) ELSE @]
    /\ \E a \in {"ok", "error"} : AnswersWith(r, a)
    /\ UNCHANGED <<inserting, call, stored, Hashing>>

-----------------------------------------------------------------------------
(* Errors and timeouts                                                     *)

\* Faulty: the request drops the permit of a thread that goes on.
PermitDropped(r) ==
    /\ threads' = threads \ {r}
    /\ orphans' = orphans + (IF r \in threads THEN 1 ELSE 0)
    /\ free' = free + (IF r \in threads THEN 1 ELSE 0)

\* A blocking thread cannot be cancelled, and owns the permit.
Abandons(r) ==
    /\ threads' = threads \ {r}
    /\ orphans' = orphans + (IF r \in threads THEN 1 ELSE 0)
    /\ UNCHANGED free

\* After 10 seconds, or when the client is gone: a transaction is rolled back.
Timeout(r) ==
    /\ pc[r] # "idle"
    /\ AnswersWith(r, "timeout")
    /\ Abandons(r)
    /\ inserting' = Withdrawn(r)
    /\ UNCHANGED <<users, call, stored>>

\* An error of the database, other than that of the INSERT.
Fails(r) ==
    /\ pc[r] \in {"insert", "commit", "read", "update"}
    /\ AnswersWith(r, "error")
    /\ inserting' = Withdrawn(r)
    /\ UNCHANGED <<users, call, stored, Hashing>>

Handles(r) ==
    \/ StartThread(r) \/ Hashed(r) \/ Verified(r)
    \/ Insert(r) \/ InsertFails(r) \/ Commit(r) \/ Read(r) \/ Update(r)

Next == OrphanEnds \/ \E r \in Requests : Call(r) \/ Handles(r) \/ Timeout(r) \/ Fails(r)

Spec == Init /\ [][Next]_vars

\* Threads end by themselves.
Fairness == WF_vars(OrphanEnds) /\ \A r \in Requests : WF_vars(Hashed(r) \/ Verified(r))

FairSpec == Spec /\ Fairness

-----------------------------------------------------------------------------
(* Properties                                                              *)

TypeOK ==
    /\ users \in [Emails -> Hashes \cup {None}]
    /\ inserting \in [Emails -> Requests \cup {Nobody}]
    /\ call \in [Requests -> Calls]
    /\ pc \in [Requests -> Steps \cup {"idle"}]
    /\ stored \in [Requests -> Hashes \cup {None}]
    /\ answer \in [Requests -> Answers]
    /\ free \in 0 .. Permits /\ orphans \in 0 .. Permits
    /\ threads \subseteq Requests

\* Whose row is inserted but not committed.
Inserts(r) == pc[r] = "commit" => inserting[Email(r)] = r
Inserting(e) ==
    inserting[e] # Nobody =>
        users[e] = None /\ pc[inserting[e]] = "commit" /\ Email(inserting[e]) = e

\* What a login has read is still there, or was upgraded by another login.
Upgrading == {"rehash", "rehashing", "update"}
Reads(r) ==
    /\ pc[r] \in {"verify", "verifying"} \cup Upgrading /\ stored[r] # None =>
          \/ users[Email(r)] = stored[r]
          \/ /\ stored[r].scheme = "sha256" /\ users[Email(r)] # None
             /\ users[Email(r)].scheme = "argon2id" /\ users[Email(r)].of = stored[r].of
    /\ pc[r] \in Upgrading => Matches(stored[r], call[r].password) /\ stored[r].scheme = "sha256"

Working == {"hashing", "verifying", "rehashing"}
Registering == {"hash", "hashing", "insert", "commit"}

IInv ==
    /\ TypeOK
    /\ \A r \in Requests :
          /\ Inserts(r) /\ Reads(r)
          /\ r \in threads <=> pc[r] \in Working
          /\ pc[r] \in Registering => call[r].kind = "register"
          /\ pc[r] \in Steps \ Registering => call[r].kind = "login"
    /\ \A e \in Emails : Inserting(e)
    /\ free + Cardinality(threads) + orphans = Permits

\* Never more than Permits threads hash, also when their requests time out
\* (security.rs:75).
HashingIsBounded == Cardinality(threads) + orphans =< Permits

\* Permits come back, whether or not somebody waits for the thread.
PermitsReturn == free = 0 ~> free > 0

\* A password that is set stays, and its hash changes once at most, from one
\* without salt: of racing logins one upgrades it (main.rs:246).
PasswordsStay ==
    [][\A e \in Emails : users[e] # None /\ users'[e] # users[e] =>
          /\ users[e].scheme = "sha256"
          /\ users'[e].scheme = "argon2id" /\ users'[e].of = users[e].of]_vars

\* Who gets a token for a new account has the account, with its password; who
\* logs in knows the password of one.
TokensAreEarned ==
    [][\A r \in Requests : answer'[r] = "ok" /\ answer[r] # "ok" =>
          /\ call[r].kind = "register" => users[Email(r)] = None
          /\ Matches(users'[Email(r)], call[r].password)]_vars

==============================================================================
