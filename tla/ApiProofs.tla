----------------------------- MODULE ApiProofs ------------------------------
(***************************************************************************)
(* Proofs about the HTTP API: about Accounts, for any number of requests,  *)
(* emails, passwords and permits; and about Admission, for any clients,    *)
(* limits, window and capacity, and any run of requests.                   *)
(***************************************************************************)
EXTENDS Accounts, Admission, FiniteSetTheorems, TLAPS

-----------------------------------------------------------------------------
(* Registration and login *)

Balanced == free + Cardinality(threads) + orphans = Permits

\* The parts of IInv about one request.
Tracked(r) ==
    /\ Inserts(r) /\ Reads(r)
    /\ r \in threads <=> pc[r] \in Working
    /\ pc[r] \in Registering => call[r].kind = "register"
    /\ pc[r] \in Steps \ Registering => call[r].kind = "login"

LEMMA Parts ==
    IInv <=> TypeOK /\ (\A r \in Requests : Tracked(r)) /\ (\A e \in Emails : Inserting(e)) /\ Balanced
  BY DEF IInv, Tracked, Balanced

LEMMA HashFacts ==
    /\ \A p \in Passwords, r \in Requests :
          Salted(p, r) \in Hashes /\ Salted(p, r).of = p /\ Salted(p, r).scheme = "argon2id"
    /\ \A p \in Passwords :
          Legacy(p) \in Hashes /\ Legacy(p).of = p /\ Legacy(p).scheme = "sha256"
    /\ [scheme |-> "disabled"] \in Hashes /\ [scheme |-> "disabled"].scheme = "disabled"
    /\ None \notin Hashes
  BY AccountsAssumption DEF Hashes, Salted, Legacy

LEMMA ThreadFacts ==
    /\ DOMAIN Thread = {"hash", "verify", "rehash"}
    /\ Thread["hash"] = "hashing" /\ Thread["verify"] = "verifying" /\ Thread["rehash"] = "rehashing"
  BY DEF Thread

LEMMA ThreadsAreFinite ==
    ASSUME TypeOK
    PROVE  IsFiniteSet(threads) /\ Cardinality(threads) \in Nat
  BY AccountsAssumption, FS_Subset, FS_CardinalityType DEF TypeOK

LEMMA Initially == Init => IInv
<1>. SUFFICES ASSUME Init PROVE IInv
  OBVIOUS
<1>. USE AccountsAssumption DEF Init
<1>1. TypeOK
  <2>1. users \in [Emails -> Hashes \cup {None}]
    BY HashFacts
  <2>. QED  BY <2>1 DEF TypeOK, Steps, Answers
<1>2. ASSUME NEW r \in Requests PROVE Tracked(r)
  BY DEF Tracked, Inserts, Reads, Upgrading, Working, Registering, Steps
<1>3. ASSUME NEW e \in Emails PROVE Inserting(e)
  BY DEF Inserting
<1>4. Cardinality(threads) = 0
  BY FS_EmptySet
<1>5. Balanced
  BY <1>4 DEF Balanced
<1>. QED  BY <1>1, <1>2, <1>3, <1>5, Parts

-----------------------------------------------------------------------------
(* Permits                                                                 *)

LEMMA OneMore ==
    ASSUME TypeOK, NEW r \in Requests, r \notin threads, threads' = threads \cup {r}
    PROVE  Cardinality(threads') = Cardinality(threads) + 1
  BY ThreadsAreFinite, FS_AddElement

LEMMA OneLess ==
    ASSUME TypeOK, NEW r \in threads, threads' = threads \ {r}
    PROVE  Cardinality(threads') = Cardinality(threads) - 1
  BY ThreadsAreFinite, FS_RemoveElement

LEMMA PermitsStep ==
    ASSUME IInv, [Next]_vars
    PROVE  Balanced' /\ threads' \subseteq Requests /\ free' \in 0 .. Permits /\ orphans' \in 0 .. Permits
<1>0. /\ TypeOK /\ Balanced /\ free \in Nat /\ orphans \in Nat /\ Permits \in Nat
      /\ Cardinality(threads) \in Nat /\ threads \subseteq Requests
  BY Parts, ThreadsAreFinite, AccountsAssumption DEF TypeOK
<1>1. SUFFICES ASSUME threads' \subseteq Requests, free' \in Nat, orphans' \in Nat, Balanced'
               PROVE  free' \in 0 .. Permits /\ orphans' \in 0 .. Permits
  <2>1. CASE UNCHANGED Hashing
    BY <1>0, <2>1 DEF Hashing, Balanced
  <2>2. ASSUME NEW r \in Requests, StartThread(r), ~ UNCHANGED Hashing
        PROVE  threads' \subseteq Requests /\ free' \in Nat /\ orphans' \in Nat /\ Balanced'
    <3>1. free > 0 /\ free' = free - 1 /\ threads' = threads \cup {r} /\ orphans' = orphans
              /\ pc[r] \in {"hash", "verify", "rehash"}
      BY <2>2 DEF StartThread, Hashing, Thread
    <3>2. r \notin threads
      BY <3>1, Parts DEF Tracked, Working
    <3>3. Cardinality(threads') = Cardinality(threads) + 1
      BY <1>0, <3>1, <3>2, OneMore
    <3>. QED  BY <1>0, <3>1, <3>3 DEF Balanced
  <2>3. ASSUME NEW r \in Requests, Returns(r)
        PROVE  threads' \subseteq Requests /\ free' \in Nat /\ orphans' \in Nat /\ Balanced'
    <3>1. r \in threads /\ threads' = threads \ {r} /\ free' = free + 1 /\ orphans' = orphans
      BY <2>3 DEF Returns
    <3>2. Cardinality(threads') = Cardinality(threads) - 1
      BY <1>0, <3>1, OneLess
    <3>. QED  BY <1>0, <3>1, <3>2 DEF Balanced
  <2>4. ASSUME NEW r \in Requests, Timeout(r)
        PROVE  threads' \subseteq Requests /\ free' \in Nat /\ orphans' \in Nat /\ Balanced'
    <3>1. CASE r \in threads
      <4>1. threads' = threads \ {r} /\ free' = free /\ orphans' = orphans + 1
        BY <2>4, <3>1 DEF Timeout, Abandons
      <4>2. Cardinality(threads') = Cardinality(threads) - 1
        BY <1>0, <3>1, <4>1, OneLess
      <4>. QED  BY <1>0, <4>1, <4>2 DEF Balanced
    <3>2. CASE r \notin threads
      <4>1. threads' = threads /\ free' = free /\ orphans' = orphans
        BY <1>0, <2>4, <3>2 DEF Timeout, Abandons
      <4>. QED  BY <1>0, <4>1 DEF Balanced
    <3>. QED  BY <3>1, <3>2
  <2>5. CASE OrphanEnds
    <3>1. threads' = threads /\ free' = free + 1 /\ orphans' = orphans - 1 /\ orphans > 0
      BY <2>5 DEF OrphanEnds
    <3>. QED  BY <1>0, <3>1 DEF Balanced
  <2>6. ASSUME NEW r \in Requests, Call(r) \/ Insert(r) \/ InsertFails(r) \/ Commit(r) \/ Read(r) \/ Update(r) \/ Fails(r)
        PROVE  UNCHANGED Hashing
    BY <2>6 DEF Call, Insert, InsertFails, Commit, Read, Update, Fails
  <2>7. ASSUME NEW r \in Requests, Hashed(r) \/ Verified(r) PROVE Returns(r)
    BY <2>7 DEF Hashed, Verified
  <2>8. CASE UNCHANGED vars
    BY <2>1, <2>8 DEF vars, Hashing
  <2>. QED  BY <2>1, <2>2, <2>3, <2>4, <2>5, <2>6, <2>7, <2>8 DEF Next, Handles
<1>2. Cardinality(threads') \in Nat
  <2>1. IsFiniteSet(threads')
    BY <1>1, AccountsAssumption, FS_Subset
  <2>. QED  BY <2>1, FS_CardinalityType
<1>. QED  BY <1>0, <1>1, <1>2 DEF Balanced

-----------------------------------------------------------------------------
(* Types                                                                   *)

LEMMA Typed == ASSUME IInv, [Next]_vars PROVE TypeOK'
<1>0. TypeOK /\ threads' \subseteq Requests /\ free' \in 0 .. Permits /\ orphans' \in 0 .. Permits
  BY Parts, PermitsStep
<1>. USE AccountsAssumption
<1>1. ASSUME NEW r \in Requests, Call(r) PROVE TypeOK'
  <2>1. call' \in [Requests -> Calls] /\ stored' \in [Requests -> Hashes \cup {None}]
    BY <1>0, <1>1 DEF Call, TypeOK
  <2>2. pc' \in [Requests -> Steps \cup {"idle"}] /\ answer' \in [Requests -> Answers]
    <3>1. \E step \in Steps : pc' = [pc EXCEPT ![r] = step]
      BY <1>1 DEF Call, Steps
    <3>2. answer' = [answer EXCEPT ![r] = "none"]
      BY <1>1 DEF Call
    <3>3. pc' \in [Requests -> Steps \cup {"idle"}]
      BY <1>0, <3>1 DEF TypeOK
    <3>4. answer' \in [Requests -> Answers]
      BY <1>0, <3>2 DEF TypeOK, Answers
    <3>. QED  BY <3>3, <3>4
  <2>. QED  BY <1>0, <1>1, <2>1, <2>2 DEF Call, Tables, TypeOK
<1>2. ASSUME NEW r \in Requests, NEW step \in Steps, Goes(r, step)
      PROVE  pc' \in [Requests -> Steps \cup {"idle"}] /\ answer' \in [Requests -> Answers]
  BY <1>0, <1>2 DEF Goes, TypeOK
<1>3. ASSUME NEW r \in Requests, NEW a \in Answers, AnswersWith(r, a)
      PROVE  pc' \in [Requests -> Steps \cup {"idle"}] /\ answer' \in [Requests -> Answers]
  BY <1>0, <1>3 DEF AnswersWith, TypeOK
<1>4. ASSUME NEW r \in Requests, StartThread(r) \/ Hashed(r) \/ Verified(r) PROVE TypeOK'
  <2>1. UNCHANGED <<users, inserting, call, stored>>
    BY <1>4 DEF StartThread, Hashed, Verified, Returns, Tables
  <2>2. (\E step \in Steps : Goes(r, step)) \/ (\E a \in Answers : AnswersWith(r, a))
    <3>1. CASE StartThread(r)
      <4>1. Thread[pc[r]] \in Steps /\ "too many" \in Answers
        BY <3>1, ThreadFacts DEF StartThread, Steps, Answers
      <4>. QED  BY <3>1, <4>1 DEF StartThread
    <3>2. CASE Hashed(r)
      BY <3>2 DEF Hashed, Steps
    <3>3. CASE Verified(r)
      <4>1. "rehash" \in Steps /\ "ok" \in Answers /\ "unauthorized" \in Answers
        BY DEF Steps, Answers
      <4>. QED  BY <3>3, <4>1 DEF Verified
    <3>. QED  BY <1>4, <3>1, <3>2, <3>3
  <2>. QED  BY <1>0, <1>2, <1>3, <2>1, <2>2 DEF TypeOK
<1>5. ASSUME NEW r \in Requests, Insert(r) \/ InsertFails(r) PROVE TypeOK'
  <2>1. UNCHANGED <<users, call, stored>> /\ inserting' \in [Emails -> Requests \cup {Nobody}]
    BY <1>0, <1>5 DEF Insert, InsertFails, Tables, TypeOK
  <2>2. (\E step \in Steps : Goes(r, step)) \/ (\E a \in Answers : AnswersWith(r, a))
    BY <1>5 DEF Insert, InsertFails, Steps, Answers
  <2>. QED  BY <1>0, <1>2, <1>3, <2>1, <2>2 DEF TypeOK
<1>6. ASSUME NEW r \in Requests, Commit(r) \/ Update(r) PROVE TypeOK'
  <2>1. Salted(call[r].password, r) \in Hashes
    BY <1>0, HashFacts DEF TypeOK, Calls
  <2>2. users' \in [Emails -> Hashes \cup {None}]
    BY <1>0, <1>6, <2>1 DEF Commit, Update, TypeOK
  <2>3. inserting' \in [Emails -> Requests \cup {Nobody}] /\ UNCHANGED <<call, stored>>
    BY <1>0, <1>6 DEF Commit, Update, Withdrawn, TypeOK
  <2>4. \E a \in Answers : AnswersWith(r, a)
    BY <1>6 DEF Commit, Update, Answers
  <2>. QED  BY <1>0, <1>3, <2>2, <2>3, <2>4 DEF TypeOK
<1>7. ASSUME NEW r \in Requests, Read(r) PROVE TypeOK'
  <2>1. users[Email(r)] \in Hashes \cup {None}
    BY <1>0 DEF TypeOK, Calls, Email
  <2>2. stored' \in [Requests -> Hashes \cup {None}] /\ UNCHANGED <<users, inserting, call>>
    BY <1>0, <1>7, <2>1 DEF Read, Tables, TypeOK
  <2>3. \E step \in Steps : Goes(r, step)
    BY <1>7 DEF Read, Steps
  <2>. QED  BY <1>0, <1>2, <2>2, <2>3 DEF TypeOK
<1>8. ASSUME NEW r \in Requests, Timeout(r) \/ Fails(r) PROVE TypeOK'
  <2>1. inserting' \in [Emails -> Requests \cup {Nobody}] /\ UNCHANGED <<users, call, stored>>
    BY <1>0, <1>8 DEF Timeout, Fails, Withdrawn, TypeOK
  <2>2. \E a \in Answers : AnswersWith(r, a)
    BY <1>8 DEF Timeout, Fails, Answers
  <2>. QED  BY <1>0, <1>3, <2>1, <2>2 DEF TypeOK
<1>9. CASE OrphanEnds
  BY <1>0, <1>9 DEF OrphanEnds, Tables, TypeOK
<1>10. CASE UNCHANGED vars
  BY <1>0, <1>10 DEF vars, TypeOK
<1>. QED  BY <1>1, <1>4, <1>5, <1>6, <1>7, <1>8, <1>9, <1>10 DEF Next, Handles

-----------------------------------------------------------------------------
(* Requests                                                                *)

\* What a request knows of the users stays true when others insert and upgrade.
UsersGrow ==
    \A e \in Emails : users[e] # None /\ users'[e] # users[e] =>
        /\ users[e].scheme = "sha256"
        /\ users'[e] # None /\ users'[e].scheme = "argon2id" /\ users'[e].of = users[e].of

LEMMA Grows == ASSUME IInv, [Next]_vars PROVE UsersGrow
<1>0. TypeOK /\ \A r \in Requests : Tracked(r)
  BY Parts
<1>1. ASSUME NEW r \in Requests, Commit(r) PROVE UsersGrow
  <2>1. Email(r) \in Emails /\ users[Email(r)] = None
    BY <1>0, <1>1, Parts, AccountsAssumption DEF Commit, Tracked, Inserts, Inserting, TypeOK, Calls, Email
  <2>. QED  BY <1>0, <1>1, <2>1 DEF Commit, UsersGrow, TypeOK
<1>2. ASSUME NEW r \in Requests, Update(r) PROVE UsersGrow
  <2>. DEFINE new == Salted(call[r].password, r)
  <2>1. Email(r) \in Emails /\ new # None /\ new.scheme = "argon2id" /\ new.of = call[r].password
    BY <1>0, HashFacts DEF TypeOK, Calls, Email
  <2>2. stored[r].scheme = "sha256" /\ stored[r].of = call[r].password
    BY <1>0, <1>2 DEF Update, Tracked, Reads, Upgrading, Matches
  <2>3. users' = [users EXCEPT ![Email(r)] = IF @ = stored[r] THEN new ELSE @]
    BY <1>2 DEF Update
  <2>. HIDE DEF new
  <2>. QED  BY <1>0, <2>1, <2>2, <2>3 DEF UsersGrow, TypeOK
<1>3. ASSUME ~ \E r \in Requests : Commit(r) \/ Update(r) PROVE UNCHANGED users
  BY <1>3 DEF Next, Handles, vars, Call, StartThread, Hashed, Verified, Returns, OrphanEnds, Insert,
     InsertFails, Read, Timeout, Fails, Tables
<1>4. UNCHANGED users => UsersGrow
  BY DEF UsersGrow
<1>. QED  BY <1>1, <1>2, <1>3, <1>4

\* A request at rest, or one that others let be.
LEMMA Rests == ASSUME NEW r \in Requests, pc'[r] = "idle", r \notin threads' PROVE Tracked(r)'
  BY DEF Tracked, Inserts, Reads, Upgrading, Working, Registering, Steps

LEMMA LetBe ==
    ASSUME IInv, [Next]_vars, NEW q \in Requests,
           pc'[q] = pc[q], call'[q] = call[q], stored'[q] = stored[q], q \in threads' <=> q \in threads,
           pc[q] = "commit" => inserting'[Email(q)] = inserting[Email(q)]
    PROVE  Tracked(q)'
<1>0. TypeOK /\ Tracked(q) /\ UsersGrow
  BY Parts, Grows
<1>1. Email(q)' = Email(q) /\ Email(q) \in Emails
  BY <1>0 DEF Email, TypeOK, Calls
<1>2. Inserts(q)'
  BY <1>0, <1>1 DEF Tracked, Inserts
<1>3. Reads(q)'
  <2>1. Matches(stored[q], call[q].password)' <=> Matches(stored[q], call[q].password)
    BY DEF Matches
  <2>2. stored[q] \in Hashes \cup {None}
    BY <1>0 DEF TypeOK
  <2>3. ASSUME pc[q] \in {"verify", "verifying"} \cup Upgrading, stored[q] # None
        PROVE  \/ users'[Email(q)] = stored[q]
               \/ /\ stored[q].scheme = "sha256" /\ users'[Email(q)] # None
                  /\ users'[Email(q)].scheme = "argon2id" /\ users'[Email(q)].of = stored[q].of
    <3>. DEFINE u == users[Email(q)] v == users'[Email(q)]
    <3>1. \/ u = stored[q]
          \/ stored[q].scheme = "sha256" /\ u # None /\ u.scheme = "argon2id" /\ u.of = stored[q].of
      BY <1>0, <2>3 DEF Tracked, Reads
    <3>2. u # None /\ v # u => u.scheme = "sha256" /\ v # None /\ v.scheme = "argon2id" /\ v.of = u.of
      BY <1>0, <1>1 DEF UsersGrow
    <3>. HIDE DEF u, v
    <3>3. v = stored[q] \/ (stored[q].scheme = "sha256" /\ v # None /\ v.scheme = "argon2id" /\ v.of = stored[q].of)
      BY <2>3, <3>1, <3>2
    <3>. QED  BY <3>3 DEF v
  <2>. QED  BY <1>0, <1>1, <2>1, <2>3 DEF Tracked, Reads, Upgrading
<1>. QED  BY <1>0, <1>2, <1>3 DEF Tracked

LEMMA TrackedStep == ASSUME IInv, [Next]_vars, NEW q \in Requests PROVE Tracked(q)'
<1>0. TypeOK /\ (\A r \in Requests : Tracked(r)) /\ (\A e \in Emails : Inserting(e)) /\ UsersGrow
  BY Parts, Grows
<1>. USE AccountsAssumption
\* A step of another request.
<1>1. ASSUME NEW r \in Requests, r # q, Call(r) \/ Handles(r) \/ Timeout(r) \/ Fails(r) PROVE Tracked(q)'
  <2>1. pc'[q] = pc[q] /\ call'[q] = call[q] /\ stored'[q] = stored[q]
    <3>1. \A step : Goes(r, step) => pc'[q] = pc[q]
      BY <1>0, <1>1 DEF Goes, TypeOK
    <3>2. \A a : AnswersWith(r, a) => pc'[q] = pc[q]
      BY <1>0, <1>1 DEF AnswersWith, TypeOK
    <3>3. CASE Call(r)
      BY <1>0, <1>1, <3>3 DEF Call, TypeOK
    <3>4. CASE StartThread(r) \/ Hashed(r) \/ Verified(r)
      BY <3>1, <3>2, <3>4 DEF StartThread, Hashed, Verified, Returns
    <3>5. CASE Insert(r) \/ InsertFails(r) \/ Commit(r) \/ Update(r) \/ Timeout(r) \/ Fails(r)
      BY <3>1, <3>2, <3>5 DEF Insert, InsertFails, Commit, Update, Timeout, Fails
    <3>6. CASE Read(r)
      BY <1>0, <1>1, <3>1, <3>6 DEF Read, TypeOK
    <3>. QED  BY <1>1, <3>3, <3>4, <3>5, <3>6 DEF Handles
  <2>2. q \in threads' <=> q \in threads
    BY <1>1 DEF Handles, Call, StartThread, Hashed, Verified, Returns, Insert, InsertFails, Commit, Read,
       Update, Timeout, Abandons, Fails, Hashing
  <2>3. ASSUME pc[q] = "commit" PROVE inserting'[Email(q)] = inserting[Email(q)]
    <3>1. Email(q) \in Emails /\ Email(r) \in Emails /\ inserting[Email(q)] = q
      BY <1>0, <2>3 DEF Tracked, Inserts, TypeOK, Calls, Email
    <3>2. CASE Insert(r)
      <4>1. inserting[Email(r)] = Nobody
        BY <3>2 DEF Insert
      <4>2. Email(r) # Email(q)
        BY <3>1, <4>1
      <4>. QED  BY <1>0, <3>1, <3>2, <4>2 DEF Insert, TypeOK
    <3>3. CASE Commit(r) \/ Timeout(r) \/ Fails(r)
      BY <1>0, <1>1, <3>1, <3>3 DEF Commit, Timeout, Fails, Withdrawn, TypeOK
    <3>4. CASE UNCHANGED inserting
      BY <3>4
    <3>. QED
      BY <1>1, <3>2, <3>3, <3>4 DEF Handles, Call, StartThread, Hashed, Verified, Returns, InsertFails, Read,
         Update, Tables
  <2>. QED  BY <2>1, <2>2, <2>3, LetBe
<1>2. CASE Call(q)
  <2>1. q \notin threads
    BY <1>0, <1>2 DEF Call, Tracked, Working
  <2>2. pc'[q] = IF call'[q].kind = "register" THEN "hash" ELSE "read"
    BY <1>0, <1>2 DEF Call, TypeOK
  <2>3. call'[q].kind \in {"register", "login"} /\ stored'[q] = None /\ q \notin threads'
    BY <1>0, <1>2, <2>1 DEF Call, Hashing, TypeOK, Calls
  <2>. QED
    BY <2>2, <2>3 DEF Tracked, Inserts, Reads, Upgrading, Working, Registering, Steps
\* The request answers.
<1>3. ASSUME NEW a \in Answers, AnswersWith(q, a), q \notin threads' PROVE Tracked(q)'
  <2>1. pc'[q] = "idle"
    BY <1>0, <1>3 DEF AnswersWith, TypeOK
  <2>. QED  BY <1>3, <2>1, Rests
\* The request goes on.
<1>4. ASSUME NEW step \in Steps, Goes(q, step), call' = call PROVE pc'[q] = step /\ call'[q].kind = call[q].kind
  BY <1>0, <1>4 DEF Goes, TypeOK
<1>5. CASE StartThread(q)
  <2>1. /\ UNCHANGED <<users, call, stored>> /\ q \notin threads
        /\ pc[q] = "hash" \/ pc[q] = "verify" \/ pc[q] = "rehash"
    BY <1>0, <1>5, ThreadFacts DEF StartThread, Tables, Tracked, Working
  <2>2. CASE free = 0 /\ AnswersWith(q, "too many") /\ UNCHANGED threads
    BY <1>3, <2>1, <2>2 DEF Answers
  <2>3. CASE Goes(q, Thread[pc[q]]) /\ threads' = threads \cup {q}
    <3>1. Thread[pc[q]] \in Steps
      BY <2>1, ThreadFacts DEF Steps
    <3>2. pc'[q] = Thread[pc[q]] /\ call'[q].kind = call[q].kind
      BY <1>4, <2>1, <2>3, <3>1
    <3>3. Reads(q)'
      BY <1>0, <2>1, <3>2, ThreadFacts DEF Tracked, Reads, Upgrading, Email, Matches
    <3>4. Inserts(q)'
      BY <2>1, <3>2, ThreadFacts DEF Inserts
    <3>5. pc'[q] \in Working /\ (pc'[q] \in Registering <=> pc[q] \in Registering) /\ pc[q] \in Steps
      BY <2>1, <3>2, ThreadFacts DEF Working, Registering, Steps
    <3>. QED  BY <1>0, <2>3, <3>1, <3>2, <3>3, <3>4, <3>5 DEF Tracked
  <2>. QED  BY <1>5, <2>2, <2>3 DEF StartThread
<1>6. CASE Hashed(q)
  <2>1. /\ UNCHANGED <<users, call, stored>> /\ q \notin threads'
        /\ \/ pc[q] = "hashing" /\ pc'[q] = "insert"
           \/ pc[q] = "rehashing" /\ pc'[q] = "update"
    BY <1>0, <1>6 DEF Hashed, Returns, Tables, Goes, TypeOK
  <2>2. Reads(q)'
    BY <1>0, <2>1 DEF Tracked, Reads, Upgrading, Email, Matches
  <2>. QED  BY <1>0, <2>1, <2>2 DEF Tracked, Inserts, Working, Registering, Steps
<1>7. CASE Verified(q)
  <2>1. UNCHANGED <<users, call, stored>> /\ q \notin threads' /\ pc[q] = "verifying"
    BY <1>7 DEF Verified, Returns, Tables
  <2>2. CASE \E a \in Answers : AnswersWith(q, a)
    BY <1>3, <2>1, <2>2
  <2>3. CASE Goes(q, "rehash") /\ Matches(stored[q], call[q].password) /\ stored[q].scheme = "sha256"
    <3>1. pc'[q] = "rehash"
      BY <1>0, <2>3 DEF Goes, TypeOK
    <3>2. Reads(q)'
      BY <1>0, <2>1, <2>3, <3>1 DEF Tracked, Reads, Upgrading, Email, Matches
    <3>. QED  BY <1>0, <2>1, <3>1, <3>2 DEF Tracked, Inserts, Working, Registering, Steps
  <2>. QED
    <3>1. "ok" \in Answers /\ "unauthorized" \in Answers
      BY DEF Answers
    <3>. QED  BY <1>7, <2>2, <2>3, <3>1 DEF Verified
<1>8. CASE Insert(q)
  <2>1. UNCHANGED <<call, stored>> /\ pc[q] = "insert" /\ q \notin threads'
    BY <1>0, <1>8 DEF Insert, Hashing, Tracked, Working
  <2>2. CASE AnswersWith(q, "conflict")
    BY <1>3, <2>1, <2>2 DEF Answers
  <2>3. CASE Goes(q, "commit") /\ inserting' = [inserting EXCEPT ![Email(q)] = q]
    <3>1. pc'[q] = "commit" /\ inserting'[Email(q)] = q
      BY <1>0, <2>3 DEF Goes, TypeOK, Calls, Email
    <3>. QED  BY <1>0, <2>1, <3>1 DEF Tracked, Inserts, Reads, Upgrading, Email, Working, Registering, Steps
  <2>. QED  BY <1>8, <2>2, <2>3 DEF Insert
<1>9. CASE Read(q)
  <2>1. UNCHANGED <<users, call>> /\ pc[q] = "read" /\ pc'[q] = "verify" /\ q \notin threads'
    BY <1>0, <1>9 DEF Read, Goes, Tables, Hashing, TypeOK, Tracked, Working
  <2>2. stored'[q] = users[Email(q)]
    BY <1>0, <1>9 DEF Read, TypeOK
  <2>. QED  BY <1>0, <2>1, <2>2 DEF Tracked, Inserts, Reads, Upgrading, Email, Working, Registering, Steps
<1>10. CASE InsertFails(q) \/ Commit(q) \/ Update(q) \/ Timeout(q) \/ Fails(q)
  <2>1. q \notin threads'
    BY <1>0, <1>10 DEF InsertFails, Commit, Update, Timeout, Abandons, Fails, Hashing, Tracked, Working
  <2>2. \E a \in Answers : AnswersWith(q, a)
    BY <1>10 DEF InsertFails, Commit, Update, Timeout, Fails, Answers
  <2>. QED  BY <1>3, <2>1, <2>2
<1>11. CASE OrphanEnds \/ UNCHANGED vars
  <2>1. UNCHANGED <<pc, call, stored, threads, inserting>>
    BY <1>11 DEF OrphanEnds, vars, Tables
  <2>. QED  BY <2>1, LetBe
<1>. QED
  BY <1>1, <1>2, <1>5, <1>6, <1>7, <1>8, <1>9, <1>10, <1>11 DEF Next, Handles

\* An uncommitted row is of an email that is free, and of a request about to commit.
LEMMA InsertingStep == ASSUME IInv, [Next]_vars, NEW e \in Emails PROVE Inserting(e)'
<1>0. TypeOK /\ (\A r \in Requests : Tracked(r)) /\ Inserting(e) /\ UsersGrow
  BY Parts, Grows
<1>. USE AccountsAssumption
<1>1. CASE inserting[e] = Nobody
  <2>1. ASSUME NEW r \in Requests, Insert(r), Email(r) = e, inserting'[e] # Nobody PROVE Inserting(e)'
    <3>1. users[e] = None /\ inserting' = [inserting EXCEPT ![e] = r] /\ Goes(r, "commit")
              /\ UNCHANGED <<users, call>>
      BY <1>1, <2>1 DEF Insert
    <3>2. inserting'[e] = r /\ pc'[r] = "commit" /\ users'[e] = None
      BY <1>0, <3>1 DEF Goes, TypeOK
    <3>. QED  BY <2>1, <3>1, <3>2 DEF Inserting, Email
  <2>2. ASSUME ~ \E r \in Requests : Insert(r) /\ Email(r) = e PROVE inserting'[e] = Nobody
    <3>1. ASSUME NEW r \in Requests, Insert(r), Email(r) # e PROVE inserting'[e] = Nobody
      BY <1>0, <1>1, <3>1 DEF Insert, TypeOK
    <3>2. ASSUME NEW r \in Requests, Commit(r) \/ Timeout(r) \/ Fails(r) PROVE inserting'[e] = Nobody
      BY <1>1, <3>2 DEF Commit, Timeout, Fails, Withdrawn
    <3>3. CASE UNCHANGED inserting
      BY <1>1, <3>3
    <3>. QED
      BY <2>2, <3>1, <3>2, <3>3 DEF Next, Handles, vars, Call, StartThread, Hashed, Verified, Returns,
         OrphanEnds, InsertFails, Read, Update, Tables
  <2>. QED  BY <2>1, <2>2 DEF Inserting
<1>2. CASE inserting[e] # Nobody
  <2>1. PICK q \in Requests : /\ q = inserting[e]
                            /\ users[e] = None
                            /\ pc[q] = "commit"
                            /\ Email(q) = e
    BY <1>0, <1>2 DEF Inserting, TypeOK
  <2>2. ASSUME NEW r \in Requests, Commit(r) \/ Timeout(r) \/ Fails(r), r = q PROVE Inserting(e)'
    <3>1. inserting'[e] = Nobody
      BY <2>1, <2>2 DEF Commit, Timeout, Fails, Withdrawn
    <3>. QED  BY <3>1 DEF Inserting
  <2>3. ASSUME pc'[q] = "commit", Email(q)' = e, users'[e] = None, inserting'[e] = q PROVE Inserting(e)'
    BY <2>3 DEF Inserting, Email
  <2>4. ASSUME NEW r \in Requests, Commit(r) \/ Timeout(r) \/ Fails(r), r # q PROVE Inserting(e)'
    <3>1. pc'[q] = "commit" /\ Email(q)' = e
      BY <1>0, <2>1, <2>4 DEF Commit, Timeout, Fails, AnswersWith, TypeOK, Email
    <3>2. inserting'[e] = q
      BY <2>1, <2>4 DEF Commit, Timeout, Fails, Withdrawn
    <3>3. users'[e] = None
      <4>1. CASE Commit(r)
        <5>1. inserting[Email(r)] = r
          BY <1>0, <4>1 DEF Commit, Tracked, Inserts
        <5>2. Email(r) # e
          BY <2>1, <2>4, <5>1
        <5>. QED  BY <1>0, <2>1, <4>1, <5>2 DEF Commit, TypeOK
      <4>2. CASE Timeout(r) \/ Fails(r)
        BY <2>1, <4>2 DEF Timeout, Fails
      <4>. QED  BY <2>4, <4>1, <4>2
    <3>. QED  BY <2>3, <3>1, <3>2, <3>3
  <2>5. ASSUME NEW r \in Requests, Call(r) \/ Insert(r) \/ Read(r) \/ Update(r)
        PROVE  Inserting(e)'
    <3>1. r # q
      BY <2>1, <2>5 DEF Call, Insert, Read, Update
    <3>2. pc'[q] = "commit" /\ Email(q)' = e
      BY <1>0, <2>1, <2>5, <3>1 DEF Call, Insert, Read, Update, Goes, AnswersWith, TypeOK, Email
    <3>3. inserting'[e] = q
      <4>1. CASE Insert(r)
        <5>1. inserting[Email(r)] = Nobody
          BY <4>1 DEF Insert
        <5>2. Email(r) # e
          BY <1>2, <5>1
        <5>. QED  BY <2>1, <1>0, <4>1, <5>2 DEF Insert, TypeOK
      <4>2. CASE UNCHANGED inserting
        BY <2>1, <4>2
      <4>. QED  BY <2>5, <4>1, <4>2 DEF Call, Read, Update, Tables
    <3>4. users'[e] = None
      <4>1. CASE Update(r)
        <5>1. Matches(stored[r], call[r].password)
          BY <1>0, <4>1 DEF Update, Tracked, Reads, Upgrading
        <5>2. stored[r] # None
          BY <5>1 DEF Matches
        <5>. QED  BY <1>0, <2>1, <4>1, <5>2 DEF Update, TypeOK
      <4>2. CASE UNCHANGED users
        BY <2>1, <4>2
      <4>. QED  BY <2>5, <4>1, <4>2 DEF Call, Insert, Read, Tables
    <3>. QED  BY <2>3, <3>2, <3>3, <3>4
  <2>6. ASSUME NEW r \in Requests, StartThread(r) \/ Hashed(r) \/ Verified(r) \/ InsertFails(r)
        PROVE  Inserting(e)'
    <3>1. r # q
      BY <2>1, <2>6, ThreadFacts DEF StartThread, Hashed, Verified, InsertFails
    <3>2. UNCHANGED <<users, inserting, call>>
      BY <2>6 DEF StartThread, Hashed, Verified, Returns, InsertFails, Tables
    <3>3. (\E step : Goes(r, step)) \/ (\E a : AnswersWith(r, a))
      BY <2>6 DEF StartThread, Hashed, Verified, InsertFails
    <3>4. pc'[q] = "commit"
      BY <1>0, <2>1, <3>1, <3>3 DEF Goes, AnswersWith, TypeOK
    <3>. QED  BY <2>1, <2>3, <3>2, <3>4 DEF Email
  <2>7. CASE OrphanEnds \/ UNCHANGED vars
    <3>1. UNCHANGED <<users, inserting, call, pc>>
      BY <2>7 DEF OrphanEnds, vars, Tables
    <3>. QED  BY <2>1, <2>3, <3>1 DEF Email
  <2>. QED  BY <2>2, <2>4, <2>5, <2>6, <2>7 DEF Next, Handles
<1>. QED  BY <1>1, <1>2

LEMMA Inductive == ASSUME IInv, [Next]_vars PROVE IInv'
<1>1. (\A r \in Requests : Tracked(r))'
  BY TrackedStep
<1>2. (\A e \in Emails : Inserting(e))'
  BY InsertingStep
<1>3. IInv' <=> TypeOK' /\ (\A r \in Requests : Tracked(r))' /\ (\A e \in Emails : Inserting(e))' /\ Balanced'
  BY DEF IInv, Tracked, Balanced
<1>. QED  BY <1>1, <1>2, <1>3, Typed, PermitsStep

-----------------------------------------------------------------------------
(* Theorems                                                                *)

\* Permits are never lost or doubled, rows under way are exclusive, and what a
\* login has read is still there or was upgraded.
THEOREM Invariance == Spec => []IInv
<1>. QED  BY Initially, Inductive, PTL DEF Spec

\* The number of hashing threads is bounded, whatever times out.
THEOREM FewThreads == Spec => []HashingIsBounded
<1>1. IInv => HashingIsBounded
  BY ThreadsAreFinite, AccountsAssumption DEF IInv, TypeOK, HashingIsBounded
<1>. QED  BY Invariance, <1>1, PTL

\* A password stays, and one login of those that race upgrades its hash.
THEOREM HashesChangeOnce == Spec => PasswordsStay
<1>1. IInv /\ [Next]_vars => UsersGrow
  BY Grows
<1>2. UsersGrow =>
        [\A e \in Emails : users[e] # None /\ users'[e] # users[e] =>
            /\ users[e].scheme = "sha256"
            /\ users'[e].scheme = "argon2id" /\ users'[e].of = users[e].of]_vars
  BY DEF UsersGrow
<1>. QED  BY Invariance, <1>1, <1>2, PTL DEF Spec, PasswordsStay

LEMMA EarnedStep ==
    ASSUME IInv, [Next]_vars, NEW r \in Requests, answer'[r] = "ok", answer[r] # "ok"
    PROVE  /\ call[r].kind = "register" => users[Email(r)] = None
           /\ Matches(users'[Email(r)], call[r].password)
<1>0. TypeOK /\ (\A q \in Requests : Tracked(q)) /\ (\A e \in Emails : Inserting(e)) /\ UsersGrow
  BY Parts, Grows
<1>. DEFINE new == Salted(call[r].password, r)
<1>1. Email(r) \in Emails /\ new # None /\ new.scheme = "argon2id" /\ new.of = call[r].password
  BY <1>0, HashFacts DEF TypeOK, Calls, Email
<1>2. Matches(new, call[r].password)
  BY <1>1 DEF Matches
<1>3. CASE Commit(r)
  <2>1. users[Email(r)] = None
    BY <1>0, <1>1, <1>3, AccountsAssumption DEF Commit, Tracked, Inserts, Inserting
  <2>2. users'[Email(r)] = new
    BY <1>0, <1>1, <1>3 DEF Commit, TypeOK
  <2>. QED  BY <1>2, <2>1, <2>2
<1>. DEFINE u == users[Email(r)]
<1>4. CASE Update(r)
  <2>1. call[r].kind = "login" /\ Matches(stored[r], call[r].password) /\ stored[r] # None
    BY <1>0, <1>4 DEF Update, Tracked, Reads, Upgrading, Registering, Steps, Matches
  <2>2. \/ u = stored[r]
        \/ u # None /\ u.scheme = "argon2id" /\ u.of = stored[r].of
    BY <1>0, <1>4, <2>1 DEF Update, Tracked, Reads, Upgrading
  <2>3. users'[Email(r)] = IF u = stored[r] THEN new ELSE u
    BY <1>0, <1>1, <1>4 DEF Update, TypeOK
  <2>. QED  BY <1>2, <2>1, <2>2, <2>3 DEF Matches
<1>5. CASE Verified(r)
  <2>1. call[r].kind = "login" /\ UNCHANGED users
    BY <1>0, <1>5 DEF Verified, Returns, Tables, Tracked, Registering, Steps
  <2>2. Matches(stored[r], call[r].password)
    BY <1>0, <1>5 DEF Verified, AnswersWith, TypeOK
  <2>3. \/ u = stored[r]
        \/ u # None /\ u.scheme = "argon2id" /\ u.of = stored[r].of
    BY <1>0, <1>5, <2>2 DEF Verified, Tracked, Reads, Matches
  <2>. QED  BY <2>1, <2>2, <2>3 DEF Matches
<1>6. CASE Call(r) \/ StartThread(r) \/ Hashed(r) \/ Insert(r) \/ InsertFails(r) \/ Read(r) \/ Timeout(r) \/ Fails(r)
  BY <1>0, <1>6 DEF Call, StartThread, Hashed, Insert, InsertFails, Read, Timeout, Fails, Goes, AnswersWith, TypeOK
<1>7. ASSUME NEW q \in Requests, q # r, Call(q) \/ Handles(q) \/ Timeout(q) \/ Fails(q) PROVE FALSE
  BY <1>0, <1>7 DEF Call, Handles, StartThread, Hashed, Verified, Insert, InsertFails, Commit, Read, Update,
     Timeout, Fails, Goes, AnswersWith, TypeOK
<1>8. ~(OrphanEnds \/ UNCHANGED vars)
  BY DEF OrphanEnds, vars
<1>. QED  BY <1>3, <1>4, <1>5, <1>6, <1>7, <1>8 DEF Next, Handles

\* Tokens are for one's own account.
THEOREM TokensEarned == Spec => TokensAreEarned
<1>1. IInv /\ [Next]_vars =>
        [\A r \in Requests : answer'[r] = "ok" /\ answer[r] # "ok" =>
            /\ call[r].kind = "register" => users[Email(r)] = None
            /\ Matches(users'[Email(r)], call[r].password)]_vars
  BY EarnedStep
<1>. QED  BY Invariance, <1>1, PTL DEF Spec, TokensAreEarned

-----------------------------------------------------------------------------
(* Admission control *)

LEMMA AppendFacts ==
    ASSUME NEW s \in Seq(Nat), NEW t \in Nat
    PROVE  /\ Append(s, t) \in Seq(Nat) /\ Len(s) \in Nat
           /\ Len(Append(s, t)) = Len(s) + 1
           /\ \A i \in 1 .. Len(s) : Append(s, t)[i] = s[i] /\ s[i] \in Nat
           /\ Append(s, t)[Len(s) + 1] = t
  OBVIOUS

LEMMA LimitIsPositive == \A k \in Keys : LimitOf(k) \in Nat \ {0}
  BY AdmissionAssumption DEF Keys, LimitOf

LEMMA KeysAreFinite == IsFiniteSet(Keys)
  BY AdmissionAssumption, FS_Product DEF Keys

LEMMA AdmissionStarts == AdmissionInit => AdmissionInv
<1>. SUFFICES ASSUME AdmissionInit PROVE AdmissionInv
  OBVIOUS
<1>. USE AdmissionAssumption DEF AdmissionInit
<1>1. AdmissionTypeOK
  BY DEF AdmissionTypeOK
<1>2. \A k \in Keys : log[k] = << >> /\ Len(log[k]) = 0 /\ k \notin DOMAIN buckets
  OBVIOUS
<1>3. \A k \in Keys : InOrder(k) /\ Forgotten(k)
  BY <1>2, LimitIsPositive DEF InOrder, Forgotten
<1>4. InAnyMinute
  BY <1>2, LimitIsPositive DEF InAnyMinute
<1>. QED  BY <1>1, <1>2, <1>3, <1>4 DEF AdmissionInv

\* What retain keeps has not run out, and what it drops has had less than its
\* limit in the last window.
LEMMA Retained ==
    ASSUME AdmissionInv
    PROVE  /\ DOMAIN Kept \subseteq DOMAIN buckets
           /\ \A k \in DOMAIN Kept : Kept[k] = buckets[k] /\ now - buckets[k].start < Window
           /\ \A k \in Keys \ DOMAIN Kept : Forgotten(k)
<1>. USE AdmissionAssumption
<1>1. AdmissionTypeOK /\ \A k \in Keys : InOrder(k)
  BY DEF AdmissionInv
<1>2. DOMAIN Kept \subseteq DOMAIN buckets
          /\ \A k \in DOMAIN Kept : Kept[k] = buckets[k] /\ now - buckets[k].start < Window
  BY DEF Kept, Keeps
<1>3. ASSUME NEW k \in Keys \ DOMAIN Kept PROVE Forgotten(k)
  <2>1. CASE k \notin DOMAIN buckets
    BY <2>1 DEF AdmissionInv
  <2>2. CASE k \in DOMAIN buckets
    <3>1. buckets[k].start \in Nat /\ buckets[k].count \in Nat /\ now \in Nat /\ now - buckets[k].start >= Window
      BY <1>1, <2>2, <1>3 DEF AdmissionTypeOK, Kept, Keeps
    <3>2. Explained(k) /\ InOrder(k) /\ log[k] \in Seq(Nat) /\ LimitOf(k) \in Nat \ {0}
      BY <2>2, <1>1, LimitIsPositive DEF AdmissionInv, AdmissionTypeOK
    <3>. DEFINE n == Len(log[k]) first == n - buckets[k].count + 1 i == n - LimitOf(k) + 1
    <3>3. buckets[k].count \in 1 .. LimitOf(k) /\ first >= 1 /\ log[k][first] = buckets[k].start
      BY <3>2 DEF Explained
    <3>4. n \in Nat
      BY <3>2
    <3>5. ASSUME n >= LimitOf(k) PROVE log[k][i] + Window =< now
      <4>0. LimitOf(k) \in Nat /\ LimitOf(k) >= 1 /\ buckets[k].count \in Nat
        BY <3>1, LimitIsPositive
      <4>. HIDE DEF Keeps
      <4>1. i \in 1 .. n /\ first \in 1 .. n /\ i =< first
        BY ONLY <3>3, <3>4, <3>5, <4>0
      <4>. HIDE DEF n, first, i
      <4>2. log[k][i] =< log[k][first]
        BY <3>2, <4>1 DEF InOrder, n
      <4>3. log[k][i] \in Nat
        BY <3>2, <4>1 DEF n
      <4>. QED  BY <3>1, <3>3, <4>2, <4>3
    <3>. QED  BY <3>5 DEF Forgotten
  <2>. QED  BY <2>1, <2>2
<1>. QED  BY <1>2, <1>3

\* A key whose log and bucket stay is explained or forgotten as before.
LEMMA Untouched ==
    ASSUME AdmissionInv, NEW k \in Keys, log'[k] = log[k], now' \in Nat, now' >= now,
           k \in DOMAIN buckets' => k \in DOMAIN buckets /\ buckets'[k] = buckets[k],
           k \notin DOMAIN buckets' => Forgotten(k)
    PROVE  InOrder(k)' /\ (IF k \in DOMAIN buckets' THEN Explained(k)' ELSE Forgotten(k)')
<1>. USE AdmissionAssumption
<1>1. InOrder(k) /\ log[k] \in Seq(Nat) /\ now \in Nat /\ LimitOf(k) \in Nat \ {0}
  BY LimitIsPositive DEF AdmissionInv, AdmissionTypeOK
<1>2. InOrder(k)'
  BY <1>1 DEF InOrder
<1>3. ASSUME k \in DOMAIN buckets' PROVE Explained(k)'
  <2>1. Explained(k) /\ buckets'[k] = buckets[k]
    BY <1>3 DEF AdmissionInv
  <2>. QED  BY <2>1 DEF Explained, LimitOf
<1>4. ASSUME k \notin DOMAIN buckets' PROVE Forgotten(k)'
  <2>. DEFINE n == Len(log[k]) L == LimitOf(k) t == log[k][n - L + 1]
  <2>1. n \in Nat /\ L \in Nat /\ L >= 1 /\ (n >= L => t \in Nat)
    <3>1. n \in Nat /\ L \in Nat /\ L >= 1
      BY <1>1
    <3>2. ASSUME n >= L PROVE n - L + 1 \in 1 .. n
      BY ONLY <3>1, <3>2
    <3>. QED  BY <1>1, <3>1, <3>2
  <2>2. n >= L => t + Window =< now
    BY <1>4 DEF Forgotten
  <2>. HIDE DEF n, L, t
  <2>3. n >= L => t + Window =< now'
    BY <1>1, <2>1, <2>2
  <2>. QED  BY <2>3 DEF Forgotten, LimitOf, n, L, t
<1>. QED  BY <1>2, <1>3, <1>4

LEMMA RequestType ==
    ASSUME AdmissionTypeOK, NEW k \in Keys, Admit(k) \/ RefuseFull(k) \/ RefuseLimited(k), UNCHANGED now
    PROVE  AdmissionTypeOK'
<1>1. \A q \in DOMAIN Kept : q \in DOMAIN buckets /\ Kept[q] = buckets[q]
  BY DEF Kept
<1>2. Bucket(k) \in [start : Nat, count : Nat]
  BY <1>1 DEF Bucket, AdmissionTypeOK
<1>3. CASE Admit(k)
  <2>1. CountedIn(k) \in [start : Nat, count : Nat]
    BY <1>2 DEF CountedIn
  <2>2. Append(log[k], now) \in Seq(Nat)
    BY AppendFacts DEF AdmissionTypeOK
  <2>3. log' \in [Keys -> Seq(Nat)]
    BY <1>3, <2>2 DEF Admit, AdmissionTypeOK
  <2>4. DOMAIN buckets' \subseteq Keys /\ \A q \in DOMAIN buckets' : buckets'[q] \in [start : Nat, count : Nat]
    BY <1>1, <1>3, <2>1 DEF Admit, With, AdmissionTypeOK
  <2>. QED  BY <1>3, <2>3, <2>4 DEF Admit, AdmissionTypeOK
<1>4. CASE RefuseFull(k) \/ RefuseLimited(k)
  <2>1. DOMAIN buckets' \subseteq Keys /\ \A q \in DOMAIN buckets' : buckets'[q] \in [start : Nat, count : Nat]
    BY <1>1, <1>2, <1>4 DEF RefuseFull, RefuseLimited, With, AdmissionTypeOK
  <2>2. verdict' \in [key : Keys, kind : {"full", "limited"}] /\ UNCHANGED <<now, log>>
    BY <1>4 DEF RefuseFull, RefuseLimited
  <2>. QED  BY <2>1, <2>2 DEF AdmissionTypeOK
<1>. QED  BY <1>3, <1>4

\* Where the window of an admitted request starts, for a key with a bucket and
\* for one without.
LEMMA WindowOf ==
    ASSUME AdmissionInv, NEW k \in Keys, Admit(k), UNCHANGED now
    PROVE  LET n == Len(log[k])
               f == n + 1 - buckets'[k].count + 1
           IN /\ k \in DOMAIN buckets' /\ buckets'[k].count \in 1 .. LimitOf(k)
              /\ f \in 1 .. n + 1
              /\ f =< n => log[k][f] = buckets'[k].start
              /\ f = n + 1 => buckets'[k].start = now
              /\ f > LimitOf(k) =>
                    f - LimitOf(k) \in 1 .. n /\ log[k][f - LimitOf(k)] + Window =< buckets'[k].start
<1>1. k \in DOMAIN buckets' /\ buckets'[k] = CountedIn(k) /\ Below(k)
  BY DEF Admit, With
<1>2. Len(log[k]) \in Nat /\ LimitOf(k) \in Nat /\ LimitOf(k) >= 1
  BY LimitIsPositive DEF AdmissionInv, AdmissionTypeOK
<1>3. CASE k \in DOMAIN Kept
  <2>1. Kept[k] = buckets[k] /\ Explained(k)
    BY <1>3, Retained DEF AdmissionInv
  <2>2. buckets'[k].start = buckets[k].start /\ buckets'[k].count = buckets[k].count + 1
            /\ buckets[k].count < LimitOf(k)
    BY <1>1, <1>3, <2>1 DEF Below, CountedIn, Bucket
  <2>. DEFINE n == Len(log[k]) L == LimitOf(k) c == buckets[k].count g == n - c + 1
  <2>3. c \in 1 .. L /\ g >= 1 /\ log[k][g] = buckets[k].start
            /\ (g > L => log[k][g - L] + Window =< buckets[k].start)
    BY <2>1 DEF Explained
  <2>4. n \in Nat /\ L \in Nat /\ L >= 1 /\ c < L /\ buckets'[k].count = c + 1
    BY <1>2, <2>2
  <2>. HIDE DEF n, L, c
  <2>5. n + 1 - (c + 1) + 1 = g /\ g \in 1 .. n /\ (g > L => g - L \in 1 .. n) /\ c + 1 \in 1 .. L
    BY <2>3, <2>4
  <2>6. n + 1 - buckets'[k].count + 1 = g
    BY <2>4, <2>5
  <2>. HIDE DEF g
  <2>7. g \in 1 .. n + 1 /\ g # n + 1
    BY <2>4, <2>5
  <2>. QED  BY <1>1, <2>2, <2>3, <2>4, <2>5, <2>6, <2>7 DEF n, L
<1>4. CASE k \notin DOMAIN Kept
  <2>1. buckets'[k].start = now /\ buckets'[k].count = 1
    BY <1>1, <1>4 DEF CountedIn, Bucket
  <2>2. Forgotten(k)
    BY <1>4, Retained
  <2>. QED  BY <1>1, <1>2, <2>1, <2>2 DEF Forgotten
<1>. QED  BY <1>3, <1>4

\* The key of an admitted request.
LEMMA Admitted ==
    ASSUME AdmissionInv, NEW k \in Keys, Admit(k), UNCHANGED now
    PROVE  /\ k \in DOMAIN buckets' /\ InOrder(k)' /\ Explained(k)'
           /\ \A i \in 1 .. Len(log'[k]) :
                 i + 2 * LimitOf(k) - 1 =< Len(log'[k])
                     => log'[k][i + 2 * LimitOf(k) - 1] - log'[k][i] >= Window
<1>. DEFINE s == log[k] u == log'[k] n == Len(s) L == LimitOf(k) f == n + 1 - buckets'[k].count + 1
<1>0. s \in Seq(Nat) /\ n \in Nat /\ now \in Nat /\ L \in Nat /\ L >= 1 /\ Window \in Nat
  BY LimitIsPositive, AdmissionAssumption DEF AdmissionInv, AdmissionTypeOK
<1>1. u = Append(s, now)
  BY DEF Admit, AdmissionInv, AdmissionTypeOK
<1>2. /\ Len(u) = n + 1 /\ u[n + 1] = now
      /\ \A i \in 1 .. n : u[i] = s[i] /\ s[i] \in Nat
  BY <1>0, <1>1, AppendFacts
<1>3. (\A i \in 1 .. n : s[i] =< now) /\ (\A i, j \in 1 .. n : i =< j => s[i] =< s[j])
  BY DEF AdmissionInv, InOrder
<1>4. \A i \in 1 .. n : i + 2 * L - 1 =< n => s[i + 2 * L - 1] - s[i] >= Window
  BY DEF AdmissionInv, InAnyMinute
<1>5. /\ k \in DOMAIN buckets' /\ buckets'[k].count \in 1 .. L /\ f \in 1 .. n + 1
      /\ f =< n => s[f] = buckets'[k].start
      /\ f = n + 1 => buckets'[k].start = now
      /\ f > L => f - L \in 1 .. n /\ s[f - L] + Window =< buckets'[k].start
  BY WindowOf
<1>6. f + L > n + 1
  <2>. DEFINE c == buckets'[k].count
  <2>1. n \in Nat /\ L \in Nat /\ c \in 1 .. L /\ f = n + 1 - c + 1
    BY <1>0, <1>5
  <2>. HIDE DEF n, L, c, f
  <2>. QED  BY <2>1
<1>. HIDE DEF s, u, n, L, f
<1>7. u[f] = buckets'[k].start /\ (f > L => u[f - L] + Window =< u[f])
  <2>1. u[f] = buckets'[k].start
    <3>1. CASE f = n + 1
      BY <1>2, <1>5, <3>1
    <3>2. CASE f \in 1 .. n
      BY <1>0, <1>2, <1>5, <3>2
    <3>. QED  BY <1>0, <1>5, <3>1, <3>2
  <2>2. ASSUME f > L PROVE u[f - L] = s[f - L] /\ s[f - L] + Window =< buckets'[k].start
    BY <1>2, <1>5, <2>2
  <2>. QED  BY <2>1, <2>2
<1>8. /\ \A i \in 1 .. n + 1 : u[i] =< now
      /\ \A i, j \in 1 .. n + 1 : i =< j => u[i] =< u[j]
      /\ \A i \in 1 .. n + 1 : i + 2 * L - 1 =< n + 1 => u[i + 2 * L - 1] - u[i] >= Window
  <2>1. \A i \in 1 .. n + 1 : i \in 1 .. n \/ i = n + 1
    BY <1>0
  <2>2. \A i \in 1 .. n + 1 : u[i] =< now /\ u[i] \in Nat
    BY <1>0, <1>2, <1>3, <2>1
  <2>3. ASSUME NEW i \in 1 .. n + 1, NEW j \in 1 .. n + 1, i =< j PROVE u[i] =< u[j]
    <3>1. CASE j = n + 1
      BY <1>2, <2>2, <3>1
    <3>2. CASE j \in 1 .. n
      <4>1. i \in 1 .. n
        BY <1>0, <2>3, <3>2
      <4>. QED  BY <1>2, <1>3, <2>3, <3>2, <4>1
    <3>. QED  BY <2>1, <3>1, <3>2
  <2>4. ASSUME NEW i \in 1 .. n + 1, i + 2 * L - 1 =< n + 1
        PROVE  u[i + 2 * L - 1] - u[i] >= Window
    <3>1. CASE i + 2 * L - 1 =< n
      <4>1. i \in 1 .. n /\ i + 2 * L - 1 \in 1 .. n
        BY <1>0, <2>4, <3>1
      <4>. QED  BY <1>2, <1>4, <3>1, <4>1
    <3>2. CASE i + 2 * L - 1 = n + 1
      <4>1. f > L /\ f - L \in 1 .. n + 1 /\ i =< f - L
        BY <1>0, <1>5, <1>6, <2>4, <3>2
      <4>2. u[i] =< u[f - L] /\ u[f - L] + Window =< u[f] /\ u[f] =< now
        BY <1>5, <1>7, <2>2, <2>3, <4>1
      <4>3. u[i] \in Nat /\ u[f - L] \in Nat /\ u[f] \in Nat
        BY <1>5, <2>2, <4>1
      <4>4. now - u[i] >= Window
        BY <1>0, <4>2, <4>3
      <4>5. u[i + 2 * L - 1] = now
        BY <1>2, <3>2
      <4>. QED  BY <4>4, <4>5
    <3>. QED  BY <1>0, <2>4, <3>1, <3>2
  <2>. QED  BY <2>2, <2>3, <2>4
<1>9. InOrder(k)'
  BY <1>2, <1>8 DEF InOrder, u
<1>10. Len(u) - buckets'[k].count + 1 = f
  BY <1>0, <1>2, <1>5 DEF f
<1>11. Explained(k)'
  BY <1>5, <1>7, <1>10 DEF Explained, LimitOf, u, L
<1>. QED  BY <1>2, <1>5, <1>8, <1>9, <1>11 DEF u, L

LEMMA SameLogs == ASSUME AdmissionInv, UNCHANGED log PROVE InAnyMinute'
  BY DEF AdmissionInv, InAnyMinute, LimitOf

LEMMA AdmitStep == ASSUME AdmissionInv, NEW k \in Keys, Admit(k), UNCHANGED now PROVE AdmissionInv'
<1>1. AdmissionTypeOK'
  BY RequestType DEF AdmissionInv
<1>2. ASSUME NEW q \in Keys \ {k}
      PROVE  /\ InOrder(q)' /\ (IF q \in DOMAIN buckets' THEN Explained(q)' ELSE Forgotten(q)')
             /\ log'[q] = log[q]
  <2>1. log'[q] = log[q] /\ now' \in Nat /\ now' >= now
    BY DEF Admit, AdmissionInv, AdmissionTypeOK
  <2>2. (q \in DOMAIN buckets' <=> q \in DOMAIN Kept) /\ (q \in DOMAIN Kept => buckets'[q] = Kept[q])
    BY DEF Admit, With
  <2>. QED  BY <2>1, <2>2, Retained, Untouched
<1>3. InAnyMinute'
  BY <1>2, Admitted DEF AdmissionInv, InAnyMinute, LimitOf
<1>. QED  BY <1>1, <1>2, <1>3, Admitted DEF AdmissionInv

LEMMA RefusalStep ==
    ASSUME AdmissionInv, NEW k \in Keys, RefuseFull(k) \/ RefuseLimited(k), UNCHANGED now
    PROVE  AdmissionInv' /\ (\A q \in DOMAIN buckets' : q \in DOMAIN Kept) /\ buckets' = Kept
<1>1. AdmissionTypeOK'
  BY RequestType DEF AdmissionInv
<1>2. ASSUME RefuseLimited(k) PROVE k \in DOMAIN Kept
  BY <1>2, LimitIsPositive DEF RefuseLimited, Below, Bucket
<1>3. buckets' = Kept
  BY <1>2 DEF RefuseFull, RefuseLimited, With, Bucket, Kept
<1>4. UNCHANGED log /\ now' \in Nat /\ now' >= now
  BY DEF RefuseFull, RefuseLimited, AdmissionInv, AdmissionTypeOK
<1>5. ASSUME NEW q \in Keys
      PROVE  InOrder(q)' /\ (IF q \in DOMAIN buckets' THEN Explained(q)' ELSE Forgotten(q)')
  BY <1>3, <1>4, Retained, Untouched
<1>6. InAnyMinute'
  BY <1>4, SameLogs
<1>. QED  BY <1>1, <1>3, <1>5, <1>6 DEF AdmissionInv

LEMMA AdvanceStep == ASSUME AdmissionInv, Advance \/ UNCHANGED admissionVars PROVE AdmissionInv'
<1>1. UNCHANGED <<buckets, log>> /\ now' \in Nat /\ now' >= now
  BY DEF Advance, admissionVars, AdmissionInv, AdmissionTypeOK
<1>2. AdmissionTypeOK'
  BY <1>1 DEF AdmissionInv, AdmissionTypeOK, Advance, admissionVars, NoVerdict
<1>3. ASSUME NEW q \in Keys
      PROVE  InOrder(q)' /\ (IF q \in DOMAIN buckets' THEN Explained(q)' ELSE Forgotten(q)')
  <2>1. q \notin DOMAIN buckets' => Forgotten(q)
    BY <1>1 DEF AdmissionInv
  <2>. QED  BY <1>1, <2>1, Untouched
<1>. QED  BY <1>1, <1>2, <1>3, SameLogs DEF AdmissionInv

LEMMA AdmissionSteps ==
    ASSUME [AdmissionNext]_admissionVars
    PROVE  \/ Advance \/ UNCHANGED admissionVars
           \/ \E k \in Keys : (Admit(k) \/ RefuseFull(k) \/ RefuseLimited(k)) /\ UNCHANGED now
<1>1. ASSUME NEW path \in Paths, NEW peer \in Addresses, NEW header \in Addresses \cup {NoHeader},
             Request(path, peer, header)
      PROVE  \E k \in Keys : (Admit(k) \/ RefuseFull(k) \/ RefuseLimited(k)) /\ UNCHANGED now
  <2>1. <<GroupOf[path], AddressOf(peer, header)>> \in Keys
    BY AdmissionAssumption DEF Keys, AddressOf
  <2>. QED  BY <1>1, <2>1 DEF Request
<1>. QED  BY <1>1 DEF AdmissionNext

LEMMA AdmissionInductive == ASSUME AdmissionInv, [AdmissionNext]_admissionVars PROVE AdmissionInv'
<1>1. ASSUME NEW k \in Keys, Admit(k) \/ RefuseFull(k) \/ RefuseLimited(k), UNCHANGED now PROVE AdmissionInv'
  BY <1>1, AdmitStep, RefusalStep
<1>. QED  BY <1>1, AdmissionSteps, AdvanceStep

\* The window of a key counts its latest requests, whatever other keys do.
THEOREM AdmissionInvariance == AdmissionSpec => []AdmissionInv
<1>. QED  BY AdmissionStarts, AdmissionInductive, PTL DEF AdmissionSpec

\* No client ever gets two limits into a minute.
THEOREM MinuteIsBounded == AdmissionSpec => []InAnyMinute
<1>1. AdmissionInv => InAnyMinute
  BY DEF AdmissionInv
<1>. QED  BY AdmissionInvariance, <1>1, PTL

LEMMA BucketIsRecent ==
    ASSUME AdmissionInv, NEW k \in DOMAIN Kept
    PROVE  Recent(k) /\ k \in Keys
<1>. DEFINE n == Len(log[k]) c == buckets[k].count f == n - c + 1
<1>1. /\ k \in Keys /\ log[k] \in Seq(Nat) /\ n \in Nat /\ now \in Nat /\ c \in Nat /\ LimitOf(k) \in Nat
      /\ now - buckets[k].start < Window /\ Explained(k) /\ InOrder(k) /\ Window \in Nat
  BY Retained, LimitIsPositive, AdmissionAssumption DEF AdmissionInv, AdmissionTypeOK
<1>2. c \in 1 .. LimitOf(k) /\ f >= 1 /\ log[k][f] = buckets[k].start
  BY <1>1 DEF Explained
<1>3. \A i, j \in 1 .. n : i =< j => log[k][i] =< log[k][j]
  BY <1>1 DEF InOrder
<1>4. \A i \in 1 .. n : log[k][i] \in Nat
  BY <1>1
<1>. HIDE DEF n, c
<1>5. f \in 1 .. n /\ n \in 1 .. n /\ f =< n
  BY <1>1, <1>2
<1>. HIDE DEF f
<1>6. log[k][f] =< log[k][n] /\ log[k][n] \in Nat /\ log[k][f] \in Nat
  BY <1>3, <1>4, <1>5
<1>7. now - log[k][n] < Window
  <2>1. now - log[k][f] < Window /\ now \in Nat /\ Window \in Nat
    BY <1>1, <1>2
  <2>. QED  BY <1>6, <2>1
<1>8. log[k] # << >>
  BY <1>5 DEF n
<1>. QED  BY <1>1, <1>7, <1>8 DEF Recent, n

LEMMA RefusalIsLate == ASSUME AdmissionInv, LimitUsedUp, [AdmissionNext]_admissionVars PROVE LimitUsedUp'
<1>1. ASSUME NEW k \in Keys, RefuseLimited(k), UNCHANGED now PROVE LimitUsedUp'
  <2>1. k \in DOMAIN Kept /\ Kept[k].count >= LimitOf(k)
    <3>1. k \in DOMAIN Kept
      BY <1>1, LimitIsPositive DEF RefuseLimited, Below, Bucket
    <3>2. Kept[k].count \in Nat /\ LimitOf(k) \in Nat
      BY <3>1, Retained, LimitIsPositive DEF AdmissionInv, AdmissionTypeOK
    <3>. QED  BY <1>1, <3>1, <3>2 DEF RefuseLimited, Below, Bucket
  <2>2. Kept[k] = buckets[k] /\ now - buckets[k].start < Window /\ Explained(k)
    BY <2>1, Retained DEF AdmissionInv
  <2>. DEFINE n == Len(log[k]) L == LimitOf(k) c == buckets[k].count
  <2>3. c = L /\ n - c + 1 >= 1 /\ log[k][n - c + 1] = buckets[k].start /\ n \in Nat /\ L \in Nat
    BY <2>1, <2>2, LimitIsPositive DEF Explained, AdmissionInv, AdmissionTypeOK
  <2>. HIDE DEF c
  <2>4. n >= L /\ now - log[k][n - L + 1] < Window
    BY <2>2, <2>3
  <2>5. verdict'.key = k /\ UNCHANGED <<log, now>>
    BY <1>1 DEF RefuseLimited
  <2>. QED  BY <2>4, <2>5 DEF LimitUsedUp, LimitOf
<1>2. ASSUME verdict' = NoVerdict \/ verdict'.kind = "full" PROVE LimitUsedUp'
  BY <1>2 DEF LimitUsedUp, NoVerdict
<1>3. CASE UNCHANGED admissionVars
  BY <1>3 DEF admissionVars, LimitUsedUp, LimitOf
<1>4. ASSUME NEW k \in Keys, Admit(k) \/ RefuseFull(k)
      PROVE  verdict' = NoVerdict \/ verdict'.kind = "full"
  BY <1>4 DEF Admit, RefuseFull
<1>5. Advance => verdict' = NoVerdict
  BY DEF Advance
<1>. QED  BY <1>1, <1>2, <1>3, <1>4, <1>5, AdmissionSteps

LEMMA FullStep == ASSUME AdmissionInv, FullWithOthers, [AdmissionNext]_admissionVars PROVE FullWithOthers'
<1>0. IsFiniteSet(DOMAIN buckets) /\ IsFiniteSet(DOMAIN Kept) /\ DOMAIN Kept \subseteq DOMAIN buckets
  BY KeysAreFinite, Retained, FS_Subset DEF AdmissionInv, AdmissionTypeOK
<1>1. Cardinality(DOMAIN Kept) \in Nat /\ Cardinality(DOMAIN Kept) =< Capacity
  BY <1>0, FS_Subset, FS_CardinalityType, AdmissionAssumption DEF FullWithOthers
<1>2. ASSUME NEW k \in Keys, Admit(k) PROVE FullWithOthers'
  <2>1. DOMAIN buckets' = DOMAIN Kept \cup {k} /\ verdict' = NoVerdict
    BY <1>2 DEF Admit, With
  <2>2. Cardinality(DOMAIN buckets') =< Capacity
    <3>1. CASE k \in DOMAIN Kept
      <4>1. DOMAIN buckets' = DOMAIN Kept
        BY <2>1, <3>1
      <4>. QED  BY <1>1, <4>1
    <3>2. CASE k \notin DOMAIN Kept
      <4>1. Cardinality(DOMAIN buckets') = Cardinality(DOMAIN Kept) + 1
        BY <1>0, <2>1, <3>2, FS_AddElement
      <4>2. Cardinality(DOMAIN Kept) < Capacity
        BY <1>2, <3>2 DEF Admit, Fits
      <4>. QED  BY <1>1, <4>1, <4>2, AdmissionAssumption
    <3>. QED  BY <3>1, <3>2
  <2>. QED  BY <2>1, <2>2 DEF FullWithOthers, NoVerdict
<1>3. ASSUME NEW k \in Keys, RefuseFull(k), UNCHANGED now PROVE FullWithOthers'
  <2>. DEFINE others == {q \in Keys \ {k} : Recent(q)}
  <2>1. k \notin DOMAIN Kept /\ Cardinality(DOMAIN Kept) >= Capacity
    BY <1>1, <1>3, AdmissionAssumption DEF RefuseFull, Fits
  <2>2. DOMAIN Kept \subseteq others
    BY <2>1, BucketIsRecent
  <2>3. IsFiniteSet(others)
    BY KeysAreFinite, FS_Subset
  <2>. HIDE DEF others
  <2>4. Cardinality(others) \in Nat /\ Cardinality(DOMAIN Kept) =< Cardinality(others)
    BY <2>2, <2>3, FS_Subset, FS_CardinalityType
  <2>5. Cardinality(others) >= Capacity
    BY <1>1, <2>1, <2>4, AdmissionAssumption
  <2>6. buckets' = Kept /\ UNCHANGED <<log, now>> /\ verdict' = [key |-> k, kind |-> "full"]
    BY <1>3 DEF RefuseFull
  <2>7. {q \in Keys \ {verdict'.key} : Recent(q)'} = others
    BY <2>6 DEF Recent, others
  <2>. QED  BY <1>1, <2>5, <2>6, <2>7 DEF FullWithOthers
<1>4. ASSUME NEW k \in Keys, RefuseLimited(k), UNCHANGED now PROVE FullWithOthers'
  <2>1. buckets' = Kept
    BY <1>4, RefusalStep
  <2>2. verdict'.kind = "limited"
    BY <1>4 DEF RefuseLimited
  <2>. QED  BY <1>1, <2>1, <2>2 DEF FullWithOthers
<1>5. CASE Advance
  <2>1. UNCHANGED buckets /\ verdict'.kind = "none"
    BY <1>5 DEF Advance, NoVerdict
  <2>. QED  BY <2>1 DEF FullWithOthers
<1>6. CASE UNCHANGED admissionVars
  BY <1>6 DEF admissionVars, FullWithOthers, Recent
<1>. QED  BY <1>2, <1>3, <1>4, <1>5, <1>6, AdmissionSteps

\* The map is bounded, and full only of clients with recent requests.
THEOREM StorageIsBounded == AdmissionSpec => []FullWithOthers
<1>1. AdmissionInit => FullWithOthers
  <2>. SUFFICES ASSUME AdmissionInit PROVE FullWithOthers
    OBVIOUS
  <2>1. DOMAIN buckets = {} /\ verdict.kind = "none"
    BY DEF AdmissionInit, NoVerdict
  <2>2. Cardinality(DOMAIN buckets) = 0
    BY <2>1, FS_EmptySet
  <2>. QED  BY <2>1, <2>2, AdmissionAssumption DEF FullWithOthers
<1>. QED  BY AdmissionInvariance, <1>1, FullStep, PTL DEF AdmissionSpec

\* Whoever is refused has used up its limit, or the map is full of the recent
\* requests of others.
THEOREM RefusalsAreEarned == AdmissionSpec => []NoEarlyRefusal
<1>1. AdmissionInit => LimitUsedUp
  BY DEF AdmissionInit, LimitUsedUp, NoVerdict
<1>2. AdmissionSpec => []LimitUsedUp
  BY AdmissionInvariance, <1>1, RefusalIsLate, PTL DEF AdmissionSpec
<1>3. LimitUsedUp /\ FullWithOthers => NoEarlyRefusal
  BY DEF NoEarlyRefusal
<1>. QED  BY <1>2, <1>3, StorageIsBounded, PTL
=============================================================================
