--------------------------- MODULE PlacementProofs ---------------------------
(***************************************************************************)
(* Proofs about Placement, for any number of requests, orders, costs and   *)
(* any limit.                                                              *)
(***************************************************************************)
EXTENDS Placement, FiniteSetTheorems, TLAPS

LEMMA OpenIsFinite == IsFiniteSet(OpenOrders)
  BY PlacementAssumption, FS_Subset DEF OpenOrders

\* Closing orders leaves no more open than before.
LEMMA ClosingShrinks ==
    ASSUME OpenOrders' \subseteq OpenOrders
    PROVE  /\ Cardinality(OpenOrders') \in Nat /\ Cardinality(OpenOrders) \in Nat
           /\ Cardinality(OpenOrders') =< Cardinality(OpenOrders)
<1>1. IsFiniteSet(OpenOrders) /\ IsFiniteSet(OpenOrders')
  BY OpenIsFinite, FS_Subset
<1>2. Cardinality(OpenOrders') =< Cardinality(OpenOrders)
  BY <1>1, FS_Subset
<1>3. Cardinality(OpenOrders') \in Nat /\ Cardinality(OpenOrders) \in Nat
  BY <1>1, FS_CardinalityType
<1>. QED  BY <1>2, <1>3

LEMMA Initially == PlacementInit => PlacementInv
<1>. SUFFICES ASSUME PlacementInit PROVE PlacementInv
  OBVIOUS
<1>. USE PlacementAssumption DEF PlacementInit
<1>1. PlacementTypeOK
  BY DEF PlacementTypeOK, Statements, Results
<1>2. \A r \in Connections : Found(r)
  BY DEF Found, Statements
<1>3. LateInv
  BY DEF LateInv, LateOrdersHadBegun
<1>4. OpenOrders = {}
  BY DEF OpenOrders
<1>5. Cardinality(OpenOrders) = 0
  BY <1>4, FS_EmptySet
<1>6. OpenWithinLimit
  BY <1>5 DEF OpenWithinLimit
<1>. QED  BY <1>1, <1>2, <1>3, <1>6 DEF PlacementInv

LEMMA Typed == ASSUME PlacementInv, [PlacementNext]_placementVars PROVE PlacementTypeOK'
<1>. USE PlacementAssumption DEF PlacementTypeOK, PlacementInv
<1>1. ASSUME NEW r \in Connections, Proceeds(r), at[r] # "idle", at[r] # "commit"
      PROVE  /\ at' \in [Connections -> Statements \cup {"idle"}]
             /\ result' \in [Connections -> Results]
  BY <1>1 DEF Proceeds, Following, Statements
<1>2. ASSUME NEW r \in Connections, NEW a \in Results, Finishes(r, a)
      PROVE  /\ at' \in [Connections -> Statements \cup {"idle"}]
             /\ result' \in [Connections -> Results]
             /\ row' \in Connections \cup {Unlocked, Tick} /\ lock' \in Connections \cup {Unlocked}
  BY <1>2 DEF Finishes, Statements
<1>3. ASSUME NEW r \in Connections, Submit(r) PROVE PlacementTypeOK'
  BY <1>3 DEF Submit, Following, Statements, Results
<1>4. ASSUME NEW r \in Connections, TakeLock(r) PROVE PlacementTypeOK'
  BY <1>1, <1>4 DEF TakeLock
<1>5. ASSUME NEW r \in Connections,
             Lookup(r) \/ Count(r) \/ ReadPrice(r) \/ Reserve(r) \/ InsertOrder(r) \/ Breaks(r)
      PROVE  PlacementTypeOK'
  <2>1. UNCHANGED <<orders, available, want, fresh, stale, late>>
    BY <1>5 DEF Lookup, Count, ReadPrice, Reserve, InsertOrder, Breaks, OnlyReads
  <2>2. \/ Proceeds(r) /\ at[r] # "idle" /\ at[r] # "commit" /\ lock' = lock /\ row' \in {row, r}
        \/ \E a \in Results : Finishes(r, a)
    BY <1>5 DEF Lookup, Count, ReadPrice, Reserve, InsertOrder, Breaks, Results
  <2>. QED  BY <1>1, <1>2, <2>1, <2>2
<1>6. ASSUME NEW r \in Connections, CommitOrder(r) PROVE PlacementTypeOK'
  <2>1. Found(r)
    OBVIOUS
  <2>2. available' \in Nat
    BY <1>6, <2>1 DEF CommitOrder, Found
  <2>3. orders' \in [ClientIds -> {"absent", "open", "closed"}] /\ late' \in SUBSET (Connections \X ClientIds)
    BY <1>6 DEF CommitOrder
  <2>4. \E a \in Results : Finishes(r, a)
    BY <1>6 DEF CommitOrder, Results
  <2>. QED  BY <1>2, <1>6, <2>2, <2>3, <2>4 DEF CommitOrder
<1>7. CASE TickLocksRow
  BY <1>7 DEF TickLocksRow
<1>8. CASE TickCommit
  BY <1>8 DEF TickCommit, OpenOrders
<1>9. ASSUME NEW c \in ClientIds, Cancel(c) PROVE PlacementTypeOK'
  BY <1>9 DEF Cancel
<1>10. CASE GrowsStale \/ Recovers \/ UNCHANGED placementVars
  BY <1>10 DEF GrowsStale, Recovers, placementVars
<1>. QED
  BY <1>3, <1>4, <1>5, <1>6, <1>7, <1>8, <1>9, <1>10 DEF PlacementNext, Executes

\* A step of one request leaves what another has found as it was, unless it
\* writes.
LEMMA OthersKeep ==
    ASSUME PlacementInv, NEW r \in Connections, NEW q \in Connections \ {r},
           at'[q] = at[q], want'[q] = want[q],
           lock' \in {lock, r, Unlocked}, lock' = lock \/ lock \in {r, Unlocked},
           row' \in {row, r, Unlocked}, row' = row \/ row \in {r, Unlocked},
           UNCHANGED <<orders, available>>
    PROVE  Found(q)'
<1>1. Found(q)
  BY DEF PlacementInv
<1>2. OpenOrders' = OpenOrders
  BY DEF OpenOrders
<1>. QED  BY <1>1, <1>2, PlacementAssumption DEF Found, Statements, PlacementInv, PlacementTypeOK

\* So do fills and cancellations: they close orders and give back funds.
LEMMA ClosingKeeps ==
    ASSUME PlacementInv, NEW q \in Connections, UNCHANGED <<lock, at, want>>,
           row' = row \/ row \in {Tick, Unlocked},
           NEW c \in ClientIds, orders[c] = "open", orders' = [orders EXCEPT ![c] = "closed"],
           NEW gain \in Nat, available' = available + gain
    PROVE  Found(q)'
<1>1. Found(q) /\ PlacementTypeOK
  BY DEF PlacementInv
<1>2. OpenOrders' \subseteq OpenOrders
  BY <1>1 DEF OpenOrders, PlacementTypeOK
<1>3. Cardinality(OpenOrders) < MaxOpen => Cardinality(OpenOrders') < MaxOpen
  BY <1>2, ClosingShrinks, PlacementAssumption
<1>4. orders[want[q]] = "absent" => orders'[want'[q]] = "absent"
  BY <1>1 DEF PlacementTypeOK
<1>5. Cost[want[q]] \in Nat /\ available \in Nat
  BY <1>1, PlacementAssumption DEF PlacementTypeOK
<1>6. available >= Cost[want[q]] => available' >= Cost[want'[q]]
  BY <1>5
<1>. HIDE DEF OpenOrders
<1>. QED  BY <1>1, <1>3, <1>4, <1>6, PlacementAssumption DEF Found, PlacementTypeOK

LEMMA FoundStep ==
    ASSUME PlacementInv, [PlacementNext]_placementVars, NEW q \in Connections
    PROVE  Found(q)'
<1>. USE PlacementAssumption
<1>0. PlacementTypeOK /\ Found(q) /\ \A r \in Connections : Found(r)
  BY DEF PlacementInv
<1>1. ASSUME NEW r \in Connections, Submit(r) PROVE Found(q)'
  <2>1. CASE q = r
    BY <1>1, <2>1, <1>0 DEF Submit, Following, Found, Statements, PlacementTypeOK
  <2>2. CASE q # r
    BY <1>1, <2>2, <1>0, OthersKeep DEF Submit, PlacementTypeOK
  <2>. QED  BY <2>1, <2>2
<1>2. ASSUME NEW r \in Connections, TakeLock(r) PROVE Found(q)'
  <2>1. CASE q = r
    BY <1>2, <2>1, <1>0 DEF TakeLock, Proceeds, Following, Found, Statements, PlacementTypeOK
  <2>2. CASE q # r
    BY <1>2, <2>2, <1>0, OthersKeep DEF TakeLock, Proceeds, PlacementTypeOK
  <2>. QED  BY <2>1, <2>2
<1>3. ASSUME NEW r \in Connections,
             Lookup(r) \/ Count(r) \/ ReadPrice(r) \/ Reserve(r) \/ InsertOrder(r) \/ Breaks(r)
      PROVE  Found(q)'
  <2>1. UNCHANGED <<orders, available, want>>
    BY <1>3 DEF Lookup, Count, ReadPrice, Reserve, InsertOrder, Breaks, OnlyReads
  <2>2. OpenOrders' = OpenOrders
    BY <2>1 DEF OpenOrders
  <2>3. CASE \E a \in Results : Finishes(r, a)
    <3>1. CASE q = r
      BY <2>3, <3>1, <1>0 DEF Finishes, Found, Statements, PlacementTypeOK
    <3>2. CASE q # r
      BY <2>1, <2>3, <3>2, <1>0, OthersKeep DEF Finishes, PlacementTypeOK
    <3>. QED  BY <3>1, <3>2
  <2>4. CASE Proceeds(r) /\ lock' = lock /\ (row' = row \/ (row = Unlocked /\ row' = r))
    <3>1. CASE q # r
      BY <2>1, <2>4, <3>1, <1>0, OthersKeep DEF Proceeds, PlacementTypeOK
    <3>2. CASE q = r /\ Lookup(r)
      BY <2>1, <2>2, <2>4, <3>2, <1>0 DEF Lookup, Finishes, Proceeds, Following, Found,
         Statements, PlacementTypeOK
    <3>3. CASE q = r /\ Count(r)
      BY <2>1, <2>2, <2>4, <3>3, <1>0 DEF Count, Finishes, Proceeds, Following, Found,
         Statements, PlacementTypeOK
    <3>4. CASE q = r /\ ReadPrice(r)
      BY <2>1, <2>2, <2>4, <3>4, <1>0 DEF ReadPrice, Finishes, Proceeds, Following, Found,
         Statements, PlacementTypeOK
    <3>5. CASE q = r /\ Reserve(r)
      BY <2>1, <2>2, <2>4, <3>5, <1>0 DEF Reserve, Finishes, Proceeds, Following, Found,
         Statements, PlacementTypeOK
    <3>6. CASE q = r /\ InsertOrder(r)
      BY <2>1, <2>2, <2>4, <3>6, <1>0 DEF InsertOrder, Finishes, Proceeds, Following, Found,
         Statements, PlacementTypeOK
    <3>7. CASE q = r /\ Breaks(r)
      BY <2>4, <3>7, <1>0 DEF Breaks, Finishes, Proceeds, Following, Found, Statements,
         PlacementTypeOK
    <3>. QED  BY <1>3, <3>1, <3>2, <3>3, <3>4, <3>5, <3>6, <3>7
  <2>5. \/ Proceeds(r) /\ lock' = lock /\ (row' = row \/ (row = Unlocked /\ row' = r))
        \/ \E a \in Results : Finishes(r, a)
    <3>1. "existing" \in Results /\ "refused" \in Results /\ "unavailable" \in Results
      BY DEF Results
    <3>2. CASE Lookup(r)
      BY <3>1, <3>2 DEF Lookup
    <3>3. CASE Count(r)
      BY <3>1, <3>3 DEF Count
    <3>4. CASE ReadPrice(r)
      BY <3>1, <3>4 DEF ReadPrice
    <3>5. CASE Reserve(r)
      BY <3>1, <3>5 DEF Reserve
    <3>6. CASE InsertOrder(r)
      BY <3>1, <3>6 DEF InsertOrder
    <3>7. CASE Breaks(r)
      BY <3>1, <3>7 DEF Breaks
    <3>. QED  BY <1>3, <3>2, <3>3, <3>4, <3>5, <3>6, <3>7
  <2>. QED  BY <2>3, <2>4, <2>5
<1>4. ASSUME NEW r \in Connections, CommitOrder(r) PROVE Found(q)'
  <2>1. lock = r /\ at' = [at EXCEPT ![r] = "idle"]
    BY <1>4, <1>0 DEF CommitOrder, Found, Statements, Finishes
  <2>2. at'[q] \in {"idle", "lock"}
    BY <2>1, <1>0 DEF Found, Statements, PlacementTypeOK
  <2>. QED  BY <2>2 DEF Found, Statements
<1>5. CASE TickLocksRow
  <2>1. OpenOrders' = OpenOrders
    BY <1>5 DEF TickLocksRow, OpenOrders
  <2>. QED  BY <1>0, <1>5, <2>1 DEF TickLocksRow, Found, PlacementTypeOK
<1>6. CASE TickCommit
  <2>1. CASE UNCHANGED <<orders, available>>
    <3>1. OpenOrders' = OpenOrders
      BY <2>1 DEF OpenOrders
    <3>. QED  BY <1>0, <1>6, <2>1, <3>1 DEF TickCommit, Found, PlacementTypeOK
  <2>2. CASE ~ UNCHANGED <<orders, available>>
    <3>1. PICK c \in OpenOrders, unspent \in {0, 1} :
              orders' = [orders EXCEPT ![c] = "closed"] /\ available' = available + unspent
      BY <1>6, <2>2 DEF TickCommit
    <3>2. c \in ClientIds /\ orders[c] = "open" /\ unspent \in Nat
      BY DEF OpenOrders
    <3>. QED  BY <1>6, <3>1, <3>2, ClosingKeeps DEF TickCommit
  <2>. QED  BY <2>1, <2>2
<1>7. ASSUME NEW c \in ClientIds, Cancel(c) PROVE Found(q)'
  BY <1>7, ClosingKeeps DEF Cancel
<1>8. CASE GrowsStale \/ Recovers \/ UNCHANGED placementVars
  <2>1. UNCHANGED <<orders, available, lock, row, at, want>>
    BY <1>8 DEF GrowsStale, Recovers, placementVars
  <2>2. OpenOrders' = OpenOrders
    BY <2>1 DEF OpenOrders
  <2>. QED  BY <1>0, <2>1, <2>2 DEF Found
<1>. QED  BY <1>1, <1>2, <1>3, <1>4, <1>5, <1>6, <1>7, <1>8 DEF PlacementNext, Executes

\* A connection whose order was accepted late begins its next transaction with a
\* now() for which the price is stale.
LEMMA LateStep == ASSUME PlacementInv, [PlacementNext]_placementVars PROVE LateInv'
<1>. USE PlacementAssumption
<1>0. PlacementTypeOK /\ LateInv /\ LateOrdersHadBegun /\ \A r \in Connections : Found(r)
  BY DEF PlacementInv, LateInv
<1>1. ASSUME NEW r \in Connections, CommitOrder(r) PROVE LateInv'
  <2>1. at[r] = "commit" /\ at' = [at EXCEPT ![r] = "idle"] /\ UNCHANGED <<fresh, stale>>
    BY <1>1 DEF CommitOrder, Finishes
  <2>2. r \notin stale
    BY <1>0, <2>1 DEF LateInv
  <2>3. \A p \in late : p[1] # r
    BY <1>0, <2>1, <2>2 DEF LateInv
  <2>4. late' = late \/ (~fresh /\ late' = late \cup {<<r, want[r]>>})
    BY <1>1 DEF CommitOrder
  <2>5. \A q \in Connections : at'[q] \in {at[q], "idle"}
    BY <1>0, <2>1 DEF PlacementTypeOK
  <2>6. \A q \in stale' : ~fresh' /\ at'[q] \notin {"reserve", "insert", "commit"}
    BY <1>0, <2>1, <2>5 DEF LateInv, PlacementTypeOK
  <2>7. \A p \in late' : ~fresh' /\ (at'[p[1]] = "idle" \/ p[1] \in stale')
    <3>1. \A p \in late : p[1] \in Connections
      BY <1>0 DEF PlacementTypeOK
    <3>. QED  BY <1>0, <2>1, <2>4, <2>5, <3>1 DEF LateInv, PlacementTypeOK
  <2>8. LateOrdersHadBegun'
    BY <1>0, <2>3, <2>4 DEF LateOrdersHadBegun
  <2>. QED  BY <2>6, <2>7, <2>8 DEF LateInv
<1>2. ASSUME NEW r \in Connections,
             TakeLock(r) \/ Lookup(r) \/ Count(r) \/ ReadPrice(r) \/ Reserve(r) \/ InsertOrder(r) \/ Breaks(r)
      PROVE  LateInv'
  <2>1. UNCHANGED <<fresh, stale, late>>
    BY <1>2 DEF TakeLock, Lookup, Count, ReadPrice, Reserve, InsertOrder, Breaks, OnlyReads
  <2>2. \A q \in Connections \ {r} : at'[q] = at[q]
    BY <1>0, <1>2 DEF TakeLock, Lookup, Count, ReadPrice, Reserve, InsertOrder, Breaks,
       Proceeds, Finishes, PlacementTypeOK
  <2>3. r \in stale /\ at[r] \notin {"reserve", "insert", "commit"}
            => at'[r] \notin {"reserve", "insert", "commit"}
    BY <1>0, <1>2 DEF TakeLock, Lookup, Count, ReadPrice, Reserve, InsertOrder, Breaks, Proceeds,
       Finishes, Following, PlacementTypeOK
  <2>4. at[r] # "idle"
    BY <1>2 DEF TakeLock, Lookup, Count, ReadPrice, Reserve, InsertOrder, Breaks
  <2>5. \A q \in stale' : ~fresh' /\ at'[q] \notin {"reserve", "insert", "commit"}
    BY <1>0, <2>1, <2>2, <2>3 DEF LateInv, PlacementTypeOK
  <2>6. \A p \in late' : ~fresh' /\ (at'[p[1]] = "idle" \/ p[1] \in stale')
    <3>1. \A p \in late : p[1] \in Connections
      BY <1>0 DEF PlacementTypeOK
    <3>. QED  BY <1>0, <2>1, <2>2, <2>4, <3>1 DEF LateInv
  <2>. QED  BY <1>0, <2>1, <2>5, <2>6 DEF LateInv, LateOrdersHadBegun
<1>3. ASSUME NEW r \in Connections, Submit(r) PROVE LateInv'
  <2>1. /\ at[r] = "idle" /\ at' = [at EXCEPT ![r] = "lock"] /\ UNCHANGED <<fresh, late>>
        /\ stale' = IF fresh THEN stale \ {r} ELSE stale \cup {r}
    BY <1>3 DEF Submit, Following
  <2>2. \A q \in Connections : at'[q] \in {at[q], "lock"} /\ (q # r => at'[q] = at[q])
    BY <1>0, <2>1 DEF PlacementTypeOK
  <2>3. \A q \in stale' : ~fresh' /\ at'[q] \notin {"reserve", "insert", "commit"}
    BY <1>0, <2>1, <2>2 DEF LateInv, PlacementTypeOK
  <2>4. \A p \in late' : ~fresh' /\ (at'[p[1]] = "idle" \/ p[1] \in stale')
    <3>1. \A p \in late : p[1] \in Connections
      BY <1>0 DEF PlacementTypeOK
    <3>. QED  BY <1>0, <2>1, <2>2, <3>1 DEF LateInv
  <2>. QED  BY <1>0, <2>1, <2>3, <2>4 DEF LateInv, LateOrdersHadBegun
<1>4. CASE TickLocksRow \/ TickCommit \/ UNCHANGED placementVars \/ \E c \in ClientIds : Cancel(c)
  <2>1. UNCHANGED <<at, fresh, stale, late>>
    BY <1>4 DEF TickLocksRow, TickCommit, Cancel, placementVars
  <2>. QED  BY <1>0, <2>1 DEF LateInv, LateOrdersHadBegun
<1>5. CASE GrowsStale
  <2>1. stale' = stale /\ late' = late /\ fresh
    BY <1>5 DEF GrowsStale
  <2>2. stale' = {} /\ late' = {}
    BY <1>0, <2>1 DEF LateInv
  <2>. QED  BY <2>2 DEF LateInv, LateOrdersHadBegun
<1>6. CASE Recovers
  BY <1>6 DEF Recovers, LateInv, LateOrdersHadBegun
<1>. QED  BY <1>1, <1>2, <1>3, <1>4, <1>5, <1>6 DEF PlacementNext, Executes

LEMMA LimitStep == ASSUME PlacementInv, [PlacementNext]_placementVars PROVE OpenWithinLimit'
<1>. USE PlacementAssumption
<1>0. PlacementTypeOK /\ OpenWithinLimit /\ \A r \in Connections : Found(r)
  BY DEF PlacementInv
<1>1. CASE OpenOrders' \subseteq OpenOrders
  BY <1>0, <1>1, ClosingShrinks DEF OpenWithinLimit
<1>2. ASSUME NEW r \in Connections, CommitOrder(r) PROVE OpenWithinLimit'
  <2>0. want[r] \in ClientIds /\ orders[want[r]] = "absent" /\ orders' = [orders EXCEPT ![want[r]] = "open"]
    BY <1>0, <1>2 DEF CommitOrder, Found, PlacementTypeOK
  <2>1. OpenOrders' = OpenOrders \cup {want[r]} /\ want[r] \notin OpenOrders
    BY <1>0, <2>0 DEF OpenOrders, PlacementTypeOK
  <2>2. Cardinality(OpenOrders) \in Nat /\ Cardinality(OpenOrders) < MaxOpen
    BY <1>0, <1>2, OpenIsFinite, FS_CardinalityType DEF CommitOrder, Found
  <2>3. Cardinality(OpenOrders') = Cardinality(OpenOrders) + 1
    BY <2>1, OpenIsFinite, FS_AddElement
  <2>. HIDE DEF OpenOrders
  <2>. QED  BY <2>2, <2>3 DEF OpenWithinLimit
<1>3. ASSUME ~ \E r \in Connections : CommitOrder(r) PROVE OpenOrders' \subseteq OpenOrders
  <2>1. CASE UNCHANGED orders
    BY <2>1 DEF OpenOrders
  <2>2. CASE \E c \in ClientIds : orders' = [orders EXCEPT ![c] = "closed"]
    BY <1>0, <2>2 DEF OpenOrders, PlacementTypeOK
  <2>3. orders' = orders \/ \E c \in ClientIds : orders' = [orders EXCEPT ![c] = "closed"]
    BY <1>3 DEF PlacementNext, Executes, Submit, TakeLock, Lookup, Count, ReadPrice, Reserve,
       InsertOrder, Breaks, OnlyReads,
       TickLocksRow, TickCommit, OpenOrders, Cancel, GrowsStale, Recovers, placementVars
  <2>. QED  BY <2>1, <2>2, <2>3
<1>. QED  BY <1>1, <1>2, <1>3

LEMMA Inductive == ASSUME PlacementInv, [PlacementNext]_placementVars PROVE PlacementInv'
<1>1. \A r \in Connections : Found(r)'
  BY FoundStep
<1>2. (\A r \in Connections : Found(r))'
  BY <1>1
<1>. QED  BY <1>2, Typed, LateStep, LimitStep DEF PlacementInv

\* What a request has found out stays true under its lock and the row it holds.
THEOREM Invariance == PlacementSpec => []PlacementInv
<1>. QED  BY Initially, Inductive, PTL DEF PlacementSpec

\* The limit on open orders holds for any number of racing requests.
THEOREM LimitHolds == PlacementSpec => []OpenWithinLimit
<1>1. PlacementInv => OpenWithinLimit
  BY DEF PlacementInv
<1>. QED  BY Invariance, <1>1, PTL

\* No retry is ever stopped by the unique key.
THEOREM RetriesAreKnown == PlacementSpec => []InsertIsNew
<1>1. PlacementInv => InsertIsNew
  BY DEF PlacementInv, Found, InsertIsNew
<1>. QED  BY Invariance, <1>1, PTL

\* A price that grows stale lets no more orders through than transactions that
\* had begun before, one for each connection.
THEOREM LateOrdersAreFew == PlacementSpec => []LateOrdersHadBegun
<1>1. PlacementInv => LateOrdersHadBegun
  BY DEF PlacementInv, LateInv
<1>. QED  BY Invariance, <1>1, PTL

LEMMA TrueAnswers ==
    ASSUME PlacementInv, [PlacementNext]_placementVars, NEW r \in Connections, result'[r] # result[r]
    PROVE  /\ result'[r] = "refused" => orders'[want[r]] = "absent"
           /\ result'[r] \in {"accepted", "existing"} => orders'[want[r]] # "absent"
<1>. USE PlacementAssumption
<1>0. PlacementTypeOK /\ Found(r)
  BY DEF PlacementInv
<1>1. ASSUME NEW q \in Connections, q # r, Submit(q) \/ Executes(q) \/ Breaks(q) PROVE FALSE
  BY <1>0, <1>1 DEF Executes, Submit, TakeLock, Lookup, Count, ReadPrice, Reserve, InsertOrder,
     CommitOrder, Breaks, Proceeds,
     Finishes, PlacementTypeOK
<1>2. ~(TickLocksRow \/ TickCommit \/ GrowsStale \/ Recovers \/ UNCHANGED placementVars \/ \E c \in ClientIds : Cancel(c))
  BY DEF TickLocksRow, TickCommit, GrowsStale, Recovers, placementVars, Cancel
<1>3. CASE Submit(r) \/ TakeLock(r) \/ Breaks(r) \/ ReadPrice(r)
  BY <1>0, <1>3 DEF Submit, TakeLock, Breaks, ReadPrice, Proceeds, Finishes, PlacementTypeOK
<1>4. CASE Lookup(r)
  BY <1>0, <1>4 DEF Lookup, Proceeds, Finishes, OnlyReads, PlacementTypeOK
<1>5. CASE Count(r) \/ Reserve(r)
  BY <1>0, <1>5 DEF Count, Reserve, Proceeds, Finishes, OnlyReads, Found, PlacementTypeOK
<1>6. CASE InsertOrder(r)
  BY <1>0, <1>6 DEF InsertOrder, Proceeds, Finishes, OnlyReads, Found, PlacementTypeOK
<1>7. CASE CommitOrder(r)
  BY <1>0, <1>7 DEF CommitOrder, Finishes, PlacementTypeOK
<1>. QED  BY <1>1, <1>2, <1>3, <1>4, <1>5, <1>6, <1>7 DEF PlacementNext, Executes

\* Clients are told the truth about their order.
THEOREM AnswersHold == PlacementSpec => AnswersAreTrue
<1>1. PlacementInv /\ [PlacementNext]_placementVars =>
        [\A r \in Connections : result'[r] # result[r] =>
            /\ result'[r] = "refused" => orders'[want[r]] = "absent"
            /\ result'[r] \in {"accepted", "existing"} => orders'[want[r]] # "absent"]_placementVars
  BY TrueAnswers
<1>. QED  BY Invariance, <1>1, PTL DEF PlacementSpec, AnswersAreTrue

LEMMA AtomicStep ==
    ASSUME PlacementInv, [PlacementNext]_placementVars
    PROVE  [A!Next]_<<orders, available>>
<1>. USE PlacementAssumption
<1>0. PlacementTypeOK /\ \A r \in Connections : Found(r)
  BY DEF PlacementInv
<1>1. A!OpenOrders = OpenOrders
  BY DEF A!OpenOrders, OpenOrders
<1>2. ASSUME NEW r \in Connections, CommitOrder(r) PROVE A!Next
  <2>1. want[r] \in ClientIds
    BY <1>0 DEF PlacementTypeOK
  <2>2. orders[want[r]] = "absent" /\ Cardinality(OpenOrders) < MaxOpen /\ available >= Cost[want[r]]
    BY <1>0, <1>2 DEF CommitOrder, Found
  <2>3. A!Place(want[r])
    <3>1. orders' = [orders EXCEPT ![want[r]] = "open"] /\ available' = available - Cost[want[r]]
      BY <1>2 DEF CommitOrder
    <3>2. A!Cardinality(A!OpenOrders) = Cardinality(OpenOrders)
      BY <1>1 DEF A!Cardinality, Cardinality
    <3>. QED  BY <2>2, <3>1, <3>2 DEF A!Place
  <2>. QED  BY <2>1, <2>3 DEF A!Next
<1>3. CASE TickCommit
  <2>1. CASE UNCHANGED <<orders, available>>
    BY <2>1
  <2>2. CASE ~ UNCHANGED <<orders, available>>
    <3>1. PICK c \in OpenOrders, unspent \in {0, 1} :
              /\ orders' = [orders EXCEPT ![c] = "closed"]
              /\ unspent =< Cost[c]
              /\ available' = available + unspent
      BY <1>3, <2>2 DEF TickCommit
    <3>2. c \in ClientIds /\ orders[c] = "open" /\ unspent \in 0 .. Cost[c]
      BY <3>1 DEF OpenOrders
    <3>3. A!Close(c)
      BY <3>1, <3>2 DEF A!Close
    <3>. QED  BY <3>2, <3>3 DEF A!Next
  <2>. QED  BY <2>1, <2>2
<1>4. ASSUME NEW c \in ClientIds, Cancel(c) PROVE A!Next
  <2>1. Cost[c] \in 0 .. Cost[c]
    OBVIOUS
  <2>2. A!Close(c)
    BY <1>4, <2>1 DEF Cancel, A!Close
  <2>. QED  BY <2>2 DEF A!Next
<1>5. ASSUME ~ \E r \in Connections : CommitOrder(r), ~TickCommit, ~ \E c \in ClientIds : Cancel(c)
      PROVE  UNCHANGED <<orders, available>>
  BY <1>5 DEF PlacementNext, Executes, Submit, TakeLock, Lookup, Count, ReadPrice, Reserve,
     InsertOrder, Breaks, OnlyReads,
     TickLocksRow, GrowsStale, Recovers, placementVars
<1>. QED  BY <1>2, <1>3, <1>4, <1>5

\* place_order implements the one-step placement that Exchange takes it for.
THEOREM Implements == PlacementSpec => Atomic
<1>1. PlacementInit => A!Init
  BY PlacementAssumption DEF PlacementInit, A!Init
<1>2. PlacementInv /\ [PlacementNext]_placementVars => [A!Next]_<<orders, available>>
  BY AtomicStep
<1>. QED  BY Invariance, <1>1, <1>2, PTL DEF PlacementSpec, Atomic, A!Spec
==============================================================================
