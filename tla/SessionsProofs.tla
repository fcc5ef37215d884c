--------------------------- MODULE SessionsProofs ----------------------------
(***************************************************************************)
(* Proofs about Sessions, for any number of pods, orders and failures.     *)
(***************************************************************************)
EXTENDS Sessions, FiniteSetTheorems, TLAPS

LEMMA Initially == Init => IInv
<1>. SUFFICES ASSUME Init PROVE IInv
  OBVIOUS
<1>. USE SessionsAssumption DEF Init
<1>1. TypeOK
  <2>1. commands \in Seq(Command) /\ drawn \in 0 .. MaxOrders
    OBVIOUS
  <2>2. alive \in [Pods -> BOOLEAN]
    BY Zenon
  <2>. QED  BY <2>1, <2>2 DEF TypeOK, Places
<1>2. OnlyOwnerConnected /\ FundedOnce /\ PlacesOne /\ LateIsOne /\ DirectlyFenced
  BY DEF OnlyOwnerConnected, FundedOnce, PlacesOne, LateIsOne, LatePlaces, DirectlyFenced
<1>. QED  BY <1>1, <1>2 DEF IInv

\* What a pod turns to, and what it writes, have their types.
LEMMA GoesTyped ==
    ASSUME TypeOK, NEW p \in Pods, NEW place \in Places, NEW work \in SUBSET Orders, Goes(p, place, work)
    PROVE  pc' \in [Pods -> Places] /\ todo' \in [Pods -> SUBSET Orders]
  BY DEF TypeOK, Goes

LEMMA WroteTyped ==
    ASSUME TypeOK, NEW p \in Pods, NEW m \in Command, Wrote(p, m)
    PROVE  late' \in [Pods -> SUBSET Command]
  BY DEF TypeOK, Wrote

LEMMA Typed == ASSUME TypeOK, [Next]_vars PROVE TypeOK'
<1>. USE SessionsAssumption DEF TypeOK, Places
<1>1. ASSUME NEW p \in Pods, Claim(p) PROVE TypeOK'
  BY <1>1 DEF Claim, Goes, account
<1>2. ASSUME NEW p \in Pods, BootstrapRead(p) PROVE TypeOK'
  BY <1>2 DEF BootstrapRead, Ends, Goes, account, effects
<1>3. ASSUME NEW p \in Pods, BootstrapCommit(p) PROVE TypeOK'
  BY <1>3 DEF BootstrapCommit, Goes, session, effects
<1>4. ASSUME NEW p \in Pods, TickBegin(p) PROVE TypeOK'
  <2>1. \A b \in Batches : b \in SUBSET Orders
    BY DEF Batches, Old
  <2>. QED  BY <1>4, <2>1 DEF TickBegin, Goes, session, account, effects
<1>5. ASSUME NEW p \in Pods, CancelDirectly(p) PROVE TypeOK'
  <2>1. \A o \in Orders : CancelOf(o) \in Command
    BY DEF CancelOf, Command
  <2>2. PICK o \in Orders : /\ Goes(p, "expiring", todo[p] \ {o})
                            /\ \/ orders' = [orders EXCEPT ![o] = "closed"] /\ Wrote(p, CancelOf(o))
                               \/ UNCHANGED <<orders, late>>
    BY <1>5 DEF CancelDirectly
  <2>3. pc' \in [Pods -> Places] /\ todo' \in [Pods -> SUBSET Orders]
    BY <2>2, GoesTyped
  <2>4. late' \in [Pods -> SUBSET Command]
    BY <2>1, <2>2, WroteTyped
  <2>5. orders' \in [Orders -> {"new", "young", "old", "closed"}]
    BY <2>2
  <2>. QED  BY <1>5, <2>3, <2>4, <2>5 DEF CancelDirectly, session, account
<1>6. ASSUME NEW p \in Pods, ReadMarkets(p) PROVE TypeOK'
  <2>1. drawn < MaxOrders => drawn + 1 \in Orders /\ drawn + 1 \in 0 .. MaxOrders
    BY DEF Orders
  <2>2. pc' \in [Pods -> Places] /\ todo' \in [Pods -> SUBSET Orders]
    BY <1>6, <2>1, GoesTyped DEF ReadMarkets
  <2>3. drawn' \in 0 .. MaxOrders
    BY <1>6, <2>1 DEF ReadMarkets
  <2>. QED  BY <1>6, <2>2, <2>3 DEF ReadMarkets, session, account, effects
<1>7. ASSUME NEW p \in Pods, PlaceDirectly(p) PROVE TypeOK'
  <2>1. \A o \in Orders : PlaceOf(o) \in Command
    BY DEF PlaceOf, Command
  <2>2. CASE fresh /\ \E o \in todo[p] : orders' = [orders EXCEPT ![o] = "young"] /\ Wrote(p, PlaceOf(o))
    <3>1. orders' \in [Orders -> {"new", "young", "old", "closed"}] /\ late' \in [Pods -> SUBSET Command]
      BY <2>1, <2>2, WroteTyped
    <3>2. pc' \in [Pods -> Places] /\ todo' \in [Pods -> SUBSET Orders] /\ alive' \in [Pods -> BOOLEAN]
      <4>1. (Goes(p, "idle", {}) /\ UNCHANGED alive) \/ Ends(p)
        BY <1>7 DEF PlaceDirectly
      <4>2. pc' = [pc EXCEPT ![p] = "idle"] \/ pc' = [pc EXCEPT ![p] = "down"]
        BY <4>1 DEF Ends, Goes
      <4>3. todo' = [todo EXCEPT ![p] = {}]
        BY <4>1 DEF Ends, Goes
      <4>4. alive' = alive \/ alive' = [alive EXCEPT ![p] = FALSE]
        BY <4>1 DEF Ends
      <4>. QED  BY <4>2, <4>3, <4>4 DEF Places
    <3>. QED  BY <1>7, <3>1, <3>2 DEF PlaceDirectly, account
  <2>3. CASE UNCHANGED <<orders, late>>
    BY <1>7, <2>3 DEF PlaceDirectly, Ends, Goes, account
  <2>. QED  BY <1>7, <2>2, <2>3 DEF PlaceDirectly
<1>8. ASSUME NEW p \in Pods, Publish(p) PROVE TypeOK'
  <2>1. \A o \in Orders : PlaceOf(o) \in Command /\ CancelOf(o) \in Command
    BY DEF PlaceOf, CancelOf, Command
  <2>2. PICK o \in Orders :
          /\ LET m == IF pc[p] = "placing" THEN PlaceOf(o) ELSE CancelOf(o)
             IN  commands' = Append(commands, m) /\ Wrote(p, m)
          /\ \/ /\ Goes(p, IF pc[p] = "placing" THEN "idle" ELSE "expiring", todo[p] \ {o})
                /\ UNCHANGED failures
             \/ Fails /\ UNCHANGED <<pc, todo>>
    BY <1>8 DEF Publish
  <2>3. commands' \in Seq(Command) /\ late' \in [Pods -> SUBSET Command]
    BY <2>1, <2>2, WroteTyped
  <2>4. pc' \in [Pods -> Places] /\ todo' \in [Pods -> SUBSET Orders] /\ failures' \in Nat
    BY <2>2, GoesTyped DEF Fails
  <2>. QED  BY <1>8, <2>3, <2>4 DEF Publish, session, account
<1>9. ASSUME NEW p \in Pods, Notices(p) PROVE TypeOK'
  BY <1>9 DEF Notices, Goes, session, account, effects
<1>10. ASSUME NEW p \in Pods, ConnectionLost(p) PROVE TypeOK'
  BY <1>10 DEF ConnectionLost, Fails, pod, account, effects
<1>11. ASSUME NEW p \in Pods, Killed(p) PROVE TypeOK'
  BY <1>11 DEF Killed, Fails, Ends, Goes, account, effects
<1>12. CASE Released
  BY <1>12 DEF Released, pod, account, effects
<1>13. CASE Apply
  <2>1. orders' \in [Orders -> {"new", "young", "old", "closed"}]
    BY <1>13 DEF Apply
  <2>. QED  BY <1>13, <2>1 DEF Apply, session, pod, account
<1>14. ASSUME NEW o \in Orders, Age(o) \/ Fill(o) PROVE TypeOK'
  BY <1>14 DEF Age, Fill, session, pod, account
<1>15. CASE Feed
  BY <1>15 DEF Feed, Fails, session, pod, account, effects
<1>16. CASE UNCHANGED vars
  BY <1>16 DEF vars, session, pod, account, effects
<1>. QED
  BY <1>1, <1>2, <1>3, <1>4, <1>5, <1>6, <1>7, <1>8, <1>9, <1>10, <1>11, <1>12, <1>13, <1>14,
     <1>15, <1>16 DEF Next, PodStep

\* A pod that has a connection is the one that holds the lock, and took it last:
\* only Claim makes a connection, and needs the lock, which no connected pod has
\* given up.
LEMMA Connected == ASSUME TypeOK, OnlyOwnerConnected, [Next]_vars PROVE OnlyOwnerConnected'
<1>. USE SessionsAssumption DEF TypeOK, OnlyOwnerConnected
<1>1. ASSUME NEW p \in Pods, Claim(p) PROVE OnlyOwnerConnected'
  BY <1>1 DEF Claim
<1>2. ASSUME NEW p \in Pods, BootstrapRead(p) \/ PlaceDirectly(p) \/ ConnectionLost(p) \/ Killed(p)
      PROVE  OnlyOwnerConnected'
  BY <1>2 DEF BootstrapRead, PlaceDirectly, ConnectionLost, Killed, Ends
<1>3. CASE Released
  BY <1>3 DEF Released
<1>4. ASSUME NEW p \in Pods,
             \/ BootstrapCommit(p) \/ TickBegin(p) \/ CancelDirectly(p) \/ ReadMarkets(p)
             \/ Publish(p) \/ Notices(p)
      PROVE  OnlyOwnerConnected'
  BY <1>4 DEF BootstrapCommit, TickBegin, CancelDirectly, ReadMarkets, Publish, Notices, session
<1>5. CASE Apply \/ Feed \/ UNCHANGED vars \/ \E o \in Orders : Age(o) \/ Fill(o)
  BY <1>5 DEF Apply, Feed, Age, Fill, vars, session
<1>. QED  BY <1>1, <1>2, <1>3, <1>4, <1>5 DEF Next, PodStep

LEMMA Funded == ASSUME TypeOK, FundedOnce, [Next]_vars PROVE FundedOnce'
<1>. USE DEF TypeOK, FundedOnce
<1>1. ASSUME NEW p \in Pods, BootstrapCommit(p) PROVE FundedOnce'
  BY <1>1 DEF BootstrapCommit
<1>2. ASSUME ~ \E p \in Pods : BootstrapCommit(p) PROVE UNCHANGED account
  BY <1>2 DEF Next, PodStep, Claim, BootstrapRead, TickBegin, CancelDirectly, ReadMarkets,
     PlaceDirectly, Publish, Notices, ConnectionLost, Killed, Released, Apply, Age, Fill, Feed, vars
<1>. QED  BY <1>1, <1>2 DEF account

LEMMA OnePlacement == ASSUME TypeOK, PlacesOne, [Next]_vars PROVE PlacesOne'
<1>. USE DEF TypeOK, PlacesOne
<1>1. ASSUME NEW p \in Pods, NEW place \in Places, NEW work \in SUBSET Orders, Goes(p, place, work),
             place = "placing" => \E o \in Orders : work = {o}
      PROVE  PlacesOne'
  BY <1>1 DEF Goes
<1>2. ASSUME UNCHANGED <<pc, todo>> PROVE PlacesOne'
  BY <1>2
<1>3. ASSUME NEW p \in Pods, ReadMarkets(p) PROVE PlacesOne'
  <2>1. drawn < MaxOrders => drawn + 1 \in Orders
    BY SessionsAssumption DEF Orders
  <2>. QED  BY <1>1, <1>3, <2>1 DEF ReadMarkets, Places
<1>4. ASSUME NEW p \in Pods, TickBegin(p) \/ CancelDirectly(p) \/ Publish(p)
      PROVE  PlacesOne'
  <2>1. \A b \in Batches : b \in SUBSET Orders
    BY DEF Batches, Old
  <2>2. CASE TickBegin(p) \/ CancelDirectly(p)
    <3>1. \E work \in SUBSET Orders : Goes(p, "expiring", work)
      BY <2>1, <2>2 DEF TickBegin, CancelDirectly
    <3>. QED  BY <1>1, <3>1 DEF Places
  <2>3. CASE Publish(p)
    <3>1. \/ UNCHANGED <<pc, todo>>
          \/ \E o \in Orders : Goes(p, IF pc[p] = "placing" THEN "idle" ELSE "expiring", todo[p] \ {o})
      BY <2>3 DEF Publish
    <3>2. ASSUME NEW o \in Orders,
                 Goes(p, IF pc[p] = "placing" THEN "idle" ELSE "expiring", todo[p] \ {o})
          PROVE  PlacesOne'
      BY <3>2 DEF Goes
    <3>. QED  BY <1>2, <3>1, <3>2
  <2>. QED  BY <1>4, <2>2, <2>3
<1>5. ASSUME NEW p \in Pods,
             Claim(p) \/ BootstrapRead(p) \/ BootstrapCommit(p) \/ PlaceDirectly(p) \/ Notices(p) \/ Killed(p)
      PROVE  PlacesOne'
  BY <1>1, <1>5 DEF Claim, BootstrapRead, BootstrapCommit, PlaceDirectly, Notices, Killed, Ends, Places
<1>6. ASSUME NEW p \in Pods, ConnectionLost(p) PROVE PlacesOne'
  BY <1>2, <1>6 DEF ConnectionLost, pod
<1>7. CASE Released \/ Apply \/ Feed \/ UNCHANGED vars \/ \E o \in Orders : Age(o) \/ Fill(o)
  BY <1>2, <1>7 DEF Released, Apply, Feed, Age, Fill, vars, pod
<1>. QED  BY <1>3, <1>4, <1>5, <1>6, <1>7 DEF Next, PodStep

\* A write of the newest owner is not late.
LEMMA OnTime == ASSUME TypeOK, NEW p \in Pods, NEW m, Wrote(p, m), newest = p PROVE late' = late
  BY DEF TypeOK, Wrote

\* Nothing but a claim and a write changes what is late; on the lock's connection
\* no write is.
LEMMA NoDirectWriteIsLate ==
    ASSUME TypeOK, OnlyOwnerConnected, Next
    PROVE  \/ late' = late
           \/ \E p \in Pods : Publish(p)
           \/ \E p \in Pods : Claim(p)
<1>1. ASSUME NEW p \in Pods, CancelDirectly(p) \/ PlaceDirectly(p) PROVE late' = late
  <2>1. newest = p
    BY <1>1 DEF CancelDirectly, PlaceDirectly, OnlyOwnerConnected
  <2>. QED  BY <1>1, <2>1, OnTime DEF CancelDirectly, PlaceDirectly
<1>2. ASSUME NEW p \in Pods,
             \/ BootstrapRead(p) \/ BootstrapCommit(p) \/ TickBegin(p) \/ ReadMarkets(p) \/ Notices(p)
             \/ ConnectionLost(p) \/ Killed(p)
      PROVE  late' = late
  BY <1>2 DEF BootstrapRead, BootstrapCommit, TickBegin, ReadMarkets, Notices, ConnectionLost, Killed,
     effects
<1>3. CASE Released \/ Apply \/ Feed \/ \E o \in Orders : Age(o) \/ Fill(o)
  BY <1>3 DEF Released, Apply, Feed, Age, Fill, effects
<1>. QED  BY <1>1, <1>2, <1>3 DEF Next, PodStep

LEMMA FencedStep ==
    ASSUME TypeOK, OnlyOwnerConnected, DirectlyFenced, [Next]_vars
    PROVE  DirectlyFenced'
<1>1. kafka' = kafka
  BY DEF Next, PodStep, Claim, BootstrapRead, BootstrapCommit, TickBegin, CancelDirectly, ReadMarkets,
     PlaceDirectly, Publish, Notices, ConnectionLost, Killed, Released, Apply, Age, Fill, Feed, vars
<1>2. CASE UNCHANGED vars
  BY <1>2 DEF vars, effects, DirectlyFenced
<1>3. CASE Next
  <2>1. ASSUME NEW p \in Pods, Claim(p) PROVE DirectlyFenced'
    BY <1>1, <2>1 DEF Claim, DirectlyFenced, TypeOK
  <2>2. ~kafka => \A p \in Pods : ~Publish(p)
    BY DEF Publish
  <2>. QED  BY <1>1, <1>3, <2>1, <2>2, NoDirectWriteIsLate DEF DirectlyFenced
<1>. QED  BY <1>2, <1>3

\* Nothing lets a pod that has no connection draw another order.
LEMMA LateStep ==
    ASSUME TypeOK, OnlyOwnerConnected, PlacesOne, LateIsOne, [Next]_vars
    PROVE  LateIsOne'
<1>. SUFFICES ASSUME NEW q \in Pods, LatePlaces(q)' # {}
              PROVE  /\ ~alive'[q]
                     /\ \E o \in Orders : /\ LatePlaces(q)' = {PlaceOf(o)}
                                          /\ pc'[q] = "placing" => todo'[q] = {o}
  BY DEF LateIsOne, PlaceOf
<1>1. ASSUME NEW p \in Pods, Claim(p) PROVE ~alive'[q] /\ LatePlaces(q)' = LatePlaces(q)
                                            /\ pc'[q] = pc[q] /\ todo'[q] = todo[q]
  <2>1. q # p
    BY <1>1 DEF Claim, LatePlaces, TypeOK
  <2>2. late'[q] = late[q] /\ alive'[q] = alive[q] /\ pc'[q] = pc[q] /\ todo'[q] = todo[q]
    BY <1>1, <2>1 DEF Claim, Goes, TypeOK
  <2>3. ~alive[q]
    BY <1>1, SessionsAssumption DEF Claim, OnlyOwnerConnected
  <2>. QED  BY <2>2, <2>3 DEF LatePlaces
<1>2. ASSUME late' = late, ~ \E p \in Pods : Claim(p)
      PROVE  /\ ~alive'[q]
             /\ LatePlaces(q)' = LatePlaces(q)
             /\ pc'[q] = "placing" => pc[q] = "placing" /\ todo'[q] = todo[q]
  <2>1. LatePlaces(q)' = LatePlaces(q)
    BY <1>2 DEF LatePlaces
  <2>2. ~alive[q]
    BY <2>1 DEF LateIsOne
  <2>3. ASSUME NEW p \in Pods, BootstrapRead(p) \/ BootstrapCommit(p) \/ TickBegin(p) \/ CancelDirectly(p)
                               \/ ReadMarkets(p) \/ PlaceDirectly(p)
        PROVE  p # q /\ ~alive'[q] /\ pc'[q] = pc[q] /\ todo'[q] = todo[q]
    BY <2>2, <2>3 DEF TypeOK, BootstrapRead, BootstrapCommit, TickBegin, CancelDirectly, ReadMarkets,
       PlaceDirectly, Ends, Goes, session
  <2>4. ASSUME NEW p \in Pods, Publish(p)
        PROVE  ~alive'[q] /\ (pc'[q] = "placing" => pc[q] = "placing" /\ todo'[q] = todo[q])
    BY <2>2, <2>4 DEF TypeOK, Publish, Goes, session
  <2>5. ASSUME NEW p \in Pods, Notices(p) \/ ConnectionLost(p) \/ Killed(p)
        PROVE  ~alive'[q] /\ (pc'[q] = "placing" => pc[q] = "placing" /\ todo'[q] = todo[q])
    BY <2>2, <2>5 DEF TypeOK, Notices, ConnectionLost, Killed, Ends, Goes, session, pod
  <2>6. ASSUME Released \/ Apply \/ Feed \/ UNCHANGED vars \/ \E o \in Orders : Age(o) \/ Fill(o)
        PROVE  ~alive'[q] /\ (pc'[q] = "placing" => pc[q] = "placing" /\ todo'[q] = todo[q])
    <3>1. CASE \E o \in Orders : Age(o) \/ Fill(o)
      BY <2>2, <3>1 DEF Age, Fill, session, pod
    <3>2. CASE Released \/ Apply
      BY <2>2, <3>2 DEF Released, Apply, session, pod
    <3>3. CASE Feed \/ UNCHANGED vars
      BY <2>2, <3>3 DEF Feed, vars, session, pod
    <3>. QED  BY <2>6, <3>1, <3>2, <3>3
  <2>7. /\ ~alive'[q]
        /\ pc'[q] = "placing" => pc[q] = "placing" /\ todo'[q] = todo[q]
    <3>1. CASE \E p \in Pods : PodStep(p) \/ ConnectionLost(p) \/ Killed(p)
      <4>1. PICK p \in Pods : PodStep(p) \/ ConnectionLost(p) \/ Killed(p)
        BY <3>1
      <4>2. ~Claim(p)
        BY <1>2
      <4>. QED  BY <2>3, <2>4, <2>5, <4>1, <4>2 DEF PodStep
    <3>. QED  BY <2>6, <3>1 DEF Next
  <2>. QED  BY <2>1, <2>7
<1>3. ASSUME NEW p \in Pods, Publish(p), late' # late
      PROVE  /\ ~alive'[q]
             /\ \E o \in Orders : /\ LatePlaces(q)' = {PlaceOf(o)}
                                  /\ pc'[q] = "placing" => todo'[q] = {o}
  <2>1. newest # p /\ ~alive[p] /\ alive' = alive
    BY <1>3, OnTime DEF Publish, OnlyOwnerConnected, session
  <2>2. CASE p # q
    <3>1. late'[q] = late[q] /\ pc'[q] = pc[q] /\ todo'[q] = todo[q]
      BY <1>3, <2>2 DEF Publish, Wrote, Goes, TypeOK
    <3>2. LatePlaces(q)' = LatePlaces(q)
      BY <3>1 DEF LatePlaces
    <3>. QED  BY <2>1, <3>1, <3>2 DEF LateIsOne
  <2>3. CASE p = q /\ pc[p] = "placing"
    <3>1. PICK o \in Orders : todo[p] = {o}
      BY <2>3 DEF PlacesOne
    <3>2. late'[p] = late[p] \cup {PlaceOf(o)} /\ (pc'[p] = "placing" => todo'[p] = {o})
      BY <1>3, <2>1, <2>3, <3>1 DEF Publish, Wrote, Goes, TypeOK
    <3>3. LatePlaces(p)' = LatePlaces(p) \cup {PlaceOf(o)}
      BY <3>2 DEF LatePlaces, PlaceOf
    <3>4. LatePlaces(p) \subseteq {PlaceOf(o)}
      BY <2>3, <3>1 DEF LateIsOne
    <3>. QED  BY <2>1, <2>3, <3>2, <3>3, <3>4
  <2>4. CASE p = q /\ pc[p] # "placing"
    <3>1. PICK o \in todo[p] : Wrote(p, CancelOf(o))
      BY <1>3, <2>4 DEF Publish
    <3>2. late'[p] = late[p] \cup {CancelOf(o)} /\ pc'[p] # "placing"
      BY <1>3, <2>1, <2>4, <3>1 DEF Publish, Wrote, Goes, TypeOK
    <3>3. LatePlaces(p)' = LatePlaces(p)
      BY <3>2 DEF LatePlaces, CancelOf
    <3>. QED  BY <2>1, <2>4, <3>2, <3>3 DEF LateIsOne
  <2>. QED  BY <2>2, <2>3, <2>4
<1>4. late' = late \/ (\E p \in Pods : Publish(p) /\ late' # late) \/ \E p \in Pods : Claim(p)
  <2>1. CASE UNCHANGED vars
    BY <2>1 DEF vars, effects
  <2>. QED  BY <2>1, NoDirectWriteIsLate
<1>. QED  BY <1>1, <1>2, <1>3, <1>4 DEF LateIsOne

\* The inductive invariant of the sessions.
THEOREM Invariance == Spec => []IInv
<1>1. IInv /\ [Next]_vars => IInv'
  <2>. SUFFICES ASSUME IInv, [Next]_vars PROVE IInv'
    OBVIOUS
  <2>1. TypeOK' /\ OnlyOwnerConnected' /\ FundedOnce' /\ PlacesOne' /\ LateIsOne'
    BY Typed, Connected, Funded, OnePlacement, LateStep DEF IInv
  <2>2. DirectlyFenced'
    BY FencedStep DEF IInv
  <2>. QED  BY <2>1, <2>2 DEF IInv
<1>. QED  BY Initially, <1>1, PTL DEF Spec

\* Without Kafka the lock fences: a superseded session writes nothing.  With or
\* without it, such a session places at most one order.
THEOREM FewLateWrites == Spec => []LateWritesAreFew
<1>1. IInv => LateOrders
  <2>. SUFFICES ASSUME IInv, NEW p \in Pods PROVE Cardinality(LatePlaces(p)) =< 1
    BY DEF LateOrders
  <2>1. CASE LatePlaces(p) = {}
    BY <2>1, FS_EmptySet
  <2>2. CASE LatePlaces(p) # {}
    <3>1. PICK o \in Orders : LatePlaces(p) = {PlaceOf(o)}
      BY <2>2 DEF IInv, LateIsOne
    <3>2. Cardinality({PlaceOf(o)}) = 1
      BY FS_Singleton
    <3>. QED  BY <3>1, <3>2
  <2>. QED  BY <2>1, <2>2
<1>2. IInv => LateWritesAreFew
  BY <1>1 DEF IInv, LateWritesAreFew
<1>. QED  BY Invariance, <1>2, PTL

\* A trader is funded once.
THEOREM FundsAreGivenOnce == Spec => []FundedOnce
<1>1. IInv => FundedOnce
  BY DEF IInv
<1>. QED  BY Invariance, <1>1, PTL
==============================================================================
