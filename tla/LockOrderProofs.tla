--------------------------- MODULE LockOrderProofs ---------------------------
(***************************************************************************)
(* Proofs about LockOrder: whatever the users, instruments, orders and     *)
(* calls, no call is the victim of a deadlock unless the generator         *)
(* withdraws quotes.                                                       *)
(***************************************************************************)
EXTENDS LockOrder, FiniteSetTheorems, TLAPS

-----------------------------------------------------------------------------
(* Finite sets *)

\* A finite set of natural numbers has a greatest one.
LEMMA GreatestNat ==
    ASSUME NEW T \in SUBSET Nat, IsFiniteSet(T), T # {}
    PROVE  \E m \in T : \A n \in T : n <= m
<1>. DEFINE From(m) == {n \in T : m <= n}
            F == {From(m) : m \in T}
<1>1. IsWellFoundedOn(StrictSubsetOrdering(T), SUBSET T)
  <2>1. FiniteSubsetsOf(T) = SUBSET T
    BY FS_FiniteSubsetsOfFinite
  <2>2. IsWellFoundedOn(StrictSubsetOrdering(T), FiniteSubsetsOf(T))
    BY FS_StrictSubsetOrderingWellFounded
  <2>. QED  BY <2>1, <2>2
<1>2. F \subseteq SUBSET T /\ F # {}
  OBVIOUS
<1>3. PICK U \in F : \A V \in F : ~ (<<V, U>> \in StrictSubsetOrdering(T))
  <2>. HIDE DEF F
  <2>. QED  BY <1>1, <1>2, WFMin, Zenon
<1>4. PICK m \in T : U = From(m)
  BY <1>3
<1>5. ASSUME NEW n \in T, m < n
      PROVE  FALSE
  <2>0. m \in Nat /\ n \in Nat /\ \A x \in T : x \in Nat
    OBVIOUS
  <2>1. From(n) \in F
    OBVIOUS
  <2>2. m <= m /\ ~ (n <= m) /\ \A x \in T : n <= x => m <= x
    <3>1. m <= m /\ ~ (n <= m)
      BY <1>5, <2>0
    <3>2. ASSUME NEW x \in T, n <= x PROVE m <= x
      <4>1. x \in Nat
        BY <2>0
      <4>. QED  BY <1>5, <2>0, <3>2, <4>1
    <3>. QED  BY <3>1, <3>2
  <2>4. From(n) \subseteq From(m) /\ m \in From(m) /\ m \notin From(n)
    BY <2>2, Zenon
  <2>. HIDE DEF From, F
  <2>3. <<From(n), U>> \in StrictSubsetOrdering(T)
    BY <1>2, <1>4, <2>1, <2>4 DEF StrictSubsetOrdering
  <2>. QED  BY <1>3, <2>1, <2>3
<1>6. \A n \in T : n <= m
  BY <1>5
<1>. QED  BY <1>6

\* Nobody climbs for ever among finitely many numbers.
LEMMA NoClimb ==
    ASSUME NEW T \in SUBSET Nat, IsFiniteSet(T), NEW D, NEW next \in [D -> D], NEW n \in [D -> T],
           \A s \in D : n[s] < n[next[s]]
    PROVE  D = {}
<1>. DEFINE N == {n[s] : s \in D}
<1>1. N \in SUBSET T
  OBVIOUS
<1>2. N \in SUBSET Nat /\ IsFiniteSet(N)
  <2>. HIDE DEF N
  <2>. QED  BY <1>1, FS_Subset
<1>3. N = {}
  <2>1. SUFFICES ASSUME N # {} PROVE FALSE
    OBVIOUS
  <2>2. PICK m \in N : \A k \in N : k <= m
    <3>. HIDE DEF N
    <3>. QED  BY <1>2, <2>1, GreatestNat
  <2>3. PICK s \in D : m = n[s]
    BY <2>2
  <2>4. next[s] \in D /\ n[next[s]] \in N /\ n[s] \in Nat /\ n[next[s]] \in Nat
    BY <2>3
  <2>. QED  BY <2>2, <2>3, <2>4
<1>. QED  BY <1>3

\* In a finite circle, what leads into a part that leads nowhere else is in it.
LEMMA CycleBack ==
    ASSUME NEW C, IsFiniteSet(C), NEW next \in [C -> C], \A s \in C : \E r \in C : next[r] = s,
           NEW D \in SUBSET C, \A s \in D : next[s] \in D
    PROVE  /\ \A s, r \in C : next[s] = next[r] => s = r
           /\ \A s \in C : next[s] \in D => s \in D
<1>1. next \in Surjection(C, C)
  BY DEF Surjection
<1>2. next \in Injection(C, C)
  BY <1>1, FS_SurjSameCardinalityImpliesInj
<1>3. \A s, r \in C : next[s] = next[r] => s = r
  BY <1>2 DEF Injection, IsInjective
<1>. DEFINE part == [s \in D |-> next[s]]
<1>4. part \in Injection(D, D)
  BY <1>3 DEF Injection, IsInjective
<1>5. part \in Surjection(D, D)
  <2>1. IsFiniteSet(D)
    BY FS_Subset
  <2>. HIDE DEF part
  <2>. QED  BY <1>4, <2>1, FS_Injection
<1>6. ASSUME NEW s \in C, next[s] \in D PROVE s \in D
  <2>1. PICK r \in D : part[r] = next[s]
    BY <1>5, <1>6 DEF Surjection
  <2>. QED  BY <1>3, <2>1
<1>. QED  BY <1>3, <1>6

\* What a statement lists is each of its orders.
LEMMA ListFacts ==
    ASSUME NEW S, IsFiniteSet(S), NEW s \in SetToSeqs(S)
    PROVE  /\ s \in Seq(S)
           /\ DOMAIN s \subseteq Nat
           /\ Range(s) = S
<1>. DEFINE n == Cardinality(S)
            D == 1 .. n
<1>1. n \in Nat
  BY FS_CardinalityType
<1>2. s \in Injection(D, S)
  BY DEF SetToSeqs, Injection, IsInjective
<1>3. IsFiniteSet(D) /\ Cardinality(D) = n
  <2>1. IsFiniteSet(1 .. n) /\ Cardinality(1 .. n) = IF 1 > n THEN 0 ELSE n - 1 + 1
    BY <1>1, FS_Interval
  <2>. QED  BY <1>1, <2>1
<1>4. s \in Surjection(D, S)
  <2>. HIDE DEF D
  <2>. QED  BY <1>2, <1>3, FS_Injection
<1>5. s \in [1 .. n -> S] /\ \A o \in S : \E k \in 1 .. n : s[k] = o
  BY <1>4 DEF Surjection
<1>6. s \in Seq(S) /\ DOMAIN s \subseteq Nat
  BY <1>1, <1>5
<1>7. Range(s) = S
  BY <1>5 DEF Range
<1>. QED  BY <1>6, <1>7

\* Taking the first of a list.
LEMMA TailFacts ==
    ASSUME NEW S, NEW s \in Seq(S), s # <<>>
    PROVE  /\ Head(s) \in S /\ Tail(s) \in Seq(S) /\ 1 \in DOMAIN s /\ Head(s) = s[1]
           /\ Len(Tail(s)) = Len(s) - 1 /\ Len(s) \in Nat
           /\ \A k \in DOMAIN Tail(s) : k \in Nat /\ 0 < k /\ k + 1 \in DOMAIN s /\ Tail(s)[k] = s[k + 1]
           /\ Range(s) = {Head(s)} \union Range(Tail(s))
<1>1. /\ Head(s) \in S /\ Tail(s) \in Seq(S) /\ 1 \in DOMAIN s /\ Head(s) = s[1]
      /\ Len(Tail(s)) = Len(s) - 1 /\ Len(s) \in Nat
  OBVIOUS
<1>2. \A k \in DOMAIN Tail(s) : k \in Nat /\ 0 < k /\ k + 1 \in DOMAIN s /\ Tail(s)[k] = s[k + 1]
  OBVIOUS
<1>3. \A k \in DOMAIN s : k = 1 \/ (k - 1 \in DOMAIN Tail(s) /\ s[k] = Tail(s)[k - 1])
  OBVIOUS
<1>4. Range(s) = {Head(s)} \union Range(Tail(s))
  <2>1. ASSUME NEW x \in Range(s) PROVE x \in {Head(s)} \union Range(Tail(s))
    <3>1. PICK k \in DOMAIN s : x = s[k]
      BY <2>1 DEF Range
    <3>. QED  BY <1>1, <1>3, <3>1 DEF Range
  <2>2. ASSUME NEW x \in Range(Tail(s)) PROVE x \in Range(s)
    <3>1. PICK k \in DOMAIN Tail(s) : x = Tail(s)[k]
      BY <2>2 DEF Range
    <3>2. k + 1 \in DOMAIN s /\ x = s[k + 1]
      BY <1>2, <3>1
    <3>. QED  BY <3>2 DEF Range
  <2>3. Head(s) \in Range(s)
    BY <1>1 DEF Range
  <2>. QED  BY <2>1, <2>2, <2>3
<1>. QED  BY <1>1, <1>2, <1>4

LEMMA NoLength == ASSUME NEW S, NEW s \in Seq(S), Len(s) = 0 PROVE s = <<>>
  OBVIOUS

LEMMA EmptyFacts ==
    /\ Range(<<>>) = {}
    /\ \A S : \A s \in Seq(S) : Range(s) \subseteq S /\ (s # <<>> => Range(s) # {})
    /\ \A x : Range(<<x>>) = {x}
<1>1. Range(<<>>) = {}
  BY DEF Range
<1>2. ASSUME NEW S, NEW s \in Seq(S) PROVE Range(s) \subseteq S /\ (s # <<>> => Range(s) # {})
  <2>1. \A k \in DOMAIN s : s[k] \in S
    OBVIOUS
  <2>2. s # <<>> => 1 \in DOMAIN s
    OBVIOUS
  <2>. QED  BY <2>1, <2>2 DEF Range
<1>3. ASSUME NEW x PROVE Range(<<x>>) = {x}
  <2>1. DOMAIN <<x>> = {1} /\ <<x>>[1] = x
    OBVIOUS
  <2>. QED  BY <2>1 DEF Range
<1>. QED  BY <1>1, <1>2, <1>3

-----------------------------------------------------------------------------
(* Locks and transactions *)

LEMMA LockKinds ==
    /\ \A u, v : UserLock(u) = UserLock(v) => u = v
    /\ \A o, p : OrderRow(o) = OrderRow(p) => o = p
    /\ \A u, v, c, d : AccountRow(u, c) = AccountRow(v, d) => u = v
    /\ \A u, o : UserLock(u) # OrderRow(o)
    /\ \A u, v, c : UserLock(u) # AccountRow(v, c)
    /\ \A o, u, c : OrderRow(o) # AccountRow(u, c)
<1>1. \A u : UserLock(u)[1] = "order-user" /\ UserLock(u)[2] = u
  BY DEF UserLock
<1>2. \A o : OrderRow(o)[1] = "orders" /\ OrderRow(o)[2] = o
  BY DEF OrderRow
<1>3. \A u, c : AccountRow(u, c)[1] = "accounts" /\ AccountRow(u, c)[2] = u
  BY DEF AccountRow
<1>. QED  BY <1>1, <1>2, <1>3

LEMMA LockSets ==
    /\ \A u, S : UserLock(u) \notin RowsOf(S)
    /\ \A u, v : UserLock(u) \notin Accounts(v)
    /\ \A o, S : OrderRow(o) \in RowsOf(S) <=> o \in S
    /\ \A o, u : OrderRow(o) \notin Accounts(u)
    /\ \A lock, u, v : lock \in Accounts(u) /\ lock \in Accounts(v) => u = v
    /\ \A lock, u, S : ~ (lock \in Accounts(u) /\ lock \in RowsOf(S))
  BY LockKinds DEF RowsOf, Accounts

LEMMA Apart ==
    /\ Names \subseteq Transactions /\ Callers \subseteq Transactions
    /\ Generator \in Transactions /\ Free \notin Transactions
    /\ \A i \in Names : i \notin Callers /\ i # Generator
    /\ Generator \notin Callers
    /\ \A t \in Transactions : t \in Names \/ t \in Callers \/ t = Generator
    /\ System \notin Owners
    /\ \A c \in Callers : CallerOf[c] \in Owners
    /\ Orders \subseteq Nat /\ IsFiniteSet(Orders)
    /\ \A o \in Orders : Terms[o].user \in Owners \union {System} /\ Terms[o].instrument \in Names
  BY LockAssumption DEF Transactions

LEMMA TransactionsAreFinite == IsFiniteSet(Transactions)
<1>1. Symbols \in Seq(Names) /\ IsFiniteSet(Callers)
  BY LockAssumption
<1>2. Symbols \in Surjection(1 .. Len(Symbols), Names) /\ Len(Symbols) \in Nat
  BY <1>1 DEF Surjection, Names
<1>3. IsFiniteSet(1 .. Len(Symbols))
  BY <1>2, FS_Interval
<1>4. IsFiniteSet(Names)
  BY <1>2, <1>3, FS_Surjection
<1>5. IsFiniteSet({Generator})
  BY FS_Singleton
<1>. QED  BY <1>1, <1>4, <1>5, FS_Union DEF Transactions

\* What the invariant says of one transaction.
Own(t) ==
    /\ t \in Names => TickInv(t)
    /\ t \in Callers => CallInv(t)
    /\ t = Generator => GeneratorInv

LEMMA Parts ==
    /\ LockInv <=> /\ LockTypeOK /\ Exclusive /\ InPlace(SystemOrders \cap open)
               /\ \A t \in Transactions : Own(t)
    /\ LockInv' <=> /\ LockTypeOK' /\ Exclusive' /\ InPlace(SystemOrders \cap open)'
                /\ \A t \in Transactions : Own(t)'
  BY Apart DEF LockInv, Own

LEMMA Initially == ASSUME LockInit PROVE LockInv
<1>. USE DEF LockInit
<1>1. \A t \in Transactions : held[t] = {} /\ wanted[t] = <<>> /\ phase[t] = "idle"
  OBVIOUS
<1>2. \A t \in Transactions : Needs(t) = {} /\ Has(t) = {} /\ Asks(t) = {}
  BY <1>1, EmptyFacts DEF Needs, Has, Asks
<1>3. LockTypeOK
  <2>1. <<>> \in Seq(Locks) /\ First \subseteq Orders
    BY LockAssumption
  <2>. QED  BY <2>1 DEF LockTypeOK, Phases
<1>4. Exclusive
  BY <1>1 DEF Exclusive
<1>5. InPlace(SystemOrders \cap open)
  BY LockAssumption DEF InPlace
<1>6. ASSUME NEW t \in Transactions PROVE Own(t)
  <2>1. t \in Names => TickInv(t)
    BY <1>1, <1>2 DEF TickInv, Climbs
  <2>2. t \in Callers => CallInv(t)
    BY <1>1, <1>2 DEF CallInv
  <2>3. t = Generator => GeneratorInv
    BY <1>1, <1>2 DEF GeneratorInv, InPlace
  <2>. QED  BY <2>1, <2>2, <2>3 DEF Own
<1>. QED  BY <1>3, <1>4, <1>5, <1>6, Parts

-----------------------------------------------------------------------------
(* What a step of one transaction leaves to the others *)

Same(t) == phase'[t] = phase[t] /\ held'[t] = held[t] /\ wanted'[t] = wanted[t]

LEMMA SameNeeds ==
    ASSUME NEW t, Same(t)
    PROVE  /\ Needs(t)' = Needs(t) /\ Has(t)' = Has(t) /\ Asks(t)' = Asks(t)
           /\ Climbs(t) => Climbs(t)'
<1>1. Needs(t)' = Needs(t)
  BY DEF Same, Needs
<1>2. Has(t)' = Has(t)
  BY DEF Same, Has
<1>3. Asks(t)' = Asks(t)
  BY DEF Same, Asks
<1>4. Climbs(t) => Climbs(t)'
  BY <1>2, <1>3 DEF Same, Climbs
<1>. QED  BY <1>1, <1>2, <1>3, <1>4

LEMMA TickKept ==
    ASSUME NEW i, TickInv(i), Same(i), used'[i] = used[i], OrdersOf(i) \subseteq open'
    PROVE  TickInv(i)'
<1>1. OrdersOf(i) \subseteq OrdersOf(i)'
  BY DEF OrdersOf, Same
<1>2. Climbs(i)' /\ used'[i] \subseteq Has(i)' /\ (phase'[i] = "idle" => Needs(i)' = {})
  BY SameNeeds DEF TickInv, Same
<1>3. \A lock \in Needs(i)' :
         \/ lock \in RowsOf({o \in Orders : Terms[o].instrument = i})
         \/ \E o \in OrdersOf(i)' : Terms[o].user \in Owners /\ lock \in Accounts(Terms[o].user)
  <2>1. Needs(i)' = Needs(i)
    BY SameNeeds
  <2>. QED  BY <1>1, <2>1 DEF TickInv
<1>4. (Asks(i)' = {}) \/ ((held[i] \union Range(wanted[i]))' \subseteq RowsOf(Orders))
  BY SameNeeds DEF TickInv, Same
<1>. QED  BY <1>2, <1>3, <1>4 DEF TickInv

LEMMA CallKept ==
    ASSUME NEW c, CallInv(c), Same(c),
           OwnOrders(c)' \subseteq OwnOrders(c) \/ UserLock(CallerOf[c]) \notin held[c]
    PROVE  CallInv(c)'
<1>1. Needs(c)' = Needs(c)
  BY SameNeeds
<1>2. Opening(c) => Opening(c)'
  BY DEF Opening, Same
<1>3. Reserved(c) => Reserved(c)'
  BY DEF Reserved, Same
<1>4. OwnOrders(c)' \subseteq OwnOrders(c) => RowsOf(OwnOrders(c)') \subseteq RowsOf(OwnOrders(c))
  BY DEF RowsOf
<1>5. Locked(c) => Locked(c)'
  BY <1>1, <1>4, SameNeeds DEF Locked, Same, OwnRows, RowsOf
<1>6. Cancelled(c) => Cancelled(c)'
  BY <1>4 DEF Cancelled, Same, OwnRows, RowsOf
<1>. QED  BY <1>1, <1>2, <1>3, <1>5, <1>6 DEF CallInv, Same

LEMMA GeneratorKept ==
    ASSUME GeneratorInv, Same(Generator), SystemOrders \cap open' \subseteq open
    PROVE  GeneratorInv'
<1>1. RowsOf(SystemOrders \cap open') \subseteq RowsOf(SystemOrders \cap open)
  BY DEF RowsOf
<1>2. /\ Needs(Generator)' = Needs(Generator) /\ Has(Generator)' = Has(Generator)
      /\ Asks(Generator)' = Asks(Generator)
  BY SameNeeds
<1>3. wanted'[Generator] = wanted[Generator] /\ phase'[Generator] = phase[Generator]
  BY DEF Same
<1>4. RowsOf(SystemOrders \cap open)' = RowsOf(SystemOrders \cap open')
  BY DEF RowsOf
<1>. QED  BY <1>1, <1>2, <1>3, <1>4 DEF GeneratorInv, InPlace

-----------------------------------------------------------------------------
(* A transaction ends *)

\* What it may close are orders whose rows it has; what it may open are orders of
\* the user whose lock it has, or of the system.
Closes(t) == \A o \in open \ open' : OrderRow(o) \in held[t]
Opens(t) ==
    \A o \in open' \ open :
        \/ t = Generator /\ Terms[o].user = System
        \/ t \in Callers /\ Terms[o].user = CallerOf[t] /\ UserLock(CallerOf[t]) \in held[t]

LEMMA OthersKept ==
    ASSUME LockInv, NEW t \in Transactions, NEW s \in Transactions, s # t,
           Same(s), s \in Names => used'[s] = used[s], Closes(t), Opens(t), open' \subseteq Orders
    PROVE  Own(s)'
<1>1. Own(s) /\ Exclusive /\ LockTypeOK
  BY Parts
<1>2. s \in Names => TickInv(s)'
  <2>1. ASSUME s \in Names, NEW o \in OrdersOf(s) PROVE o \in open'
    BY <1>1, <2>1 DEF OrdersOf, Closes, Exclusive
  <2>2. s \in Names => OrdersOf(s) \subseteq open'
    BY <2>1
  <2>. QED  BY <1>1, <2>2, TickKept DEF Own
<1>3. s \in Callers => CallInv(s)'
  <2>1. SUFFICES ASSUME s \in Callers, UserLock(CallerOf[s]) \in held[s]
                 PROVE  OwnOrders(s)' \subseteq OwnOrders(s)
    BY <1>1, CallKept DEF Own
  <2>2. ASSUME NEW o \in open' \ open PROVE Terms[o].user # CallerOf[s]
    <3>1. CASE t = Generator /\ Terms[o].user = System
      BY <2>1, <3>1, Apart
    <3>2. CASE t \in Callers /\ Terms[o].user = CallerOf[t] /\ UserLock(CallerOf[t]) \in held[t]
      BY <1>1, <2>1, <3>2 DEF Exclusive
    <3>. QED  BY <3>1, <3>2 DEF Opens
  <2>. QED  BY <2>2 DEF OwnOrders
<1>4. s = Generator => GeneratorInv'
  <2>1. SUFFICES ASSUME s = Generator PROVE SystemOrders \cap open' \subseteq open
    BY <1>1, GeneratorKept DEF Own
  <2>2. ASSUME NEW o \in SystemOrders, o \in open', o \notin open PROVE FALSE
    BY <2>1, <2>2, Apart DEF Opens, SystemOrders
  <2>. QED  BY <2>2
<1>. QED  BY <1>2, <1>3, <1>4 DEF Own

LEMMA ReleaseStep ==
    ASSUME LockInv, NEW t \in Transactions, Releases(t),
           open' \subseteq Orders, InPlace(SystemOrders \cap open'), Closes(t), Opens(t)
    PROVE  LockInv'
<1>1. LockTypeOK /\ Exclusive
  BY Parts
<1>2. /\ phase' = [phase EXCEPT ![t] = "idle"] /\ held' = [held EXCEPT ![t] = {}]
      /\ wanted' = [wanted EXCEPT ![t] = <<>>]
      /\ used' = [i \in Names |-> IF i = t THEN {} ELSE used[i]]
  BY DEF Releases
<1>3. LockTypeOK'
  <2>1. <<>> \in Seq(Locks) /\ "idle" \in Phases
    BY DEF Phases
  <2>. QED  BY <1>1, <1>2, <2>1 DEF LockTypeOK
<1>4. phase'[t] = "idle" /\ held'[t] = {} /\ wanted'[t] = <<>> /\ (t \in Names => used'[t] = {})
  BY <1>1, <1>2 DEF LockTypeOK
<1>5. ASSUME NEW s \in Transactions, s # t PROVE Same(s) /\ (s \in Names => used'[s] = used[s])
  BY <1>1, <1>2, <1>5 DEF LockTypeOK, Same
<1>6. Exclusive'
  BY <1>1, <1>4, <1>5 DEF Exclusive, Same
<1>7. Own(t)'
  <2>1. Needs(t)' = {} /\ Has(t)' = {} /\ Asks(t)' = {}
    BY <1>4, EmptyFacts DEF Needs, Has, Asks
  <2>2. t \in Names => TickInv(t)'
    BY <1>4, <2>1 DEF TickInv, Climbs
  <2>3. t \in Callers => CallInv(t)'
    BY <1>4, <2>1 DEF CallInv
  <2>4. t = Generator => GeneratorInv'
    BY <1>4, <2>1 DEF GeneratorInv, InPlace
  <2>. QED  BY <2>2, <2>3, <2>4 DEF Own
<1>8. ASSUME NEW s \in Transactions PROVE Own(s)'
  BY <1>5, <1>7, OthersKept
<1>9. InPlace(SystemOrders \cap open)'
  BY DEF InPlace
<1>. QED  BY <1>3, <1>6, <1>8, <1>9, Parts

-----------------------------------------------------------------------------
(* A transaction goes to its next statement *)

LEMMA GoesStep ==
    ASSUME LockInv, NEW t \in Transactions, NEW from, NEW to \in Phases,
           NEW locks \in Seq(Locks), Goes(t, from, to, locks), UNCHANGED <<open, held>>,
           used' \in [Names -> SUBSET Orders],
           \A i \in Names : i # t => used'[i] = used[i], Own(t)'
    PROVE  LockInv'
<1>1. LockTypeOK /\ Exclusive /\ InPlace(SystemOrders \cap open)
  BY Parts
<1>2. phase' = [phase EXCEPT ![t] = to] /\ wanted' = [wanted EXCEPT ![t] = locks]
  BY DEF Goes
<1>3. LockTypeOK'
  BY <1>1, <1>2 DEF LockTypeOK
<1>4. Exclusive' /\ InPlace(SystemOrders \cap open)'
  BY <1>1 DEF Exclusive, InPlace
<1>5. ASSUME NEW s \in Transactions, s # t PROVE Same(s) /\ (s \in Names => used'[s] = used[s])
  BY <1>1, <1>2, <1>5 DEF LockTypeOK, Same
<1>6. Closes(t) /\ Opens(t) /\ open' \subseteq Orders
  BY <1>1 DEF Closes, Opens, LockTypeOK
<1>7. ASSUME NEW s \in Transactions PROVE Own(s)'
  BY <1>5, <1>6, OthersKept
<1>. QED  BY <1>3, <1>4, <1>7, Parts

\* What the transaction itself is like afterwards.
LEMMA GoesFacts ==
    ASSUME LockTypeOK, NEW t \in Transactions, NEW from, NEW to, NEW locks, Goes(t, from, to, locks),
           UNCHANGED held
    PROVE  /\ phase[t] = from /\ wanted[t] = <<>> /\ held'[t] = held[t]
           /\ phase'[t] = to /\ wanted'[t] = locks
           /\ Needs(t) = held[t] /\ Needs(t)' = held[t] \union Range(locks)
           /\ Has(t)' = Has(t)
           /\ Asks(t)' = {o \in Orders : OrderRow(o) \in Range(locks)}
<1>1. phase[t] = from /\ wanted[t] = <<>> /\ phase'[t] = to /\ wanted'[t] = locks /\ held'[t] = held[t]
  BY DEF Goes, LockTypeOK
<1>2. Needs(t) = held[t]
  BY <1>1, EmptyFacts DEF Needs
<1>3. Needs(t)' = held[t] \union Range(locks)
  BY <1>1 DEF Needs
<1>4. Has(t)' = Has(t)
  BY <1>1 DEF Has
<1>5. Asks(t)' = {o \in Orders : OrderRow(o) \in Range(locks)}
  BY <1>1 DEF Asks
<1>. QED  BY <1>1, <1>2, <1>3, <1>4, <1>5

-----------------------------------------------------------------------------
(* A transaction is granted a lock *)

\* What it has and asks for together stays the same.
LEMMA TakeFacts ==
    ASSUME LockTypeOK, NEW t \in Transactions, Take(t)
    PROVE  /\ wanted[t] # <<>> /\ Head(wanted[t]) \in Range(wanted[t])
           /\ held'[t] = held[t] \union {Head(wanted[t])} /\ wanted'[t] = Tail(wanted[t])
           /\ phase'[t] = phase[t]
           /\ Range(wanted'[t]) \subseteq Range(wanted[t])
           /\ Needs(t)' = Needs(t)
           /\ Has(t) \subseteq Has(t)' /\ Asks(t)' \subseteq Asks(t)
           /\ \A o \in Has(t)' : \/ o \in Has(t)
                                \/ (1 \in DOMAIN wanted[t] /\ wanted[t][1] = OrderRow(o))
           /\ \A k \in DOMAIN wanted'[t] :
                k \in Nat /\ 0 < k /\ k + 1 \in DOMAIN wanted[t] /\ wanted'[t][k] = wanted[t][k + 1]
           /\ \A o \in Asks(t)' :
                \E k \in DOMAIN wanted[t] : k \in Nat /\ 1 < k /\ wanted[t][k] = OrderRow(o)
           /\ Len(wanted[t]) = 1 => wanted'[t] = <<>>
<1>1. wanted[t] # <<>> /\ wanted[t] \in Seq(Locks)
  BY DEF Take, LockTypeOK
<1>2. held'[t] = held[t] \union {Head(wanted[t])} /\ wanted'[t] = Tail(wanted[t])
  BY DEF Take, LockTypeOK
<1>3. /\ Tail(wanted[t]) \in Seq(Locks) /\ 1 \in DOMAIN wanted[t] /\ Head(wanted[t]) = wanted[t][1]
      /\ Len(Tail(wanted[t])) = Len(wanted[t]) - 1 /\ Len(wanted[t]) \in Nat
      /\ \A k \in DOMAIN Tail(wanted[t]) : /\ k \in Nat /\ 0 < k /\ k + 1 \in DOMAIN wanted[t]
                                          /\ Tail(wanted[t])[k] = wanted[t][k + 1]
      /\ Range(wanted[t]) = {Head(wanted[t])} \union Range(Tail(wanted[t]))
  <2>. HIDE DEF Locks
  <2>. QED  BY <1>1, TailFacts
<1>4. Needs(t)' = Needs(t) /\ Range(wanted'[t]) \subseteq Range(wanted[t])
  BY <1>2, <1>3 DEF Needs
<1>5. Has(t) \subseteq Has(t)' /\ Asks(t)' \subseteq Asks(t)
  BY <1>2, <1>4 DEF Has, Asks
<1>6. \A o \in Has(t)' : o \in Has(t) \/ (1 \in DOMAIN wanted[t] /\ wanted[t][1] = OrderRow(o))
  BY <1>2, <1>3 DEF Has
<1>7. ASSUME NEW o \in Asks(t)'
      PROVE  \E k \in DOMAIN wanted[t] : k \in Nat /\ 1 < k /\ wanted[t][k] = OrderRow(o)
  <2>1. PICK k \in DOMAIN Tail(wanted[t]) : OrderRow(o) = Tail(wanted[t])[k]
    BY <1>2, <1>7 DEF Asks, Range
  <2>. QED  BY <1>3, <2>1
<1>8. Len(wanted[t]) = 1 => Tail(wanted[t]) = <<>>
  <2>1. ASSUME Len(wanted[t]) = 1 PROVE Tail(wanted[t]) = <<>>
    <3>1. Tail(wanted[t]) \in Seq(Locks) /\ Len(Tail(wanted[t])) = 0
      BY <1>3, <2>1
    <3>. HIDE DEF Locks
    <3>. QED  BY <3>1, NoLength
  <2>. QED  BY <2>1
<1>9. phase'[t] = phase[t]
  BY DEF Take
<1>10. \A k \in DOMAIN wanted'[t] :
         k \in Nat /\ 0 < k /\ k + 1 \in DOMAIN wanted[t] /\ wanted'[t][k] = wanted[t][k + 1]
  BY <1>2, <1>3
<1>11. Len(wanted[t]) = 1 => wanted'[t] = <<>>
  BY <1>2, <1>8
<1>12. wanted[t] # <<>> /\ Head(wanted[t]) \in Range(wanted[t])
  BY <1>1, <1>3
<1>. QED  BY <1>2, <1>4, <1>5, <1>6, <1>7, <1>9, <1>10, <1>11, <1>12

LEMMA ClimbsOn ==
    ASSUME LockTypeOK, NEW t \in Transactions, Take(t), Climbs(t)
    PROVE  Climbs(t)'
<1>1. ASSUME NEW o \in Has(t)', NEW p \in Asks(t)' PROVE o < p
  <2>0. o \in Orders /\ p \in Orders
    BY DEF Has, Asks
  <2>1. CASE o \in Has(t)
    BY <2>1, TakeFacts DEF Climbs
  <2>2. CASE 1 \in DOMAIN wanted[t] /\ wanted[t][1] = OrderRow(o)
    <3>1. PICK k \in DOMAIN wanted[t] : k \in Nat /\ 1 < k /\ wanted[t][k] = OrderRow(p)
      BY TakeFacts
    <3>. QED  BY <2>0, <2>2, <3>1 DEF Climbs
  <2>. QED  BY <2>1, <2>2, TakeFacts
<1>2. ASSUME NEW j \in DOMAIN wanted'[t], NEW k \in DOMAIN wanted'[t], NEW o \in Orders, NEW p \in Orders,
             j < k, wanted'[t][j] = OrderRow(o), wanted'[t][k] = OrderRow(p)
      PROVE  o < p
  <2>1. /\ j \in Nat /\ j + 1 \in DOMAIN wanted[t] /\ wanted'[t][j] = wanted[t][j + 1]
        /\ k \in Nat /\ k + 1 \in DOMAIN wanted[t] /\ wanted'[t][k] = wanted[t][k + 1]
    BY TakeFacts
  <2>2. j + 1 < k + 1
    BY <1>2, <2>1
  <2>. QED  BY <1>2, <2>1, <2>2 DEF Climbs
<1>. QED  BY <1>1, <1>2 DEF Climbs

LEMMA TickTakes ==
    ASSUME LockTypeOK, NEW i \in Names, i \in Transactions, Take(i), TickInv(i)
    PROVE  TickInv(i)'
<1>1. Climbs(i)'
  BY ClimbsOn DEF TickInv
<1>2. used'[i] \subseteq Has(i)'
  BY TakeFacts DEF TickInv, Take
<1>3. Needs(i)' = Needs(i) /\ phase'[i] = phase[i]
  BY TakeFacts
<1>4. OrdersOf(i) \subseteq OrdersOf(i)'
  BY TakeFacts DEF OrdersOf, Take
<1>5. (Asks(i)' = {}) \/ ((held[i] \union Range(wanted[i]))' \subseteq RowsOf(Orders))
  <2>1. Asks(i) = {} \/ Needs(i) \subseteq RowsOf(Orders)
    BY DEF TickInv, Needs
  <2>2. Needs(i)' = (held[i] \union Range(wanted[i]))'
    BY DEF Needs
  <2>. QED  BY <1>3, <2>1, <2>2, TakeFacts
<1>. QED  BY <1>1, <1>2, <1>3, <1>4, <1>5 DEF TickInv

LEMMA CallTakes ==
    ASSUME LockTypeOK, NEW c \in Callers, c \in Transactions, Take(c), CallInv(c)
    PROVE  CallInv(c)'
<1>1. /\ wanted[c] # <<>> /\ Head(wanted[c]) \in Range(wanted[c]) /\ phase'[c] = phase[c]
      /\ held'[c] = held[c] \union {Head(wanted[c])} /\ wanted'[c] = Tail(wanted[c])
      /\ Range(wanted'[c]) \subseteq Range(wanted[c]) /\ Needs(c)' = Needs(c)
      /\ Len(wanted[c]) = 1 => wanted'[c] = <<>>
  BY TakeFacts
<1>2. CASE phase[c] = "idle" /\ Needs(c) = {}
  BY <1>1, <1>2 DEF Needs
<1>3. CASE phase[c] \in {"place", "cancel", "cancel-all"} /\ Opening(c)
  <2>1. held[c] = {} /\ wanted[c] = <<UserLock(CallerOf[c])>>
    BY <1>1, <1>3 DEF Opening
  <2>2. Head(wanted[c]) = UserLock(CallerOf[c]) /\ Tail(wanted[c]) = <<>>
    BY <2>1
  <2>3. Opening(c)'
    BY <1>1, <2>1, <2>2 DEF Opening
  <2>. QED  BY <1>1, <1>3, <2>3 DEF CallInv
<1>4. CASE phase[c] = "reserved" /\ Reserved(c)
  <2>1. Reserved(c)'
    BY <1>1, <1>4 DEF Reserved
  <2>. QED  BY <1>1, <1>4, <2>1 DEF CallInv
<1>5. CASE phase[c] = "locked" /\ Locked(c)
  <2>1. Climbs(c)'
    BY <1>5, ClimbsOn DEF Locked
  <2>2. RowsOf(OwnOrders(c))' = RowsOf(OwnOrders(c)) /\ OwnRows(c)' = OwnRows(c)
    BY DEF RowsOf, OwnOrders, OwnRows, Take
  <2>3. Locked(c)'
    BY <1>1, <1>5, <2>1, <2>2 DEF Locked
  <2>. QED  BY <1>1, <1>5, <2>3 DEF CallInv
<1>6. CASE phase[c] = "cancelled" /\ Cancelled(c)
  <2>2. RowsOf(OwnOrders(c))' = RowsOf(OwnOrders(c)) /\ OwnRows(c)' = OwnRows(c)
    BY DEF RowsOf, OwnOrders, OwnRows, Take
  <2>3. Cancelled(c)'
    BY <1>1, <1>6, <2>2 DEF Cancelled
  <2>. QED  BY <1>1, <1>6, <2>3 DEF CallInv
<1>. QED  BY <1>2, <1>3, <1>4, <1>5, <1>6 DEF CallInv

LEMMA GeneratorTakes ==
    ASSUME LockTypeOK, Generator \in Transactions, Take(Generator), GeneratorInv
    PROVE  GeneratorInv'
<1>. DEFINE G == Generator
            At(o) == Place(Terms[o].instrument)
<1>1. /\ Needs(G)' = Needs(G) /\ phase'[G] = phase[G]
      /\ Range(wanted'[G]) \subseteq Range(wanted[G])
  BY TakeFacts
<1>2. Has(G)' \union Asks(G)' = Has(G) \union Asks(G)
  <2>1. \A o \in Orders : o \in Has(G) \union Asks(G) <=> OrderRow(o) \in Needs(G)
    BY DEF Has, Asks, Needs
  <2>2. \A o \in Orders : o \in Has(G)' \union Asks(G)' <=> OrderRow(o) \in Needs(G)'
    BY DEF Has, Asks, Needs
  <2>. QED  BY <1>1, <2>1, <2>2 DEF Has, Asks
<1>3. InPlace(Has(G) \union Asks(G))'
  BY <1>2 DEF GeneratorInv, InPlace
<1>4. RowsOf(SystemOrders \cap open)' = RowsOf(SystemOrders \cap open)
  BY DEF RowsOf, Take
<1>5. ASSUME phase[G] = "replacing"
      PROVE  /\ \A o \in Has(G)', p \in Asks(G)' : At(o) <= At(p)
             /\ \A j, k \in DOMAIN wanted'[G] : \A o, p \in Orders :
                  j < k /\ wanted'[G][j] = OrderRow(o) /\ wanted'[G][k] = OrderRow(p) => At(o) <= At(p)
  <2>1. /\ \A o \in Has(G), p \in Asks(G) : At(o) <= At(p)
        /\ \A j, k \in DOMAIN wanted[G] : \A o, p \in Orders :
              j < k /\ wanted[G][j] = OrderRow(o) /\ wanted[G][k] = OrderRow(p) => At(o) <= At(p)
    BY <1>5 DEF GeneratorInv
  <2>. HIDE DEF At
  <2>2. ASSUME NEW o \in Has(G)', NEW p \in Asks(G)' PROVE At(o) <= At(p)
    <3>0. o \in Orders /\ p \in Orders
      BY DEF Has, Asks
    <3>1. CASE o \in Has(G)
      BY <2>1, <3>1, TakeFacts
    <3>2. CASE 1 \in DOMAIN wanted[G] /\ wanted[G][1] = OrderRow(o)
      <4>1. PICK k \in DOMAIN wanted[G] : k \in Nat /\ 1 < k /\ wanted[G][k] = OrderRow(p)
        BY TakeFacts
      <4>. QED  BY <2>1, <3>0, <3>2, <4>1
    <3>. QED  BY <3>1, <3>2, TakeFacts
  <2>3. ASSUME NEW j \in DOMAIN wanted'[G], NEW k \in DOMAIN wanted'[G], NEW o \in Orders, NEW p \in Orders,
               j < k, wanted'[G][j] = OrderRow(o), wanted'[G][k] = OrderRow(p)
        PROVE  At(o) <= At(p)
    <3>1. /\ j \in Nat /\ j + 1 \in DOMAIN wanted[G] /\ wanted'[G][j] = wanted[G][j + 1]
          /\ k \in Nat /\ k + 1 \in DOMAIN wanted[G] /\ wanted'[G][k] = wanted[G][k + 1]
      BY TakeFacts
    <3>2. j + 1 < k + 1
      BY <2>3, <3>1
    <3>. QED  BY <2>1, <2>3, <3>1, <3>2
  <2>. QED  BY <2>2, <2>3
<1>. QED  BY <1>1, <1>3, <1>4, <1>5 DEF GeneratorInv

LEMMA TakeStep ==
    ASSUME LockInv, NEW t \in Transactions, Take(t)
    PROVE  LockInv'
<1>1. LockTypeOK /\ Exclusive /\ InPlace(SystemOrders \cap open) /\ Own(t)
  BY Parts
<1>2. /\ held' = [held EXCEPT ![t] = @ \union {Head(wanted[t])}]
      /\ wanted' = [wanted EXCEPT ![t] = Tail(@)] /\ UNCHANGED <<open, phase, used>>
      /\ wanted[t] # <<>> /\ HolderOf(Head(wanted[t])) \in {Free, t}
  BY DEF Take
<1>3. LockTypeOK'
  <2>1. Head(wanted[t]) \in Locks /\ Tail(wanted[t]) \in Seq(Locks)
    <3>1. wanted[t] \in Seq(Locks)
      BY <1>1 DEF LockTypeOK
    <3>. HIDE DEF Locks
    <3>. QED  BY <1>2, <3>1, TailFacts
  <2>. QED  BY <1>1, <1>2, <2>1 DEF LockTypeOK
<1>4. \A s \in Transactions : s # t => Head(wanted[t]) \notin held[s]
  <2>1. SUFFICES ASSUME NEW s \in Transactions, s # t, Head(wanted[t]) \in held[s] PROVE FALSE
    OBVIOUS
  <2>2. HolderOf(Head(wanted[t])) \in Transactions /\ Head(wanted[t]) \in held[HolderOf(Head(wanted[t]))]
    BY <2>1 DEF HolderOf
  <2>3. HolderOf(Head(wanted[t])) = t
    BY <1>2, <2>2, Apart
  <2>. QED  BY <1>1, <2>1, <2>2, <2>3 DEF Exclusive
<1>5. ASSUME NEW s \in Transactions, s # t PROVE Same(s) /\ (s \in Names => used'[s] = used[s])
  BY <1>1, <1>2, <1>5 DEF LockTypeOK, Same
<1>6. held'[t] = held[t] \union {Head(wanted[t])}
  BY <1>1, TakeFacts
<1>7. Exclusive'
  BY <1>1, <1>4, <1>5, <1>6 DEF Exclusive, Same
<1>8. Own(t)'
  BY <1>1, TickTakes, CallTakes, GeneratorTakes DEF Own
<1>9. Closes(t) /\ Opens(t) /\ open' \subseteq Orders
  BY <1>1, <1>2 DEF Closes, Opens, LockTypeOK
<1>10. ASSUME NEW s \in Transactions PROVE Own(s)'
  BY <1>5, <1>8, <1>9, OthersKept
<1>11. InPlace(SystemOrders \cap open)'
  BY <1>1, <1>2 DEF InPlace
<1>. QED  BY <1>3, <1>7, <1>10, <1>11, Parts

-----------------------------------------------------------------------------
(* The actions *)

\* A statement that lists orders asks for the rows of all of them.
LEMMA RowsFacts ==
    ASSUME NEW S \in SUBSET Orders, NEW s \in SetToSeqs(S)
    PROVE  /\ Rows(s) \in Seq(Locks) /\ Range(Rows(s)) = RowsOf(S)
           /\ DOMAIN Rows(s) = DOMAIN s
           /\ \A k \in DOMAIN s : s[k] \in S /\ Rows(s)[k] = OrderRow(s[k])
           /\ {o \in Orders : OrderRow(o) \in Range(Rows(s))} = S
<1>1. IsFiniteSet(S)
  BY Apart, FS_Subset
<1>2. s \in Seq(S) /\ Range(s) = S
  BY <1>1, ListFacts
<1>3. DOMAIN Rows(s) = DOMAIN s /\ \A k \in DOMAIN s : s[k] \in S /\ Rows(s)[k] = OrderRow(s[k])
  BY <1>2 DEF Rows
<1>4. \A k \in DOMAIN s : OrderRow(s[k]) \in Locks
  BY <1>3 DEF Locks, RowsOf
<1>5. Rows(s) \in Seq(Locks)
  <2>. HIDE DEF Locks
  <2>. QED  BY <1>2, <1>4 DEF Rows
<1>6. Range(Rows(s)) = RowsOf(S)
  <2>1. ASSUME NEW lock \in Range(Rows(s)) PROVE lock \in RowsOf(S)
    BY <1>3, <2>1 DEF Range, RowsOf
  <2>2. ASSUME NEW lock \in RowsOf(S) PROVE lock \in Range(Rows(s))
    <3>1. PICK o \in S : lock = OrderRow(o)
      BY <2>2 DEF RowsOf
    <3>2. PICK k \in DOMAIN s : s[k] = o
      BY <1>2 DEF Range
    <3>. QED  BY <1>3, <3>1, <3>2 DEF Range
  <2>. QED  BY <2>1, <2>2
<1>7. {o \in Orders : OrderRow(o) \in Range(Rows(s))} = S
  BY <1>6, LockSets
<1>. QED  BY <1>3, <1>5, <1>6, <1>7

\* Nothing is asked for in the wrong order when nothing is held.
LEMMA ListClimbs ==
    ASSUME NEW S \in SUBSET Orders, NEW s \in InSequence(S), NEW t,
           Has(t)' = {}, wanted'[t] = Rows(s)
    PROVE  Climbs(t)'
<1>1. s \in SetToSeqs(S) /\ \A j, k \in DOMAIN s : j < k => s[j] < s[k]
  BY DEF InSequence
<1>2. DOMAIN Rows(s) = DOMAIN s /\ \A k \in DOMAIN s : Rows(s)[k] = OrderRow(s[k])
  BY <1>1, RowsFacts
<1>3. ASSUME NEW j \in DOMAIN s, NEW k \in DOMAIN s, NEW o \in Orders, NEW p \in Orders,
             j < k, Rows(s)[j] = OrderRow(o), Rows(s)[k] = OrderRow(p)
      PROVE  o < p
  <2>1. s[j] = o /\ s[k] = p
    BY <1>2, <1>3, LockKinds
  <2>. QED  BY <1>1, <1>3, <2>1
<1>. QED  BY <1>2, <1>3 DEF Climbs

LEMMA TickBeginStep ==
    ASSUME LockInv, NEW i \in Names, TickLocks(i)
    PROVE  LockInv'
<1>. DEFINE S == {o \in open : Terms[o].instrument = i}
<1>1. LockTypeOK /\ TickInv(i) /\ i \in Transactions
  BY Parts, Apart DEF Own
<1>2. S \in SUBSET Orders
  BY <1>1 DEF LockTypeOK
<1>3. PICK s \in InSequence(S) : Goes(i, "idle", "matching", Rows(s))
  BY DEF TickLocks
<1>4. UNCHANGED <<open, held, used>>
  BY DEF TickLocks
<1>. HIDE DEF S
<1>5. s \in SetToSeqs(S)
  BY DEF InSequence
<1>6. /\ Rows(s) \in Seq(Locks) /\ Range(Rows(s)) = RowsOf(S)
      /\ {o \in Orders : OrderRow(o) \in Range(Rows(s))} = S
  BY <1>2, <1>5, RowsFacts
<1>7. /\ phase[i] = "idle" /\ held'[i] = held[i] /\ phase'[i] = "matching" /\ wanted'[i] = Rows(s)
      /\ Needs(i) = held[i] /\ Needs(i)' = held[i] \union RowsOf(S) /\ Has(i)' = Has(i)
  BY <1>1, <1>3, <1>4, <1>6, GoesFacts
<1>8. held[i] = {} /\ Has(i)' = {} /\ used'[i] = {}
  BY <1>1, <1>4, <1>7 DEF TickInv, Has
<1>9. Climbs(i)'
  BY <1>2, <1>7, <1>8, ListClimbs
<1>10. \A lock \in Needs(i)' : lock \in RowsOf({o \in Orders : Terms[o].instrument = i})
  BY <1>2, <1>7, <1>8 DEF RowsOf, S
<1>11. (held[i] \union Range(wanted[i]))' \subseteq RowsOf(Orders)
  BY <1>2, <1>6, <1>7, <1>8 DEF RowsOf
<1>12. TickInv(i)'
  BY <1>7, <1>8, <1>9, <1>10, <1>11 DEF TickInv
<1>13. Own(i)'
  BY <1>12, Apart DEF Own
<1>14. used' \in [Names -> SUBSET Orders] /\ \A j \in Names : used'[j] = used[j]
  BY <1>1, <1>4 DEF LockTypeOK
<1>15. "matching" \in Phases
  BY DEF Phases
<1>. QED  BY <1>1, <1>3, <1>4, <1>6, <1>13, <1>14, <1>15, GoesStep

\* A fill settles on the accounts of an order that the tick holds.
LEMMA SettlesFacts ==
    ASSUME NEW o \in Orders
    PROVE  /\ Settles(o) \in Seq(Locks)
           /\ \A lock \in Range(Settles(o)) :
                Terms[o].user \in Owners /\ lock \in Accounts(Terms[o].user)
<1>. DEFINE u == Terms[o].user
            i == Terms[o].instrument
<1>1. u \in Owners \union {System} /\ i \in Assets /\ "USD" \in Assets
  BY Apart DEF Assets
<1>2. CASE u = System
  BY <1>2, EmptyFacts DEF Settles
<1>3. CASE u # System
  <2>1. u \in Owners
    BY <1>1, <1>3
  <2>2. AccountRow(u, "USD") \in Accounts(u) /\ AccountRow(u, i) \in Accounts(u) /\ Accounts(u) \subseteq Locks
    BY <1>1, <2>1 DEF Accounts, Locks
  <2>3. \/ Settles(o) = <<AccountRow(u, "USD"), AccountRow(u, i)>>
        \/ Settles(o) = <<AccountRow(u, i), AccountRow(u, "USD")>>
    BY <1>3 DEF Settles
  <2>. HIDE DEF u, i
  <2>4. \A a, b \in Accounts(u) : <<a, b>> \in Seq(Accounts(u))
    OBVIOUS
  <2>5. Settles(o) \in Seq(Accounts(u))
    BY <2>2, <2>3, <2>4
  <2>6. Range(Settles(o)) \subseteq Accounts(u)
    BY <2>5, EmptyFacts
  <2>7. Seq(Accounts(u)) \subseteq Seq(Locks)
    BY <2>2
  <2>. QED  BY <2>1, <2>5, <2>6, <2>7 DEF u
<1>. QED  BY <1>2, <1>3

LEMMA ConcatFacts ==
    ASSUME NEW S, NEW r \in Seq(S), NEW s \in Seq(S)
    PROVE  r \o s \in Seq(S) /\ Range(r \o s) \subseteq Range(r) \union Range(s)
<1>1. r \o s \in Seq(S)
  OBVIOUS
<1>2. \A k \in DOMAIN (r \o s) :
        \/ k \in DOMAIN r /\ (r \o s)[k] = r[k]
        \/ k - Len(r) \in DOMAIN s /\ (r \o s)[k] = s[k - Len(r)]
  OBVIOUS
<1>3. ASSUME NEW x \in Range(r \o s) PROVE x \in Range(r) \union Range(s)
  <2>1. PICK k \in DOMAIN (r \o s) : x = (r \o s)[k]
    BY <1>3 DEF Range
  <2>. QED  BY <1>2, <2>1 DEF Range
<1>. QED  BY <1>1, <1>3

LEMMA TickFillStep ==
    ASSUME LockInv, NEW i \in Names, TickSettles(i)
    PROVE  LockInv'
<1>1. LockTypeOK /\ TickInv(i) /\ i \in Transactions
  BY Parts, Apart DEF Own
<1>2. PICK b \in OrdersOf(i) \ used[i], s \in OrdersOf(i) \ used[i] :
        /\ Goes(i, "matching", "matching", Settles(b) \o Settles(s))
        /\ \E done \in {{b}, {s}, {b, s}} : used' = [used EXCEPT ![i] = @ \union done]
        /\ UNCHANGED <<open, held>>
  BY DEF TickSettles, Fills
<1>. DEFINE locks == Settles(b) \o Settles(s)
<1>3. b \in Orders /\ s \in Orders /\ OrdersOf(i) \subseteq Has(i)
  BY <1>1, <1>2 DEF OrdersOf, Has, LockTypeOK
<1>4. locks \in Seq(Locks) /\ Range(locks) \subseteq Range(Settles(b)) \union Range(Settles(s))
  <2>1. Settles(b) \in Seq(Locks) /\ Settles(s) \in Seq(Locks)
    BY <1>3, SettlesFacts
  <2>. HIDE DEF Locks
  <2>. QED  BY <2>1, ConcatFacts
<1>5. \A lock \in Range(locks) :
        \E o \in OrdersOf(i) : Terms[o].user \in Owners /\ lock \in Accounts(Terms[o].user)
  BY <1>2, <1>3, <1>4, SettlesFacts
<1>. HIDE DEF locks
<1>6. UNCHANGED <<open, held>> /\ Goes(i, "matching", "matching", locks)
  BY <1>2 DEF locks
<1>7. /\ held'[i] = held[i] /\ phase'[i] = "matching" /\ wanted'[i] = locks
      /\ Needs(i) = held[i] /\ Needs(i)' = held[i] \union Range(locks) /\ Has(i)' = Has(i)
      /\ Asks(i)' = {o \in Orders : OrderRow(o) \in Range(locks)}
  BY <1>1, <1>6, GoesFacts
<1>8. Asks(i)' = {}
  BY <1>5, <1>7, LockSets
<1>9. Climbs(i)'
  <2>1. ASSUME NEW j \in DOMAIN locks, NEW o \in Orders PROVE locks[j] # OrderRow(o)
    <3>1. locks[j] \in Range(locks)
      BY DEF Range
    <3>. QED  BY <1>5, <3>1, LockSets
  <2>. QED  BY <1>7, <1>8, <2>1 DEF Climbs
<1>10. used' \in [Names -> SUBSET Orders] /\ used'[i] \subseteq Has(i) /\ \A j \in Names : j # i => used'[j] = used[j]
  <2>1. PICK done \in {{b}, {s}, {b, s}} : used' = [used EXCEPT ![i] = @ \union done]
    BY <1>2
  <2>2. done \subseteq Has(i) /\ done \subseteq Orders
    BY <1>2, <1>3, <2>1
  <2>3. used[i] \subseteq Has(i) /\ used \in [Names -> SUBSET Orders]
    BY <1>1 DEF TickInv, LockTypeOK
  <2>. QED  BY <2>1, <2>2, <2>3
<1>11. OrdersOf(i)' = OrdersOf(i)
  BY <1>6 DEF OrdersOf
<1>12. \A lock \in Needs(i)' :
         \/ lock \in RowsOf({o \in Orders : Terms[o].instrument = i})
         \/ \E o \in OrdersOf(i)' : Terms[o].user \in Owners /\ lock \in Accounts(Terms[o].user)
  BY <1>1, <1>5, <1>7, <1>11 DEF TickInv
<1>13. TickInv(i)'
  BY <1>7, <1>8, <1>9, <1>10, <1>12 DEF TickInv
<1>14. Own(i)'
  BY <1>13, Apart DEF Own
<1>15. "matching" \in Phases
  BY DEF Phases
<1>. QED  BY <1>1, <1>4, <1>6, <1>10, <1>14, <1>15, GoesStep

LEMMA TickCommitStep ==
    ASSUME LockInv, NEW i \in Names, TickEnds(i)
    PROVE  LockInv'
<1>1. LockTypeOK /\ TickInv(i) /\ i \in Transactions /\ InPlace(SystemOrders \cap open)
  BY Parts, Apart DEF Own
<1>2. open' = open \ used[i] /\ Releases(i)
  BY DEF TickEnds, Commits
<1>3. Closes(i) /\ Opens(i)
  BY <1>1, <1>2 DEF Closes, Opens, TickInv, Has
<1>4. open' \subseteq Orders /\ InPlace(SystemOrders \cap open')
  BY <1>1, <1>2 DEF LockTypeOK, InPlace
<1>. QED  BY <1>1, <1>2, <1>3, <1>4, ReleaseStep

\* Between two transactions, one has and asks for nothing.
LEMMA IdleFacts ==
    ASSUME LockTypeOK, NEW t \in Transactions, phase[t] = "idle", Own(t),
           t \in Callers \/ t = Generator
    PROVE  held[t] = {} /\ Needs(t) = {} /\ Has(t) = {}
<1>1. Needs(t) = {}
  BY DEF Own, CallInv, GeneratorInv
<1>. QED  BY <1>1 DEF Needs, Has

LEMMA GeneratorReplacesStep == ASSUME LockInv, GeneratorReplaces PROVE LockInv'
<1>. DEFINE S == SystemOrders \cap open
            G == Generator
            At(o) == Place(Terms[o].instrument)
<1>1. LockTypeOK /\ GeneratorInv /\ InPlace(S) /\ G \in Transactions /\ Own(G)
  BY Parts, Apart DEF Own
<1>2. S \in SUBSET Orders /\ S \in SUBSET SystemOrders
  BY <1>1 DEF LockTypeOK
<1>3. PICK s \in SetToSeqs(S) :
        /\ \A j, k \in DOMAIN s : j < k => At(s[j]) <= At(s[k])
        /\ Goes(G, "idle", "replacing", Rows(s))
        /\ UNCHANGED <<open, held, used>>
  BY DEF GeneratorReplaces
<1>4. SystemOrders \cap open' = S
  BY <1>3
<1>. HIDE DEF S, At
<1>5. /\ Rows(s) \in Seq(Locks) /\ Range(Rows(s)) = RowsOf(S) /\ DOMAIN Rows(s) = DOMAIN s
      /\ \A k \in DOMAIN s : Rows(s)[k] = OrderRow(s[k])
      /\ {o \in Orders : OrderRow(o) \in Range(Rows(s))} = S
  BY <1>2, RowsFacts
<1>6. /\ phase[G] = "idle" /\ held'[G] = held[G] /\ phase'[G] = "replacing" /\ wanted'[G] = Rows(s)
      /\ Needs(G)' = held[G] \union RowsOf(S) /\ Has(G)' = Has(G) /\ Asks(G)' = S
  BY <1>1, <1>3, <1>5, GoesFacts
<1>7. held[G] = {} /\ Has(G)' = {}
  BY <1>1, <1>6, IdleFacts
<1>8. Needs(G)' \subseteq RowsOf(SystemOrders)
  BY <1>2, <1>6, <1>7 DEF RowsOf
<1>9. InPlace(Has(G) \union Asks(G))'
  BY <1>1, <1>6, <1>7 DEF InPlace
<1>10. ASSUME NEW j \in DOMAIN s, NEW k \in DOMAIN s, NEW o \in Orders, NEW p \in Orders,
              j < k, Rows(s)[j] = OrderRow(o), Rows(s)[k] = OrderRow(p)
       PROVE  At(o) <= At(p)
  <2>1. s[j] = o /\ s[k] = p
    BY <1>5, <1>10, LockKinds
  <2>. QED  BY <1>3, <1>10, <2>1
<1>11. RowsOf(SystemOrders \cap open)' = RowsOf(S)
  BY <1>4 DEF RowsOf
<1>12. GeneratorInv'
  BY <1>5, <1>6, <1>7, <1>8, <1>9, <1>10, <1>11 DEF GeneratorInv, At
<1>13. Own(G)'
  BY <1>12, Apart DEF Own
<1>14. used' \in [Names -> SUBSET Orders] /\ \A j \in Names : used'[j] = used[j]
  BY <1>1, <1>3 DEF LockTypeOK
<1>15. "replacing" \in Phases
  BY DEF Phases
<1>. QED  BY <1>1, <1>3, <1>5, <1>13, <1>14, <1>15, GoesStep

LEMMA GeneratorCommitStep == ASSUME LockInv, GeneratorCommit PROVE LockInv'
<1>. DEFINE G == Generator
<1>1. LockTypeOK /\ GeneratorInv /\ G \in Transactions
  BY Parts, Apart DEF Own
<1>2. PICK new \in SUBSET SystemOrders :
        InPlace(new) /\ Commits(G, "replacing", new, OrdersOf(G) \ new)
  BY DEF GeneratorCommit
<1>3. /\ phase[G] = "replacing" /\ wanted[G] = <<>> /\ Releases(G)
      /\ open' = (open \union new) \ (OrdersOf(G) \ new)
  BY <1>2 DEF Commits
<1>4. \A o \in SystemOrders \cap open : o \in OrdersOf(G)
  <2>1. RowsOf(SystemOrders \cap open) \subseteq held[G]
    BY <1>1, <1>3, EmptyFacts DEF GeneratorInv, Needs
  <2>. QED  BY <2>1, LockSets DEF OrdersOf
<1>5. SystemOrders \cap open' \subseteq new
  BY <1>3, <1>4
<1>6. InPlace(SystemOrders \cap open')
  BY <1>2, <1>5 DEF InPlace
<1>7. Closes(G) /\ Opens(G)
  BY <1>3 DEF Closes, Opens, OrdersOf, SystemOrders
<1>8. open' \subseteq Orders
  BY <1>1, <1>3 DEF LockTypeOK, SystemOrders
<1>. QED  BY <1>1, <1>3, <1>6, <1>7, <1>8, ReleaseStep

LEMMA WithdrawStep == ASSUME LockInv, Withdraw PROVE LockInv'
<1>. DEFINE G == Generator
<1>1. LockTypeOK /\ GeneratorInv /\ InPlace(SystemOrders \cap open) /\ G \in Transactions /\ Own(G)
  BY Parts, Apart DEF Own
<1>. PICK stale \in SUBSET Names :
       \E s \in SetToSeqs({o \in SystemOrders \cap open : Terms[o].instrument \in stale}) :
          Goes(G, "idle", "withdrawing", Rows(s)) /\ UNCHANGED <<open, held, used>>
  BY DEF Withdraw
<1>. DEFINE S == {o \in SystemOrders \cap open : Terms[o].instrument \in stale}
<1>2. PICK s \in SetToSeqs(S) : Goes(G, "idle", "withdrawing", Rows(s)) /\ UNCHANGED <<open, held, used>>
  OBVIOUS
<1>3. S \in SUBSET Orders /\ S \in SUBSET SystemOrders /\ S \subseteq open
  BY <1>1 DEF LockTypeOK
<1>. HIDE DEF S
<1>4. /\ Rows(s) \in Seq(Locks) /\ Range(Rows(s)) = RowsOf(S)
      /\ {o \in Orders : OrderRow(o) \in Range(Rows(s))} = S
  BY <1>3, RowsFacts
<1>5. /\ phase[G] = "idle" /\ held'[G] = held[G] /\ phase'[G] = "withdrawing"
      /\ Needs(G)' = held[G] \union RowsOf(S) /\ Has(G)' = Has(G) /\ Asks(G)' = S
  BY <1>1, <1>2, <1>4, GoesFacts
<1>6. held[G] = {} /\ Has(G)' = {}
  BY <1>1, <1>5, IdleFacts
<1>7. Needs(G)' \subseteq RowsOf(SystemOrders)
  BY <1>3, <1>5, <1>6 DEF RowsOf
<1>8. InPlace(Has(G) \union Asks(G))'
  BY <1>1, <1>3, <1>5, <1>6 DEF InPlace
<1>9. GeneratorInv'
  BY <1>5, <1>7, <1>8 DEF GeneratorInv
<1>10. Own(G)'
  BY <1>9, Apart DEF Own
<1>11. used' \in [Names -> SUBSET Orders] /\ \A j \in Names : used'[j] = used[j]
  BY <1>1, <1>2 DEF LockTypeOK
<1>12. "withdrawing" \in Phases
  BY DEF Phases
<1>. QED  BY <1>1, <1>2, <1>4, <1>10, <1>11, <1>12, GoesStep

LEMMA WithdrawCommitStep == ASSUME LockInv, WithdrawCommit PROVE LockInv'
<1>1. LockTypeOK /\ Generator \in Transactions /\ InPlace(SystemOrders \cap open)
  BY Parts, Apart
<1>2. open' = open \ OrdersOf(Generator) /\ Releases(Generator)
  BY DEF WithdrawCommit, Commits
<1>3. Closes(Generator) /\ Opens(Generator)
  BY <1>2 DEF Closes, Opens, OrdersOf
<1>4. open' \subseteq Orders /\ InPlace(SystemOrders \cap open')
  BY <1>1, <1>2 DEF LockTypeOK, InPlace
<1>. QED  BY <1>1, <1>2, <1>3, <1>4, ReleaseStep

LEMMA CallBeginStep == ASSUME LockInv, NEW c \in Callers, CallBegin(c) PROVE LockInv'
<1>. DEFINE u == CallerOf[c]
            locks == <<UserLock(u)>>
<1>1. LockTypeOK /\ c \in Transactions /\ Own(c) /\ u \in Owners
  BY Parts, Apart
<1>2. PICK call \in {"place", "cancel", "cancel-all"} :
        Goes(c, "idle", call, locks) /\ UNCHANGED <<open, held, used>>
  BY DEF CallBegin
<1>3. locks \in Seq(Locks)
  <2>1. UserLock(u) \in Locks
    BY <1>1 DEF Locks
  <2>. HIDE DEF Locks, u
  <2>. QED  BY <2>1
<1>4. phase[c] = "idle" /\ held'[c] = held[c] /\ phase'[c] = call /\ wanted'[c] = locks
  BY <1>1, <1>2, GoesFacts
<1>5. held'[c] = {}
  BY <1>1, <1>4, IdleFacts
<1>6. Own(c)'
  BY <1>4, <1>5, Apart DEF Own, CallInv, Opening
<1>7. used' \in [Names -> SUBSET Orders] /\ \A j \in Names : used'[j] = used[j]
  BY <1>1, <1>2 DEF LockTypeOK
<1>8. call \in Phases
  BY DEF Phases
<1>. QED  BY <1>1, <1>2, <1>3, <1>6, <1>7, <1>8, GoesStep

\* A call that has opened its transaction has its user's lock and no other.
LEMMA OpenedFacts ==
    ASSUME LockInv, NEW c \in Callers, phase[c] \in {"place", "cancel", "cancel-all"},
           wanted[c] = <<>>
    PROVE  held[c] = {UserLock(CallerOf[c])}
<1>1. CallInv(c)
  BY DEF LockInv
<1>2. <<UserLock(CallerOf[c])>> # <<>>
  OBVIOUS
<1>. QED  BY <1>1, <1>2 DEF CallInv, Opening

LEMMA ReserveStep == ASSUME LockInv, NEW c \in Callers, ReserveFunds(c) PROVE LockInv'
<1>. DEFINE u == CallerOf[c]
<1>1. LockTypeOK /\ c \in Transactions /\ u \in Owners
  BY Parts, Apart
<1>2. PICK currency \in Names \union {"USD"} :
        Goes(c, "place", "reserved", <<AccountRow(u, currency)>>)
  BY DEF ReserveFunds
<1>. DEFINE row == AccountRow(u, currency)
            locks == <<row>>
<1>3. UNCHANGED <<open, held, used>>
  BY DEF ReserveFunds
<1>4. row \in Accounts(u) /\ row \in Locks
  BY <1>1 DEF Accounts, Locks, Assets
<1>. HIDE DEF row
<1>5. locks \in Seq(Locks) /\ Range(locks) = {row} /\ Len(locks) = 1
  <2>. HIDE DEF Locks
  <2>. QED  BY <1>4, EmptyFacts
<1>6. Goes(c, "place", "reserved", locks)
  BY <1>2 DEF row
<1>. HIDE DEF locks, u
<1>7. /\ phase[c] = "place" /\ wanted[c] = <<>> /\ held'[c] = held[c]
      /\ phase'[c] = "reserved" /\ wanted'[c] = locks
  BY <1>1, <1>3, <1>6, GoesFacts
<1>8. held'[c] = {UserLock(u)}
  BY <1>7, OpenedFacts DEF u
<1>9. Reserved(c)'
  BY <1>4, <1>5, <1>7, <1>8 DEF Reserved, u
<1>10. Own(c)'
  BY <1>7, <1>9, Apart DEF Own, CallInv
<1>11. used' \in [Names -> SUBSET Orders] /\ \A j \in Names : used'[j] = used[j]
  BY <1>1, <1>3 DEF LockTypeOK
<1>12. "reserved" \in Phases
  BY DEF Phases
<1>. QED  BY <1>1, <1>3, <1>5, <1>6, <1>10, <1>11, <1>12, GoesStep

LEMMA PlaceEndsStep == ASSUME LockInv, NEW c \in Callers, PlaceEnds(c) PROVE LockInv'
<1>. DEFINE u == CallerOf[c]
<1>1. LockTypeOK /\ c \in Transactions /\ u \in Owners /\ CallInv(c) /\ InPlace(SystemOrders \cap open)
      /\ System \notin Owners
  BY Parts, Apart DEF Own
<1>2. PICK opened \in {{}} \union {{o} : o \in Orders} :
        (\A o \in opened : Terms[o].user = u) /\ Commits(c, "reserved", opened, {})
  BY DEF PlaceEnds
<1>3. phase[c] = "reserved" /\ open' = open \union opened /\ Releases(c) /\ opened \subseteq Orders
  BY <1>2 DEF Commits
<1>4. UserLock(u) \in held[c]
  BY <1>1, <1>3 DEF CallInv, Reserved
<1>5. Closes(c) /\ Opens(c)
  BY <1>2, <1>3, <1>4 DEF Closes, Opens
<1>6. open' \subseteq Orders /\ SystemOrders \cap open' \subseteq open
  BY <1>1, <1>2, <1>3 DEF LockTypeOK, SystemOrders
<1>7. InPlace(SystemOrders \cap open')
  BY <1>1, <1>6 DEF InPlace
<1>. QED  BY <1>1, <1>3, <1>5, <1>6, <1>7, ReleaseStep

LEMMA NotFoundStep == ASSUME LockInv, NEW c \in Callers, NotFound(c) PROVE LockInv'
<1>1. LockTypeOK /\ c \in Transactions /\ InPlace(SystemOrders \cap open)
  BY Parts, Apart
<1>2. open' = open /\ Releases(c)
  BY DEF NotFound, Commits
<1>3. Closes(c) /\ Opens(c) /\ open' \subseteq Orders /\ InPlace(SystemOrders \cap open')
  BY <1>1, <1>2 DEF Closes, Opens, LockTypeOK
<1>. QED  BY <1>1, <1>2, <1>3, ReleaseStep

LEMMA CancelEndsStep == ASSUME LockInv, NEW c \in Callers, CancelEnds(c) PROVE LockInv'
<1>1. LockTypeOK /\ c \in Transactions /\ InPlace(SystemOrders \cap open)
  BY Parts, Apart
<1>2. open' = open \ OrdersOf(c) /\ Releases(c)
  BY DEF CancelEnds, Commits
<1>3. Closes(c) /\ Opens(c)
  BY <1>2 DEF Closes, Opens, OrdersOf
<1>4. open' \subseteq Orders /\ InPlace(SystemOrders \cap open')
  BY <1>1, <1>2 DEF LockTypeOK, InPlace
<1>. QED  BY <1>1, <1>2, <1>3, <1>4, ReleaseStep

LEMMA AbortsStep == ASSUME LockInv, NEW t \in Transactions, Aborts(t) PROVE LockInv'
<1>1. LockTypeOK /\ InPlace(SystemOrders \cap open)
  BY Parts
<1>2. open' = open /\ Releases(t)
  BY DEF Aborts
<1>3. Closes(t) /\ Opens(t) /\ open' \subseteq Orders /\ InPlace(SystemOrders \cap open')
  BY <1>1, <1>2 DEF Closes, Opens, LockTypeOK
<1>. QED  BY <1>1, <1>2, <1>3, ReleaseStep

\* The two ways a cancellation lists the orders it is going to close.
LEMMA CancelLocksStep == ASSUME LockInv, NEW c \in Callers, CancelLocks(c) PROVE LockInv'
<1>. DEFINE u == CallerOf[c]
            S == OwnOrders(c)
<1>1. LockTypeOK /\ c \in Transactions /\ S \in SUBSET Orders /\ UNCHANGED <<open, held, used>>
  BY Parts, Apart DEF LockTypeOK, OwnOrders, CancelLocks
<1>2. used' \in [Names -> SUBSET Orders] /\ \A j \in Names : used'[j] = used[j]
  BY <1>1 DEF LockTypeOK
<1>3. "locked" \in Phases
  BY DEF Phases
<1>4. RowsOf(S) \subseteq OwnRows(c) /\ RowsOf(OwnOrders(c))' = RowsOf(S) /\ OwnRows(c)' = OwnRows(c)
  BY <1>1 DEF RowsOf, OwnRows, OwnOrders
<1>5. \/ \E s \in InSequence(S) : Goes(c, "cancel-all", "locked", Rows(s))
      \/ \E o \in S : Goes(c, "cancel", "locked", <<OrderRow(o)>>)
  BY DEF CancelLocks
<1>. HIDE DEF S
<1>6. ASSUME NEW s \in InSequence(S), Goes(c, "cancel-all", "locked", Rows(s)) PROVE LockInv'
  <2>1. s \in SetToSeqs(S)
    BY DEF InSequence
  <2>2. Rows(s) \in Seq(Locks) /\ Range(Rows(s)) = RowsOf(S)
    BY <1>1, <2>1, RowsFacts
  <2>3. /\ phase[c] = "cancel-all" /\ wanted[c] = <<>> /\ held'[c] = held[c] /\ phase'[c] = "locked"
        /\ wanted'[c] = Rows(s) /\ Needs(c)' = held[c] \union RowsOf(S) /\ Has(c)' = Has(c)
    BY <1>1, <1>6, <2>2, GoesFacts
  <2>4. held[c] = {UserLock(u)} /\ Has(c) = {}
    <3>1. held[c] = {UserLock(u)}
      BY <2>3, OpenedFacts
    <3>. QED  BY <3>1, LockKinds DEF Has
  <2>5. Climbs(c)'
    BY <1>1, <2>3, <2>4, ListClimbs
  <2>6. Locked(c)'
    BY <1>4, <2>2, <2>3, <2>4, <2>5 DEF Locked
  <2>7. Own(c)'
    BY <2>3, <2>6, Apart DEF Own, CallInv
  <2>. QED  BY <1>1, <1>2, <1>3, <1>6, <2>2, <2>7, GoesStep
<1>7. ASSUME NEW o \in S, Goes(c, "cancel", "locked", <<OrderRow(o)>>) PROVE LockInv'
  <2>. DEFINE row == OrderRow(o)
              locks == <<row>>
  <2>1. o \in Orders /\ row \in Locks /\ row \in OwnRows(c) /\ Goes(c, "cancel", "locked", locks)
    BY <1>1, <1>4, <1>7 DEF Locks, RowsOf
  <2>. HIDE DEF row
  <2>2. locks \in Seq(Locks) /\ Range(locks) = {row} /\ DOMAIN locks = {1}
    <3>. HIDE DEF Locks
    <3>. QED  BY <2>1, EmptyFacts
  <2>. HIDE DEF locks
  <2>3. /\ phase[c] = "cancel" /\ wanted[c] = <<>> /\ held'[c] = held[c] /\ phase'[c] = "locked"
        /\ wanted'[c] = locks /\ Needs(c)' = held[c] \union {row} /\ Has(c)' = Has(c)
    BY <1>1, <2>1, <2>2, GoesFacts
  <2>4. held[c] = {UserLock(u)} /\ Has(c) = {}
    <3>1. held[c] = {UserLock(u)}
      BY <2>3, OpenedFacts
    <3>. QED  BY <3>1, LockKinds DEF Has
  <2>5. Climbs(c)'
    <3>1. \A j, k \in DOMAIN locks : ~ (j < k)
      BY <2>2
    <3>. QED  BY <2>3, <2>4, <3>1 DEF Climbs
  <2>6. Needs(c)' = {UserLock(u), OrderRow(o)}
    BY <2>3, <2>4 DEF row
  <2>7. Locked(c)'
    BY <1>4, <2>1, <2>2, <2>3, <2>4, <2>5, <2>6 DEF Locked
  <2>8. Own(c)'
    BY <2>3, <2>7, Apart DEF Own, CallInv
  <2>. QED  BY <1>1, <1>2, <1>3, <2>1, <2>2, <2>8, GoesStep
<1>. QED  BY <1>5, <1>6, <1>7

LEMMA CancelUpdatesStep ==
    ASSUME LockInv, NEW c \in Callers, CancelUpdates(c)
    PROVE  LockInv'
<1>. DEFINE u == CallerOf[c]
            S == OrdersOf(c)
<1>1. LockTypeOK /\ c \in Transactions /\ u \in Owners /\ CallInv(c) /\ UNCHANGED <<open, held, used>>
  BY Parts, Apart DEF Own, CancelUpdates
<1>2. PICK s \in InSequence(S) : Goes(c, "locked", "cancelled", [k \in DOMAIN s |-> Releasing(s[k])])
  BY DEF CancelUpdates
<1>. DEFINE locks == [k \in DOMAIN s |-> Releasing(s[k])]
<1>3. /\ phase[c] = "locked" /\ wanted[c] = <<>> /\ held'[c] = held[c] /\ phase'[c] = "cancelled"
      /\ wanted'[c] = locks /\ Needs(c) = held[c]
  BY <1>1, <1>2, GoesFacts
<1>4. Locked(c)
  BY <1>1, <1>3 DEF CallInv
<1>5. S \in SUBSET Orders /\ \A o \in S : Terms[o].user = u
  <2>1. S \in SUBSET Orders /\ \A o \in S : OrderRow(o) \in OwnRows(c)
    BY <1>1, <1>4, LockKinds DEF Locked, OrdersOf, LockTypeOK
  <2>. QED  BY <2>1, LockSets DEF OwnRows
<1>6. IsFiniteSet(S)
  BY <1>5, Apart, FS_Subset
<1>. HIDE DEF S
<1>7. s \in Seq(S) /\ s \in [1 .. Cardinality(S) -> S]
  <2>1. s \in SetToSeqs(S)
    BY DEF InSequence
  <2>. QED  BY <1>6, <2>1, ListFacts DEF SetToSeqs
<1>8. \A k \in DOMAIN s : Releasing(s[k]) \in Accounts(u)
  <2>1. ASSUME NEW o \in S PROVE Releasing(o) \in Accounts(u)
    <3>1. Terms[o].user = u /\ Terms[o].instrument \in Names
      BY <1>5, Apart
    <3>. QED  BY <3>1 DEF Releasing, Accounts, Assets
  <2>. QED  BY <1>7, <2>1
<1>9. locks \in Seq(Locks) /\ Range(locks) \subseteq Accounts(u)
  <2>1. locks \in Seq(Accounts(u))
    <3>1. DOMAIN s = 1 .. Len(s) /\ Len(s) \in Nat
      BY <1>7
    <3>2. locks \in [1 .. Len(s) -> Accounts(u)]
      <4>. HIDE DEF u
      <4>. QED  BY <1>8, <3>1
    <3>. HIDE DEF locks, u
    <3>. QED  BY <3>1, <3>2
  <2>2. Accounts(u) \subseteq Locks
    BY <1>1 DEF Locks
  <2>. HIDE DEF locks
  <2>. QED  BY <2>1, <2>2, EmptyFacts
<1>10. Len(locks) = Len(s) /\ Len(s) = Cardinality(S)
  BY <1>6, <1>7, FS_CardinalityType
<1>. HIDE DEF locks
<1>11. /\ UserLock(u) \in held'[c] /\ held'[c] \subseteq {UserLock(u)} \union OwnRows(c)
  BY <1>3, <1>4 DEF Locked
<1>12. \/ RowsOf(OwnOrders(c))' \subseteq held'[c]
       \/ wanted'[c] = <<>>
       \/ (Len(wanted'[c]) = 1 /\ held'[c] \cap Accounts(u) = {})
  <2>1. CASE RowsOf(OwnOrders(c)) \subseteq Needs(c)
    <3>1. RowsOf(OwnOrders(c))' = RowsOf(OwnOrders(c))
      BY <1>1 DEF RowsOf, OwnOrders
    <3>. QED  BY <1>3, <2>1, <3>1
  <2>2. CASE \E o \in Orders : Needs(c) \subseteq {UserLock(u), OrderRow(o)}
    <3>1. PICK o \in Orders : held[c] \subseteq {UserLock(u), OrderRow(o)}
      BY <1>3, <2>2
    <3>2. S \subseteq {o}
      BY <3>1, LockKinds DEF S, OrdersOf
    <3>3. CASE S = {}
      <4>1. Len(locks) = 0
        BY <1>10, <3>3, FS_EmptySet
      <4>2. locks = <<>>
        <5>. HIDE DEF Locks
        <5>. QED  BY <1>9, <4>1, NoLength
      <4>. QED  BY <1>3, <4>2
    <3>4. CASE S = {o}
      <4>1. Len(locks) = 1
        BY <1>10, <3>4, FS_Singleton
      <4>2. held[c] \cap Accounts(u) = {}
        BY <3>1, LockSets
      <4>. QED  BY <1>3, <4>1, <4>2
    <3>. QED  BY <3>2, <3>3, <3>4
  <2>. QED  BY <1>4, <2>1, <2>2 DEF Locked
<1>13. Cancelled(c)'
  <2>1. OwnRows(c)' = OwnRows(c)
    BY DEF OwnRows
  <2>. QED  BY <1>3, <1>9, <1>11, <1>12, <2>1 DEF Cancelled
<1>14. Own(c)'
  BY <1>3, <1>13, Apart DEF Own, CallInv
<1>15. used' \in [Names -> SUBSET Orders] /\ \A j \in Names : used'[j] = used[j]
  BY <1>1 DEF LockTypeOK
<1>16. "cancelled" \in Phases
  BY DEF Phases
<1>17. Goes(c, "locked", "cancelled", locks)
  BY <1>2 DEF locks
<1>. QED  BY <1>1, <1>9, <1>14, <1>15, <1>16, <1>17, GoesStep

LEMMA Stuttering == ASSUME LockInv, UNCHANGED lockVars PROVE LockInv'
<1>1. LockTypeOK /\ Exclusive /\ InPlace(SystemOrders \cap open) /\ \A t \in Transactions : Own(t)
  BY Parts
<1>2. UNCHANGED <<open, phase, held, wanted, used>>
  BY DEF lockVars
<1>3. ASSUME NEW t \in Transactions PROVE Own(t)'
  <2>1. Closes(t) /\ Opens(t) /\ open' \subseteq Orders /\ Same(t)
    BY <1>1, <1>2 DEF Closes, Opens, Same, LockTypeOK
  <2>2. t \in Names => TickInv(t)'
    BY <1>1, <1>2, <2>1, TickKept DEF Own, OrdersOf
  <2>3. t \in Callers => CallInv(t)'
    BY <1>1, <1>2, <2>1, CallKept DEF Own, OwnOrders
  <2>4. t = Generator => GeneratorInv'
    BY <1>1, <1>2, <2>1, GeneratorKept DEF Own
  <2>. QED  BY <2>2, <2>3, <2>4 DEF Own
<1>4. LockTypeOK' /\ Exclusive' /\ InPlace(SystemOrders \cap open)'
  BY <1>1, <1>2 DEF LockTypeOK, Exclusive, InPlace
<1>. QED  BY <1>3, <1>4, Parts

LEMMA Inductive == ASSUME LockInv, [LockNext]_lockVars PROVE LockInv'
<1>1. ASSUME NEW t \in Transactions, Take(t) \/ Aborts(t) PROVE LockInv'
  BY <1>1, TakeStep, AbortsStep
<1>2. ASSUME NEW i \in Names, Ticks(i) PROVE LockInv'
  BY <1>2, TickBeginStep, TickFillStep, TickCommitStep DEF Ticks
<1>3. CASE Generates
  BY <1>3, GeneratorReplacesStep, GeneratorCommitStep, WithdrawStep, WithdrawCommitStep DEF Generates
<1>4. ASSUME NEW c \in Callers, CallBegin(c) \/ Call(c) PROVE LockInv'
  BY <1>4, CallBeginStep, ReserveStep, PlaceEndsStep, CancelLocksStep, NotFoundStep,
     CancelUpdatesStep, CancelEndsStep DEF Call
<1>5. CASE UNCHANGED lockVars
  BY <1>5, Stuttering
<1>. QED  BY <1>1, <1>2, <1>3, <1>4, <1>5 DEF LockNext

THEOREM LockInvariance == LockSpec => []LockInv
<1>1. LockInit => LockInv
  BY Initially
<1>2. LockInv /\ [LockNext]_lockVars => LockInv'
  BY Inductive
<1>. QED  BY <1>1, <1>2, PTL DEF LockSpec


-----------------------------------------------------------------------------
(* Circles *)

LockOf(s) == Head(wanted[s])

Circle(C) ==
    /\ C \subseteq Waiting
    /\ \A s \in C : WaitsFor(s) \in C
    /\ \A s \in C : \E r \in C : WaitsFor(r) = s

AccountRows == UNION {Accounts(u) : u \in Owners}

\* Those in a circle that wait for an account, and those that wait for an order.
OnAccounts(C) == {s \in C : LockOf(s) \in AccountRows}
OnOrders(C) == C \ OnAccounts(C)

\* Who waits, waits for another that has the lock, and is waited for.
LEMMA CircleFacts ==
    ASSUME LockInv, NEW C, Circle(C), NEW s \in C
    PROVE  /\ s \in Transactions /\ WaitsFor(s) \in C /\ WaitsFor(s) # s
           /\ wanted[s] # <<>> /\ LockOf(s) \in Range(wanted[s]) /\ LockOf(s) \in Locks
           /\ LockOf(s) \in held[WaitsFor(s)] /\ LockOf(s) \notin held[s]
           /\ \E r \in C : WaitsFor(r) = s
           /\ Own(s)
<1>1. LockTypeOK /\ Exclusive /\ \A t \in Transactions : Own(t)
  BY Parts
<1>2. s \in Transactions /\ WaitsFor(s) \notin {Free, s} /\ WaitsFor(s) \in C
      /\ \E r \in C : WaitsFor(r) = s
  BY DEF Circle, Waiting
<1>3. wanted[s] # <<>> /\ WaitsFor(s) = HolderOf(LockOf(s))
  BY <1>2 DEF WaitsFor, LockOf
<1>4. LockOf(s) \in Range(wanted[s]) /\ LockOf(s) \in Locks
  <2>1. wanted[s] \in Seq(Locks)
    BY <1>1, <1>2 DEF LockTypeOK
  <2>. HIDE DEF Locks
  <2>. QED  BY <1>3, <2>1, TailFacts DEF LockOf
<1>5. WaitsFor(s) \in Transactions /\ LockOf(s) \in held[WaitsFor(s)]
  BY <1>2, <1>3 DEF HolderOf
<1>6. LockOf(s) \notin held[s]
  BY <1>1, <1>2, <1>5 DEF Exclusive
<1>. QED  BY <1>1, <1>2, <1>3, <1>4, <1>5, <1>6

\* What a call has and asks for, when it waits.
LEMMA CallWaits ==
    ASSUME NEW c, CallInv(c), wanted[c] # <<>>, NEW lock \in Range(wanted[c])
    PROVE  \/ held[c] = {}
           \/ /\ phase[c] = "reserved" /\ held[c] = {UserLock(CallerOf[c])}
              /\ lock \in Accounts(CallerOf[c])
           \/ phase[c] = "locked" /\ Locked(c) /\ lock \in OwnRows(c)
           \/ phase[c] = "cancelled" /\ Cancelled(c) /\ lock \in Accounts(CallerOf[c])
<1>1. CASE phase[c] = "idle" /\ Needs(c) = {}
  BY <1>1 DEF Needs
<1>2. CASE phase[c] \in {"place", "cancel", "cancel-all"} /\ Opening(c)
  BY <1>2 DEF Opening
<1>3. CASE phase[c] = "reserved" /\ Reserved(c)
  BY <1>3 DEF Reserved
<1>4. CASE phase[c] = "locked" /\ Locked(c)
  BY <1>4 DEF Locked
<1>5. CASE phase[c] = "cancelled" /\ Cancelled(c)
  BY <1>5 DEF Cancelled
<1>. QED  BY <1>1, <1>2, <1>3, <1>4, <1>5 DEF CallInv

\* Each member of a circle is one of four kinds.
LEMMA Kinds ==
    ASSUME LockInv, NEW C, Circle(C), NEW s \in C
    PROVE  \/ s \in Names /\ TickInv(s)
           \/ s = Generator /\ GeneratorInv /\ LockOf(s) \in RowsOf(SystemOrders)
           \/ /\ s \in Callers /\ held[s] = {UserLock(CallerOf[s])}
              /\ LockOf(s) \in Accounts(CallerOf[s])
           \/ s \in Callers /\ Locked(s) /\ LockOf(s) \in OwnRows(s)
           \/ s \in Callers /\ Cancelled(s) /\ LockOf(s) \in Accounts(CallerOf[s])
<1>1. /\ s \in Transactions /\ wanted[s] # <<>> /\ LockOf(s) \in Range(wanted[s]) /\ Own(s)
      /\ \E r \in C : WaitsFor(r) = s
  BY CircleFacts
<1>2. held[s] # {}
  <2>1. PICK r \in C : WaitsFor(r) = s
    BY <1>1
  <2>2. LockOf(r) \in held[WaitsFor(r)]
    BY CircleFacts
  <2>. QED  BY <2>1, <2>2
<1>3. CASE s \in Names
  BY <1>1, <1>3 DEF Own
<1>4. CASE s = Generator
  BY <1>1, <1>4 DEF Own, GeneratorInv, Needs
<1>5. CASE s \in Callers
  BY <1>1, <1>2, <1>5, CallWaits DEF Own
<1>. QED  BY <1>1, <1>3, <1>4, <1>5, Apart

\* Everybody in a circle waits for an order or an account, and who has an account
\* waits for an account.
LEMMA WaitKinds ==
    ASSUME LockInv, NEW C, Circle(C), NEW s \in C
    PROVE  /\ LockOf(s) \in RowsOf(Orders) \/ s \in OnAccounts(C)
           /\ LockOf(s) \in AccountRows => LockOf(s) \notin RowsOf(Orders)
           /\ held[s] \cap AccountRows # {} => s \in OnAccounts(C)
<1>1. /\ s \in Transactions /\ LockOf(s) \in Range(wanted[s]) /\ LockOf(s) \in Locks
      /\ LockOf(s) \in Needs(s)
  BY CircleFacts DEF Needs
<1>2. LockOf(s) \in AccountRows => LockOf(s) \notin RowsOf(Orders)
  BY LockSets DEF AccountRows
<1>3. \A S : S \subseteq Orders => RowsOf(S) \subseteq RowsOf(Orders)
  BY DEF RowsOf
<1>4. LockOf(s) \in RowsOf(Orders) \/ LockOf(s) \in AccountRows
      \/ \E u : LockOf(s) = UserLock(u)
  BY <1>1 DEF Locks, AccountRows
<1>5. CASE s \in Names /\ TickInv(s)
  <2>1. \/ LockOf(s) \in RowsOf({o \in Orders : Terms[o].instrument = s})
        \/ \E o \in OrdersOf(s) : Terms[o].user \in Owners /\ LockOf(s) \in Accounts(Terms[o].user)
    BY <1>1, <1>5 DEF TickInv
  <2>2. LockOf(s) \in RowsOf(Orders) \/ LockOf(s) \in AccountRows
    BY <1>3, <2>1 DEF AccountRows
  <2>3. ASSUME NEW lock \in held[s], lock \in AccountRows PROVE LockOf(s) \in AccountRows
    <3>1. lock \notin RowsOf(Orders)
      BY <2>3, LockSets DEF AccountRows
    <3>2. Asks(s) = {}
      BY <1>5, <3>1 DEF TickInv
    <3>3. LockOf(s) \notin RowsOf(Orders)
      BY <1>1, <3>2 DEF Asks, RowsOf
    <3>. QED  BY <2>2, <3>3
  <2>. QED  BY <1>2, <2>2, <2>3 DEF OnAccounts
<1>6. CASE s = Generator /\ GeneratorInv /\ LockOf(s) \in RowsOf(SystemOrders)
  <2>1. SystemOrders \subseteq Orders
    BY DEF SystemOrders
  <2>2. held[s] \subseteq RowsOf(Orders)
    BY <1>3, <1>6, <2>1 DEF GeneratorInv, Needs
  <2>. QED  BY <1>2, <1>3, <1>6, <2>1, <2>2, LockSets DEF AccountRows
<1>7. CASE s \in Callers /\ LockOf(s) \in Accounts(CallerOf[s])
  <2>1. LockOf(s) \in AccountRows
    BY <1>7, Apart DEF AccountRows
  <2>. QED  BY <1>2, <2>1 DEF OnAccounts
<1>8. CASE s \in Callers /\ Locked(s) /\ LockOf(s) \in OwnRows(s)
  <2>1. OwnRows(s) \subseteq RowsOf(Orders)
    BY <1>3 DEF OwnRows
  <2>2. held[s] \cap AccountRows = {}
    BY <1>8, <2>1, LockSets DEF Locked, AccountRows
  <2>. QED  BY <1>2, <1>8, <2>1, <2>2
<1>. QED  BY <1>5, <1>6, <1>7, <1>8, Kinds


LEMMA LeadsBack ==
    ASSUME NEW C, Circle(C), NEW D \in SUBSET C, \A s \in D : WaitsFor(s) \in D
    PROVE  /\ \A s, r \in C : WaitsFor(s) = WaitsFor(r) => s = r
           /\ \A s \in C : WaitsFor(s) \in D => s \in D
<1>. DEFINE next == [s \in C |-> WaitsFor(s)]
<1>1. IsFiniteSet(C)
  <2>1. C \subseteq Transactions
    BY DEF Circle, Waiting
  <2>. QED  BY <2>1, TransactionsAreFinite, FS_Subset
<1>2. next \in [C -> C] /\ \A s \in C : next[s] = WaitsFor(s)
  BY DEF Circle
<1>3. \A s \in C : \E r \in C : next[r] = s
  BY <1>2 DEF Circle
<1>4. \A s \in D : next[s] \in D
  BY <1>2
<1>. HIDE DEF next
<1>5. /\ \A s, r \in C : next[s] = next[r] => s = r
      /\ \A s \in C : next[s] \in D => s \in D
  BY <1>1, <1>2, <1>3, <1>4, CycleBack
<1>. QED  BY <1>2, <1>5

\* Those who wait for accounts wait for each other, and nobody else for them.
LEMMA AccountsApart ==
    ASSUME LockInv, NEW C, Circle(C), NEW s \in C
    PROVE  s \in OnAccounts(C) <=> WaitsFor(s) \in OnAccounts(C)
<1>1. ASSUME NEW r \in OnAccounts(C) PROVE WaitsFor(r) \in OnAccounts(C)
  <2>1. r \in C /\ LockOf(r) \in AccountRows
    BY DEF OnAccounts
  <2>2. WaitsFor(r) \in C /\ LockOf(r) \in held[WaitsFor(r)]
    BY <2>1, CircleFacts
  <2>. QED  BY <2>1, <2>2, WaitKinds
<1>2. OnAccounts(C) \subseteq C
  BY DEF OnAccounts
<1>. QED  BY <1>1, <1>2, LeadsBack

\* No call is among them: when another waits for an account of its, it has all
\* orders of its user, and nobody could have taken the account it waits for.
LEMMA NoCallOnAccounts ==
    ASSUME LockInv, NEW C, Circle(C), NEW c \in OnAccounts(C)
    PROVE  c \notin Callers
<1>. DEFINE u == CallerOf[c]
            h == WaitsFor(c)
<1>1. SUFFICES ASSUME c \in Callers PROVE FALSE
  OBVIOUS
<1>2. c \in C /\ LockOf(c) \in AccountRows /\ u \in Owners
  BY <1>1, Apart DEF OnAccounts
<1>3. h \in C /\ h # c /\ LockOf(c) \in held[h] /\ h \in OnAccounts(C) /\ wanted[c] # <<>>
      /\ c \in Transactions /\ h \in Transactions
  <2>1. h \in C /\ h # c /\ LockOf(c) \in held[h] /\ wanted[c] # <<>> /\ c \in Transactions
    BY <1>2, CircleFacts
  <2>. QED  BY <1>2, <2>1, AccountsApart, CircleFacts
<1>4. PICK r \in C : WaitsFor(r) = c
  BY <1>2, CircleFacts
<1>5. LockOf(r) \in held[c] /\ LockOf(r) \in AccountRows
  <2>1. LockOf(r) \in held[c]
    BY <1>4, CircleFacts
  <2>2. r \in OnAccounts(C)
    BY <1>4, AccountsApart
  <2>. QED  BY <2>1, <2>2 DEF OnAccounts
<1>6. Exclusive
  BY Parts
<1>7. Cancelled(c) /\ LockOf(c) \in Accounts(u)
  <2>1. ~ (held[c] = {UserLock(u)})
    BY <1>5, LockSets DEF AccountRows
  <2>2. ~ (LockOf(c) \in OwnRows(c))
    BY <1>2, LockSets DEF OwnRows, AccountRows
  <2>. QED  BY <1>1, <1>2, <2>1, <2>2, Kinds, Apart
<1>8. RowsOf(OwnOrders(c)) \subseteq held[c] /\ UserLock(u) \in held[c]
  <2>1. LockOf(r) \in Accounts(u)
    BY <1>5, <1>7, LockSets DEF Cancelled, OwnRows, AccountRows
  <2>. QED  BY <1>3, <1>5, <1>7, <2>1 DEF Cancelled
<1>9. CASE h \in Names /\ TickInv(h)
  <2>1. LockOf(c) \in Needs(h)
    BY <1>3 DEF Needs
  <2>2. PICK o \in OrdersOf(h) : Terms[o].user \in Owners /\ LockOf(c) \in Accounts(Terms[o].user)
    BY <1>7, <1>9, <2>1, LockSets DEF TickInv
  <2>3. Terms[o].user = u
    BY <1>7, <2>2, LockSets
  <2>4. o \in OwnOrders(c) /\ OrderRow(o) \in held[h]
    BY <2>3 DEF OrdersOf, OwnOrders
  <2>5. OrderRow(o) \in held[c]
    BY <1>8, <2>4 DEF RowsOf
  <2>. QED  BY <1>3, <1>6, <2>4, <2>5 DEF Exclusive
<1>10. CASE h = Generator /\ GeneratorInv
  <2>1. LockOf(c) \in RowsOf(SystemOrders)
    BY <1>3, <1>10 DEF GeneratorInv, Needs
  <2>. QED  BY <1>7, <2>1, LockSets
<1>11. CASE h \in Callers /\ held[h] = {UserLock(CallerOf[h])}
  BY <1>3, <1>7, <1>11, LockSets
<1>12. CASE h \in Callers /\ LockOf(h) \in OwnRows(h)
  BY <1>3, <1>12, LockSets DEF OnAccounts, OwnRows, AccountRows
<1>13. CASE h \in Callers /\ Cancelled(h)
  <2>1. LockOf(c) \in Accounts(CallerOf[h]) /\ UserLock(CallerOf[h]) \in held[h]
    BY <1>3, <1>7, <1>13, LockSets DEF Cancelled, OwnRows
  <2>2. CallerOf[h] = u
    BY <1>7, <2>1, LockSets
  <2>. QED  BY <1>3, <1>6, <1>8, <2>1, <2>2 DEF Exclusive
<1>. QED  BY <1>3, <1>9, <1>10, <1>11, <1>12, <1>13, Kinds

-----------------------------------------------------------------------------
(* Those who wait for orders *)

NumberOf(s) == CHOOSE o \in Orders : LockOf(s) = OrderRow(o)

LEMMA OrdersFacts ==
    ASSUME LockInv, NEW C, Circle(C), NEW s \in OnOrders(C)
    PROVE  /\ s \in C /\ WaitsFor(s) \in OnOrders(C)
           /\ NumberOf(s) \in Orders /\ LockOf(s) = OrderRow(NumberOf(s))
           /\ NumberOf(s) \in Asks(s) /\ NumberOf(s) \in Has(WaitsFor(s))
<1>1. s \in C /\ s \notin OnAccounts(C)
  BY DEF OnOrders
<1>2. WaitsFor(s) \in OnOrders(C)
  BY <1>1, AccountsApart, CircleFacts DEF OnOrders
<1>3. LockOf(s) \in RowsOf(Orders)
  BY <1>1, WaitKinds
<1>4. NumberOf(s) \in Orders /\ LockOf(s) = OrderRow(NumberOf(s))
  BY <1>3 DEF RowsOf, NumberOf
<1>5. LockOf(s) \in Range(wanted[s]) /\ LockOf(s) \in held[WaitsFor(s)]
  BY <1>1, CircleFacts
<1>. QED  BY <1>1, <1>2, <1>4, <1>5 DEF Asks, Has

\* They wait for greater and greater numbers, except that a tick and the generator
\* may wait for each other within one instrument.
LEMMA ClimbOrMeet ==
    ASSUME LockInv, NEW C, Circle(C), NEW s \in OnOrders(C),
           Generator \in C => phase[Generator] # "withdrawing"
    PROVE  \/ NumberOf(s) < NumberOf(WaitsFor(s))
           \/ WaitsFor(s) = Generator /\ WaitsFor(Generator) = s /\ s \in Names
<1>. DEFINE h == WaitsFor(s)
            q == NumberOf(s)
            p == NumberOf(h)
            G == Generator
<1>1. /\ s \in C /\ h \in C /\ h \in OnOrders(C) /\ WaitsFor(h) \in OnOrders(C) /\ WaitsFor(h) \in C
      /\ q \in Orders /\ LockOf(s) = OrderRow(q) /\ q \in Has(h)
      /\ p \in Orders /\ LockOf(h) = OrderRow(p) /\ p \in Asks(h) /\ p \in Has(WaitsFor(h))
      /\ h # s /\ WaitsFor(h) # h
  <2>1. /\ s \in C /\ h \in OnOrders(C) /\ q \in Orders /\ LockOf(s) = OrderRow(q) /\ q \in Has(h)
    BY OrdersFacts
  <2>2. /\ h \in C /\ WaitsFor(h) \in OnOrders(C) /\ p \in Orders /\ LockOf(h) = OrderRow(p)
        /\ p \in Asks(h) /\ p \in Has(WaitsFor(h))
    BY <2>1, OrdersFacts
  <2>3. h # s /\ WaitsFor(h) # h /\ WaitsFor(h) \in C
    BY <2>1, <2>2, CircleFacts
  <2>. QED  BY <2>1, <2>2, <2>3
<1>. HIDE DEF h, q, p
<1>2. \A c, o : ~ (OrderRow(o) \in Accounts(c))
  BY LockSets
<1>3. CASE h \in Names /\ TickInv(h)
  BY <1>1, <1>3 DEF TickInv, Climbs, h, q, p
<1>4. CASE h \in Callers /\ Locked(h)
  BY <1>1, <1>4 DEF Locked, Climbs, h, q, p
<1>5. CASE h \in Callers /\ LockOf(h) \in Accounts(CallerOf[h])
  BY <1>1, <1>2, <1>5
<1>6. CASE h = G /\ GeneratorInv
  <2>1. wanted[G] # <<>> /\ Needs(G) # {}
    <3>1. LockOf(h) \in Range(wanted[h]) /\ wanted[h] # <<>>
      BY <1>1, CircleFacts
    <3>. QED  BY <1>6, <3>1 DEF Needs
  <2>2. phase[G] = "replacing"
    BY <1>1, <1>6, <2>1 DEF GeneratorInv
  <2>3. Place(Terms[q].instrument) <= Place(Terms[p].instrument)
        /\ InPlace(Has(G) \union Asks(G))
    BY <1>1, <1>6, <2>2 DEF GeneratorInv
  <2>4. CASE Place(Terms[q].instrument) < Place(Terms[p].instrument)
    <3>1. q < p
      BY <1>1, <1>6, <2>3, <2>4 DEF InPlace
    <3>. QED  BY <3>1 DEF h, q, p
  <2>5. CASE Place(Terms[q].instrument) = Place(Terms[p].instrument)
    <3>1. Terms[q].instrument = Terms[p].instrument
      <4>1. \A i \in Names : Symbols[Place(i)] = i
        BY DEF Names, Place
      <4>. QED  BY <1>1, <2>5, <4>1, Apart
    <3>2. q \in SystemOrders /\ p \in SystemOrders
      BY <1>1, <1>6, LockSets DEF GeneratorInv, Needs, Has, Asks
    <3>3. ASSUME NEW t \in C, NEW o \in SystemOrders, OrderRow(o) \in Needs(t), t # G
          PROVE  t \in Names /\ Terms[o].instrument = t
      <4>1. Terms[o].user = System /\ o \in Orders
        BY DEF SystemOrders
      <4>2. CASE t \in Names /\ TickInv(t)
        <5>1. OrderRow(o) \in RowsOf({x \in Orders : Terms[x].instrument = t})
          BY <1>2, <3>3, <4>2 DEF TickInv
        <5>2. o \in {x \in Orders : Terms[x].instrument = t}
          BY <5>1, LockSets
        <5>. QED  BY <4>2, <5>2
      <4>3. ASSUME t \in Callers PROVE FALSE
        <5>1. CallInv(t)
          BY <4>3 DEF LockInv
        <5>2. ~ (OrderRow(o) \in OwnRows(t))
          BY <4>1, <4>3, LockSets, Apart DEF OwnRows
        <5>3. wanted[t] # <<>> /\ held[t] # {}
          <6>1. PICK r \in C : WaitsFor(r) = t
            BY CircleFacts
          <6>. QED  BY <6>1, CircleFacts
        <5>4. \A x : OrderRow(o) # UserLock(x)
          BY LockKinds
        <5>5. CASE OrderRow(o) \in held[t]
          <6>1. PICK lock \in Range(wanted[t]) : TRUE
            BY CircleFacts
          <6>. QED  BY <1>2, <5>1, <5>2, <5>3, <5>4, <5>5, CallWaits DEF Locked, Cancelled
        <5>6. CASE OrderRow(o) \in Range(wanted[t])
          BY <1>2, <5>1, <5>2, <5>3, <5>6, CallWaits
        <5>. QED  BY <3>3, <5>5, <5>6 DEF Needs
      <4>. QED  BY <3>3, <4>2, <4>3, Kinds
    <3>4. OrderRow(q) \in Needs(s) /\ OrderRow(p) \in Needs(WaitsFor(h))
      <4>1. OrderRow(q) \in Range(wanted[s])
        BY <1>1, CircleFacts
      <4>2. OrderRow(p) \in held[WaitsFor(h)]
        BY <1>1, CircleFacts
      <4>. QED  BY <4>1, <4>2 DEF Needs
    <3>5. s \in Names /\ Terms[q].instrument = s
      BY <1>1, <1>6, <3>2, <3>3, <3>4
    <3>6. Terms[p].instrument = WaitsFor(h)
      BY <1>1, <1>6, <3>2, <3>3, <3>4
    <3>. QED  BY <1>6, <3>1, <3>5, <3>6 DEF h
  <2>6. Place(Terms[q].instrument) \in Nat /\ Place(Terms[p].instrument) \in Nat
    <3>1. \A i \in Names : Place(i) \in DOMAIN Symbols
      BY DEF Names, Place
    <3>2. DOMAIN Symbols \subseteq Nat
      BY LockAssumption
    <3>. QED  BY <1>1, <3>1, <3>2, Apart
  <2>. QED  BY <2>3, <2>4, <2>5, <2>6
<1>. QED  BY <1>1, <1>3, <1>4, <1>5, <1>6, Kinds

\* So a circle without the withdrawing generator has no call.
LEMMA NoCall ==
    ASSUME LockInv, NEW C, Circle(C),
           Generator \in C => phase[Generator] # "withdrawing"
    PROVE  C \cap Callers = {}
<1>. DEFINE D(S) == OnOrders(C) \ S
            Meet(s) == WaitsFor(s) = Generator /\ WaitsFor(Generator) = s /\ s \in Names
<1>1. OnOrders(C) \subseteq C /\ \A s \in OnOrders(C) : WaitsFor(s) \in OnOrders(C)
  BY OrdersFacts DEF OnOrders
<1>2. \A s, r \in C : WaitsFor(s) = WaitsFor(r) => s = r
  BY <1>1, LeadsBack
<1>3. \A s \in OnOrders(C) : Meet(s) \/ NumberOf(s) < NumberOf(WaitsFor(s))
  BY ClimbOrMeet
<1>4. \A s \in OnOrders(C) : NumberOf(s) \in Orders
  BY OrdersFacts
<1>. HIDE DEF Meet
<1>5. ASSUME NEW S, \A s \in D(S) : WaitsFor(s) \in D(S) /\ ~ Meet(s)
      PROVE  D(S) = {}
  <2>. DEFINE next == [s \in D(S) |-> WaitsFor(s)]
              n == [s \in D(S) |-> NumberOf(s)]
  <2>1. next \in [D(S) -> D(S)] /\ n \in [D(S) -> Orders]
    BY <1>4, <1>5
  <2>2. \A s \in D(S) : n[s] < n[next[s]]
    BY <1>3, <1>5
  <2>3. Orders \in SUBSET Nat /\ IsFiniteSet(Orders)
    BY Apart
  <2>. HIDE DEF D, next, n
  <2>. QED  BY <2>1, <2>2, <2>3, NoClimb
<1>6. ASSUME NEW c \in C, c \in Callers PROVE FALSE
  <2>1. c \in OnOrders(C)
    BY <1>6, NoCallOnAccounts DEF OnOrders
  <2>2. CASE \A s \in OnOrders(C) : ~ Meet(s)
    <3>1. D({}) = {}
      <4>1. \A s \in D({}) : WaitsFor(s) \in D({}) /\ ~ Meet(s)
        BY <1>1, <2>2
      <4>. HIDE DEF D
      <4>. QED  BY <1>5, <4>1
    <3>. QED  BY <2>1, <3>1
  <2>3. ASSUME NEW s \in OnOrders(C), Meet(s) PROVE FALSE
    <3>. DEFINE S == {s, Generator}
    <3>1. WaitsFor(s) = Generator /\ WaitsFor(Generator) = s /\ s \in Names /\ Generator \in C /\ s \in C
      BY <1>1, <2>3 DEF Meet
    <3>2. ASSUME NEW r \in D(S) PROVE WaitsFor(r) \in D(S) /\ ~ Meet(r)
      <4>1. r \in C /\ r # s /\ r # Generator /\ WaitsFor(r) \in OnOrders(C)
        BY <1>1, <3>2
      <4>2. WaitsFor(r) # Generator /\ WaitsFor(r) # s
        BY <1>2, <3>1, <4>1
      <4>. QED  BY <4>1, <4>2 DEF Meet
    <3>3. D(S) = {}
      <4>. HIDE DEF D, S
      <4>. QED  BY <1>5, <3>2
    <3>4. c # s /\ c # Generator
      BY <1>6, <3>1, Apart
    <3>. QED  BY <2>1, <3>3, <3>4
  <2>. QED  BY <2>2, <2>3
<1>. QED  BY <1>6

LEMMA NoVictims == ASSUME LockInv PROVE CallsAreNoVictims
<1>1. SUFFICES ASSUME NEW c \in InCircle, c \in Callers,
                      ~ (Generator \in InCircle /\ phase[Generator] = "withdrawing")
               PROVE  FALSE
  BY DEF CallsAreNoVictims
<1>2. PICK C \in SUBSET Waiting : c \in C /\ Circle(C)
  BY <1>1 DEF InCircle, Circle
<1>3. C \subseteq InCircle
  BY <1>2 DEF InCircle, Circle
<1>4. C \cap Callers = {}
  BY <1>1, <1>2, <1>3, NoCall
<1>. QED  BY <1>1, <1>2, <1>4

\* LockOrder.CallsAreNoVictims, whatever the users, instruments, orders and calls.
THEOREM CallsAreSafe == LockSpec => []CallsAreNoVictims
<1>1. LockInv => CallsAreNoVictims
  BY NoVictims
<1>. QED  BY <1>1, LockInvariance, PTL
=============================================================================
