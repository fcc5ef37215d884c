--------------------------- MODULE GeneratorProofs ---------------------------
(***************************************************************************)
(* Proofs about Generator, for any generators, seeds, random numbers and   *)
(* live prices.                                                            *)
(***************************************************************************)
EXTENDS Generator, TLAPS

\* Rounding an integer gives an integer.
LEMMA RoundedIsInt ==
    ASSUME NEW n \in Int, NEW d \in Nat \ {0}
    PROVE  RoundHalfEven(n, d) \in Int
  BY DEF RoundHalfEven

\* A generated price is positive and near its anchor, whatever the noise.
LEMMA NextPriceIsNear ==
    ASSUME NEW current \in Int, NEW anchor \in Price, NEW noise \in Int
    PROVE  /\ NextPrice(current, anchor, noise) \in Price
           /\ NextPrice(current, anchor, noise) >= anchor \div 2
           /\ NextPrice(current, anchor, noise) <= Higher(3 * (anchor \div 2), 2)
<1>. DEFINE n == current * (10000 + noise) + (anchor - current) * 2
            r == RoundHalfEven(n, 20000)
            h == anchor \div 2
<1>1. anchor \in Nat
  BY DEF Price
<1>2. current * (10000 + noise) \in Int /\ (anchor - current) * 2 \in Int
  BY <1>1
<1>3. n \in Int
  BY <1>2
<1>. HIDE DEF n
<1>4. r \in Int
  BY <1>3, RoundedIsInt
<1>5. h \in Nat
  BY <1>1
<1>6. NextPrice(current, anchor, noise) = Lower(Higher(2 * r, Higher(h, 2)), Higher(3 * h, 2))
  BY DEF NextPrice, n
<1>. HIDE DEF r, h
<1>. QED  BY <1>4, <1>5, <1>6 DEF Lower, Higher, Price, h

\* What a simulated tick makes of the market: one step of the sequence from the
\* price as it is, positive and near an anchor in whole cents.
LEMMA GeneratedMarket ==
    ASSUME NEW g \in Generators, IInv, pc[g] = "tick", market.step < MaxSteps
    PROVE  /\ Generated(g) \in Market
           /\ Generated(g).anchor \in Price /\ Generated(g).anchor % 2 = 0
           /\ Generated(g).seed \in Seeds
           /\ market.anchor # Unset =>
                  Generated(g).anchor = market.anchor /\ Generated(g).seed = market.seed
           /\ market.anchor = Unset => Generated(g).anchor = market.price
           /\ Generated(g).step = market.step + 1
           /\ Generated(g).price = NextPrice(market.price, Generated(g).anchor,
                                             Noise(Generated(g).seed, market.step))
           /\ 2 * Generated(g).price >= Generated(g).anchor
           /\ Generated(g).price <= Higher(3 * (Generated(g).anchor \div 2), 2)
<1>. DEFINE anchor == IF market.anchor = Unset THEN market.price ELSE market.anchor
            seed == IF market.seed = Unset THEN SeedOf[g] ELSE market.seed
            price == NextPrice(market.price, anchor, Noise(seed, market.step))
<1>1. /\ market \in Market
      /\ seen[g].price = market.price /\ seen[g].anchor = market.anchor
      /\ seen[g].seed = market.seed /\ seen[g].step = market.step
  BY DEF IInv, TypeOK, TickHasLock
<1>2. Generated(g) = [price |-> price, anchor |-> anchor, seed |-> seed, step |-> market.step + 1,
                      source |-> "simulated", invented |-> TRUE, fresh |-> TRUE]
  BY <1>1 DEF Generated
<1>3. anchor \in Price
  BY <1>1 DEF Market
<1>4. anchor % 2 = 0
  BY <1>1, GeneratorAssumption DEF IInv, AnchorInCents
<1>5. seed \in Seeds
  BY <1>1, GeneratorAssumption DEF Market
<1>6. market.step \in 0 .. MaxSteps
  BY <1>1, GeneratorAssumption DEF Market
<1>7. Noise(seed, market.step) \in Int
  BY <1>5, <1>6, GeneratorAssumption
<1>8. market.price \in Int
  BY <1>1 DEF Market, Price
<1>. HIDE DEF anchor, seed
<1>9. /\ price \in Price
      /\ price >= anchor \div 2
      /\ price <= Higher(3 * (anchor \div 2), 2)
  BY <1>3, <1>7, <1>8, NextPriceIsNear
<1>. HIDE DEF price
<1>10. 2 * price >= anchor
  BY <1>3, <1>4, <1>9 DEF Price
<1>11. market.step + 1 \in Nat
  BY <1>6
<1>12. Generated(g) \in Market
  BY <1>2, <1>3, <1>5, <1>9, <1>11 DEF Market
<1>13. market.anchor # Unset => anchor = market.anchor /\ seed = market.seed
  BY DEF anchor, seed, IInv, AnchorInCents
<1>14. market.anchor = Unset => anchor = market.price
  BY DEF anchor
<1>. QED  BY <1>2, <1>3, <1>4, <1>5, <1>9, <1>10, <1>12, <1>13, <1>14 DEF price

\* The initial states satisfy the invariant.
LEMMA Initially == Init => IInv
<1>. SUFFICES ASSUME Init PROVE IInv
  OBVIOUS
<1>1. market \in Market
  BY GeneratorAssumption DEF Init, Market
<1>2. baseline \in [Traders -> Baseline]
  BY DEF Init, Baseline
<1>3. TypeOK
  BY <1>1, <1>2 DEF Init, TypeOK, Places
<1>4. TickHasLock
  BY DEF Init, TickHasLock
<1>5. AnchorInCents /\ PriceNearAnchor
  BY GeneratorAssumption DEF Init, AnchorInCents, PriceNearAnchor
<1>. QED  BY <1>3, <1>4, <1>5 DEF IInv

\* Whoever ticks has the markets locked.
LEMMA OneTick ==
    ASSUME IInv, NEW g \in Generators, pc[g] = "tick"
    PROVE  writer = g /\ writer # Nobody
  BY GeneratorAssumption DEF IInv, TickHasLock

\* A step that leaves the price, its anchor and where it came from alone.
LEMMA PriceKept ==
    ASSUME IInv, market'.price = market.price, market'.anchor = market.anchor,
           market'.seed = market.seed, market'.invented = market.invented
    PROVE  AnchorInCents' /\ PriceNearAnchor'
  BY DEF IInv, AnchorInCents, PriceNearAnchor

\* No tick begins or ends, and none sees the market change.
LEMMA TicksKept ==
    ASSUME IInv, UNCHANGED <<seen, writer, quote>>,
           market'.price = market.price, market'.anchor = market.anchor,
           market'.seed = market.seed, market'.step = market.step,
           \A h \in Generators : pc'[h] \in {"fetched", "tick"} => pc'[h] = pc[h]
    PROVE  TickHasLock'
<1>. SUFFICES ASSUME NEW h \in Generators
     PROVE  /\ pc'[h] = "tick" =>
                   /\ writer = h /\ seen[h] \in Market
                   /\ seen[h].price = market.price /\ seen[h].anchor = market.anchor
                   /\ seen[h].seed = market.seed /\ seen[h].step = market.step
            /\ pc'[h] \in {"fetched", "tick"} /\ Live(h) => quote[h] # Unset
  BY DEF TickHasLock, Live
<1>. QED  BY DEF IInv, TickHasLock

\* A tick that ends, committed or not, leaves no other one behind that relied on it.
LEMMA TickEnds ==
    ASSUME IInv, NEW g \in Generators, EndTick(g),
           pc' = [pc EXCEPT ![g] = pc'[g]], pc'[g] \notin {"fetched", "tick"},
           pc[g] = "tick" \/ UNCHANGED market
    PROVE  /\ TickHasLock'
           /\ writer' \in Generators \cup {Nobody}
           /\ quote' \in [Generators -> LivePrices \cup {Unset}]
           /\ seen' \in [Generators -> Market \cup {Unset}]
<1>1. /\ writer' \in Generators \cup {Nobody}
      /\ quote' \in [Generators -> LivePrices \cup {Unset}]
      /\ seen' \in [Generators -> Market \cup {Unset}]
  BY DEF EndTick, IInv, TypeOK
<1>2. ASSUME NEW h \in Generators, pc'[h] \in {"fetched", "tick"}
      PROVE  h # g /\ pc'[h] = pc[h] /\ seen'[h] = seen[h] /\ quote'[h] = quote[h]
  BY <1>2 DEF EndTick, IInv, TypeOK
<1>3. ASSUME NEW h \in Generators, pc'[h] = "tick"
      PROVE  writer' = h /\ UNCHANGED market
  <2>1. writer = h /\ h # g /\ pc[h] = "tick"
    BY <1>2, <1>3, OneTick
  <2>2. pc[g] # "tick"
    BY <2>1, OneTick
  <2>. QED  BY <2>1, <2>2 DEF EndTick
<1>4. ASSUME NEW h \in Generators, pc'[h] = "tick"
      PROVE  /\ writer' = h /\ seen'[h] \in Market
             /\ seen'[h].price = market'.price /\ seen'[h].anchor = market'.anchor
             /\ seen'[h].seed = market'.seed /\ seen'[h].step = market'.step
  BY <1>2, <1>3, <1>4 DEF IInv, TickHasLock
<1>5. ASSUME NEW h \in Generators, pc'[h] \in {"fetched", "tick"}, Live(h)
      PROVE  quote'[h] # Unset
  BY <1>2, <1>5 DEF IInv, TickHasLock
<1>6. TickHasLock'
  BY <1>4, <1>5 DEF TickHasLock, Live
<1>. QED  BY <1>1, <1>6

\* The steps of a generator outside its tick.
LEMMA OutsideTheTick ==
    ASSUME IInv, NEW g \in Generators,
           \/ Claim(g) \/ Launch(g) \/ Withdraw(g) \/ Ping(g) \/ AfterFailure(g) \/ SessionLost(g)
    PROVE  IInv'
<1>1. CASE Claim(g)
  <2>1. TypeOK'
    BY <1>1 DEF Claim, Goes, IInv, TypeOK, Places
  <2>2. TickHasLock'
    BY <1>1, TicksKept DEF Claim, Goes, IInv, TypeOK
  <2>. QED  BY <1>1, <2>1, <2>2, PriceKept DEF Claim, IInv
<1>2. CASE Launch(g)
  <2>1. market' \in Market /\ pc' \in [Generators -> Places]
    BY <1>2 DEF Launch, Goes, IInv, TypeOK, Places, Market
  <2>2. TypeOK'
    BY <1>2, <2>1 DEF Launch, IInv, TypeOK
  <2>3. /\ market'.price = market.price /\ market'.anchor = market.anchor
        /\ market'.seed = market.seed /\ market'.step = market.step
        /\ market'.invented = market.invented
    BY <1>2 DEF Launch, IInv, TypeOK, Market
  <2>4. \A h \in Generators : pc'[h] \in {"fetched", "tick"} => pc'[h] = pc[h]
    BY <1>2 DEF Launch, Goes, IInv, TypeOK
  <2>5. TickHasLock'
    BY <1>2, <2>3, <2>4, TicksKept DEF Launch
  <2>. QED  BY <2>2, <2>3, <2>5, PriceKept DEF IInv
<1>3. CASE Withdraw(g)
  <2>1. TypeOK'
    BY <1>3 DEF Withdraw, Goes, IInv, TypeOK, Places
  <2>2. TickHasLock'
    BY <1>3, TicksKept DEF Withdraw, Goes, IInv, TypeOK
  <2>. QED  BY <1>3, <2>1, <2>2, PriceKept DEF Withdraw, IInv
<1>4. CASE Ping(g)
  <2>1. TypeOK'
    BY <1>4 DEF Ping, Goes, IInv, TypeOK, Places
  <2>2. TickHasLock'
    BY <1>4, TicksKept DEF Ping, Goes, IInv, TypeOK
  <2>. QED  BY <1>4, <2>1, <2>2, PriceKept DEF Ping, IInv
<1>5. CASE AfterFailure(g)
  <2>1. TypeOK'
    BY <1>5 DEF AfterFailure, Goes, Fails, IInv, TypeOK, Places
  <2>2. TickHasLock'
    BY <1>5, TicksKept DEF AfterFailure, Goes, IInv, TypeOK
  <2>. QED  BY <1>5, <2>1, <2>2, PriceKept DEF AfterFailure, IInv
<1>6. CASE SessionLost(g)
  <2>1. TypeOK'
    BY <1>6 DEF SessionLost, Fails, IInv, TypeOK
  <2>2. TickHasLock'
    BY <1>6, TicksKept DEF SessionLost
  <2>. QED  BY <1>6, <2>1, <2>2, PriceKept DEF SessionLost, IInv
<1>. QED  BY <1>1, <1>2, <1>3, <1>4, <1>5, <1>6

\* A live price is fetched, and a tick begins.
LEMMA TickGoesOn ==
    ASSUME IInv, NEW g \in Generators, Fetch(g) \/ TickBegin(g)
    PROVE  IInv'
<1>1. CASE Fetch(g)
  <2>1. quote' \in [Generators -> LivePrices \cup {Unset}]
    BY <1>1 DEF Fetch, IInv, TypeOK
  <2>2. TypeOK'
    BY <1>1, <2>1 DEF Fetch, Goes, IInv, TypeOK, Places
  <2>3. ASSUME NEW h \in Generators, pc'[h] \in {"fetched", "tick"}, Live(h)
        PROVE  quote'[h] # Unset
    <3>1. CASE h = g /\ pc'[g] = "fetched"
      <4>1. PICK price \in LivePrices : quote' = [quote EXCEPT ![g] = price]
        BY <1>1, <3>1 DEF Fetch, Goes, IInv, TypeOK
      <4>2. quote'[g] = price
        BY <4>1 DEF IInv, TypeOK
      <4>. QED  BY <3>1, <4>2, GeneratorAssumption
    <3>2. CASE h # g
      <4>1. pc'[h] = pc[h] /\ quote'[h] = quote[h]
        BY <1>1, <3>2 DEF Fetch, Goes, IInv, TypeOK
      <4>. QED  BY <2>3, <4>1 DEF IInv, TickHasLock
    <3>. QED  BY <1>1, <2>3, <3>1, <3>2 DEF Fetch, Goes, IInv, TypeOK
  <2>4. ASSUME NEW h \in Generators, pc'[h] = "tick"
        PROVE  pc[h] = "tick"
    BY <1>1, <2>4 DEF Fetch, Goes, IInv, TypeOK
  <2>5. UNCHANGED <<writer, seen, market>>
    BY <1>1 DEF Fetch
  <2>6. TickHasLock'
    BY <2>3, <2>4, <2>5 DEF IInv, TickHasLock, Live
  <2>. QED  BY <2>2, <2>5, <2>6, PriceKept DEF IInv
<1>2. CASE TickBegin(g)
  <2>1. TypeOK'
    BY <1>2 DEF TickBegin, Goes, IInv, TypeOK, Places
  <2>2. UNCHANGED <<quote, market>> /\ writer = Nobody /\ writer' = g
    BY <1>2 DEF TickBegin
  <2>3. ASSUME NEW h \in Generators, pc'[h] = "tick"
        PROVE  h = g
    BY <1>2, <2>2, <2>3, OneTick DEF TickBegin, Goes, IInv, TypeOK
  <2>4. seen'[g] = market
    BY <1>2 DEF TickBegin, IInv, TypeOK
  <2>5. ASSUME NEW h \in Generators, pc'[h] \in {"fetched", "tick"}, Live(h)
        PROVE  quote'[h] # Unset
    <3>1. pc[h] \in {"fetched", "tick"}
      BY <1>2, <2>5 DEF TickBegin, Goes, IInv, TypeOK
    <3>. QED  BY <2>2, <2>5, <3>1 DEF IInv, TickHasLock
  <2>6. market \in Market
    BY DEF IInv, TypeOK
  <2>7. TickHasLock'
    BY <2>2, <2>3, <2>4, <2>5, <2>6 DEF TickHasLock, Live
  <2>. QED  BY <2>1, <2>2, <2>7, PriceKept DEF IInv
<1>. QED  BY <1>1, <1>2

\* What a live tick makes of the market.
LEMMA FetchedMarket ==
    ASSUME IInv, NEW g \in Generators, pc[g] = "tick", Live(g)
    PROVE  /\ Fetched(g) \in Market
           /\ Fetched(g).price \in LivePrices
           /\ Fetched(g).anchor = market.anchor /\ Fetched(g).seed = market.seed
           /\ Fetched(g).step = market.step
           /\ Fetched(g).invented = FALSE
<1>1. quote[g] \in LivePrices /\ quote[g] \in Price
  BY GeneratorAssumption DEF IInv, TypeOK, TickHasLock
<1>2. market \in Market
  BY DEF IInv, TypeOK
<1>3. Fetched(g).price = quote[g]
  BY <1>2 DEF Fetched, Market
<1>4. /\ Fetched(g).anchor = market.anchor /\ Fetched(g).seed = market.seed
      /\ Fetched(g).step = market.step
  BY <1>2 DEF Fetched, Market
<1>5. Fetched(g).invented = FALSE
  BY <1>2 DEF Fetched, Market
<1>6. Fetched(g) \in Market
  BY <1>1, <1>2 DEF Fetched, Market
<1>. QED  BY <1>1, <1>3, <1>4, <1>5, <1>6

\* The steps that end a tick.
LEMMA TickIsOver ==
    ASSUME IInv, NEW g \in Generators, TickCommit(g) \/ TickFails(g) \/ Exit(g)
    PROVE  IInv'
<1>1. CASE TickCommit(g)
  <2>1. /\ pc[g] = "tick" /\ EndTick(g)
        /\ pc' = [pc EXCEPT ![g] = "loop"]
        /\ market' = IF Live(g) THEN Fetched(g) ELSE Generated(g)
        /\ ~Live(g) => market.step < MaxSteps
        /\ quotes' = market'.price
        /\ UNCHANGED <<owner, joining, failures>>
    BY <1>1 DEF TickCommit, Goes
  <2>2. pc' \in [Generators -> Places] /\ pc'[g] = "loop"
    BY <2>1 DEF IInv, TypeOK, Places
  <2>3. /\ TickHasLock'
        /\ writer' \in Generators \cup {Nobody}
        /\ quote' \in [Generators -> LivePrices \cup {Unset}]
        /\ seen' \in [Generators -> Market \cup {Unset}]
    BY <2>1, <2>2, TickEnds
  <2>4. /\ market' \in Market
        /\ AnchorInCents' /\ PriceNearAnchor'
    <3>1. CASE Live(g)
      <4>1. market' = Fetched(g)
        BY <2>1, <3>1
      <4>2. AnchorInCents'
        BY <2>1, <3>1, <4>1, FetchedMarket DEF IInv, AnchorInCents
      <4>3. PriceNearAnchor'
        BY <2>1, <3>1, <4>1, FetchedMarket DEF PriceNearAnchor
      <4>. QED  BY <2>1, <3>1, <4>1, <4>2, <4>3, FetchedMarket
    <3>2. CASE ~Live(g)
      <4>1. market' = Generated(g) /\ market.step < MaxSteps
        BY <2>1, <3>2
      <4>2. AnchorInCents'
        BY <2>1, <4>1, GeneratedMarket, GeneratorAssumption DEF AnchorInCents
      <4>3. PriceNearAnchor'
        BY <2>1, <4>1, GeneratedMarket DEF PriceNearAnchor
      <4>. QED  BY <2>1, <4>1, <4>2, <4>3, GeneratedMarket
    <3>. QED  BY <3>1, <3>2
  <2>5. baseline' \in [Traders -> Baseline]
    <3>1. [source |-> "coinbase", invented |-> FALSE] \in Baseline
      BY DEF Baseline
    <3>2. baseline \in [Traders -> Baseline]
      BY DEF IInv, TypeOK
    <3>. QED  BY <1>1, <3>1, <3>2 DEF TickCommit, Rebaseline
  <2>6. quotes' \in Price \cup {Unset}
    BY <2>1, <2>4 DEF Market
  <2>7. TypeOK'
    BY <2>1, <2>2, <2>3, <2>4, <2>5, <2>6 DEF IInv, TypeOK
  <2>. QED  BY <2>3, <2>4, <2>7 DEF IInv
<1>2. CASE TickFails(g)
  <2>1. /\ EndTick(g) /\ pc' = [pc EXCEPT ![g] = "failed"] /\ failures' = failures + 1
        /\ UNCHANGED <<owner, market, quotes, joining, baseline>>
    BY <1>2 DEF TickFails, Goes, Fails
  <2>2. pc' \in [Generators -> Places] /\ pc'[g] = "failed"
    BY <2>1 DEF IInv, TypeOK, Places
  <2>3. /\ TickHasLock'
        /\ writer' \in Generators \cup {Nobody}
        /\ quote' \in [Generators -> LivePrices \cup {Unset}]
        /\ seen' \in [Generators -> Market \cup {Unset}]
    BY <2>1, <2>2, TickEnds
  <2>4. TypeOK'
    BY <2>1, <2>2, <2>3 DEF IInv, TypeOK
  <2>. QED  BY <2>1, <2>3, <2>4, PriceKept DEF IInv
<1>3. CASE Exit(g)
  <2>1. /\ EndTick(g) /\ pc' = [pc EXCEPT ![g] = "stopped"] /\ failures' = failures + 1
        /\ owner' = IF owner = g THEN Nobody ELSE owner
        /\ UNCHANGED <<market, quotes, joining, baseline>>
    BY <1>3 DEF Exit, Goes, Fails
  <2>2. pc' \in [Generators -> Places] /\ pc'[g] = "stopped"
    BY <2>1 DEF IInv, TypeOK, Places
  <2>3. /\ TickHasLock'
        /\ writer' \in Generators \cup {Nobody}
        /\ quote' \in [Generators -> LivePrices \cup {Unset}]
        /\ seen' \in [Generators -> Market \cup {Unset}]
    BY <2>1, <2>2, TickEnds
  <2>4. TypeOK'
    BY <2>1, <2>2, <2>3 DEF IInv, TypeOK
  <2>. QED  BY <2>1, <2>3, <2>4, PriceKept DEF IInv
<1>. QED  BY <1>1, <1>2, <1>3

\* The steps that are no generator's.
LEMMA Elsewhere ==
    ASSUME IInv, GrowsStale \/ \E t \in Traders : JoinBegin(t) \/ JoinValue(t) \/ JoinCommit(t) \/ JoinFails(t)
    PROVE  IInv'
<1>1. CASE GrowsStale
  <2>1. market' \in Market
    BY <1>1 DEF GrowsStale, IInv, TypeOK, Market
  <2>2. TypeOK'
    BY <1>1, <2>1 DEF GrowsStale, IInv, TypeOK
  <2>3. /\ market'.price = market.price /\ market'.anchor = market.anchor
        /\ market'.seed = market.seed /\ market'.step = market.step
        /\ market'.invented = market.invented
    BY <1>1 DEF GrowsStale, IInv, TypeOK, Market
  <2>4. TickHasLock'
    BY <1>1, <2>3, TicksKept DEF GrowsStale
  <2>. QED  BY <2>2, <2>3, <2>4, PriceKept DEF IInv
<1>2. ASSUME NEW t \in Traders, JoinBegin(t) \/ JoinValue(t) \/ JoinCommit(t) \/ JoinFails(t)
      PROVE  IInv'
  <2>1. UNCHANGED <<owner, pc, quote, seen, writer, market, quotes, failures>>
    BY <1>2 DEF JoinBegin, JoinValue, JoinCommit, JoinFails
  <2>2. joining' \in [Traders -> {"new", "checked", "valued", "open"}]
    BY <1>2 DEF JoinBegin, JoinValue, JoinCommit, JoinFails, Joins, IInv, TypeOK
  <2>3. baseline' \in [Traders -> Baseline]
    BY <1>2 DEF JoinBegin, JoinValue, JoinCommit, JoinFails, IInv, TypeOK, Market, Baseline
  <2>4. TypeOK'
    BY <2>1, <2>2, <2>3 DEF IInv, TypeOK
  <2>5. TickHasLock'
    BY <2>1, TicksKept
  <2>. QED  BY <2>1, <2>4, <2>5, PriceKept DEF IInv
<1>. QED  BY <1>1, <1>2

\* Every step keeps the invariant.
LEMMA Step == IInv /\ [Next]_vars => IInv'
<1>. SUFFICES ASSUME IInv, [Next]_vars PROVE IInv'
  OBVIOUS
<1>1. CASE UNCHANGED vars
  <2>1. TypeOK'
    BY <1>1 DEF vars, IInv, TypeOK
  <2>2. TickHasLock'
    BY <1>1, TicksKept DEF vars
  <2>. QED  BY <1>1, <2>1, <2>2, PriceKept DEF vars, IInv
<1>2. CASE Next
  BY <1>2, OutsideTheTick, TickGoesOn, TickIsOver, Elsewhere DEF Next
<1>. QED  BY <1>1, <1>2

\* In every reachable state the inductive invariant holds: a tick has the
\* markets locked as it read them, and generated prices are near their anchor
\* (simulator/main.rs:153-175, generator.rs:19-22).
THEOREM Invariance == Spec => []IInv
  BY Initially, Step, PTL DEF Spec

\* Prices, anchors, locks and accounts have their types: no price is ever 0.
THEOREM TypeCorrect == Spec => []TypeOK
<1>1. IInv => TypeOK
  BY DEF IInv
<1>. QED  BY <1>1, Invariance, PTL

\* Generated prices stay between half and one and a half of their anchor,
\* whatever the random numbers and the live prices in between are.
THEOREM PricesStayNear == Spec => []PriceNearAnchor
<1>1. IInv => PriceNearAnchor
  BY DEF IInv
<1>. QED  BY <1>1, Invariance, PTL

\* However many generators there are and whoever of them holds the advisory
\* lock, the saved sequence of prices is continued step by step.
THEOREM SequenceIsOne == Spec => SequenceContinues
<1>. DEFINE A == market'.step # market.step =>
        /\ market'.step = market.step + 1
        /\ market.anchor # Unset => market'.anchor = market.anchor /\ market'.seed = market.seed
        /\ market.anchor = Unset => market'.anchor = market.price
        /\ market'.price = NextPrice(market.price, market'.anchor, Noise(market'.seed, market.step))
<1>1. ASSUME IInv, [Next]_vars PROVE [A]_vars
  <2>1. SUFFICES ASSUME Next, market'.step # market.step PROVE A
    BY <1>1
  <2>2. PICK g \in Generators : TickCommit(g)
    <3>1. ASSUME NEW g \in Generators, Launch(g) PROVE market'.step = market.step
      BY <1>1, <3>1 DEF Launch, IInv, TypeOK, Market
    <3>2. GrowsStale => market'.step = market.step
      BY <1>1 DEF GrowsStale, IInv, TypeOK, Market
    <3>. QED
      BY <2>1, <3>1, <3>2 DEF Next, Claim, Withdraw, Ping, Fetch, TickBegin, TickFails,
           AfterFailure, SessionLost, Exit, JoinBegin, JoinValue, JoinCommit, JoinFails
  <2>3. pc[g] = "tick"
    BY <2>2 DEF TickCommit
  <2>4. ~Live(g)
    <3>1. Live(g) => market' = Fetched(g)
      BY <2>2 DEF TickCommit
    <3>. QED  BY <1>1, <2>1, <2>3, <3>1, FetchedMarket
  <2>5. market' = Generated(g) /\ market.step < MaxSteps
    BY <2>2, <2>4 DEF TickCommit
  <2>. QED  BY <1>1, <2>3, <2>5, GeneratedMarket
<1>2. Spec => [][A]_vars
  BY <1>1, Invariance, PTL DEF Spec
<1>. QED  BY <1>2 DEF SequenceContinues
==============================================================================
