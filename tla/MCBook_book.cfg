\* Two users, two instruments, and the generator.
CONSTANTS
    Scale = 10  Cent = 1  Lot = 1  Liquidity = 200
    ann = ann  bob = bob  id1 = id1  id2 = id2
    usd = usd  btc = btc  eth = eth  btcusd = btcusd  ethusd = ethusd
    kim = kim  lee = lee  call1 = call1  call2 = call2
    System = System  Generator = Generator  Free = Free
    Owners = {kim, lee}
    Symbols <- BookSymbols
    Callers = {call1, call2}
    CallerOf <- BookCallerOf
    Orders = {1, 2, 3, 4, 5, 6, 7}
    Terms <- BookTerms
    First = {1, 2, 3, 4, 5, 6}
    Users = {ann, bob}
    MarketMaker = MarketMaker
    ClientIds = {id1, id2}
    NoClientId = NoClientId
    Currencies = {usd, btc, eth}
    Instruments = {btcusd, ethusd}
    Base <- MCBase
    Quote <- MCQuote
    Rank <- MCRank
    dollars = 310
    coins = 3
    Grant <- MCGrant
    Requests <- AllRequests
    MaxQuantity = 3
    MaxPrice = 2000
    References = {995, 1000}
    MaxOpenOrders = 2
    Live = TRUE
    MaxSequence = 18
    MaxAborts = 1
SYMMETRY BookSymmetry
SPECIFICATION ScenarioSpec
INVARIANTS
    ReservationsExact FillsExplainBalances OrdersMatchFills FillsWithinLimits
    PairFilledOnce LockedRowsUnchanged PriceTimePriority FillsAreOverlaps OverdraftIsDust
    CallsAreNoVictims
PROPERTIES
    ClosedStaysClosed
