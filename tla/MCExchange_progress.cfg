\* Progress of the worker on a live feed, with one generator tick and one failure.
CONSTANTS
    Scale = 10  Cent = 1  Lot = 1  Liquidity = 200
    ann = ann  bob = bob  id1 = id1  id2 = id2
    usd = usd  btc = btc  eth = eth  btcusd = btcusd  ethusd = ethusd
    Users = {ann, bob}
    MarketMaker = MarketMaker
    ClientIds = {id1}
    NoClientId = NoClientId
    Currencies = {usd, btc}
    Instruments = {btcusd}
    Base <- OneBase
    Quote <- OneQuote
    Rank <- OneRank
    dollars = 310
    coins = 3
    Grant <- MCGrant
    Requests <- CrossingRequests
    MaxQuantity = 3
    MaxPrice = 2000
    References = {1000}
    MaxOpenOrders = 2
    Live = TRUE
    MaxSequence = 5
    MaxAborts = 1
SPECIFICATION FairSpec
INVARIANTS
    IInv
PROPERTIES
    CrossingOrdersMeet
