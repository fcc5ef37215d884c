\* The smallest opening balance that one order reserves completely.
CONSTANTS
    Scale = 10  Cent = 1  Lot = 1  Liquidity = 200
    ann = ann  bob = bob  id1 = id1  id2 = id2
    usd = usd  btc = btc  eth = eth  btcusd = btcusd  ethusd = ethusd
    Users = {ann, bob}
    MarketMaker = MarketMaker
    ClientIds = {id1, id2}
    NoClientId = NoClientId
    Currencies = {usd, btc}
    Instruments = {btcusd}
    Base <- OneBase
    Quote <- OneQuote
    Rank <- OneRank
    dollars = 201
    coins = 3
    Grant <- MCGrant
    Requests <- BookRequests
    MaxQuantity = 3
    MaxPrice = 2000
    References = {1000}
    MaxOpenOrders = 2
    Live = FALSE
    MaxSequence = 3
    MaxAborts = 0
SYMMETRY BookSymmetry
SPECIFICATION Spec
INVARIANTS
    NoNegativeBalances
