\* Two users, two markets and two pages of the leaderboard.
CONSTANTS
    ann = ann
    bob = bob
    t1 = t1
    t2 = t2
    SignedOut = SignedOut
    None = None
    Markets = {m1, m2}
    MaxOffset = 1
    Tokens = {t1, t2}
    OwnerOf <- MCOwnerOf
    MayExpire = TRUE
    Changes = 0
    Clicks = 3
    Failures = 0
    Scale = 8  Cent = 2  Lot = 2  Liquidity = 1
    Balances <- MCBalances
    References <- MCReferences
    Limits = {0, 1, 7, 13}
    Percents = {25, 100}
    Fractions = {300, 1000}
    Spreads = {9960, 10040}
    MaxQuantity = 60
    Accounts <- MCAccounts
    System = 3  PageSize = 2  MaxMoves = 1
    Profits <- MCProfits
    Products <- MCProducts
    Ages <- MCAges
    Second = 2  MaxAge = 1  MaxAhead = 0
    FreshFor = 2  RequestTime = 1  PoolTime = 1  WorkTime = 1  Period = 2
    Horizon = 14
SPECIFICATION PartSpec
INVARIANTS
    ShownIsChosen SizedExactly EveryoneOnce PriceIsRecent StaleQuotesGo
PROPERTIES
    PageSettles
