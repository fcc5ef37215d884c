\* Two requests for one email; two addresses and two groups of paths; two requests
\* for two orders, one of which may be open, and the funds are short of both.
CONSTANTS
    r1 = r1  r2 = r2
    Requests = {r1, r2}
    Emails = {"e"}
    Passwords = {"p", "q"}
    Permits = 2
    Nobody = Nobody
    None = None
    a = a
    b = b
    Addresses = {a, b}
    NoHeader = NoHeader
    TrustCloudflare = TRUE
    Paths = {"signin", "other"}
    Groups = {"login", "api"}
    GroupOf <- GroupTable
    Limit <- LimitTable
    Window = 2
    Capacity = 2
    Horizon = 3
    c1 = c1
    c2 = c2
    Connections = {r1, r2}
    ClientIds = {c1, c2}
    Cost <- Costs
    MaxOpen = 1
    Grant = 2
    Tick = Tick
    Unlocked = Unlocked
SPECIFICATION PartSpec
INVARIANTS
    HashingIsBounded InAnyMinute NoEarlyRefusal LateOrdersHadBegun
PROPERTIES
    PasswordsStay TokensAreEarned PermitsReturn AnswersAreTrue Atomic Answered
