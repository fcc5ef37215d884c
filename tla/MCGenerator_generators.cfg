\* A live and two simulated generators, and a trader that joins.
CONSTANTS
    g1 = g1  g2 = g2  g3 = g3
    Generators = {g1, g2, g3}
    Mode <- Mixed
    Traders = {"t1"}
    Seeds = {1, 2, 3}
    SeedOf <- OwnSeeds
    Noise <- NoiseTable
    LivePrices = {20000, 60000}
    Published = 20000
    Nobody = Nobody
    Unset = Unset
    MaxSteps = 2
    MaxFailures = 2
SPECIFICATION FairSpec
INVARIANTS
    PriceNearAnchor
PROPERTIES
    SequenceContinues StaleQuotesGo
CHECK_DEADLOCK FALSE
