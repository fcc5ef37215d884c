\* Two simulated generators, one lost session.
CONSTANTS
    g1 = g1  g2 = g2  g3 = g3
    Generators = {g2, g3}
    Mode <- Mixed
    Traders = {}
    Seeds = {1, 2, 3}
    SeedOf <- OwnSeeds
    Noise <- NoiseTable
    LivePrices = {20000, 60000}
    Published = 20000
    Nobody = Nobody
    Unset = Unset
    MaxSteps = 3
    MaxFailures = 1
SPECIFICATION Spec
PROPERTIES
    NoDuplicateTicks
CHECK_DEADLOCK FALSE
