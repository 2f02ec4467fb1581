CONSTANTS
    U64Max = 1
    BPS_DENOMINATOR = 10000
    YIELD_INDEX_SCALE = 2
    SECONDS_PER_DAY = 2
    NumSeams = 3
    Stope = {2, 3}
    Asset = {btc}
    Mint = {token}
    NoMint = NoMint
    Weights = {0, 2000, 3000, 7500}
    Tiers = {2, 4}
    LegacySeams <- MCLegacySeams
    MaxTime = 2
SPECIFICATION Spec
INVARIANTS
    TypeOK
    TotalsMatchSeams
    ExposureWithinProfile
    WindDownAlwaysPossible
PROPERTIES
    DisclosureBinds
    LegacyWeightOnlyWindsDown
CHECK_DEADLOCK FALSE
