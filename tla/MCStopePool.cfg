CONSTANTS
    U64Max = 5
    BPS_DENOMINATOR = 10
    YIELD_INDEX_SCALE = 2
    SECONDS_PER_DAY = 2
    NumOwners = 2
    NumStopes = 1
    SeamKinds = {"Sustainable"}
SPECIFICATION Spec
INVARIANTS
    TypeOK
    PoolMatchesPositions
    ShareNeverUnderwater
    AttributionNeverExceedsAccrued
    SettlementNeverFails
    PoolLetsSharesGo
    NoYieldWithoutShares
PROPERTIES
    SharePriceNeverFalls
    OnlyAccrualMovesEntitlement
CHECK_DEADLOCK FALSE
