CONSTANTS
    U64Max = 7
    BPS_DENOMINATOR = 10
    YIELD_INDEX_SCALE = 4
    SECONDS_PER_DAY = 2
    NumKeepers = 2
    min_keeper_bond = 2
    keeper_unbond_cooldown_sec = 2
    InitialLodz = 3
    MaxTime = 3
SPECIFICATION Spec
INVARIANTS
    TypeOK
    BondsCovered
    CountMatchesActiveKeepers
    BondAlwaysSlashable
PROPERTIES
    BondStaysThroughCooldown
CHECK_DEADLOCK FALSE
