CONSTANTS
    U64Max = 6
    BPS_DENOMINATOR = 10
    YIELD_INDEX_SCALE = 6
    SECONDS_PER_DAY = 2
    NumOwners = 1
    NumStopes = 1
    SeamKinds = {"Sustainable", "Emissions", "Counterparty"}
SPECIFICATION Spec
INVARIANTS
    YieldNeverExceedsValue
CHECK_DEADLOCK FALSE
