CONSTANTS
    U64Max = 5
    U32Max = 2
    BPS_DENOMINATOR = 10
    YIELD_INDEX_SCALE = 4
    SECONDS_PER_DAY = 2
    NumOwners = 1
    NumStopes = 1
    NumSeams = 1
    Asset = {wbtc, zbtc}
    Conversions <- MCConversions
    DepositCaps = {0}
    Supply = 2
    FeeMints = {zbtc}
    Mint = {token}
    NoMint = NoMint
    Weights = {}
    Tiers = {}
    NumKeepers = 1
    InitialLodz = 1
    Signers = {}
    LostKeys = {root}
    NoKey = NoKey
    MaxTime = 2
    fee_bps = 5
    redemption_delay_sec = 1
    max_redemption_delay_sec = 1
    queue_drain_per_day = 4
    min_keeper_bond = 1
    keeper_unbond_cooldown_sec = 1
    OpenConversion <- MCTwoAssets
    OpenSeams <- MCOneSeam
SPECIFICATION OpenedSpec
INVARIANTS
    TypeOK
    BooksCoveredByCustody
    Solvent
CHECK_DEADLOCK FALSE
