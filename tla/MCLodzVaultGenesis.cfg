CONSTANTS
    U64Max = 5
    U32Max = 1
    BPS_DENOMINATOR = 10000
    YIELD_INDEX_SCALE = 4
    SECONDS_PER_DAY = 2
    NumOwners = 1
    NumStopes = 1
    NumSeams = 1
    Asset = {wbtc}
    Conversions <- MCConversions
    DepositCaps = {2}
    Supply = 2
    FeeMints = {}
    Mint = {token}
    NoMint = NoMint
    Weights = {0, 2000}
    Tiers = {2}
    NumKeepers = 1
    InitialLodz = 1
    Signers = {root}
    LostKeys = {typo}
    NoKey = NoKey
    MaxTime = 2
    fee_bps = 5000
    redemption_delay_sec = 1
    max_redemption_delay_sec = 1
    queue_drain_per_day = 4
    min_keeper_bond = 1
    keeper_unbond_cooldown_sec = 1
    OpenConversion <- MCOneAsset
    OpenSeams <- MCOneSeam
SPECIFICATION Spec
INVARIANTS
    ReplayMatchesAccounts
PROPERTIES
    ImplementsLedger
CHECK_DEADLOCK FALSE
