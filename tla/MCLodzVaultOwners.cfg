CONSTANTS
    U64Max = 4
    U32Max = 2
    BPS_DENOMINATOR = 10
    YIELD_INDEX_SCALE = 4
    SECONDS_PER_DAY = 2
    NumOwners = 2
    NumStopes = 1
    NumSeams = 2
    Asset = {zbtc}
    Conversions <- MCConversions
    DepositCaps = {0}
    Supply = 3
    FeeMints = {}
    Mint = {token}
    NoMint = NoMint
    Weights = {}
    Tiers = {}
    NumKeepers = 1
    InitialLodz = 1
    Signers = {root}
    LostKeys = {}
    NoKey = NoKey
    MaxTime = 2
    fee_bps = 5
    redemption_delay_sec = 1
    max_redemption_delay_sec = 1
    queue_drain_per_day = 4
    min_keeper_bond = 1
    keeper_unbond_cooldown_sec = 1
    OpenConversion <- MCOneAsset
    OpenSeams <- MCTwoSeams
SPECIFICATION OpenedFairSpec
INVARIANTS
    StopesBookWhatSeamsReport
    OneAssetAlwaysPays
    OneAssetAlwaysRedeems
PROPERTIES
    OneAssetPaysEveryTicket
CHECK_DEADLOCK FALSE
