CONSTANTS
    U64Max = 15
    BPS_DENOMINATOR = 10
    YIELD_INDEX_SCALE = 4
    SECONDS_PER_DAY = 2
    Signers = {k1, k2, k3}
    LostKeys = {typo}
    NoKey = NoKey
    Parameters <- MCParameters
    MAX_FEE_BPS = 5
    MAX_BASE_REDEMPTION_DELAY_SEC = 2
    MAX_TOTAL_REDEMPTION_DELAY_SEC = 6
    MAX_KEEPER_UNBOND_COOLDOWN_SEC = 3
SPECIFICATION Spec
SYMMETRY KeysAlike
INVARIANTS
    TypeOK
    AuthorityCanSign
    NominationIsCurrent
    ParametersAreSound
