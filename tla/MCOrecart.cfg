CONSTANTS
    U64Max = 15
    U32Max = 2
    BPS_DENOMINATOR = 10
    YIELD_INDEX_SCALE = 4
    SECONDS_PER_DAY = 4
    Owner = {o1, o2}
    Stope = {1,2}
    redemption_delay_sec = 1
    max_redemption_delay_sec = 3
    queue_drain_per_day = 6
    TicketTerms <- MCTicketTerms
    MaxTime = 4
    MaxTickets = 3
SPECIFICATION BoundedFairSpec
INVARIANTS
    TypeOK
    BooksMatchTickets
    NextTicketAddressFree
    WaitCoversBacklog
    PositionsFollowIssueOrder
PROPERTIES
    ImplementsPromise
    EveryTicketClaimed
CHECK_DEADLOCK FALSE
