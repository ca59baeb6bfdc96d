SPECIFICATION Spec
CONSTANTS
    Calls <- CallsToServe
    MAXIMUM_NEW_CPOOL_ENTRIES = 64
    U2Mod = 128
    Slack = 512
    Text <- AllText
    TextLen = 30
    PoolLen = 5
    LargePools = {62, 63, 64, 126}
INVARIANTS
    TypeOK
    PoolMirrorsOutput
    TrackersResolve
    NameRead
    ImageComplete
    NothingLeaked
    FailsOnBadInput
