CONSTANTS
    N = 2
    MainBlocks = 4
    CallAt = 1
    KidBlocks = 1
    Cap = 8
    MaxCmds = 4
    Habits <- NoHabits
SPECIFICATION FairSpec
INVARIANTS
    TypeOK
    OneGoroutine
    DirectionsAgree
    BroadcastNeverBlocks
    MutexFreeAtRest
    WakeupPending
PROPERTY BlocksFollowCausalOrder
PROPERTIES
    EveryRunEnds
    EveryStopEnds
