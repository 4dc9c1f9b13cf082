CONSTANTS
    Programs <- Walks
    Loaded <- Files
    MaxPid = 3
    MaxBlocks = 40
    MaxTurns = 2
    TurnAtJump = FALSE
SPECIFICATION MCSpec
INVARIANTS
    TypeWithValues
    WellBuilt
    NoPanic
    InScope
    UndoRetraces
    NamesMeanTheirDeclarations
    LocalsStartClean
    NothingLeft
    ComputesSource
PROPERTIES
    FollowsBlockWalk
