CONSTANTS
    Programs <- StaleCondition
    Loaded <- Files
    MaxPid = 2
    MaxBlocks = 20
    MaxTurns = 0
    TurnAtJump = FALSE
SPECIFICATION SpecWithValues
INVARIANT NoPanic
