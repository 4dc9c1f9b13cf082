CONSTANTS
    N = 2
    MainBlocks = 3
    CallAt = 1
    KidBlocks = 1
    Cap = 4
    MaxCmds = 2
    Habits <- AnyHabits
SPECIFICATION Spec
INVARIANTS
    TokensCounted
CHECK_DEADLOCK FALSE
