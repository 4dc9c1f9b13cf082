\* Stepping with the focus on a branch.
CONSTANTS
    N = 2
    MainBlocks = 3
    CalledAt <- OneCall
    KidBlocks <- TwoEach
    MaxCmds = 3
    FocusOn = {1}
    Turning = FALSE
SPECIFICATION Spec
PROPERTY EveryStepIsCausal
CHECK_DEADLOCK FALSE
