\* Stepping through two calls, of one branch and of two, forwards for the first
\* time or again, and backwards; the focus on main or on a branch.
CONSTANTS
    N = 3
    MainBlocks = 4
    CalledAt <- TwoCalls
    KidBlocks <- OneLonger
    MaxCmds = 3
    FocusOn = {2}
    Turning = FALSE
SPECIFICATION FairSpec
INVARIANTS
    TwoRequests
    BranchesWhole
PROPERTIES
    StepsFollowCausalOrder
    OnlyTheRaceBlocks
\* At the end of the program the user may have nothing left to do.
CHECK_DEADLOCK FALSE
