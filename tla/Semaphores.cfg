CONSTANTS
    Proc = {1, 2, 3}
    Names = {"s", "t"}
    CellOf <- OwnCells
    Ops <- Locks
    MaxLeft = 0
SPECIFICATION FairSpec
INVARIANTS
    MutexHasOneOwner
PROPERTIES
    WaitSemIsMonitorWait
    EverybodyFinishes
