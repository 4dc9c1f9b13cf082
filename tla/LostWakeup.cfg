CONSTANTS
    Proc = {1, 2, 3, 4}
    Names = {"s"}
    CellOf <- OwnCells
    Ops <- Producers
    MaxLeft = 0
SPECIFICATION FairSpec
PROPERTY EverybodyFinishes
CHECK_DEADLOCK FALSE
