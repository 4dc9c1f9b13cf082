CONSTANTS
    Proc = {1, 2}
    Names = {"s"}
    CellOf <- OwnCells
    Ops <- Sections
    MaxLeft = 1
SPECIFICATION SpecWithStop
INVARIANT NoFatalError
