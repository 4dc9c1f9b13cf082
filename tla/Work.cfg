CONSTANTS
    x = x
    y = y
    sem = sem
    main = main
    f = f
    g = g
    h = h
    none = none
    MaxPid = 4
    MaxPc = 4
    MaxTurns = 2
    Var = {x, y, sem}
    Heap = {x}
    ProcName <- Names
    Main = main
    NoVar = none
    NoProc = none
    Code <- WorkCode
SPECIFICATION HistSpec
INVARIANT TypeOK
INVARIANT NoPanic
INVARIANT CounterMatchesDag
INVARIANT WritersFormChain
INVARIANT LockExclusion
INVARIANT UndoNeverWaits
INVARIANT RollbackRestoresStore
INVARIANT CheckStillHolds
INVARIANT ReadersPrecede
PROPERTY ReplayRepeatsDag
PROPERTY UndoRestores
PROPERTY ReplayRecomputes
PROPERTY FollowsCausalOrder
