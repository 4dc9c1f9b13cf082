CONSTANTS
    x = x
    y = y
    sem = sem
    main = main
    f = f
    g = g
    h = h
    none = none
    MaxPid = 2
    MaxPc = 4
    MaxTurns = 3
    Var = {x, y, sem}
    Heap = {y}
    ProcName <- Names
    Main = main
    NoVar = none
    NoProc = none
    Code <- ReaderCode
SPECIFICATION Spec
INVARIANT NoPanic
