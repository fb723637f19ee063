SPECIFICATION FairSpec
CONSTANTS
    a1 = a1  a2 = a2
    x1 = x1  x2 = x2
    t1 = t1  t2 = t2
    s1 = s1
    None = None
    Trades = {a1}
    Exits = {x1, x2}
    SymbolOf <- OneSymbol
    Threads = {t1}
    Lot = 2
    MaxOpen = 1
    MaxLegs = 2
    Env = {"overlap", "crash", "cancel", "lag", "partial", "unheard", "handoff"}
INVARIANTS TypeOK ShortHasACause  ExposureHasACause
PROPERTIES ExitResolves
CHECK_DEADLOCK FALSE
