SPECIFICATION Spec
CONSTANTS
    r1 = r1  r2 = r2
    s1 = s1  s2 = s2
    a1 = a1  a2 = a2  a3 = a3
    None = None
    Runners <- TwoRunners
    Traders <- OneRunner
    Symbols <- OneSymbol
    Attempts <- ThreeAttempts
    MaxOpen = 1
    MaxPerDay = 3
    Env = {"exits"}
SYMMETRY Perms
INVARIANTS NoDuplicateLiveEntry
CHECK_DEADLOCK FALSE
