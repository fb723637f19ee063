SPECIFICATION Spec
CONSTANTS
    s1 = s1
    p1 = p1  p2 = p2
    t1 = t1  t2 = t2
    y1 = y1  y2 = y2
    None = None
    Strategies = {s1}
    Proposals = {p1, p2}
    Threads = {t1, t2}
    StrategyOf <- OneStrategy
    Cap <- CapOne
    UsedModes = {"paper_autonomous"}
    Symbols = {y1, y2}
    LastDay = 2
    Env = {"restart"}
SYMMETRY Symmetry
INVARIANTS TypeOK ArmedIsAdmitted CapRespected  TradesAreManaged StopFlattens
PROPERTIES TradesMoveOn NoEntryAfterStop
