SPECIFICATION FairSpec
CONSTANTS
    w1 = w1
    w2 = w2
    p1 = p1
    o1 = o1
    o2 = o2
    a1 = a1
    None = None
    Workers = {w1, w2}
    Pollers = {p1}
    Operators = {o1}
    Trades = {a1}
    DryRuns = {FALSE}
    Env = {"faults"}
INVARIANTS TypeOK OneCycleAtATime  OneWorker
PROPERTIES WorkersEnd ContinuousAdvances
