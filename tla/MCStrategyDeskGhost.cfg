SPECIFICATION Spec
CONSTANTS
    n1 = n1  n2 = n2
    d1 = d1  d2 = d2
    q1 = q1  q2 = q2
    i1 = i1  i2 = i2  i3 = i3
    r1 = r1  r2 = r2  r3 = r3
    None = None
    Names = {n1}
    Accounts = {d1}
    Requests = {q1, q2}
    Instances = {i1, i2}
    Registries = {r1, r2}
    Env = {"reconnect"}
    MaxSeen = 1
SYMMETRY Alike
INVARIANT HaltStopsAll
