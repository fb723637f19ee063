SPECIFICATION Spec
CONSTANTS
    q1 = q1  q2 = q2
    b1 = b1  b2 = b2 
    None = None
    Requests = {q1, q2}
    Bridges = {b1, b2}
    Env = {"overlap", "early", "stray", "late", "race", "moved", "disk", "restart"}
    MaxSeen = 2
SYMMETRY Alike
INVARIANTS TypeOK HaltHolds StateShowsStop StateIsConnected SocketsAgree ReadyIsCurrent
 
