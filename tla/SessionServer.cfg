SPECIFICATION Spec
CONSTANTS
    Ids = {i1, i2}
    Requests = {r1, r2, r3, r4}
    MaxAgents = 2
    MaxSessions = 1
    None = None
INVARIANTS SessionsAreSound NobodyStuck
CHECK_DEADLOCK FALSE
SYMMETRY Sym
