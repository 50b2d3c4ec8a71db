CONSTANTS
    a = a
    b = b
    c = c
    d = d
    p1 = p1
    p2 = p2
    p3 = p3
    Procs = {p1, p2}
    Turns = {a, b, c}
    NoTurn = NoTurn
    MaxAttempts = 3
    Preserve = 1
    ReviewInterval = 2
    MaxRevision = 5
SPECIFICATION SharedDeleteSpec
SYMMETRY Symmetry
CONSTRAINT BoundedRevision
PROPERTIES
    CommitsKeepTurns
