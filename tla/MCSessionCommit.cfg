CONSTANTS
    a = a
    b = b
    c = c
    d = d
    p1 = p1
    p2 = p2
    p3 = p3
    Procs = {p1, p2}
    Turns = {a, b, c, d}
    NoTurn = NoTurn
    MaxAttempts = 3
    Preserve = 1
    ReviewInterval = 2
    MaxRevision = 4
SPECIFICATION Spec
SYMMETRY Symmetry
CONSTRAINT BoundedRevision
INVARIANTS
    StoreIsSound
    AnswersAreDurable
PROPERTIES
    CommitsOnItsContext
    ImplementsLog
