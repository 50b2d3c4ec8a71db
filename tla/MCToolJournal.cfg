SPECIFICATION Spec
CONSTANTS
    a = a  b = b  c = c  x = x  p1 = p1  p2 = p2
    Procs = {p1, p2}
    Turns = {a, b, c}
    Calls = {x}
    Limits = {4, 100}
    MaxTools = 2
    MaxAcks = 1
    ReusedIds = TRUE
    NoTurn = NoTurn
    NoCall = NoCall
    MaxTroubles = 2
SYMMETRY Symmetry
CONSTRAINTS SmallOrShared FewTroubles FewIntents
INVARIANTS JournalIsTrue CrashesAreTold
PROPERTIES TrimsWholeTurns
