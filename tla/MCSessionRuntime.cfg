CONSTANTS
    t1 = t1
    t2 = t2
    t3 = t3
    c1 = c1
    c2 = c2
    Turns <- MCTurns
    Priority <- MCPriority
    Callers = {c1, c2}
    Retention = 1
    NoTurn = NoTurn
SPECIFICATION FairSpec
CONSTRAINT ThreeTurnsOrTwoCallers
INVARIANTS
    RuntimeIsSound
    CancelQuiesces
PROPERTIES
    ImplementsLifecycle
    CallsReturn
    EveryTurnEnds
