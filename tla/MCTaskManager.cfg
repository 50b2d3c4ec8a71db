SPECIFICATION LiveSpec
CONSTANTS
    t1 = t1  t2 = t2  c1 = c1  c2 = c2
    NoTask = NoTask
    Tasks = {t1, t2}
    Callers = {c1, c2}
    MaxConcurrent = 1
    MaxTerminal = 1
    MaxStarts = 2
CONSTRAINT OneOfTwo
INVARIANTS TasksAreSound
PROPERTIES FirstOutcomeWins TasksResolve
