SPECIFICATION Spec
CONSTANTS
    Dreamers = {a, b, c}
    MaxEvents = 2
    DreamBatch = 1
    MinNewEvents = 1
    MaxDreams = 3
    Writers = {t1, t2}
    MaxWrites = 2
    MaxOutbox = 2
    MaxMishaps = 3
    None = None
    Nobody = Nobody
    Callers = {a, b}
    Roots = {ra, rb}
    Cwd = ra
    User = User
    Words = {w}
    MaxResults = 2
    MaxEntries = 1
    MaxCalls = 2
    MaxFaults = 1
    Nothing = Nothing
    Interval = 2
    Rounds = 2
    MaxTurns = 4
    MaxReviews = 2
    MaxOps = 2
INVARIANTS DreamsAreSound RemoteIsFaithful MemoryIsKept ReviewsAreSound
CHECK_DEADLOCK FALSE
SYMMETRY Symmetry
