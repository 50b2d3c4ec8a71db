SPECIFICATION EitherSpec
CONSTANTS
    Responses <- SomeResponses
    MaxSteps = 2
    MaxRetries = 1
    MaxContinuations = 1
    BashLimit = 1
    Files <- AllFiles
    Raws <- SomeRaws
    MaxPending = 1
    Others = {o1}
    MaxCancels = 2
    None = None
    Relays = {relay}
    QueueMax = 2
    MaxPieces = 2
INVARIANTS LoopIsSound StreamIsSound
PROPERTIES GivenUpIsGivenUp TurnsEnd
CHECK_DEADLOCK FALSE
