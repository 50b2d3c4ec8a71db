SPECIFICATION Spec
CONSTANTS
    Large = 4
    Excerpt = 2
    Small = 1
    PreserveLast = 3
    MaxToolResults = 1
    TargetTokens = 4
    NoId = NoId
    CallLists <- MCCalls
    Sizes <- MCSizes
    Budgets <- MCBudgets
    Threshold = 6
    Strategies <- MCStrategies
    MaxTurns = 4
    MaxSteps = 3
    MaxList = 4
    Open <- MCOpen
    Close <- MCClose
    Pieces <- MCPieces
    MaxPieces = 3
    MaxChunk = 5
    Arguments = 1
    Asked = {0, 1}
    Window = 10
    Limits = {3, 12, Unknown}
    Inputs = {6, 7}
    DefaultLimit = 4
    Unknown = Unknown
    Errors <- MCErrors
    MaxCauses = 3
INVARIANTS ContextsAreSound StreamsAreFaithful AnswersAreSound FailuresAreClassified
CHECK_DEADLOCK FALSE
