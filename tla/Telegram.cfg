SPECIFICATION Spec
CONSTANTS
    Prompts = {1, 2}
    Updates = {3}
    Others = {4}
    MaxSessions = 4
    MaxCommands = 2
    MaxTrouble = 1
    QueueSize = 1
    Chunks = 2
    Jobs = {1, 2}
    Tools = {3}
    Loop = 4
    MaxTime = 2
    MaxCalls = 3
    MaxFaults = 1
    People = {u1, u2}
    MaxPending = 1
    MaxCodes = 2
    Ttl = 1
    Limit = 1
    Window = 1
    MaxClock = 2
    MaxMessages = 2
    MaxDecisions = 2
INVARIANTS SessionsDoNotMix ChatsSettle JobsRunOnce AccessIsGranted
CHECK_DEADLOCK FALSE
