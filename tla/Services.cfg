SPECIFICATION Spec
CONSTANTS
    fileA = fileA
    fileB = fileB
    dir = dir
    weakly = weakly
    once = once
    both = both
    one = one
    two = two
    s1 = s1
    s2 = s2
    c1 = c1
    c2 = c2
    c3 = c3
    c4 = c4
    pa = pa
    pb = pb
    w1 = w1
    w2 = w2
    w3 = w3
    w4 = w4
    u1 = u1
    u2 = u2
    i1 = i1
    i2 = i2
    n1 = n1
    n2 = n2
    sk = sk
    pr1 = pr1
    pr2 = pr2
    Paths = {fileA, fileB}
    Folder <- MCFolder
    Root = Root
    None = None
    Contents <- MCContents
    Patches <- MCPatches
    MaxFaults = 2
    MaxWrites = 1
    Handlers = {weakly, once, both}
    Shape <- MCShape
    Emitters = {one, two}
    Events <- MCEvents
    AnyOne = AnyOne
    MaxHistory = 1
    MaxEvents = 2
    Callers = {c1, c2, c3, c4}
    SessionOf <- MCSessionOf
    Priorities = {0, 1}
    MaxClears = 1
    Absent = Absent
    Profiles = {pa, pb}
    Writers = {w1, w2, w3, w4}
    Role <- MCRole
    Files <- MCFiles
    Envs <- MCEnvs
    MaxSaves = 2
    Users = {u1, u2}
    SessionIds = {i1, i2}
    MaxAgents = 4
    MaxOps = 7
    MinRoom = 2
    Void = Void
    Names = {n1, n2}
    Anonymous = Anonymous
    Attempts = 2
    Stream <- MCStream
    MaxRequests = 4
    MaxSlips = 3
    MaxTurns = 3
    SkillNames = {sk}
    Shared <- MCShared
    Projects = {pr1, pr2}
    Slots <- MCSlots
    WatchedProject = pr1
    NoProject = NoProject
    NoFile = NoFile
    NoSkill = NoSkill
    MaxEdits = 2
    MaxUnlisted = 1
    BuiltIns <- MCBuiltIns
    Servers <- MCServers
    Listings <- MCListings
    ServerName <- MCServerName
    Cut <- MCCut
    Capabilities <- MCCapabilities
    Tiers <- MCTiers
    Cost <- MCCost
    Scores = {2, 9}
    Threshold = 3
    ShownSkills <- MCSkills
    HeadTokens = 1
    Texts = {0, 9}
    Contexts <- MCContexts
INVARIANTS PatchesAreAtomic DeliveriesAreSound  ClientsAreSound OffersAreSound
CHECK_DEADLOCK FALSE
