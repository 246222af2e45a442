SPECIFICATION AgentHostSpec
CONSTANTS
    MaxCalls = 2
    Channels = {c1}
    Drafts = {d1}
    FileBytes = {b1}
    SendStarts <- MCSendStarts
    Nothing = Nothing
    MaxPeerPosts = 1
    MaxTurns = 1
    SendSessions = {p1}
    MaxHeldRecords = 2
    RowLimit = 1
    MaxHTurns = 3
    MaxNative = 2
    MaxWorks = 2
    MaxAttempts = 1
    FallbackAfter = 2
    MaxMgrFaults = 1
    MaxQueue = 2
    MaxCTurns = 3
    MaxCmds = 2
    MaxWakes = 1
    MaxRepeats = 1
    MaxFrames = 2
    MaxXTurns = 2
    MaxXCalls = 3
    MaxXPerms = 1
    MaxXSpends = 1
    MaxXWire = 2
    MaxOTurns = 3
    MaxKids = 5
    MaxPTurns = 3
    MaxPRuns = 2
    MaxPWire = 2
    MaxATurns = 2
    MaxAUpdates = 2
    MaxAPerms = 1
    Endpoints = {e0, e1, e2, e3}
    EndpointRoot = e0
    MaxDerived = 2
    HScenes <- MCHScenes
    MaxHTurn = 3
    MaxHEdits = 2
    MaxHFaults = 1
    MaxEpisode = 3
    NoProgressAt = 2
    WsDegradeAt = 2
    ReloadCap = 2
    BrokenAt = 2
    AssetSkills = {k1, k2}
    AssetServers = {n1, n2}
    DesiredServers = {n2}
    AssetScenes = {"skills", "servers", "pi"}
    MaxHostEdits = 2
    MaxPrepares = 2
    MaxAssetFaults = 1
    CtlCommands <- MCCtlCommands
    CtlWindow = 2
    CtlAhead = 0
    MaxCtlClock = 4
    CtlBudgets <- MCCtlBudgets
    MaxDevices = 4
    MaxCustodyOps = 3
    MaxCustodyFaults = 1
    MaxCustodyCrash = 1
    DkAgents = {a1, a2}
    DkBoxes <- MCDkBoxes
    MaxDkStarts = 2
    MaxDkFaults = 1
    MaxProcs = 2
    Pids = {7, 8}
    MaxStops = 1
    MaxKills = 1
CHECK_DEADLOCK FALSE
INVARIANTS
    SentAtMostOnce
    
    
    
    HostEntryReachesAgent
    
    
    
PROPERTIES
    NoProgressNotLaundered
    RemovedForCause
    
