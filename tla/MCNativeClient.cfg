SPECIFICATION NativeClientSpec
CONSTANTS
    Msgs = {d1, d2, y, n}
    Dms = {d1, d2}
    Yes = {y}
    No = {n}
    Broken = {}
    Prompts = {q1}
    Turns = {}
    Sessions = {}
    None = None
    VerdictsStable = TRUE
    MaxStale = 0
    Chunk = 2
    Recovery = FALSE
    MaxFaults = 2
    MaxCrashes = 1
    Nothing = Nothing
    NatInvites = {i1, i2}
    NatAuto = {}
    MaxNatReplies = 1
    MaxNatPrompts = 2
    MaxNatFaults = 0
    DirChannels = {c1}
    DirScenes <- MCDirScenes
    MaxDirEvents = 2
    MaxDirFaults = 1
    HcScenes <- MCHcScenes
    MaxHcKeys = 3
    MaxHcSess = 4
    MaxHcFaults = 1
    MaxOcc = 2
    MaxMutations = 1
    MaxLeases = 1
    MaxRemFaults = 1
    MemServers = {s1, s2}
    MemNotes = {n1}
    MemTopics = {t1, t2}
    MemSizes = {1, 2}
    NoteLimit = 2
    TopicLimit = 2
    BriefLimit = 6
    MemSeed <- MCSeed
    HistoryCap = 1
    MaxMemWrites = 2
    MaxMemBoots = 1
    MaxMemFaults = 1
SYMMETRY Symmetry
CHECK_DEADLOCK FALSE
INVARIANTS
    AckedIsClassified
    
    DecidedAsTold
    
    NeverReplayed
    FiresOnce
    CommitShowsItsWrite
