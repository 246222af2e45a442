SPECIFICATION FairDaemonSpec
CONSTANTS
    Parts = {"workers", "outbox", "wslocal"}
    Msgs = {p, d1, b}
    Dms = {d1}
    Yes = {}
    No = {}
    Broken = {b}
    Prompts = {q1}
    Turns = {}
    Sessions = {}
    None = None
    VerdictsStable = TRUE
    MaxStale = 0
    Chunk = 2
    Recovery = TRUE
    MaxFaults = 1
    MaxCrashes = 0
    Nothing = Nothing
    NatInvites = {i1, i2}
    NatAuto = {i2}
    MaxNatReplies = 0
    MaxNatPrompts = 4
    MaxNatFaults = 1
    CredDaemons = {d1}
    MaxRev = 2
    MaxStray = 1
    MaxCredFaults = 1
    MaxWorkers = 4
    MaxDiskEdits = 1
    MaxWkFaults = 1
    MaxUnarchives = 1
    MaxETurns = 1
    MaxUpdates = 1
    MaxOdd = 1
    MaxECrashes = 1
    MaxRows = 3
    BatchRows = 2
    OldRows <- MCOldRows
    MaxWlConns = 2
    MaxWlTurns = 1
    MaxWlWire = 1
    MaxWlEnds = 1
CHECK_DEADLOCK FALSE
PROPERTIES
    
    QueueDrains
    VanishedToolIsDetached
