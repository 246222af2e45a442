SPECIFICATION KeylessClientSpec
CONSTANTS
    Msgs = {d1, d2, y, n}
    Dms = {d1, d2}
    Yes = {y}
    No = {n}
    Prompts = {q1}
    Turns = {}
    Sessions = {}
    None = None
    VerdictsStable = FALSE
    MaxStale = 0
    Lanes = {TRUE}
    MayUpgrade = FALSE
    FaultKinds = {"disk", "crash"}
    MaxFaults = 1
    Nothing = Nothing
    BridgeKinds = {"ack"}
    MaxBridgeReqs = 3
    MaxPushes = 1
    MaxOutages = 1
    MaxBackoff = 2
    Invites = {i1, i2}
    AutoInvites = {i2}
    MaxReplies = 2
    MaxRefs = 6
    MaxIvFaults = 1
    MaxReqs = 2
    MaxSlots = 1
    MaxFiledVer = 2
    MaxHandlers = 2
    MaxBoots = 2
    MaxReqFaults = 1
    MaxSTurns = 2
    ReportBatch = 2
    Budgets <- MCBudgets
SYMMETRY Symmetry
CHECK_DEADLOCK FALSE
INVARIANTS
    HeldStaysQueued
    OneLogicalDecision
    OneHandlerPerRequest
    LastWriteIsNewest
PROPERTIES
    AnswersStayInStep
