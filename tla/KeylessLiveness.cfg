SPECIFICATION FairKeylessSpec
CONSTANTS
    Msgs = {d1, y, n}
    Dms = {d1}
    Yes = {y}
    No = {n}
    Prompts = {q1, q2}
    Turns = {}
    Sessions = {}
    None = None
    VerdictsStable = FALSE
    MaxStale = 0
    Lanes = {TRUE, FALSE}
    MayUpgrade = TRUE
    FaultKinds = {"send", "disk", "frame", "crash"}
    MaxFaults = 1
CHECK_DEADLOCK FALSE
PROPERTIES
    AnswerTakesEffect
