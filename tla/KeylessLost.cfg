SPECIFICATION KeylessSpec
CONSTANTS
    Msgs = {d1, d2, y}
    Dms = {d1, d2}
    Yes = {y}
    No = {}
    Prompts = {q1}
    Turns = {}
    Sessions = {}
    None = None
    VerdictsStable = FALSE
    MaxStale = 0
    Lanes = {TRUE}
    MayUpgrade = FALSE
    FaultKinds = {"crash"}
    MaxFaults = 1
CHECK_DEADLOCK FALSE
INVARIANT HeldNotLost
