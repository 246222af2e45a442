SPECIFICATION InboxRuntimeSpec
CONSTANTS
    Parts = {"store", "runtime"}
    Msgs = {m1, m2}
    Turns = {t1, t2}
    Sessions = {s1, s2}
    None = None
    VerdictsStable = TRUE
    MaxStale = 0
    Humans = {m1, m2}
    Renotice = TRUE
    Profiles <- PlainProfiles
    CrashInSettle = FALSE
SYMMETRY Symmetry
CHECK_DEADLOCK FALSE
INVARIANTS
    DueIffUnannounced
    TurnOwnership
    
    WithheldWasDeclined
