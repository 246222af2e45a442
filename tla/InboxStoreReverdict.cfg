SPECIFICATION StoreSpec
CONSTANTS
    Msgs = {m1}
    Turns = {t1}
    Sessions = {s1}
    None = None
    VerdictsStable = FALSE
    MaxStale = 0
CHECK_DEADLOCK FALSE
INVARIANT PendingIsReadable
