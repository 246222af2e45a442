SPECIFICATION InboxRuntimeSpec
CONSTANTS
    Parts = {"runtime"}
    Msgs = {m1}
    Turns = {t1, t2}
    Sessions = {s1, s2}
    None = None
    VerdictsStable = TRUE
    MaxStale = 0
    Humans = {m1}
    Renotice = TRUE
    Profiles <- TurnProfiles
    CrashInSettle = TRUE
SYMMETRY Symmetry
CHECK_DEADLOCK FALSE
INVARIANTS
    SerialTurns
    NoWedgedAutonomous
    ActiveUnionIsDurable
PROPERTIES
    RenoticedOnce
    AdmittedByItsReader
    ImplementsLifecycle
