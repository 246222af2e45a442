SPECIFICATION ReceiveSpec
CONSTANTS
    Msgs = {d1, n}
    Dms = {d1}
    Yes = {}
    No = {n}
    Broken = {}
    Prompts = {q1}
    Turns = {}
    Sessions = {}
    None = None
    VerdictsStable = TRUE
    MaxStale = 0
    Chunk = 2
    Recovery = TRUE
    MaxFaults = 1
    MaxCrashes = 0
CHECK_DEADLOCK FALSE
INVARIANT GatedIsRedeliverable
