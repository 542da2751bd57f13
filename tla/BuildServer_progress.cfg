SPECIFICATION WaitSpec
CONSTANTS
    b1 = b1
    b2 = b2
    b3 = b3
    v = v
    Build = {b1, b2}
    Waiter = {w1}
    Version = {v}
    NoVersion = NoVersion
    NoBuild = NoBuild
    Asked <- AskedByFirst
    MaxSessions = 1
    MaxClock = 2
INVARIANT
    WaitAnswersFinalState
PROPERTY
    WaitsAnswered
    BuildsEnd
