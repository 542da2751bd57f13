SPECIFICATION Spec
CONSTANTS
    b1 = b1
    b2 = b2
    b3 = b3
    v = v
    Build = {b1, b2, b3}
    Waiter = {}
    Version = {v}
    NoVersion = NoVersion
    NoBuild = NoBuild
    Asked <- AskedByFirst
    MaxSessions = 2
    MaxClock = 2
INVARIANTS
    TypeOK
    OutcomeIsRecorded
    OwnOverrides
    GlobalsRestored
    CanceledOnRequest
PROPERTIES
    RegistryBounded
    OldestDroppedFirst
