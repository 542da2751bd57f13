SPECIFICATION Spec
CONSTANTS
    HostArch = "amd64"
    Worlds <- MCWorlds
    Ranked <- MCRanked
CHECK_DEADLOCK FALSE
INVARIANTS
    PlanIsTheClosure
    DependenciesFirst
    NewestIsOffered
