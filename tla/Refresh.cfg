SPECIFICATION Spec
CONSTANTS
    Signer = "signer"
    Worlds <- MCWorlds
    Indexes = {"main", "universe"}
    Mirrors = {"m1", "m2"}
    Answers <- MCAnswers
    MaxGen = 2
    MaxRuns = 2
CHECK_DEADLOCK FALSE
INVARIANT
    RefreshIsGenuine
