SPECIFICATION FairSpec
CONSTANTS
    repo = repo
    tarball = tarball
    patch = patch
    NumSources = 5
    File = {repo, tarball, patch}
    PathOf <- Paths
    Kind <- KindOf
    Checked = {2, 5}
    MaxWorkers = 2
    MaxRetries = 1
    MaxRuns = 2
    NoSource = 0
CHECK_DEADLOCK FALSE
INVARIANTS
    TypeOK
    SuccessIsVerified
    FetchedCompletely
    OneWriter
PROPERTIES
    NothingFetchedTwice
    RunReturns
