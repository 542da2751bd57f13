SPECIFICATION Spec
CONSTANTS
    HostArch = "x86_64"
    PackageManagerOf <- MCPackageManagerOf
    PackageFunction <- MCPackageFunction
    Worlds <- MCWorlds
    Installs <- MCInstalls
    HostDebArch = "amd64"
    PerlModules = {}
    Essential = {}
    Triplet <- MCTriplet
    MaxRuns = 2
CHECK_DEADLOCK FALSE
INVARIANT BuiltForTarget
