SPECIFICATION FairSpec
CONSTANTS
    a = a
    b = b
    lib = lib
    app = app
    none = none
    Process = {a, b}
    NoProcess = none
    NoPackage = none
    Package = {lib, app}
    Path = {"so", "so.link", "so.1", "bin", "rc"}
    Contents <- MCContents
    Requires <- MCRequires
    Resolve <- MCResolve
    Request <- MCRequest
    Formats = {"deb", "rpm", "apk"}
    OptionSets = {{"root", "unverified"}, {"root", "native", "strict", "unverified"}}
    MaxVersion = 2
    MaxCalls = 2
CHECK_DEADLOCK FALSE
INVARIANTS
    TypeOK
    RecordMatchesDisk
    RecordIsCurrent
    NativeKept
    DependenciesInPlace
PROPERTIES
    SuccessIsInstalled
    CallsReturn
