SPECIFICATION FairSpec
CONSTANTS
    a = a
    b = b
    c = c
    d = d
    Project = {a, b, c, d}
    NoProject = NoProject
    Manifests <- Collections
    NumCPU = 2
INVARIANTS
    TypeOK
    DependenciesBuiltFirst
    RuntimeDependenciesInstalled
    MarkedDependenciesInstalled
    SuccessIsComplete
    NoOrphanWorkers
    RuntimeSortIsFlat
PROPERTIES
    ImplementsOrderedBuild
    BuildReturns
