SPECIFICATION Spec
CONSTANTS
    a = a
    b = b
    c = c
    d = d
    Project = {a, b}
    NoProject = NoProject
    Manifests <- SplitDependency
    NumCPU = 2
INVARIANT
    RuntimeDependenciesAvailable
