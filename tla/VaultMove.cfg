CONSTANTS
    a = a
    b = b
    f = f
    g = g
    r1 = r1
    Config = Config
    None = None
    Path <- MCPath
    File <- MCFile
    Request <- MCRequest
    Job = "job"
    Namer = "namer"
    Worlds <- MCWorlds
SYMMETRY Symmetry
SPECIFICATION Spec
INVARIANTS
    TypeOK
    SomewhereWhole
    PointersFollow
    ImportsComplete
