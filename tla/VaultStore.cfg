SPECIFICATION Spec
CONSTANTS
    c1 = c1
    c2 = c2
    Proc = {p1, p2}
    Path = {f, g}
    Chunk = {c1, c2}
    Contents <- MCContents
    Absent = Absent
    GcAlone = TRUE
INVARIANTS
    TypeOK
    NoDanglingManifest
PROPERTIES
    GcComplete
    ImplementsFileMap
SYMMETRY MCSymmetry
