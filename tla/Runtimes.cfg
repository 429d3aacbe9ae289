CONSTANTS
    m1 = m1
    m2 = m2
    u1 = u1
    v1 = v1
    v2 = v2
    b1 = b1
    b2 = b2
    None = None
    Torn = Torn
    Manager <- MCManager
    User <- MCUser
    Version <- MCVersion
    Build <- MCBuild
    Worlds <- MCWorlds
SYMMETRY Symmetry
SPECIFICATION Spec
INVARIANTS
    TypeOK
    ManifestReadable
    RecordedUsable
    RunsWhole
PROPERTIES
    ImplementsSwitch
