SPECIFICATION Spec
CONSTANTS
    Proc = {p1, p2}
    Name = {a}
    Dir = Dir
    Layouts = {TRUE, FALSE}
    NoFile = NoFile
    Deleted = Deleted
    MaxMigrations = 4
    MaxWrites = 2
    Quiet = TRUE
INVARIANTS
    TypeOK
    Kept
    OpenMeansUpgraded
SYMMETRY MCSymmetry
CHECK_DEADLOCK FALSE
