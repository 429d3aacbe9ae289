SPECIFICATION Spec
CONSTANTS
    Proc = {p1, p2}
    Name = {a}
    Dir = Dir
    Layouts = {TRUE}
    NoFile = NoFile
    Deleted = Deleted
    MaxMigrations = 4
    MaxWrites = 2
    Quiet = FALSE
INVARIANTS
    ContentPreserved
SYMMETRY MCSymmetry
CHECK_DEADLOCK FALSE
