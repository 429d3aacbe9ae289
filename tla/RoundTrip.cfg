CONSTANTS
    x1 = x1
    x2 = x2
    MinSize = 2
    AvgSize = 3
    MaxSize = 4
    Gear <- MCGear
    Files <- MCFiles
    Content <- MCContent
    Archive = "zip"
    NoFile = NoFile
    Own = Own
    Exporter <- MCExporter
    Bounds <- MCBounds
SYMMETRY Symmetry
SPECIFICATION RTSpec
CHECK_DEADLOCK FALSE
INVARIANTS
    RTTypeOK
    ChunksSound
    DestinationWhole
    PolicyKept
    ResultTrue
