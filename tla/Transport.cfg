SPECIFICATION Spec
CONSTANTS
    d1 = d1
    d2 = d2
    Device = {d1, d2}
    Remote = Remote
    Rclone = {d1}
    Busy = {d2}
    Path = {f}
    Absent = Absent
    MaxWrites = 2
INVARIANTS
    TypeOK
    PublishedReadable
PROPERTY
    CompleteCopies
