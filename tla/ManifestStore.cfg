SPECIFICATION Spec
CONSTANTS
    a = a
    b = b
    f = f
    m = m
    v1 = v1
    Content = {a, b}
    Nothing = Nothing
    NoFile = NoFile
    Deleted = Deleted
    Path <- MCPath
    Synced = {f}
    Trees <- MCTrees
    Main = m
    Variant = {v1}
    ConflictPath <- MCConflictPath
    Original <- MCOriginal
    Foreign <- MCForeign
    MaxWrites = 2
    MaxArrivals = 3
    MaxFaults = 1
INVARIANTS
    TypeOK
    Preserved
    ReadYourWrites
PROPERTIES
    LoadKeepsView
    EventuallySettled
