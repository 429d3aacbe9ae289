CONSTANTS
    p1 = p1
    p2 = p2
    Page <- MCPage
    Grace = 4
    Timeout = 5
    MaxOrphans = 2
    MaxTokens = 2
CHECK_DEADLOCK FALSE
SPECIFICATION BCSpec
INVARIANTS
    BCTypeOK
PROPERTIES
    StopsUnattended
    EventuallyStops
