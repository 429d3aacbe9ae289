CONSTANTS
    p1 = p1
    p2 = p2
    p3 = p3
    n1 = n1
    n2 = n2
    h1 = h1
    h2 = h2
    k1 = k1
    k2 = k2
    None = None
    Torn = Torn
    Proc <- MCProc
    Name <- MCName
    User = {u}
    Hash <- MCHash
    Pair <- MCPair
    Worlds <- MCWorlds
SYMMETRY Symmetry
SPECIFICATION Spec
INVARIANTS
    TypeOK
    OneInstance
    StoresKept
    
    TlsUsable
