SPECIFICATION Spec
CONSTANTS
    a = a
    b = b
    x = x
    r1 = r1
    r2 = r2
    Request = {r1, r2}
    Name = {a, b, x}
    Path <- MCFlat
    Marker = Marker
    Absent = Absent
    MaxPuts = 3
    Apart = TRUE
SYMMETRY Symmetry
INVARIANTS
    TypeOK
    Preserved
    SizesMatch
