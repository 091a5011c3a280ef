SPECIFICATION Spec
CONSTANTS
    c = c
    d = d
    q = q
    l = l
    j = j
    x = x
    m = m
    r1 = r1
    r2 = r2
    r3 = r3
    Nobody = Nobody
    Sessions <- Presses
    Kind <- PressesKind
    MaxOpen = 2
    Rows = {r1, r2}
    Others = {}
    NewRow = NewRow
SYMMETRY RowSymmetry
INVARIANTS AtMostOneRow
