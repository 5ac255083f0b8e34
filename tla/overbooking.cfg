CONSTANTS
    i1 = i1
    i2 = i2
    i3 = i3
    c1 = c1
    c2 = c2
    h1 = h1
    h2 = h2
    Ids = {i1, i2}
    LastDay = 2
    MaxSeats = 1
    InitialSeats = 1
    Creators = {c1}
    Handlers = {h1, h2}
    Asked <- TwoKinds
    Totals = {}
    NoOne = NoOne
SPECIFICATION Spec
SYMMETRY Symmetry
INVARIANT NeverOverbooked
