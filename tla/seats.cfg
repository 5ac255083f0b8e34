CONSTANTS
    i1 = i1
    i2 = i2
    i3 = i3
    c1 = c1
    c2 = c2
    h1 = h1
    h2 = h2
    Ids = {i1, i2}
    LastDay = 2
    MaxSeats = 2
    InitialSeats = 1
    Creators = {c1, c2}
    Handlers = {h1, h2}
    Asked <- TwoKinds
    Totals = {2}
    NoOne = NoOne
SPECIFICATION Spec
SYMMETRY Symmetry
INVARIANTS
    TypeOK
    NoOverbooking
    GaugeInRange
    LockedCapacityIsCurrent
