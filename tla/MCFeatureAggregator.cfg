SPECIFICATION Spec
CONSTANTS
    i1 = i1
    i2 = i2
    i3 = i3
    c1 = c1
    c2 = c2
    Ids = {i1, i2, i3}
    Members = {c1, c2}
    MaxFaults = 2
SYMMETRY AggregatorSymmetry
INVARIANTS
    CountedOnce
    UncountedHasCause
    RatiosCurrent
