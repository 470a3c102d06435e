SPECIFICATION AccountSpec
CONSTANTS
    c1 = c1
    c2 = c2
    i1 = i1
    i2 = i2
    m1 = m1
    m1upper = m1upper
    m2 = m2
    m3 = m3
    none = none
    Clients = {c1, c2}
    Ids = {i1, i2}
    Spellings = {m1, m1upper, m2, m3}
    Normal <- MCNormal
    None = none
    TTL = 2
    MaxClock = 3
    MaxUserFaults = 2
SYMMETRY AccountSymmetry
INVARIANTS
    OneAccountPerAddress
    ProfileIsOwn
