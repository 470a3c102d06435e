SPECIFICATION SweepSpec
CONSTANTS
    x1 = x1
    x2 = x2
    t1 = t1
    t2 = t2
    h1 = h1
    h2 = h2
    none = none
    Resumes = {x1, x2}
    Triggers = {t1, t2}
    Listeners = {h1, h2}
    None = none
    MaxConns = 2
    MaxSweeps = 1
INVARIANTS
    SweepInv
    StandstillIsTransient
PROPERTIES
    EventRunsEnd
