SPECIFICATION Spec
CONSTANTS
    m1 = m1
    m2 = m2
    m3 = m3
    none = none
    c1 = c1
    c2 = c2
    Messages = {m1, m2, m3}
    None = none
    Consumers = {c1, c2}
    Reconnecting = {c1}
    Prefetch = 2
    MaxDisruptions = 2
INVARIANTS
    NothingVanishes
    RepeatsNeedDisruption
PROPERTIES
    EveryMessageSettles
