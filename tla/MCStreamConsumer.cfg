SPECIFICATION Spec
CONSTANTS
    e1 = e1
    e2 = e2
    c1 = c1
    c2 = c2
    Ids = {e1, e2}
    Consumers = {c1, c2}
    MaxLog = 3
    MaxDisruptions = 1
INVARIANTS
    AtMostOnce
    LossHasACause
PROPERTIES
    EveryMessageSettles
