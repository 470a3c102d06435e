SPECIFICATION Spec
CONSTANTS
    e1 = e1
    e2 = e2
    r1 = r1
    r2 = r2
    Ids = {e1, e2}
    Relays = {r1, r2}
    EventType <- MixedTypes
    BatchSize = 1
    MaxRetries = 2
    WriterAttempts = 1
    Mirror = {r1}
    MaxTime = 1
    MaxFaults = 1
PROPERTIES
    EveryRowSettles
