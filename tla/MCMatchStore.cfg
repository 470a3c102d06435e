SPECIFICATION Spec
CONSTANTS
    k = k
    q = q
    FailureLimit = 3
    h1 = h1
    Jobs = {1, 2, 3}
    LastVersion = 2
    Score <- ScoreTable
    TopLimit = 2
    EventWorkers = {k, q}
    HttpWorkers = {h1}
    MaxRuns = 3
    MaxFaults = 1
INVARIANTS
    StoreInv
    ExactlyLastRanking
PROPERTIES
    RunsReplaceTable
    RunsEnd
