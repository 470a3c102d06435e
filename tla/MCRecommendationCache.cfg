SPECIFICATION MCSpec
CONSTANTS
    p1 = p1
    r1 = r1
    r2 = r2
    Pages = {p1}
    Readers = {r1, r2}
    CacheTTL = 1
    Timeout = 1
    MaxVersion = 2
    MaxTicks = 3
    MaxPageFaults = 1
    Words = {0, 1, 2, 3, 4, 5}
    Lower <- MCLower
    Short = {0}
    StopWords = {1}
    MaxLen = 3
    Docs = {1, 2, 3}
    MaxScore = 3
    MaxItems = 3
    Default = 1
    Most = 2
SYMMETRY ReaderSymmetry
INVARIANTS
    CacheInv
    FunctionsAreRight
PROPERTIES
    SequentialNeverOlder
