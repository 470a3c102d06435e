SPECIFICATION Spec
CONSTANTS
    s1 = s1
    s2 = s2
    Scrapers = {s1, s2}
    Paths = {"kafka", "rabbit"}
    MaxVersions = 2
    MaxRuns = 2
    MaxFaults = 2
INVARIANTS
    KeywordsFitText
    SequentialIsExact
PROPERTIES
    ScrapedIsIndexed
