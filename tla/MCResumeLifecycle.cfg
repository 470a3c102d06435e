SPECIFICATION Spec
CONSTANTS
    q1 = q1
    Requests = {q1}
    FailureLimit = 2
    MaxFaults = 2
INVARIANTS
    RowHasObject
    GoneLeavesNothing
    MatchedMeansStored
    EventsFindKeywords
    UnparsedHasCause
    DeadLetterIsEarned
PROPERTIES
    UploadsSettle
    SweepHeals
