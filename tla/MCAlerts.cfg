SPECIFICATION Spec
CONSTANTS
    a1 = a1
    a2 = a2
    a3 = a3
    Announcements = {a1, a2, a3}
    Empty = {a3}
    Transports = {"rabbit", "kafka"}
    MaxFaults = 2
SYMMETRY AlertSymmetry
INVARIANTS
    MailsAccounted
    SilenceNeedsAllToFail
