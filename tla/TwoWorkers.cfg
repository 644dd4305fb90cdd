\* Two server processes; a live worker finishes its job before the stale age.
SPECIFICATION ReadingSpec
CONSTANTS
    w1 = w1
    w2 = w2
    Workers <- TwoWorkers
    MaxUploads = 2
    MAX_ATTEMPTS = 2
    BATCH = 2
    JobsMayStall = FALSE
    Unread = Unread
SYMMETRY Symmetry
INVARIANTS
    TypeOK
    ExclusiveJob
    NoDoubledLines
    ParsedHasLines
    CondemnedAfterAllAttempts
    AttemptAccounting
    JudgedBounded
PROPERTIES
    ParsedIsFinal
    ParsedIsShownWhole
