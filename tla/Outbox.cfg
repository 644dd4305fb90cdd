\* Two processes, three mails (the second with a bad address), batches of two,
\* one batch broken off, one mail returned by the operator.
SPECIFICATION FairSpec
CONSTANTS
    s1 = s1
    s2 = s2
    Mails = {1, 2, 3}
    BadMails = {2}
    Senders <- TwoSenders
    BATCH = 2
    MAX_SEND_ATTEMPTS = 2
    MaxBreaks = 1
    MaxRetries = 1
INVARIANTS
    TypeOK
    CopiesAccounted
    GivenUpAfterAllAttempts
    OnlyDeliveredIsSwept
PROPERTIES
    SettledStaysHome
    EveryMailEnds
CHECK_DEADLOCK FALSE
