\* One server process, as compose.prod.yml deploys it, with crashes.
SPECIFICATION FairSpec
CONSTANTS
    w1 = w1
    Workers <- OneWorker
    MaxUploads = 2
    MAX_ATTEMPTS = 2
    BATCH = 2
    JobsMayStall = TRUE
PROPERTIES
    ImplementsLifecycle
    SettlesForGood
