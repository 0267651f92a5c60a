SPECIFICATION FairSpec
CONSTANTS
    x1 = x1
    t1 = t1
    t2 = t2
    o1 = o1
    e1 = e1
    Calls <- NoCall
    Expiry = x1
    Ticks <- TwoTicks
    Operators <- OneOperator
    Events <- OneEvent
    MaxIds = 4
    MaxFailures = 1
    MaxFaults = 2
    Batch = 2
    Foreign = 1
INVARIANTS TypeOK OneWorkerPerAttempt FailuresAreRetriedOnce
PROPERTIES WaitingAttemptsAreTaken ExpiredIsCleaned
