SPECIFICATION FairSpec
CONSTANTS
    w1 = w1
    w2 = w2
    o1 = o1
    o2 = o2
    Workers <- MCWorkers
    Outputs <- OneOutput
    MaxRetries = 0
    InitialBatch = 1
    Failures = {"transient", "permanent"}
    MaxFaults = 1
    MaxCopies = 0
    MaxCancels = 0
    MaxSweeps = 1
PROPERTIES
    StuckJobsFinish
\* Every message is consumed and every bound used up: the job is at rest.
CHECK_DEADLOCK FALSE
