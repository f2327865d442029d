SPECIFICATION Spec
CONSTANTS
    w1 = w1
    w2 = w2
    o1 = o1
    o2 = o2
    Workers <- OneWorker
    Outputs <- OneOutput
    MaxRetries = 0
    InitialBatch = 1
    Failures = {}
    MaxFaults = 0
    MaxCopies = 0
    MaxCancels = 1
    MaxSweeps = 0
PROPERTIES
    RunningCancelIsFinal
\* Every message is consumed and every bound used up: the job is at rest.
CHECK_DEADLOCK FALSE
