SPECIFICATION Spec
CONSTANTS
    w1 = w1
    w2 = w2
    o1 = o1
    o2 = o2
    Workers <- MCWorkers
    Outputs <- TwoOutputs
    MaxRetries = 2
    InitialBatch = 4
    Failures = {"transient", "permanent", "oom", "time_limit"}
    MaxFaults = 1
    MaxCopies = 0
    MaxCancels = 0
    MaxSweeps = 0
SYMMETRY WorkerSymmetry
INVARIANTS
    AttemptsBounded
    ResultsServed
    NeverStranded
PROPERTIES
    LedgerKept
    BatchNeverGrows
\* Every message is consumed and every bound used up: the job is at rest.
CHECK_DEADLOCK FALSE
