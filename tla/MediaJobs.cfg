SPECIFICATION FairSpec
CONSTANTS
    None = None
    Sites <- MCSites
    Sources <- MCSources
    Requests <- MCRequests
    Carries = {"webm", "qtrle"}
    FrameLimit = 4
    MaxRetries = 2
    MaxJobs = 2
    MaxMishaps = 2
INVARIANTS
    AlphaIsTrue
    RendersWhatWasAsked
    StoresWhatWasAsked
    
    RunsAsPlaced
    NothingLeftBehind
PROPERTIES
    JobsEnd
\* The jobs are bounded: after the last one the worker is idle.
CHECK_DEADLOCK FALSE
