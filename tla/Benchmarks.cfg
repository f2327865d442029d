SPECIFICATION Spec
CONSTANTS
    None = None
    Subsets <- MCSubsets
    Switches <- MCSwitches
    ThreadArgs = {0, 1}
    Cores <- MCCores
    Rungs <- MCRungs
    MaxRuns = 2
    MaxMishaps = 1
INVARIANTS
    RowsAreAsMeasured
    ReportsAreSound
    
\* The runs are bounded: after the last one nothing is left to do.
CHECK_DEADLOCK FALSE
