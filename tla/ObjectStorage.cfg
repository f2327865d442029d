SPECIFICATION Spec
CONSTANTS
    c1 = c1  c2 = c2  c3 = c3
    p = p  q = q
    Callers <- ThreeCallers
    Keys <- MCKeys
    ListPrefixes <- MCPrefixes
    Limits = {1, 2}
    Rank <- MCRank
    PageSize = 1
    Payloads = {p, q}
    Chunks = 2
    Backends = {"local", "s3"}
    MaxAttempts = 2
    MaxCalls = 3
    MaxFaults = 1
SYMMETRY Symmetry
INVARIANTS
    ListsWhatStays
PROPERTIES
    KeepsAtomicStore
\* Every call is made once: at the end the store is at rest.
CHECK_DEADLOCK FALSE
