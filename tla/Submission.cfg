SPECIFICATION Spec
CONSTANTS
    p1 = p1  p2 = p2
    r1 = r1  r2 = r2  r3 = r3  r4 = r4
    a1 = a1  a2 = a2  k1 = k1  ip = ip
    NoBucket = NoBucket  NoKey = NoKey
    Processes = {p1}
    Identities = {ip}
    Capacity = 3001
    Cost = 3001
    Refill = 2
    Lags = {0, 1000, 2000}
    Instants = {0, 1500, 5000}
    Requests = {r1, r2, r3}
    Assets = {a1, a2}
    Keys = {k1}
SYMMETRY Symmetry
INVARIANTS
    WithinQuota
    KeepsTime
    OneJobForAll
\* Every request is made once: at the end all are answered.
CHECK_DEADLOCK FALSE
