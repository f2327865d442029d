SPECIFICATION SerialSpec
CONSTANTS
    r1 = r1  r2 = r2  r3 = r3
    p1 = p1  p2 = p2  j1 = j1  bad = bad
    png = png  jpg = jpg
    NoContent = NoContent
    NoType = NoType
    Requests <- ThreeRequests
    Contents = {p1, p2, j1, bad}
    Types = {png, jpg}
    TypeOf <- MCTypeOf
    Guess = png
    DirectUploads = TRUE
    MaxInFlight = 3
    MaxFaults = 2
SYMMETRY RequestSymmetry
INVARIANTS
    ServesValidated
    SerialBytesMatch
    DeleteRemovesBytes
PROPERTIES
    ContractKept
\* Every request is made once: at the end the asset is at rest.
CHECK_DEADLOCK FALSE
