SPECIFICATION FairSpec
CONSTANTS
    MaxFrames = 5
    InitialBatch = 4
    Window = 3
    Modes = {"encode", "frames"}
    Buffers = {0, 1}
    StdoutCap = 1
    StdinCap = 1
    StderrCap = 1
    MaxMessages = 2
    MaxFaults = 3
INVARIANTS
    DeliversVideo
    HoldsTwoBatches
    NoOrphans
PROPERTIES
    HangsOnlyOnStderr
\* The job ends, or hangs on a full stderr pipe.
CHECK_DEADLOCK FALSE
