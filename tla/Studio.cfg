SPECIFICATION PageSpec
CONSTANTS
    f1 = f1  f2 = f2
    png = png  mask = mask
    Files = {f1, f2}
    Drops <- MCDrops
    Kinds = {png, mask}
    Preferred = png
    MaxJobs = 2
    MaxClicks = 3
    MaxErrors = 1
INVARIANTS
    PageIsSound
    OutputsAgree
PROPERTIES
    WaitingEnds
\* Once the page is closed nothing is left to do.
CHECK_DEADLOCK FALSE
