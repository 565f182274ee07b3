SPECIFICATION FairSpec
CONSTANTS
    Rec = {r1, r2}
    Path = {p1, p2}
    Task = {t1, t2}
    NoRec = NoRec
    NoPath = NoPath
    BackoffBase = 1
    BackoffMax = 3
    Interval = 2
    MaxPatches = 2
    MaxFaults = 1
    MaxRestarts = 1
    Overlap = FALSE
    Repeat = FALSE
    RejectAllowed = FALSE
CHECK_DEADLOCK FALSE
INVARIANT TypeOK
INVARIANT CapturedOnce
PROPERTY EnabledIsCaptured
PROPERTY DisabledIsReleased
