SPECIFICATION Spec
CONSTANTS
    Rec = {r1, r2}
    Path = {p1, p2}
    Task = {t1, t2}
    NoRec = NoRec
    NoPath = NoPath
    BackoffBase = 1
    BackoffMax = 3
    Interval = 2
    MaxPatches = 0
    MaxFaults = 0
    MaxRestarts = 0
    Overlap = TRUE
    Repeat = FALSE
    RejectAllowed = FALSE
CHECK_DEADLOCK FALSE
INVARIANT OwnsRecorders
