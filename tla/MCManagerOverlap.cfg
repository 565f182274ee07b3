SPECIFICATION Spec
CONSTANTS
    Rec = {r1, r2}
    Path = {p1, p2}
    Task = {t1, t2, t3}
    NoRec = NoRec
    NoPath = NoPath
    BackoffBase = 0
    BackoffMax = 0
    Interval = 0
    MaxPatches = 1
    MaxFaults = 0
    MaxRestarts = 0
    Overlap = TRUE
    Repeat = TRUE
    RejectAllowed = TRUE
CHECK_DEADLOCK FALSE
SYMMETRY Symmetry
INVARIANT FinalizedOnce
INVARIANT OwnsUnlessClash
PROPERTY HandedComplete
