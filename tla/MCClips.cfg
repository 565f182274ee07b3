SPECIFICATION FairSpec
CONSTANTS
    a = a
    b = b
    Clip = {1, 2}
    Chunk = {a, b}
    Footage <- Recorded
    Window <- TwoWindows
    NoClip = 0
    MaxRestarts = 1
    MaxFaults = 1
CHECK_DEADLOCK FALSE
INVARIANT TypeOK
INVARIANT DoneIsDownloadable
INVARIANT ClipCovers
INVARIANT HandedOnce
PROPERTY TerminalIsFinal
PROPERTY EveryClipEnds
