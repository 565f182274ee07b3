SPECIFICATION FairSpec
CONSTANTS
    Stream <- Both
    Block <- Block25
    Slowest = 100
    Assumed = 3
    Floor = 1
    AudioGap = 10
    Tick = 2
    Jitter = 1
    CaptureWait = 4
    MaxTimeouts = 2
    MaxTime = 15
    MaxFrames = 2
    MaxFaults = 1
INVARIANT TypeOK
INVARIANT PaddingWithinClock
INVARIANT HalfKept
INVARIANT SilenceIsReported
PROPERTY NoLateWrite
PROPERTY StopReturns
CHECK_DEADLOCK FALSE
