SPECIFICATION FairSpec
CONSTANTS
    a1 = a1
    a2 = a2
    b1 = b1
    b2 = b2
    A = A
    B = B
    Chunk <- AllChunks
    Source = {A, B}
    Row <- Table
    Now = 7
    NoChunk = NoChunk
    Open = Open
    MaxBytes = 3
    Pane = {0, 1}
    NoSource = NoSource
    Refresh = {f1, f2}
    Span = 2
    Opened = 3
    Instant = {1, 6}
    MaxEvents = 3
INVARIANT TypeOK
INVARIANT PlaysOwn
INVARIANT ListsCurrent
INVARIANT SeekArrives
INVARIANT RangeServed
PROPERTY ReverseStops
CHECK_DEADLOCK FALSE
