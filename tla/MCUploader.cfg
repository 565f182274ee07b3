SPECIFICATION Spec
CONSTANTS
    c1 = c1
    c2 = c2
    NoChunk = NoChunk
    NoKey = NoKey
    Chunk <- OneChunk
    Label <- MCLabel
    Key <- MCKey
    KeyOf <- OneKeyOf
    MaxQueue = 3
    MaxRestarts = 1
    MaxDbFaults = 2
    StopAllowed = TRUE
INVARIANT IInv
INVARIANT AlwaysServable
PROPERTY ImplementsStore
