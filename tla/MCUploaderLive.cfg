SPECIFICATION FairSpec
CONSTANTS
    c1 = c1
    c2 = c2
    NoChunk = NoChunk
    NoKey = NoKey
    Chunk <- MCChunk
    Label <- OneLabel
    Key <- OwnKey
    KeyOf <- OwnKeyOf
    MaxQueue = 2
    MaxRestarts = 1
    MaxDbFaults = 0
    StopAllowed = FALSE
PROPERTY EndedIsStored
PROPERTY InterruptedIsStored
