SPECIFICATION FairSpec
CONSTANTS
    c1 = c1
    c2 = c2
    NoChunk = NoChunk
    NoKey = NoKey
    Chunk <- OneChunk
    Label <- MCLabel
    Key <- MCKey
    KeyOf <- OneKeyOf
    MaxQueue = 2
    MaxRestarts = 1
    MaxDbFaults = 0
    StopAllowed = FALSE
PROPERTY CompletedIsUploaded
