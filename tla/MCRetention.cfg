SPECIFICATION FairSpec
CONSTANTS
    a = a
    b = b
    Chunk <- TwoChunks
    StemOf <- TwoStems
    TierOf <- ArchiveFull
    Pass = {"nightly", "manual"}
    NoChunk = NoChunk
    NoKey = NoKey
    RawDays = {1}
    CompressedDays = {0, 1}
    Env <- KeepAll
    MaxAge = 2
    MaxUpdates = 1
    MaxS3Faults = 2
    MaxBreaks = 1
INVARIANT TypeOK
INVARIANT NoOrphans
INVARIANT HiddenOnlyInHand
PROPERTY ImplementsStore
PROPERTY AgedIsCompressed
