SPECIFICATION Spec
CONSTANTS
    a = a
    b = b
    Chunk <- OneChunk
    StemOf <- OneStem
    TierOf <- OneCompressed
    Pass = {"nightly"}
    NoChunk = NoChunk
    NoKey = NoKey
    RawDays = {1}
    CompressedDays = {0}
    Env <- KeepAll
    MaxAge = 2
    MaxUpdates = 0
    MaxS3Faults = 0
    MaxBreaks = 0
INVARIANT StoredIsKept
