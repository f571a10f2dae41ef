\* The upload ends: nothing happens any more.
CHECK_DEADLOCK FALSE
CONSTANTS
    Handlers = {h1, h2}
    NoHandler = NoHandler
    ChunkCount = 3
    MaxChunkRetries = 1
SPECIFICATION UploadSpec
INVARIANT WholeUnlessOverlap
PROPERTIES
    OthersFileStandsUnlessRaced
    UploadSettles
