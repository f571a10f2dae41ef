\* The upload ends: nothing happens any more.
CHECK_DEADLOCK FALSE
CONSTANTS
    Handlers = {h1}
    NoHandler = NoHandler
    ChunkCount = 2
    MaxChunkRetries = 1
SPECIFICATION UploadSpec
INVARIANT SuccessIsWhole
