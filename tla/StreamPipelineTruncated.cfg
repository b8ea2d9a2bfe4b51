SPECIFICATION SafeSpec
CONSTANTS
    Depth = 1
    NChunks = 3
    BufferSize = 1
CHECK_DEADLOCK FALSE
INVARIANT DoneMeansComplete
