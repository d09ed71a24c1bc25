SPECIFICATION Spec
CONSTANTS
    a = a
    b = b
    None = None
    Inputs <- MCManyCoarse
    NThreads = 2
    MAX_THREADS_PER_QUEUE = 2
    QUEUE_SIZE = 4
    MAX_PER_FETCH = 1
    CHUNK_ANCHOR = 1
    ITEM = 2
    InitialAnchors = 1
    TYPE_FINGERPRINT = TYPE_FINGERPRINT
    TYPE_COMPRESS = TYPE_COMPRESS
    UNCOMPRESSED = UNCOMPRESSED
    COMPRESSED = COMPRESSED
    FLUSHED = FLUSHED
CHECK_DEADLOCK FALSE
INVARIANTS
    AnchorIndexInBounds
