SPECIFICATION FairSpec
CONSTANTS
    a = a
    b = b
    None = None
    Inputs <- MCUnbalanced
    NThreads = 2
    MAX_THREADS_PER_QUEUE = 1
    QUEUE_SIZE = 1
    MAX_PER_FETCH = 1
    CHUNK_ANCHOR = 1
    ITEM = 2
    InitialAnchors = 8
    TYPE_FINGERPRINT = TYPE_FINGERPRINT
    TYPE_COMPRESS = TYPE_COMPRESS
    UNCOMPRESSED = UNCOMPRESSED
    COMPRESSED = COMPRESSED
    FLUSHED = FLUSHED
CHECK_DEADLOCK FALSE
PROPERTIES
    FullQueueDrains
