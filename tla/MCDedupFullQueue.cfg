SPECIFICATION FairSpec
CONSTANTS
    a = a
    b = b
    None = None
    Inputs <- MCDuplicates
    NThreads = 2
    MAX_THREADS_PER_QUEUE = 2
    QUEUE_SIZE = 1
    MAX_PER_FETCH = 2
    CHUNK_ANCHOR = 1
    ITEM = 2
    InitialAnchors = 1
    TYPE_FINGERPRINT = TYPE_FINGERPRINT
    TYPE_COMPRESS = TYPE_COMPRESS
    UNCOMPRESSED = UNCOMPRESSED
    COMPRESSED = COMPRESSED
    FLUSHED = FLUSHED
CHECK_DEADLOCK FALSE
PROPERTIES
    WaitEnds
