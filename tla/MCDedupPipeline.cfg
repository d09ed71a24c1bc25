SPECIFICATION FairSpec
CONSTANTS
    a = a
    b = b
    None = None
    Inputs <- MCInputs
    NThreads = 3
    MAX_THREADS_PER_QUEUE = 2
    QUEUE_SIZE = 2
    MAX_PER_FETCH = 2
    CHUNK_ANCHOR = 1
    ITEM = 2
    InitialAnchors = 1
    TYPE_FINGERPRINT = TYPE_FINGERPRINT
    TYPE_COMPRESS = TYPE_COMPRESS
    UNCOMPRESSED = UNCOMPRESSED
    COMPRESSED = COMPRESSED
    FLUSHED = FLUSHED
INVARIANTS
    ArchiveComplete
    NoEnqueueAfterTerminate
PROPERTIES
    ImplementsSerial
    Termination
