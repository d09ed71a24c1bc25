SPECIFICATION SpecEither
CONSTANTS
    a = a
    b = b
    large = large
    Inputs <- MCInputs
    Oversized <- MCOversized
    TYPE_FINGERPRINT = TYPE_FINGERPRINT
    TYPE_COMPRESS = TYPE_COMPRESS
    Coarse <- MCCoarse
    NULL = NULL
CHECK_DEADLOCK FALSE
INVARIANTS
    OutputIsPrefix
    RoundTrip
    ErrorsAreJustified
PROPERTIES
    DecoderEnds
    ImplementsEarlyChunks
