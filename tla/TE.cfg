CONSTANTS
    b1 = b1
    b2 = b2
    Sym <- MCSym
    MaxChunk = 2
    MaxChunks = 3
    MaxLen = 3
    EmptyChunkMidStream = FALSE
SPECIFICATION Spec
CHECK_DEADLOCK FALSE
INVARIANTS
    TypeOK
    LengthFramingExact
    ChunkedFramingDecodes
    CompletionSound
PROPERTIES
    DeliversBody
