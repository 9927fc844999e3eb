CONSTANTS
    b1 = b1
    Sym <- MCSym
    MaxChunk = 2
    MaxChunks = 2
    MaxLen = 2
    EmptyChunkMidStream = FALSE
    Versions = {"HTTP/1.0", "HTTP/2.0"}
    Statuses = {100, 101, 200, 404}
    UserHeaders <- MCUserHeaders
    MaxHeaders = 2
    MaxRequests = 2
SPECIFICATION Spec
CHECK_DEADLOCK FALSE
INVARIANTS
    NoFramingOn101
