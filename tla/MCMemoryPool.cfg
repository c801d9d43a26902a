SPECIFICATION Spec
CONSTANTS
    MaxThreads = 2
    PoolSize = 19
    Reserved = 1
    HandleSize = 1
    FlowSize = 2
    JobSize = 3
    ChunkSize = 17
    DdrChunkSize = 10
    PdSize = 3
    PdfSize = 4
    PdLimit = 8
INVARIANTS NoOverlap ContextsApart
