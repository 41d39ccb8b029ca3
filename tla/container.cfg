SPECIFICATION MCSpec
CONSTANTS
    BodySize = 8
    Lengths = {0, 2, 3}
    Sizes = {1, 2, 4}
    MaxBlockSize = 3
    MaxBlocks = 3
    ChunkSize = 2
    ChunkGap = 1
    MetadataGap = 2
    InputLengths = {1, 2, 3, 4, 5}
    Outputs = {0, 1, 3, 4, 5, 6, 12}
    Window = 2
    MaxOut = 4
CHECK_DEADLOCK FALSE
INVARIANTS ContainerTypeOK ScanIsGreedy GroupsPartition SplitTablesRejoined RefusedForCause InflateTypeOK WindowsDoNotShow MemoryBounded
PROPERTIES ParseEnds
