SPECIFICATION FairSpec
CONSTANTS
    MaxLines = 3
    MaxOps = 3
    CHUNK_SIZE = 2
    MAX_CHILDREN = 2
    MAX_LOOPS = 2
    Changes = {"append", "partial", "full"}
INVARIANT SearchComplete
PROPERTY SearchEnds
CHECK_DEADLOCK FALSE
