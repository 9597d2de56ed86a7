SPECIFICATION Spec
CONSTANTS
    MaxLines = 3
    MaxOps = 4
    CHUNK_SIZE = 2
    MAX_CHILDREN = 2
    MAX_LOOPS = 2
    Changes = {"append", "grow_last", "full"}
INVARIANTS TypeOK SearchBalance QueueWaits HitsAreMatches
CHECK_DEADLOCK FALSE
