SPECIFICATION Spec
CONSTANTS
    Paths = {p1}
    Modes = {TRUE}
    Fragile = {p1}
    Blocks = {a, b}
    Hole = Hole
    NoFile = NoFile
    NoPath = NoPath
    FIRST = 1
    BUFFER = 2
    MaxLen = 2
    MaxOps = 2
    MaxConns = 1
    Env = {}
INVARIANT Mirrored
CHECK_DEADLOCK FALSE
