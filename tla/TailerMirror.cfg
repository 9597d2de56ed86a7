SPECIFICATION FairSpec
CONSTANTS
    Paths = {p1}
    Modes = {TRUE, FALSE}
    Fragile = {}
    Blocks = {a, b}
    Hole = Hole
    NoFile = NoFile
    NoPath = NoPath
    FIRST = 1
    BUFFER = 2
    MaxLen = 3
    MaxOps = 2
    MaxConns = 3
    Env = {"append", "disconnect", "unreachable", "cached"}
INVARIANTS PrefixMirrored ToldIsCopied
PROPERTIES FollowConverges
CHECK_DEADLOCK FALSE
