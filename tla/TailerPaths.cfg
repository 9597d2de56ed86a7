SPECIFICATION FairSpec
CONSTANTS
    Paths = {p1, p2}
    Modes = {TRUE, FALSE}
    Fragile = {p2}
    Blocks = {a}
    Hole = Hole
    NoFile = NoFile
    NoPath = NoPath
    FIRST = 1
    BUFFER = 2
    MaxLen = 1
    MaxOps = 1
    MaxConns = 2
    Env = {"append", "disconnect", "late_add"}
INVARIANTS TypeOK ToldIsCopied
PROPERTIES RescanEnds
CHECK_DEADLOCK FALSE
