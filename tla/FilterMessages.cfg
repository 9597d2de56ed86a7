SPECIFICATION Spec
CONSTANTS
    Patterns = {"p1"}
    MAX_FILTERS = 1
    Types = {"IN", "OUT"}
    MaxLines = 4
    MaxOps = 8
    Env = {"continued", "unfinished", "session"}
INVARIANTS TypeOK MaskExact OutIsHidden
CHECK_DEADLOCK FALSE
