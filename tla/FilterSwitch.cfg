SPECIFICATION Spec
CONSTANTS
    Patterns = {"p1", "p2"}
    MAX_FILTERS = 2
    Types = {"IN", "IN+", "OUT", "OUT+"}
    MaxLines = 3
    MaxOps = 5
    Env = {"filters"}
INVARIANTS MaskExact ShownExact
CHECK_DEADLOCK FALSE
