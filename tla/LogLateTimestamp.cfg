SPECIFICATION Spec
CONSTANTS
    Files = {f1, f2}
    NoFile = NoFile
    TimeOrdered = {f1, f2}
    MaxTime = 3
    MaxLines = 2
    MaxOps = 5
    DEFAULT_INCREMENT = 5
    Env = {"unfinished", "late_ts"}
INVARIANTS IndexInOrder
CHECK_DEADLOCK FALSE
