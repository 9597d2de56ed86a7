SPECIFICATION Spec
CONSTANTS
    Files = {f1, f2}
    NoFile = NoFile
    TimeOrdered = {f1}
    MaxTime = 3
    MaxLines = 3
    MaxOps = 4
    DEFAULT_INCREMENT = 5
    Env = {"unfinished", "adjust", "rotate", "hide", "min_time", "pause"}
INVARIANTS TypeOK IndexInOrder IndexExact FilteredExact
CHECK_DEADLOCK FALSE
