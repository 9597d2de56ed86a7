SPECIFICATION FairSpec
CONSTANTS
    Files = {f1, f2}
    NoFile = NoFile
    TimeOrdered = {f1, f2}
    MaxTime = 2
    MaxLines = 2
    MaxOps = 4
    DEFAULT_INCREMENT = 1
    Env = {"unfinished", "truncate", "rotate", "hide", "deadline"}
INVARIANTS IndexInOrder IndexExact FilteredExact
PROPERTIES ViewIsTold AllIndexed
CHECK_DEADLOCK FALSE
