SPECIFICATION FairSpec
CONSTANTS
    Procs = {p1, p2}
    Entries = 2
    MaxOpens = 3
    Faults = {"crash", "error", "cleanup"}
    Gone = Gone
    Ready = Ready
INVARIANTS TypeOK MarkerIsWhole
PROPERTIES ActsAsEntry OpenEnds
CHECK_DEADLOCK FALSE
