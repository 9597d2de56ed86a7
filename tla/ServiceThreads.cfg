SPECIFICATION FairSpec
CONSTANTS
    Main = main
    Looper = looper
    Hosts = {h1}
    Web = {w1}
    NoOne = NoOne
    MaxSends = 3
    Depth = 1
    Env = {"throw", "finish", "quit"}
INVARIANTS TypeOK Delivered AnswerMeansRun NoOrphans ChildrenEndFirst
PROPERTIES QuitEnds MessagesRun AskEnds ChildReaped
CHECK_DEADLOCK FALSE
