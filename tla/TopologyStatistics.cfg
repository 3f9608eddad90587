SPECIFICATION Spec
CONSTANTS
    Threads = {t1, t2}
    MaxEdits = 1
    None = None
INVARIANT StatisticsFollowGraph
