\* Three jobs in a chain, clients that have stopped, workers that crash; a board of two by
\* two with two kinds of chips.
SPECIFICATION ProgressSpec
CONSTANTS
    j1 = j1  j2 = j2  j3 = j3
    Jids = {j1, j2, j3}  Queues = {q1}  Workers = {w1, w2}  Groups = {g1}
    RetryCounts = {0, 1}  Delays = {FALSE, TRUE}  PopCounts = {1, 2}
    InitLimits = {0, 1}  NewLimits = {}  HistoryCount = 2
    MayWait <- Chain
    NoJob = NoJob  NoQueue = NoQueue  NoWorker = NoWorker  NoGroup = NoGroup
    Size = 2  Chips = {1, 2}  EmptyChip = 0  MinLengths = {2}  CellSize = 3
INVARIANTS ListenersCurrent
PROPERTIES EventuallySettled ExpiredReclaimed
CHECK_DEADLOCK FALSE
