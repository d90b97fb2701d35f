\* A delayed put of a job that has dependencies.
SPECIFICATION DelayingSpec
CONSTANTS
    j1 = j1  j2 = j2  j3 = j3  w1 = w1  w2 = w2  q1 = q1  q2 = q2  g1 = g1
    Jids = {j1, j2}  Queues = {q1}  Workers = {w1}  Groups = {}
    RetryCounts = {1}  Delays = {FALSE, TRUE}  PopCounts = {1}
    InitLimits = {0}  NewLimits = {}  HistoryCount = 1
    MayWait <- Chain
    NoJob = NoJob  NoQueue = NoQueue  NoWorker = NoWorker  NoGroup = NoGroup
INVARIANTS PoppedIsSatisfied
CHECK_DEADLOCK FALSE
