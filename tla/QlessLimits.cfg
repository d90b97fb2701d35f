\* Three jobs with a retry, two queues, max-concurrency lowered from 2 to 1.
SPECIFICATION BudgetSpec
CONSTANTS
    j1 = j1  j2 = j2  j3 = j3  w1 = w1  q1 = q1  q2 = q2  g1 = g1
    Jids = {j1, j2, j3}  Queues = {q1, q2}  Workers = {w1}  Groups = {g1}
    RetryCounts = {1}  Delays = {FALSE}  PopCounts = {1, 2}
    InitLimits = {2}  NewLimits = {1}  HistoryCount = 2
    MayWait <- NoDeps
    NoJob = NoJob  NoQueue = NoQueue  NoWorker = NoWorker  NoGroup = NoGroup
INVARIANTS AttemptsBounded EndsIndexed
PROPERTIES WithinLimit
SYMMETRY Symmetry
CHECK_DEADLOCK FALSE
