\* Three jobs, any may be made to wait for any, itself included; two queues.
SPECIFICATION Spec
CONSTANTS
    j1 = j1  j2 = j2  j3 = j3  w1 = w1  w2 = w2  q1 = q1  q2 = q2  g1 = g1
    Jids = {j1, j2, j3}  Queues = {q1, q2}  Workers = {w1}  Groups = {}
    RetryCounts = {0}  Delays = {FALSE}  PopCounts = {1}
    InitLimits = {0}  NewLimits = {}  HistoryCount = 1
    MayWait <- AnyDeps
    NoJob = NoJob  NoQueue = NoQueue  NoWorker = NoWorker  NoGroup = NoGroup
INVARIANTS DependencyInverse NothingStranded
SYMMETRY FullSymmetry
CHECK_DEADLOCK FALSE
