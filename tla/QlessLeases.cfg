\* Two jobs, of which the second may wait for the first, two queues, two workers; also
\* against the abstract specification.
SPECIFICATION Spec
CONSTANTS
    j1 = j1  j2 = j2  j3 = j3  w1 = w1  w2 = w2  q1 = q1  q2 = q2  g1 = g1
    Jids = {j1, j2}  Queues = {q1, q2}  Workers = {w1, w2}  Groups = {}
    RetryCounts = {1}  Delays = {FALSE, TRUE}  PopCounts = {1}
    InitLimits = {0}  NewLimits = {}  HistoryCount = 1
    MayWait <- Chain
    NoJob = NoJob  NoQueue = NoQueue  NoWorker = NoWorker  NoGroup = NoGroup
INVARIANTS TypeOK Placement OwnerListed HolderCurrent
PROPERTIES LeaseHonoured KeepsPromises
SYMMETRY Symmetry
CHECK_DEADLOCK FALSE
