\* Three jobs, two tags, lists with duplicates; three jobs, two priorities, three ticks;
\* one template, two queues, on twice, never on after off; one job and two workers that are
\* taken for gone after two ticks; all boards of three by three with two kinds of chips.
SPECIFICATION PartsSpec
CONSTANTS
    j1 = j1  j2 = j2  j3 = j3  t1 = t1  t2 = t2  r1 = r1  q1 = q1  q2 = q2
    Jobs = {j1, j2, j3}  Tags = {t1, t2}  MaxCopies = 2  MaxCount = 2  NoHash = NoHash
    Jids = {j1, j2, j3}  Priorities = {0, 1}  MaxNow = 3  Wanted = {1, 2}  NoJob = NoJob
    Recs = {r1}  Queues = {q1, q2}  Intervals = {1, 2}  Offsets = {0, 1}
    PopSizes = {1, 2}  StartTime = 3  MaxTime = 4  MaxOns = 2  NoRec = NoRec
    w1 = w1  w2 = w2  k1 = k1
    Workers = {w1, w2}  Tasks = {k1}  LeaseTime = 1  MaxAge = 2  Latest = 4  NoWorker = NoWorker
    Size = 3  Chips = {1, 2}  EmptyChip = 0  MinLengths = {2, 3}  CellSize = 3
INVARIANTS PartsTypeOK TaggedFound OnSchedule JobPlaced WorkersAnswer
           BurnsRuns ShiftSettles TopologyAgrees
PROPERTIES CarefulKeepsExact PriorityFirst PutsInOrder
SYMMETRY Symmetry
CHECK_DEADLOCK FALSE
