\* A jid is turned off and on again while its first job runs.
SPECIFICATION RecurSpec
CONSTANTS
    r1 = r1  r2 = r2  q1 = q1  q2 = q2
    Recs = {r1}  Queues = {q1, q2}  Intervals = {1, 2}  Offsets = {0, 1}
    PopSizes = {1, 2}  StartTime = 3  MaxTime = 4  MaxOns = 2
    NoRec = NoRec
INVARIANTS ExclusiveLock
CHECK_DEADLOCK FALSE
