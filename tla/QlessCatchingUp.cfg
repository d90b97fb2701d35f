\* Two templates compete for the pops of a queue, which keep coming.
SPECIFICATION LiveSpec
CONSTANTS
    r1 = r1  r2 = r2  q1 = q1  q2 = q2
    Recs = {r1, r2}  Queues = {q1}  Intervals = {1, 2}  Offsets = {0}
    PopSizes = {1, 2}  StartTime = 3  MaxTime = 4  MaxOns = 1
    NoRec = NoRec
PROPERTIES SpawnOnDemand CaughtUp
CHECK_DEADLOCK FALSE
