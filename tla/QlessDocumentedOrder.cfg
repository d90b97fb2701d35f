\* Two jobs of two priorities: the README says that the lower one goes first, and of two
\* equal ones the first to be put.
SPECIFICATION OrderSpec
CONSTANTS
    Jids = {j1, j2}  Priorities = {0, 1}  MaxNow = 3  Wanted = {1}  NoJob = NoJob
PROPERTY DocumentedOrder
CHECK_DEADLOCK FALSE
