CONSTANTS
    c1 = c1
    c2 = c2
    c3 = c3
    j1 = j1
    j2 = j2
    j3 = j3
    NoJob = NoJob
    Changes = {c1, c2, c3}
    Jobs = {j1, j2, j3}
    MaxFaults = 1
SPECIFICATION FairSpec
CHECK_DEADLOCK FALSE
INVARIANTS TypeOK PendingIsScheduled BuiltOnce
PROPERTIES ClaimedBatchIsClosed EveryChangeSettles
