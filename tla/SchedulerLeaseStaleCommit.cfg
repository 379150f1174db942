SPECIFICATION Spec
CONSTANTS
    Worker = {w1, w2}
    TTL = 1
    MaxTime = 2
    MaxToken = 2
INVARIANT StaleWorkerCannotCommit
CHECK_DEADLOCK FALSE
