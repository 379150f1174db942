SPECIFICATION Spec
CONSTANTS
    Worker = {w1, w2}
    TTL = 2
    MaxTime = 3
    MaxToken = 3
INVARIANTS
    TypeOK
    OneCurrentRun
    LockedCommitsAreCurrent
    OrphanBlocksAtMostTTL
PROPERTIES
    TakeoverOnlyAfterExpiry
    ImplementsFencedLease
CHECK_DEADLOCK FALSE
