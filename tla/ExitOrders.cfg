SPECIFICATION Spec
CONSTANTS
    Entries = {}
    Exits = {t1}
    Executors = {}
    ExitExecutors = {y1}
    Reconcilers = {}
    Cancellers = {k1, k2}
    Recoverers = {v1}
    NoIntent = NoIntent
    Qty = 1
    Amount = 2
    Allocation = 3
    AbsenceObservations = 2
    MaxRetries = 0
    MaxFaults = 1
INVARIANTS
    ReadyMeansNotSent
    SubmittedAtMostOnce
    NoAbandonedOrder
    AtMostOneDelete
    ClosedMeansFilled
