SPECIFICATION Spec
CONSTANTS
    Entries = {e1}
    Exits = {}
    Executors = {x1}
    ExitExecutors = {}
    Reconcilers = {}
    Cancellers = {}
    Recoverers = {}
    NoIntent = NoIntent
    Qty = 1
    Amount = 2
    Allocation = 3
    AbsenceObservations = 2
    MaxRetries = 1
    MaxFaults = 1
CHECK_DEADLOCK FALSE
INVARIANTS
    NoAbandonedOrder
