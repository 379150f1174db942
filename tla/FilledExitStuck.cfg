SPECIFICATION Spec
CONSTANTS
    Entries = {}
    Exits = {t1}
    Executors = {}
    ExitExecutors = {y1}
    Reconcilers = {r1}
    Cancellers = {c1}
    Recoverers = {}
    NoIntent = NoIntent
    Qty = 2
    Amount = 2
    Allocation = 3
    AbsenceObservations = 2
    MaxRetries = 0
    MaxFaults = 0
INVARIANTS
    FilledExitLeavesCancelling
