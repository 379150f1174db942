SPECIFICATION Spec
CONSTANTS
    Entries = {e1}
    Exits = {}
    Executors = {x1}
    ExitExecutors = {}
    Reconcilers = {r1}
    Cancellers = {}
    Recoverers = {}
    NoIntent = NoIntent
    Qty = 3
    Amount = 6
    Allocation = 6
    AbsenceObservations = 2
    MaxRetries = 0
    MaxFaults = 1
INVARIANTS
    ReservationCoversOpenQuantity
