SPECIFICATION FairSpec
CONSTANTS
    Entries = {e1}
    Exits = {}
    Executors = {x1}
    ExitExecutors = {}
    Reconcilers = {r1}
    Cancellers = {}
    Recoverers = {}
    NoIntent = NoIntent
    Qty = 2
    Amount = 2
    Allocation = 3
    AbsenceObservations = 2
    MaxRetries = 0
    MaxFaults = 1
INVARIANTS
    ReservedMatchesReservations
PROPERTIES
    NothingStaysOpen
    CommittedIsKept
    TerminalIsFinal
