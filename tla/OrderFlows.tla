----------------------------- MODULE OrderFlows -----------------------------
(***************************************************************************)
(* Components that share no state, checked in one run: a behaviour chooses *)
(* one of them, takes its steps and leaves the variables of the others     *)
(* unused. Here: the orders of the autonomous worker, from the review that *)
(* proposes them to their settlement.                                      *)
(***************************************************************************)
EXTENDS Naturals, Sequences, FiniteSets

(* Two equities of one symbol and an option; one entry review job, two exit review jobs. *)
ReviewCandidates == [a |-> [symbol |-> "A", option |-> FALSE, unit |-> 1],
                     b |-> [symbol |-> "A", option |-> FALSE, unit |-> 1],
                     o |-> [symbol |-> "O", option |-> TRUE, unit |-> 2]]
ReviewJobs == [s1 |-> "review", s2 |-> "review", t1 |-> "exit", t2 |-> "exit", t3 |-> "hedge-exit"]

VARIABLES
    part,           \* the component this behaviour is about
    rvStage, rvSnapshot, rvReviews, rvIntents, rvDecisions, rvCloses, rvHolder,
    rvRun,
    ptIntent, ptAuth, ptRes, ptAlloc, ptOrder, ptAttempted, ptAbsences, ptRecorded,
    ptLapsed, ptAged, ptBroker, ptProc, ptCalls, ptDeletes, ptFaults

rvVars == <<rvStage, rvSnapshot, rvReviews, rvIntents, rvDecisions, rvCloses,
            rvHolder, rvRun>>
ptVars == <<ptIntent, ptAuth, ptRes, ptAlloc, ptOrder, ptAttempted, ptAbsences,
            ptRecorded, ptLapsed, ptAged, ptBroker, ptProc, ptCalls, ptDeletes,
            ptFaults>>
vars == <<part, rvVars, ptVars>>

(* Two runs of the entry review job on three candidates.                    *)
EntryReviews == INSTANCE ReviewWorkflow WITH
    EntryRuns <- {"s1", "s2"}, ExitRuns <- {}, JobOf <- ReviewJobs,
    Candidate <- ReviewCandidates, RankOrder <- <<"a", "b", "o">>, Capacity <- 2,
    OptionsPower <- 2, MaxNeed <- 2, MaxSnapshots <- 2, stage <- rvStage,
    snapshot <- rvSnapshot, reviews <- rvReviews, intents <- rvIntents,
    decisions <- rvDecisions, closes <- rvCloses, holder <- rvHolder, run <- rvRun

(* The same on one snapshot, with less options buying power than capacity.  *)
EntryBudgets == INSTANCE ReviewWorkflow WITH
    EntryRuns <- {"s1", "s2"}, ExitRuns <- {}, JobOf <- ReviewJobs,
    Candidate <- ReviewCandidates, RankOrder <- <<"a", "b", "o">>, Capacity <- 3,
    OptionsPower <- 2, MaxNeed <- 2, MaxSnapshots <- 1, stage <- rvStage,
    snapshot <- rvSnapshot, reviews <- rvReviews, intents <- rvIntents,
    decisions <- rvDecisions, closes <- rvCloses, holder <- rvHolder, run <- rvRun

(* Three runs of two exit review jobs on one position.                      *)
ExitReviews == INSTANCE ReviewWorkflow WITH
    EntryRuns <- {}, ExitRuns <- {"t1", "t2", "t3"}, JobOf <- ReviewJobs,
    Candidate <- ReviewCandidates, RankOrder <- <<"a", "b", "o">>, Capacity <- 3,
    OptionsPower <- 2, MaxNeed <- 2, MaxSnapshots <- 2, stage <- rvStage,
    snapshot <- rvSnapshot, reviews <- rvReviews, intents <- rvIntents,
    decisions <- rvDecisions, closes <- rvCloses, holder <- rvHolder, run <- rvRun

(* What the theorems about reviews assume of their constants holds for the   *)
(* three instances.                                                          *)
ASSUME ReviewSizes == /\ EntryReviews!ReviewConstants
                      /\ EntryBudgets!ReviewConstants
                      /\ ExitReviews!ReviewConstants

(* Two entries, an allocation that covers one of them, an executor and      *)
(* system:recover.                                                          *)
Rivals == INSTANCE PaperTrading WITH
    Entries <- {"e1", "e2"}, Exits <- {}, Executors <- {"x1"}, ExitExecutors <- {},
    Reconcilers <- {}, Cancellers <- {}, Recoverers <- {"v1"}, NoIntent <- "none",
    Qty <- 1, Amount <- 2, Allocation <- 3, AbsenceObservations <- 2, MaxRetries <- 0,
    MaxFaults <- 0, intent <- ptIntent, auth <- ptAuth, res <- ptRes, alloc <- ptAlloc,
    order <- ptOrder, attempted <- ptAttempted, absences <- ptAbsences,
    recorded <- ptRecorded, lapsed <- ptLapsed, aged <- ptAged, broker <- ptBroker,
    proc <- ptProc, calls <- ptCalls, deletes <- ptDeletes, faults <- ptFaults

(* One entry with partial fills, an executor and a reconciler, lost answers *)
(* and retries.                                                             *)
Settlement == INSTANCE PaperTrading WITH
    Entries <- {"e1"}, Exits <- {}, Executors <- {"x1"}, ExitExecutors <- {},
    Reconcilers <- {"r1"}, Cancellers <- {}, Recoverers <- {}, NoIntent <- "none",
    Qty <- 2, Amount <- 3, Allocation <- 3, AbsenceObservations <- 2, MaxRetries <- 1,
    MaxFaults <- 1, intent <- ptIntent, auth <- ptAuth, res <- ptRes, alloc <- ptAlloc,
    order <- ptOrder, attempted <- ptAttempted, absences <- ptAbsences,
    recorded <- ptRecorded, lapsed <- ptLapsed, aged <- ptAged, broker <- ptBroker,
    proc <- ptProc, calls <- ptCalls, deletes <- ptDeletes, faults <- ptFaults

(* One entry with an executor that a cancellation run overtakes, partial    *)
(* fills and a lost answer.                                                 *)
EntryCancellation == INSTANCE PaperTrading WITH
    Entries <- {"e1"}, Exits <- {}, Executors <- {"x1"}, ExitExecutors <- {},
    Reconcilers <- {}, Cancellers <- {"k1"}, Recoverers <- {}, NoIntent <- "none",
    Qty <- 2, Amount <- 3, Allocation <- 3, AbsenceObservations <- 2, MaxRetries <- 0,
    MaxFaults <- 1, intent <- ptIntent, auth <- ptAuth, res <- ptRes, alloc <- ptAlloc,
    order <- ptOrder, attempted <- ptAttempted, absences <- ptAbsences,
    recorded <- ptRecorded, lapsed <- ptLapsed, aged <- ptAged, broker <- ptBroker,
    proc <- ptProc, calls <- ptCalls, deletes <- ptDeletes, faults <- ptFaults

(* One exit with an executor, a reconciler and a cancellation run.          *)
ExitCancellation == INSTANCE PaperTrading WITH
    Entries <- {}, Exits <- {"t1"}, Executors <- {}, ExitExecutors <- {"y1"},
    Reconcilers <- {"r1"}, Cancellers <- {"k1"}, Recoverers <- {}, NoIntent <- "none",
    Qty <- 1, Amount <- 2, Allocation <- 3, AbsenceObservations <- 2, MaxRetries <- 0,
    MaxFaults <- 1, intent <- ptIntent, auth <- ptAuth, res <- ptRes, alloc <- ptAlloc,
    order <- ptOrder, attempted <- ptAttempted, absences <- ptAbsences,
    recorded <- ptRecorded, lapsed <- ptLapsed, aged <- ptAged, broker <- ptBroker,
    proc <- ptProc, calls <- ptCalls, deletes <- ptDeletes, faults <- ptFaults

(* One entry with an executor, a reconciler and system:recover, while its   *)
(* authorizations run out.                                                  *)
EntryRecovery == INSTANCE PaperTrading WITH
    Entries <- {"e1"}, Exits <- {}, Executors <- {"x1"}, ExitExecutors <- {},
    Reconcilers <- {"r1"}, Cancellers <- {}, Recoverers <- {"v1"}, NoIntent <- "none",
    Qty <- 1, Amount <- 2, Allocation <- 3, AbsenceObservations <- 2, MaxRetries <- 0,
    MaxFaults <- 0, intent <- ptIntent, auth <- ptAuth, res <- ptRes, alloc <- ptAlloc,
    order <- ptOrder, attempted <- ptAttempted, absences <- ptAbsences,
    recorded <- ptRecorded, lapsed <- ptLapsed, aged <- ptAged, broker <- ptBroker,
    proc <- ptProc, calls <- ptCalls, deletes <- ptDeletes, faults <- ptFaults

Unused == "unused"

rvUnused ==
    /\ rvStage = Unused /\ rvSnapshot = Unused /\ rvReviews = Unused
    /\ rvIntents = Unused /\ rvDecisions = Unused /\ rvCloses = Unused
    /\ rvHolder = Unused /\ rvRun = Unused

ptUnused ==
    /\ ptIntent = Unused /\ ptAuth = Unused /\ ptRes = Unused
    /\ ptAlloc = Unused /\ ptOrder = Unused /\ ptAttempted = Unused
    /\ ptAbsences = Unused /\ ptRecorded = Unused /\ ptLapsed = Unused
    /\ ptAged = Unused /\ ptBroker = Unused /\ ptProc = Unused
    /\ ptCalls = Unused /\ ptDeletes = Unused /\ ptFaults = Unused

Init ==
    \/ /\ part = "entry_review" /\ EntryReviews!Init
       /\ ptUnused
    \/ /\ part = "entry_budgets" /\ EntryBudgets!Init
       /\ ptUnused
    \/ /\ part = "exit_review" /\ ExitReviews!Init
       /\ ptUnused
    \/ /\ part = "capacity" /\ Rivals!Init
       /\ rvUnused
    \/ /\ part = "settlement" /\ Settlement!Init
       /\ rvUnused
    \/ /\ part = "entry_cancellation" /\ EntryCancellation!Init
       /\ rvUnused
    \/ /\ part = "exit_cancellation" /\ ExitCancellation!Init
       /\ rvUnused
    \/ /\ part = "entry_recovery" /\ EntryRecovery!Init
       /\ rvUnused

EntryReviewsStep ==
    /\ part = "entry_review" /\ EntryReviews!Next
    /\ UNCHANGED <<part, ptVars>>

EntryBudgetsStep ==
    /\ part = "entry_budgets" /\ EntryBudgets!Next
    /\ UNCHANGED <<part, ptVars>>

ExitReviewsStep ==
    /\ part = "exit_review" /\ ExitReviews!Next
    /\ UNCHANGED <<part, ptVars>>

RivalsStep ==
    /\ part = "capacity" /\ Rivals!Next
    /\ UNCHANGED <<part, rvVars>>

SettlementStep ==
    /\ part = "settlement" /\ Settlement!Next
    /\ UNCHANGED <<part, rvVars>>

EntryCancellationStep ==
    /\ part = "entry_cancellation" /\ EntryCancellation!Next
    /\ UNCHANGED <<part, rvVars>>

ExitCancellationStep ==
    /\ part = "exit_cancellation" /\ ExitCancellation!Next
    /\ UNCHANGED <<part, rvVars>>

EntryRecoveryStep ==
    /\ part = "entry_recovery" /\ EntryRecovery!Next
    /\ UNCHANGED <<part, rvVars>>

Next == EntryReviewsStep \/ EntryBudgetsStep \/ ExitReviewsStep \/ RivalsStep \/ SettlementStep \/ EntryCancellationStep \/ ExitCancellationStep \/ EntryRecoveryStep

Spec == Init /\ [][Next]_vars

-----------------------------------------------------------------------------
(* Properties *)

(* The tables and processes of the chosen component have the shape that its *)
(* module gives them.                                                       *)
TypeOK ==
    /\ part = "entry_review" => EntryReviews!TypeOK
    /\ part = "entry_budgets" => EntryBudgets!TypeOK
    /\ part = "exit_review" => ExitReviews!TypeOK
    /\ part = "capacity" => Rivals!TypeOK
    /\ part = "settlement" => Settlement!TypeOK
    /\ part = "entry_cancellation" => EntryCancellation!TypeOK
    /\ part = "exit_cancellation" => ExitCancellation!TypeOK
    /\ part = "entry_recovery" => EntryRecovery!TypeOK

(* The strategy never holds more than its allocation (capacityAllowed),     *)
(* while entries compete and reservations expire.                           *)
AllocationNeverExceeded ==
    /\ part = "capacity" => Rivals!AllocationNeverExceeded
    /\ part = "entry_recovery" => EntryRecovery!AllocationNeverExceeded

(* The reserved amount of the allocation is the sum of its active           *)
(* reservations.                                                            *)
ReservedMatchesReservations ==
    /\ part = "capacity" => Rivals!ReservedMatchesReservations
    /\ part = "settlement" => Settlement!ReservedMatchesReservations
    /\ part = "entry_cancellation" => EntryCancellation!ReservedMatchesReservations
    /\ part = "entry_recovery" => EntryRecovery!ReservedMatchesReservations

(* What the allocation counts as deployed is what the reservations of the   *)
(* fills amount to, up to one unit of the last decimal per partial fill.    *)
DeployedMatchesFills ==
    /\ part = "settlement" => Settlement!DeployedMatchesFills
    /\ part = "entry_cancellation" => EntryCancellation!DeployedMatchesFills

(* Whoever claims the DELETE of an order also sends it, unless a crash, a   *)
(* lost fence or a failed call comes between.                               *)
ClaimedIsDeleted ==
    /\ part = "entry_cancellation" => EntryCancellation!ClaimedIsDeleted
    /\ part = "exit_cancellation" => ExitCancellation!ClaimedIsDeleted

(* An intent that failed or was cancelled has no order that works at the    *)
(* broker or is on its way there.                                           *)
NoAbandonedOrder == part = "entry_recovery" => EntryRecovery!NoAbandonedOrder

(* The reviews propose what the arbitration approved, within the allocation,*)
(* once per symbol and position, although they overlap and die half way.    *)
ReviewsAreSound ==
    /\ part = "entry_review" => EntryReviews!ReviewsAreSound
    /\ part = "entry_budgets" => EntryBudgets!ReviewsAreSound
    /\ part = "exit_review" => ExitReviews!ReviewsAreSound

(* The ledger agrees with itself and with the broker: amounts are reserved, *)
(* deployed and given back with the orders they belong to, within the       *)
(* allocation, no working order is given up, and a claimed cancellation is  *)
(* carried out.                                                             *)
LedgerIsSound ==
    /\ AllocationNeverExceeded
    /\ DeployedMatchesFills
    /\ ReservedMatchesReservations
    /\ NoAbandonedOrder
    /\ ClaimedIsDeleted
=============================================================================
