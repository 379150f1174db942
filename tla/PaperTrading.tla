---------------------------- MODULE PaperTrading ----------------------------
(***************************************************************************)
(* The order workers of the paper-trading system side by side, on one      *)
(* PostgreSQL ledger and one broker account.                               *)
(***************************************************************************)
EXTENDS OrderSubmission, OrderReconciliation, OrderRecovery, OrderCancellation

WorkerStep(w) == Submission(w) \/ Reconciliation(w) \/ Recovery(w) \/ Cancellation(w)

Next == Environment \/ \E w \in Workers : WorkerStep(w)

Spec == Init /\ [][Next]_vars

(* The workers are started again and again by the scheduler, every step of  *)
(* a worker ends (statements and requests have timeouts), time passes, and  *)
(* a request in flight arrives or is lost.                                  *)
Fairness ==
    /\ \A w \in Reconcilers : WF_vars(Reconciliation(w))
    /\ \A w \in Executors \cup ExitExecutors :
          WF_vars(~At(w, "idle") /\ (Submission(w) \/ Reconciliation(w)))
    /\ \A i \in Intents : WF_vars(Age(i)) /\ WF_vars(Arrive(i))

FairSpec == Spec /\ Fairness

-----------------------------------------------------------------------------
(* Properties *)

(* The order of an intent is handed to the broker client at most once, in   *)
(* any interleaving of executors, releases of claims, recoveries, crashes   *)
(* and restarts: the submission attempt is persisted before the call and    *)
(* cannot be persisted again (recordSubmissionAttempt).                     *)
SubmittedAtMostOnce == \A i \in Intents : calls[i] <= 1

(* An order at the broker is always backed by a persisted attempt, and an   *)
(* intent that is still (or again) ready or created was never handed to the *)
(* broker, so cancelling a stale ready intent cannot abandon an order.      *)
ReadyMeansNotSent ==
    \A i \in Intents :
        /\ calls[i] > 0 => i \in attempted
        /\ intent[i].status \in {"created", "ready_for_submission"} => calls[i] = 0

(* reserved_amount of the strategy is exactly what its live reservations    *)
(* hold, whoever confirms, commits, resizes, settles, expires or releases   *)
(* them, in whatever order and however often it is replayed.                *)
ReservedMatchesReservations ==
    alloc.reserved = Total({i \in Intents : Live(res[i])})

(* The strategy never holds more than its allocation (capacityAllowed).     *)
AllocationNeverExceeded == alloc.deployed + alloc.reserved <= Allocation

(* cancelOrder is called at most once per order, by concurrent or restarted *)
(* cancellations: only the run whose claim inserted the transition may call *)
(* it (mutationClaimed in runPostgresPaperOrderCancellation).               *)
AtMostOneDelete == \A i \in Intents : deletes[i] <= 1

(* Whoever claims the DELETE also sends it: only a crash, a lost fence or a *)
(* failed call between the claim and the DELETE leaves an order open that   *)
(* is recorded as being cancelled, and nobody may try again.                *)
ClaimedIsDeleted ==
    \A i \in Intents : ClaimKey \in recorded[i] =>
        \/ deletes[i] = 1
        \/ \E w \in Cancellers : At(w, "delete") /\ proc[w].i = i
        \/ faults < MaxFaults

(* No order is given up while the broker has it: an intent that failed or   *)
(* was cancelled has no working order at the broker, nor one on its way     *)
(* (absence confirmation, stale-ready recovery).                            *)
NoAbandonedOrder ==
    \A i \in Intents :
        intent[i].status \in {"failed", "cancelled"} =>
            broker[i].status \notin Working \cup {"inflight"}

(* What was settled is final: a reservation that was released or expired is *)
(* never changed again, a failed or cancelled intent stays so, and so does  *)
(* a reconciled entry, whatever stale answer of the broker a slower worker  *)
(* still has in its hands (lifecycle_path_guard).                           *)
TerminalIsFinalStep ==
    \A i \in Intents :
        /\ res[i].status \in {"released", "expired"} => res'[i] = res[i]
        /\ \/ intent[i].status \in {"failed", "cancelled"}
           \/ intent[i].status = "reconciled" /\ i \in Entries
           => intent'[i].status = intent[i].status

(* No step of any process undoes that. *)
TerminalIsFinal == [][TerminalIsFinalStep]_vars

(* A reservation that was committed to an acknowledged order is given back  *)
(* only after the order is recorded as over; in particular it does not      *)
(* expire (runAutonomousPostgresRecovery expires active ones only).         *)
CommittedIsKeptStep ==
    \A i \in Intents :
        res[i].status = "committed" /\ res'[i].status # "committed" =>
            order[i].status \in TerminalBrokerStatuses

(* No step gives it back earlier. *)
CommittedIsKept == [][CommittedIsKeptStep]_vars

(* What the fills took from the reservations: a reservation that was        *)
(* settled as filled in full, any other one the part that is gone from it.  *)
FilledPart ==
    [i \in Intents |-> IF res[i].terminal = "filled" THEN Amount ELSE Amount - res[i].amount]
Moved == SumOver(FilledPart, {i \in Intents : HasReservation(i)})

(* deployed_amount is what the fills moved into it, but for the rounding of *)
(* each partial fill: nothing is lost, and nothing counts twice when a      *)
(* reconciliation is repeated after a crash or run by two workers.          *)
DeployedMatchesFills ==
    /\ Moved <= alloc.deployed
    /\ alloc.deployed <= Moved + Cardinality(Entries) * (Qty - 1)

(* An exit is closed only when the broker filled its order.                 *)
ClosedMeansFilled ==
    \A i \in Exits : intent[i].life = "closed" => broker[i].status = "filled"

(* Every submission in doubt is resolved: found at the broker, or given up  *)
(* after repeated absence, also when the executor crashed.                  *)
InDoubt(i) == intent[i].status \in Undecided
DoubtIsResolved == \A i \in Intents : InDoubt(i) ~> ~InDoubt(i)

(* The reservation of an entry whose order is over at the broker is         *)
(* settled, even when the process that saw the end first crashed between    *)
(* the observation and the settlement (the second disjunct of targetsSql).  *)
OverAndReserved(i) == broker[i].status \in TerminalBrokerStatuses /\ Live(res[i])
FinishedOrderIsSettled == \A i \in Entries : OverAndReserved(i) ~> ~Live(res[i])

(* Nothing stays open: every submission in doubt is resolved, and every     *)
(* finished order gives up its reservation.                                 *)
NothingStaysOpen == DoubtIsResolved /\ FinishedOrderIsSettled

-----------------------------------------------------------------------------
(* What the documents say and the code does not do *)

(* The plan of the autonomous trade lifecycle: "remaining-quantity          *)
(* reservation adjustment for partial fills".  A live reservation covers    *)
(* the quantity that is open at the broker (resized in                      *)
(* reconcilePostgresPaperOrders).                                           *)
ReservationCoversOpenQuantity ==
    \A i \in Entries :
        Live(res[i]) => res[i].amount * Qty >= Amount * (Qty - broker[i].filled)

(* docs/unified_orchestrator_baseline.md: reconcilePostgresPaperOrders      *)
(* "updates order, fill evidence, position, reservation, and lifecycle      *)
(* state".  The statement that records an exit as filled also takes it out  *)
(* of the cancelling states (ON CONFLICT DO NOTHING in lifecycle_transition). *)
FilledExitLeavesCancelling ==
    \A i \in Exits : order[i].status = "filled" => intent[i].life \notin Cancelling
=============================================================================
