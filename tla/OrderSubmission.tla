--------------------------- MODULE OrderSubmission ---------------------------
(***************************************************************************)
(* runAutonomousPostgresExecutionCommand: promote a reviewed intent, claim *)
(* it, persist the submission attempt, send the order through the paper    *)
(* trading client, and record what came of it.  Each input.transaction and *)
(* each HTTP request is one step.  The evidence checks on quotes, assets   *)
(* and account fingerprints may succeed or fail at any time.               *)
(*                                                                         *)
(* recoverSubmission hands the order it finds to reconcilePostgresPaper-   *)
(* Orders (module OrderReconciliation), which returns to "receipt".        *)
(***************************************************************************)
EXTENDS OrderLedger

Scope(w) == IF w \in Executors THEN Entries ELSE Exits

(* review and confirmation authorize i at the time "fresh" was read; a      *)
(* broker acknowledgement of an intent that never left ready would be an    *)
(* order row.                                                               *)
Claimable(i, fresh) ==
    /\ intent[i].status = "ready_for_submission"
    /\ auth[i].review = "valid" /\ auth[i].confirmation = "valid" /\ i \in fresh
    /\ order[i] = NoOrder

Confirmable(i, fresh) ==
    intent[i].status = "created" /\ auth[i].review = "valid" /\ i \in fresh

(* Counting, the market clock and the broker snapshot precede "persist". *)
StartExecution(w) ==
    /\ w \in Executors \cup ExitExecutors
    /\ Free(w)
    /\ LET fresh == Intents \ lapsed
           ready == {i \in Scope(w) : Claimable(i, fresh)}
       IN /\ ready # {} \/ \E i \in Scope(w) : Confirmable(i, fresh)
          /\ Goto(w, [Idle EXCEPT !.pc = "persist", !.seen = fresh, !.todo = ready])
    /\ UNCHANGED <<ledger, clocks, broker, history, faults>>

-----------------------------------------------------------------------------
(* promoteNextConfirmedPostgresIntent *)

(* A defect: the capacity check forgets what is already reserved. *)
HasCapacity_IgnoresReserved == alloc.deployed + Amount <= Allocation

HasCapacity == alloc.deployed + alloc.reserved + Amount <= Allocation

Promote(w) ==
    /\ At(w, "promote")
    /\ \E i \in Scope(w) :
          /\ Confirmable(i, proc[w].seen)
          /\ HasCapacity
          /\ auth' = [auth EXCEPT ![i].confirmation = "valid"]
          /\ res' = [res EXCEPT ![i] =
                        [status |-> "active", amount |-> Amount, terminal |-> "none"]]
          /\ alloc' = [alloc EXCEPT !.reserved = @ + Amount]
          /\ intent' = [intent EXCEPT ![i].status = "ready_for_submission"]
    /\ \/ Commits(w) /\ Goto(w, To(w, "claim"))
       \/ CommitLost(w) /\ End(w)
    /\ UNCHANGED <<order, attempted, absences, recorded, clocks, broker, history>>

(* Nothing to promote, no capacity, stale evidence, or a failed transaction. *)
PromoteNothing(w) ==
    /\ At(w, "promote")
    /\ UNCHANGED faults \/ Fails(w)
    /\ End(w)
    /\ UNCHANGED <<ledger, clocks, broker, history>>

-----------------------------------------------------------------------------
(* claimIntent and releaseClaim *)

Claim(w) ==
    /\ At(w, "claim")
    /\ \E i \in Scope(w) :
          /\ Claimable(i, proc[w].seen)
          /\ \/ res[i].status = "none"
             \/ res[i].status = "active" /\ alloc.deployed + alloc.reserved <= Allocation
          /\ intent' = [intent EXCEPT ![i].status = "submission_pending"]
          /\ aged' = IF i \in attempted THEN aged ELSE aged \ {i}
          /\ \/ Commits(w) /\ Goto(w, [To(w, "claimed") EXCEPT !.i = i, !.todo = {}])
             \/ CommitLost(w) /\ End(w)
    /\ UNCHANGED <<auth, res, alloc, order, attempted, absences, recorded, lapsed,
                   broker, history>>

ClaimNothing(w) ==
    /\ At(w, "claim")
    /\ UNCHANGED faults \/ Fails(w)
    /\ End(w)
    /\ UNCHANGED <<ledger, clocks, broker, history>>

(* validateAutonomousExecutionEvidence and the asset check *)
Validate(w) ==
    /\ At(w, "claimed")
    /\ Goto(w, To(w, "attempt")) \/ Goto(w, To(w, "release"))
    /\ UNCHANGED <<ledger, clocks, broker, history, faults>>

ReleaseClaim(w) ==
    /\ At(w, "release")
    /\ intent[proc[w].i].status = "submission_pending"
    /\ intent' = [intent EXCEPT ![proc[w].i].status = "ready_for_submission"]
    /\ Commits(w) \/ CommitLost(w)
    /\ End(w)
    /\ UNCHANGED <<auth, res, alloc, order, attempted, absences, recorded, clocks,
                   broker, history>>

ReleaseFails(w) ==
    /\ At(w, "release")
    /\ Fails(w) \/ (intent[proc[w].i].status # "submission_pending" /\ UNCHANGED faults)
    /\ End(w)
    /\ UNCHANGED <<ledger, clocks, broker, history>>

-----------------------------------------------------------------------------
(* recordSubmissionAttempt *)

CanAttempt(i) == i \notin attempted /\ intent[i].status = "submission_pending"

RecordAttempt(w) ==
    LET i == proc[w].i IN
    /\ At(w, "attempt")
    /\ CanAttempt(i)
    /\ attempted' = attempted \cup {i}
    /\ intent' = [intent EXCEPT ![i].life =
                     IF TypeOf(i) = "exit" THEN "exit_submission_attempt_persisted"
                     ELSE "submission_attempt_persisted"]
    /\ \/ Commits(w) /\ Goto(w, To(w, "submit"))
       \/ CommitLost(w) /\ Goto(w, To(w, "release"))
    /\ UNCHANGED <<auth, res, alloc, order, absences, recorded, clocks, broker, history>>

AttemptFails(w) ==
    /\ At(w, "attempt")
    /\ Fails(w) \/ (~CanAttempt(proc[w].i) /\ UNCHANGED faults)
    /\ Goto(w, To(w, "release"))
    /\ UNCHANGED <<ledger, clocks, broker, history>>

-----------------------------------------------------------------------------
(* submitPaperOrder: requestPaperTradingJson with its retries *)

SubmitOrder(w) ==
    /\ At(w, "submit")
    /\ calls' = [calls EXCEPT ![proc[w].i] = @ + 1]
    /\ Goto(w, [To(w, "post") EXCEPT !.left = MaxRetries])
    /\ UNCHANGED <<ledger, clocks, broker, deletes, faults>>

(* The broker takes the order and says so; it may have been filled or       *)
(* cancelled (or rejected) by then.                                         *)
PostAccepted(w) ==
    LET i == proc[w].i IN
    /\ At(w, "post")
    /\ ~Visible(i)
    /\ \E r \in {[status |-> "new", filled |-> 0], [status |-> "filled", filled |-> Qty],
                 [status |-> "canceled", filled |-> 0]} :
          /\ broker' = [broker EXCEPT ![i] = r]
          /\ Goto(w, [To(w, "record") EXCEPT !.resp = r, !.left = 0])
    /\ UNCHANGED <<ledger, clocks, history, faults>>

(* A defect: a refused order gives its claim back. *)
PostRefused_ReleasesClaim(w) ==
    /\ At(w, "post")
    /\ Goto(w, [To(w, "release") EXCEPT !.left = 0])
    /\ UNCHANGED <<ledger, clocks, broker, history, faults>>

(* A 4xx other than 408, 409 and 429: the order is refused, as a duplicate  *)
(* when the broker already has this client order id.                        *)
PostRefused(w) ==
    /\ At(w, "post")
    /\ Goto(w, [To(w, "markFailed") EXCEPT !.left = 0])
    /\ UNCHANGED <<ledger, clocks, broker, history, faults>>

(* No verified answer.  After a timeout or a broken connection the client   *)
(* sends the POST again while it has retries left; after a 5xx, 408, 409 or *)
(* 429, and when the retries are used up, the result is ambiguous.          *)
PostUnanswered(w) ==
    LET i == proc[w].i IN
    /\ At(w, "post")
    /\ faults > 0 /\ faults' = faults - 1
    /\ IF Visible(i) THEN UNCHANGED broker
       ELSE \E s \in {"none", "inflight", "new"} :
               /\ broker[i].status = "inflight" => s # "none"
               /\ broker' = [broker EXCEPT ![i].status = s]
    /\ \/ proc[w].left > 0 /\ Goto(w, [proc[w] EXCEPT !.left = @ - 1])
       \/ Goto(w, [To(w, "markAmbiguous") EXCEPT !.left = 0])
    /\ UNCHANGED <<ledger, clocks, history>>

-----------------------------------------------------------------------------
(* recordSubmission, recordDeterministicSubmissionFailure,                  *)
(* recordAmbiguousSubmission                                                *)

CanRecord(i, r) ==
    /\ order[i] = NoOrder
    /\ intent[i].status = "submission_pending"
    /\ \/ res[i].status = "none"
       \/ r.status = "canceled" /\ Live(res[i])
       \/ r.status # "canceled" /\ res[i].status = "active"
    /\ auth[i].review = "valid" /\ auth[i].confirmation = "valid"

RecordSubmission(w) ==
    LET i == proc[w].i
        r == proc[w].resp
    IN
    /\ At(w, "record")
    /\ CanRecord(i, r)
    /\ order' = [order EXCEPT ![i] = r]
    /\ intent' = [intent EXCEPT ![i] =
                     [status |-> IF r.status = "canceled" THEN "cancelled" ELSE "submitted",
                      life |-> lifecycleStateForBrokerStatus(TypeOf(i), r.status)]]
    /\ IF res[i].status = "none" THEN UNCHANGED <<res, alloc>>
       ELSE IF r.status = "canceled"
       THEN /\ res' = [res EXCEPT ![i] = Release(@, "released", "cancelled")]
            /\ alloc' = [alloc EXCEPT !.reserved = Less(@, res[i].amount)]
       ELSE res' = [res EXCEPT ![i].status = "committed"] /\ UNCHANGED alloc
    /\ auth' = [auth EXCEPT ![i] = [review |-> "consumed", confirmation |-> "consumed"]]
    /\ \/ Commits(w) /\ End(w)
       \/ CommitLost(w) /\ Goto(w, To(w, "markAmbiguous"))
    /\ UNCHANGED <<attempted, absences, recorded, clocks, broker, history>>

RecordFails(w) ==
    /\ At(w, "record")
    /\ \/ Fails(w)
       \/ ~CanRecord(proc[w].i, proc[w].resp) /\ UNCHANGED faults
    /\ Goto(w, To(w, "markAmbiguous"))
    /\ UNCHANGED <<ledger, clocks, broker, history>>

(* A defect: a refused order is made ready once more, its attempt forgotten. *)
MarkFailed_TriesAgain(w) ==
    LET i == proc[w].i IN
    /\ At(w, "markFailed")
    /\ intent[i].status = "submission_pending"
    /\ intent' = [intent EXCEPT ![i].status = "ready_for_submission"]
    /\ attempted' = attempted \ {i}
    /\ Commits(w) \/ CommitLost(w)
    /\ End(w)
    /\ UNCHANGED <<auth, res, alloc, order, absences, recorded, clocks, broker, history>>

(* The reservation stays active until system:recover expires it. *)
MarkFailed(w) ==
    LET i == proc[w].i IN
    /\ At(w, "markFailed")
    /\ intent[i].status = "submission_pending"
    /\ intent' = [intent EXCEPT ![i] = [status |-> "failed", life |-> "failed_terminal"]]
    /\ Commits(w) \/ CommitLost(w)
    /\ End(w)
    /\ UNCHANGED <<auth, res, alloc, order, attempted, absences, recorded, clocks,
                   broker, history>>

MarkAmbiguous(w) ==
    LET i == proc[w].i IN
    /\ At(w, "markAmbiguous")
    /\ intent[i].status = "submission_pending"
    /\ intent' = [intent EXCEPT ![i] =
                     [status |-> "ambiguous",
                      life |-> IF TypeOf(i) = "exit" THEN "exit_submission_ambiguous"
                               ELSE "submission_ambiguous"]]
    /\ \/ Commits(w) /\ Goto(w, [To(w, "lookup") EXCEPT !.resp = NoOrder])
       \/ CommitLost(w) /\ End(w)
    /\ UNCHANGED <<auth, res, alloc, order, attempted, absences, recorded, clocks,
                   broker, history>>

MarkFails(w) ==
    /\ At(w, "markFailed") \/ At(w, "markAmbiguous")
    /\ Fails(w) \/ (intent[proc[w].i].status # "submission_pending" /\ UNCHANGED faults)
    /\ End(w)
    /\ UNCHANGED <<ledger, clocks, broker, history>>

-----------------------------------------------------------------------------
(* recoverAmbiguousPostgresSubmission and recordReconciledSubmissionReceipt *)

(* One of the bounded lookups finds the order. *)
LookupFinds(w) ==
    /\ At(w, "lookup")
    /\ FenceHeld(w)
    /\ Visible(proc[w].i)
    /\ Goto(w, [To(w, "list") EXCEPT !.resp = broker[proc[w].i]])
    /\ UNCHANGED <<ledger, clocks, broker, history>>

(* All lookups report absence, the fence is lost, or the broker is down. *)
LookupFails(w) ==
    /\ At(w, "lookup")
    /\ (~Visible(proc[w].i) /\ UNCHANGED faults) \/ Fails(w)
    /\ End(w)
    /\ UNCHANGED <<ledger, clocks, broker, history>>

CanConsume(a) == a.review \in {"valid", "expired"} /\ a.confirmation \in {"valid", "expired"}

Receipt(w) ==
    LET i == proc[w].i IN
    /\ At(w, "receipt")
    /\ CanConsume(auth[i])
    /\ auth' = [auth EXCEPT ![i] = [review |-> "consumed", confirmation |-> "consumed"]]
    /\ Commits(w) \/ CommitLost(w)
    /\ End(w)
    /\ UNCHANGED <<intent, res, alloc, order, attempted, absences, recorded, clocks,
                   broker, history>>

ReceiptFails(w) ==
    /\ At(w, "receipt")
    /\ Fails(w) \/ (~CanConsume(auth[proc[w].i]) /\ UNCHANGED faults)
    /\ End(w)
    /\ UNCHANGED <<ledger, clocks, broker, history>>

Submission(w) ==
    \/ StartExecution(w) \/ Promote(w) \/ PromoteNothing(w)
    \/ Claim(w) \/ ClaimNothing(w) \/ Validate(w) \/ ReleaseClaim(w) \/ ReleaseFails(w)
    \/ RecordAttempt(w) \/ AttemptFails(w)
    \/ SubmitOrder(w) \/ PostAccepted(w) \/ PostRefused(w) \/ PostUnanswered(w)
    \/ RecordSubmission(w) \/ RecordFails(w)
    \/ MarkFailed(w) \/ MarkAmbiguous(w) \/ MarkFails(w)
    \/ LookupFinds(w) \/ LookupFails(w) \/ Receipt(w) \/ ReceiptFails(w)
=============================================================================
