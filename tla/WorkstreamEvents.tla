--------------------------- MODULE WorkstreamEvents ---------------------------
(* PostgresWorkstreamEventRepository: the events of one entity arrive in any    *)
(* order and more than once; processes that hold the lease of the job one after *)
(* the other claim them, apply them and record how that ended.                  *)
EXTENDS Naturals, FiniteSets

CONSTANTS Procs, Last,           \* processes; entity version of the last event
          MaxAttempts, MaxTakeovers

Events == 1..Last
Nobody == 0

VARIABLES rows,      \* event -> [status, stale, attempts, version]; version 0 is no row
          failures,  \* event -> [attempt -> "none", "retry" or "dead"]: workstream_event_failures
          holder,    \* process whose fence is current
          proc,      \* process -> [pc, pending, event, version, attempt]
          applied,   \* events in the order in which they were completed, as the number completed before each
          takeovers

vars == <<rows, failures, holder, proc, applied, takeovers>>

Idle == [pc |-> "idle", pending |-> {}, event |-> 1, version |-> 0, attempt |-> 0]
Statuses == {"received", "processing", "completed", "failed", "dead_letter"}

Init ==
    /\ rows = [e \in Events |-> [status |-> "received", stale |-> FALSE, attempts |-> 0, version |-> 0]]
    /\ failures = [e \in Events |-> [a \in 1..MaxAttempts |-> "none"]]
    /\ holder = Nobody /\ takeovers = 0
    /\ proc = [p \in Procs |-> Idle]
    /\ applied = [e \in Events |-> Nobody]

At(p, pc) == proc[p].pc = pc
Completed == {e \in Events : rows[e].version > 0 /\ rows[e].status = "completed"}
Highest(S) == IF S = {} THEN 0 ELSE CHOOSE e \in S : \A f \in S : f <= e

-----------------------------------------------------------------------------
(* append: a repetition is a duplicate, or an error if its contents differ; neither changes the row. *)
Append(e) ==
    /\ rows[e].version = 0
    /\ rows' = [rows EXCEPT ![e].version = 1]
    /\ UNCHANGED <<failures, holder, proc, applied, takeovers>>

(* The processing of an event has lasted longer than processingStaleBefore allows. *)
Age(e) ==
    /\ rows[e].status = "processing" /\ ~rows[e].stale
    /\ rows' = [rows EXCEPT ![e].stale = TRUE]
    /\ UNCHANGED <<failures, holder, proc, applied, takeovers>>

(* A process starts a run under the lease; the run before notices only when a transaction refuses its fence. *)
Takeover(p) ==
    /\ takeovers < MaxTakeovers /\ holder # p /\ At(p, "idle")
    /\ holder' = p /\ takeovers' = takeovers + 1
    /\ UNCHANGED <<rows, failures, proc, applied>>

-----------------------------------------------------------------------------
(* The caller goes on with the rest of its list. *)
Following(p, done) ==
    LET rest == proc[p].pending \ done IN [Idle EXCEPT !.pc = IF rest = {} THEN "idle" ELSE "claim", !.pending = rest]

Pending_Dead(e) ==
    rows[e].version > 0 /\ (rows[e].status \in {"received", "failed", "dead_letter"} \/ (rows[e].status = "processing" /\ rows[e].stale))

Pending(e) ==
    /\ rows[e].version > 0
    /\ rows[e].status \in {"received", "failed"} \/ (rows[e].status = "processing" /\ rows[e].stale)

(* listPending needs no fence. *)
ListPending(p) ==
    /\ At(p, "idle") /\ {e \in Events : Pending(e)} # {}
    /\ proc' = [proc EXCEPT ![p].pc = "claim", ![p].pending = {e \in Events : Pending(e)}]
    /\ UNCHANGED <<rows, failures, holder, applied, takeovers>>

InOrder_NotBehind(e) == Highest(Completed) < e

(* The caller expects the version before the event's own. *)
InOrder(e) == Highest(Completed) = e - 1

Claimable(e) ==
    /\ rows[e].status # "completed" /\ ~(rows[e].status = "processing" /\ ~rows[e].stale)
    /\ InOrder(e)

Attempt_Kept(e) == IF rows[e].attempts = 0 THEN 1 ELSE rows[e].attempts

Attempt(e) == rows[e].attempts + 1

(* claimForProcessing, one transaction under the lock of the lease row. *)
ClaimForProcessing(p, e) ==
    /\ At(p, "claim") /\ e \in proc[p].pending
    /\ IF p = holder /\ Claimable(e)
       THEN /\ Attempt(e) <= MaxAttempts
            /\ rows' = [rows EXCEPT ![e] = [status |-> "processing", stale |-> FALSE, attempts |-> Attempt(e), version |-> @.version + 1]]
            /\ proc' = [proc EXCEPT ![p] = [pc |-> "apply", pending |-> @.pending \ {e}, event |-> e, version |-> rows[e].version + 1, attempt |-> Attempt(e)]]
       ELSE UNCHANGED rows /\ proc' = [proc EXCEPT ![p] = Following(p, {e})]
    /\ UNCHANGED <<failures, holder, applied, takeovers>>

Versioned(p) == rows[proc[p].event].version = proc[p].version

Fenced(p) == p = holder

MarkCompleted(p) ==
    /\ At(p, "apply")
    /\ IF Fenced(p) /\ Versioned(p) /\ rows[proc[p].event].status = "processing"
       THEN /\ rows' = [rows EXCEPT ![proc[p].event].status = "completed", ![proc[p].event].version = @ + 1]
            /\ applied' = [applied EXCEPT ![proc[p].event] = Cardinality(Completed) + 1]
       ELSE UNCHANGED <<rows, applied>>
    /\ proc' = [proc EXCEPT ![p] = Following(p, {})] /\ UNCHANGED <<failures, holder, takeovers>>

(* markFailed, with no test of the status; a second row of an attempt is dropped by ON CONFLICT. *)
MarkFailed(p, dead) ==
    LET e == proc[p].event IN
    /\ At(p, "apply")
    /\ IF Fenced(p) /\ Versioned(p)
       THEN /\ rows' = [rows EXCEPT ![e].status = IF dead THEN "dead_letter" ELSE "failed", ![e].version = @ + 1]
            /\ failures' = [failures EXCEPT ![e][proc[p].attempt] = IF @ = "none" THEN (IF dead THEN "dead" ELSE "retry") ELSE @]
       ELSE UNCHANGED <<rows, failures>>
    /\ proc' = [proc EXCEPT ![p] = Following(p, {})] /\ UNCHANGED <<holder, applied, takeovers>>

(* The process dies and is started again. *)
Crash(p) ==
    /\ ~At(p, "idle") /\ proc' = [proc EXCEPT ![p] = Idle]
    /\ UNCHANGED <<rows, failures, holder, applied, takeovers>>

Step(p) ==
    \/ Takeover(p) \/ ListPending(p) \/ MarkCompleted(p) \/ Crash(p)
    \/ \E e \in Events : ClaimForProcessing(p, e)
    \/ \E dead \in BOOLEAN : MarkFailed(p, dead)

Next == (\E p \in Procs : Step(p)) \/ (\E e \in Events : Age(e) \/ Append(e))

Spec == Init /\ [][Next]_vars

-----------------------------------------------------------------------------
TypeOK ==
    /\ \A e \in Events : rows[e].status \in Statuses /\ rows[e].attempts \in 0..MaxAttempts
    /\ \A p \in Procs : proc[p].pc \in {"idle", "claim", "apply"} /\ proc[p].attempt \in 0..MaxAttempts /\ proc[p].pending \subseteq Events

(* Events of an entity are completed in the order of their versions and without gaps, however they arrive, go stale, are retried or fail for good. *)
AppliedInOrder == \A e \in Completed : applied[e] = e

(* An event that is failed or dead has a failure row that says so for its last attempt: the retries and the report of dead letters work from these rows. *)
FailureIsExplained ==
    \A e \in Events : rows[e].status \in {"failed", "dead_letter"} =>
        failures[e][rows[e].attempts] = (IF rows[e].status = "dead_letter" THEN "dead" ELSE "retry")

(* A completed event, or one that was given up, never changes again. *)
OutcomeIsFinalStep ==
    \A e \in Events : rows[e].status \in {"completed", "dead_letter"} => rows'[e].status = rows[e].status
OutcomeIsFinal == [][OutcomeIsFinalStep]_vars
=============================================================================
