-------------------------------- MODULE PaperOps --------------------------------
(* paperOpsWorkflowService with the operation log, the learning governance it   *)
(* applies and the recovery that closes what a dead process left running. A     *)
(* workflow keeps its log rows by id, whatever the recovery did to them; its    *)
(* other writes need the fence of its scheduled command.                        *)
EXTENDS Integers, Sequences, FiniteSets, SequencesExt

CONSTANTS Ops, Symbols, Kinds,         \* Kinds: operation -> morning, midday or late_day
          Outcomes, Statuses,                  \* subsets of {gain, loss, invalid} and of Good
          MinTrades, MaxRecords, MaxSymbols,   \* of the governance policy
          MaxAge, StaleAfter,                  \* of an artifact, of a log row
          MaxTime, MaxCrashes

VARIABLES now,
          kind,      \* operation -> morning, midday or late_day
          log,       \* paper_operation_log: operation -> [outer, inner, at]
          op,        \* operation -> [pc, made, read, seen, known]
          holder,    \* operation whose fence is active
          records,   \* paper_learning_records that were evaluated, oldest first
          decided,   \* paper_learning_governance_decisions: scope -> current state
          gov,       \* paper_learning_governance_runs: operation -> [status, at]
          newest,    \* what the last completed governance run had read
          artifacts, \* paper_review_artifacts
          crashes

vars == <<now, kind, log, op, holder, records, decided, gov, newest, artifacts, crashes>>

None == 0
Family == "family"
Scopes == Symbols \cup {Family}
Good == {"success", "warning", "blocked"}
NoRow == [status |-> "none", at |-> 0]

Init ==
    /\ now = 0 /\ holder = None /\ records = <<>> /\ newest = <<>> /\ artifacts = {} /\ crashes = 0
    /\ kind \in Kinds
    /\ log = [o \in Ops |-> [outer |-> NoRow, inner |-> NoRow]] /\ gov = [o \in Ops |-> NoRow]
    /\ op = [o \in Ops |-> [pc |-> "idle", made |-> 0, read |-> 0, seen |-> <<>>, known |-> <<>>]]
    /\ decided = [s \in Scopes |-> "none"]

At(o, pc) == op[o].pc = pc
Goto(o, pc) == op' = [op EXCEPT ![o].pc = pc]

Fenced(o) == holder = o

Tick == now < MaxTime /\ now' = now + 1 /\ UNCHANGED <<kind, log, op, holder, records, decided, gov, newest, artifacts, crashes>>

(* The scheduler starts the command under a lease; the lease may lapse while the command runs on. *)
LoseFence == holder # None /\ holder' = None /\ UNCHANGED <<now, kind, log, op, records, decided, gov, newest, artifacts, crashes>>

StartPaperOperation(o, row) == log' = [log EXCEPT ![o][row] = [status |-> "running", at |-> now]]
FinishPaperOperation(o, row, status) == log' = [log EXCEPT ![o][row] = [status |-> status, at |-> 0]]

(* The late-day workflow is its review, the morning one also learns and researches, the midday one saves no artifact. *)
FirstStep(k) == CASE k = "morning" -> "evaluate" [] k = "midday" -> "midday" [] k = "late_day" -> "review"

Start(o) ==
    /\ At(o, "idle") /\ holder = None /\ holder' = o /\ StartPaperOperation(o, "outer")
    /\ Goto(o, FirstStep(kind[o]))
    /\ UNCHANGED <<now, kind, records, decided, gov, newest, artifacts, crashes>>

-----------------------------------------------------------------------------
(* evaluatePaperLearningRecords: at most one more record gets an outcome. *)
Evaluate(o) ==
    /\ At(o, "evaluate") /\ Goto(o, "govern")
    /\ records' \in {records} \cup {Append(records, [sym |-> s, pnl |-> v]) : s \in Symbols, v \in Outcomes}
    /\ UNCHANGED <<now, kind, log, holder, decided, gov, newest, artifacts, crashes>>

(* scanEvaluatedLearningRecords *)
Scanned(rs) == SubSeq(rs, IF Len(rs) > MaxRecords THEN Len(rs) - MaxRecords + 1 ELSE 1, Len(rs))

Of(rs, scope) == IF scope = Family THEN rs ELSE SelectSeq(rs, LAMBDA r : r.sym = scope)

(* decideScope: with gains and losses of one unit, a profit factor of at most 0.8 or at least 1.05. *)
DecideScope(rs) ==
    LET count(v) == Cardinality({i \in DOMAIN rs : rs[i].pnl = v})
        gains == count("gain")
        losses == count("loss")
    IN  IF gains + losses < MinTrades THEN "observe"
        ELSE IF gains < losses /\ 10 * gains <= 8 * losses THEN "suspended"
        ELSE IF gains > losses /\ 100 * gains >= 105 * losses THEN "prioritized"
        ELSE "observe"

LatestOf(rs, s) == {i \in DOMAIN rs : rs[i].sym = s /\ \A j \in DOMAIN rs : rs[j].sym = s => j <= i}

(* desiredDecisions: the family and the symbols that traded last. *)
Desired(rs) ==
    {Family} \cup {s \in Symbols : LatestOf(rs, s) # {} /\ Cardinality({t \in Symbols : \E i \in LatestOf(rs, t), j \in LatestOf(rs, s) : i > j}) < MaxSymbols}

(* The run row is inserted, then records and current decisions are read outside the transaction. *)
Govern(o) ==
    /\ At(o, "govern") /\ Fenced(o) /\ gov' = [gov EXCEPT ![o] = [status |-> "running", at |-> now]]
    /\ op' = [op EXCEPT ![o].pc = "decide", ![o].seen = Scanned(records), ![o].known = decided]
    /\ UNCHANGED <<now, kind, log, holder, records, decided, newest, artifacts, crashes>>

MayDecide_Unfenced(o) == TRUE

(* The fence is asserted again just before COMMIT. *)
MayDecide(o) == Fenced(o)

(* Only what differs from the decisions read before is superseded. *)
Decide(o) ==
    /\ At(o, "decide") /\ MayDecide(o)
    /\ LET rs == op[o].seen
           changed == {s \in Desired(rs) : DecideScope(Of(rs, s)) # op[o].known[s]}
       IN  decided' = [s \in Scopes |-> IF s \in changed THEN DecideScope(Of(rs, s)) ELSE decided[s]]
    /\ newest' = (IF Len(op[o].seen) >= Len(newest) THEN op[o].seen ELSE newest)
    /\ gov' = [gov EXCEPT ![o] = [status |-> "completed", at |-> 0]]
    /\ op' = [op EXCEPT ![o].pc = "review", ![o].seen = <<>>, ![o].known = <<>>]
    /\ UNCHANGED <<now, kind, log, holder, records, artifacts, crashes>>

(* The governance throws: its row is closed only under the fence. *)
GovernanceFails(o) ==
    /\ At(o, "decide")
    /\ gov' = IF Fenced(o) THEN [gov EXCEPT ![o] = [status |-> "failed", at |-> 0]] ELSE gov
    /\ op' = [op EXCEPT ![o].pc = "failed", ![o].seen = <<>>, ![o].known = <<>>]
    /\ UNCHANGED <<now, kind, log, holder, records, decided, newest, artifacts, crashes>>

-----------------------------------------------------------------------------
CreatedAt_Saved(o) == now

(* An artifact is as old as its review, not as its row. *)
CreatedAt(o) == op[o].made

(* runPaperOpsReview: its own log row, then the portfolio and hedge reviews, the dry run and the submit state. *)
Review(o) ==
    /\ At(o, "review") /\ StartPaperOperation(o, "inner") /\ op' = [op EXCEPT ![o].pc = "portfolio", ![o].made = now]
    /\ UNCHANGED <<now, kind, holder, records, decided, gov, newest, artifacts, crashes>>

Portfolio(o) ==
    /\ At(o, "portfolio") /\ op' = [op EXCEPT ![o].pc = "capture", ![o].read = now]
    /\ UNCHANGED <<now, kind, log, holder, records, decided, gov, newest, artifacts, crashes>>

(* createPaperReviewArtifact, fenced; the account was read between the review's start and now. *)
Save(o) ==
    /\ At(o, "capture") /\ Fenced(o)
    /\ \E status \in Statuses :
         artifacts' = artifacts \cup {[op |-> o, made |-> CreatedAt(o), read |-> op[o].read, status |-> status]}
    /\ op' = [op EXCEPT ![o].pc = "saved", ![o].made = 0, ![o].read = 0]
    /\ UNCHANGED <<now, kind, log, holder, records, decided, gov, newest, crashes>>

StatusOf(o) == (CHOOSE a \in artifacts : a.op = o).status

Reviewed(o) ==
    /\ At(o, "saved") /\ FinishPaperOperation(o, "inner", StatusOf(o)) /\ Goto(o, "finish")
    /\ UNCHANGED <<now, kind, holder, records, decided, gov, newest, artifacts, crashes>>

(* runPaperOpsMidday reviews without an artifact. *)
Midday(o) ==
    /\ At(o, "midday") /\ Goto(o, "finish") /\ UNCHANGED <<now, kind, log, holder, records, decided, gov, newest, artifacts, crashes>>

(* finishWorkflow: the warnings and blockers of the review and of the steps around it. *)
Finish(o) ==
    /\ At(o, "finish") /\ \E status \in Statuses : FinishPaperOperation(o, "outer", status)
    /\ Goto(o, "done") /\ holder' = (IF holder = o THEN None ELSE holder)
    /\ UNCHANGED <<now, kind, records, decided, gov, newest, artifacts, crashes>>

(* A step throws, or its write is refused: the review closes its own row first. *)
Throw(o) ==
    /\ op[o].pc \in {"evaluate", "govern", "review", "portfolio", "capture", "midday"}
    /\ IF op[o].pc \in {"portfolio", "capture"} THEN FinishPaperOperation(o, "inner", "failed") ELSE UNCHANGED log
    /\ op' = [op EXCEPT ![o].pc = "failed", ![o].made = 0, ![o].read = 0]
    /\ UNCHANGED <<now, kind, holder, records, decided, gov, newest, artifacts, crashes>>

Failed(o) ==
    /\ At(o, "failed") /\ FinishPaperOperation(o, "outer", "failed") /\ Goto(o, "done") /\ holder' = (IF holder = o THEN None ELSE holder)
    /\ UNCHANGED <<now, kind, records, decided, gov, newest, artifacts, crashes>>

Crash(o) ==
    /\ crashes < MaxCrashes /\ op[o].pc \notin {"idle", "done"} /\ crashes' = crashes + 1
    /\ op' = [op EXCEPT ![o] = [pc |-> "done", made |-> 0, read |-> 0, seen |-> <<>>, known |-> <<>>]] /\ holder' = (IF holder = o THEN None ELSE holder)
    /\ UNCHANGED <<now, kind, log, records, decided, gov, newest, artifacts>>

-----------------------------------------------------------------------------
Stale_AnyStatus(row) == row.status # "none" /\ row.at + StaleAfter <= now

(* getStaleRows, getStalePaperOperations: age is all they know. *)
Stale(row) == row.status = "running" /\ row.at + StaleAfter <= now

MarkFailed(row) == IF Stale(row) THEN [status |-> "failed", at |-> 0] ELSE row

(* applyAutonomousRecovery, one transaction *)
Recover ==
    /\ log' = [o \in Ops |-> [outer |-> MarkFailed(log[o].outer), inner |-> MarkFailed(log[o].inner)]]
    /\ gov' = [o \in Ops |-> MarkFailed(gov[o])]
    /\ <<log', gov'>> # <<log, gov>>
    /\ UNCHANGED <<now, kind, op, holder, records, decided, newest, artifacts, crashes>>

Next ==
    \/ Tick \/ LoseFence \/ Recover
    \/ \E o \in Ops : \/ Start(o) \/ Evaluate(o) \/ Govern(o) \/ Decide(o) \/ GovernanceFails(o) \/ Review(o) \/ Portfolio(o)
                      \/ Save(o) \/ Reviewed(o) \/ Midday(o) \/ Finish(o) \/ Throw(o) \/ Failed(o) \/ Crash(o)

Spec == Init /\ [][Next]_vars

-----------------------------------------------------------------------------
(* latestPaperReviewArtifact *)
Latest == {a \in artifacts : \A b \in artifacts : b.made <= a.made}

(* latestReviewArtifactReadiness for an artifact that has entries only *)
Ready(a) == a \in Latest /\ a.status \in {"success", "warning"} /\ a.made + MaxAge >= now

TypeOK ==
    /\ now \in 0..MaxTime /\ holder \in Ops \cup {None} /\ \A s \in Scopes : decided[s] \in {"none", "observe", "prioritized", "suspended"}
    /\ \A o \in Ops : {log[o].outer.status, log[o].inner.status} \subseteq Good \cup {"none", "running", "failed"}

(* An artifact that is announced as ready was made from an account that was read at most its lifetime ago, however long the review took between reading and saving. *)
ReadyWasReadRecently == \A a \in artifacts : Ready(a) => a.read + MaxAge >= now

(* The current decision on every scope is the one that follows from the newest evidence a completed governance run has read: a run that was overtaken while it decided does not bring an older decision back, and comparing with decisions read before the transaction loses nothing. *)
NewestEvidenceRules == \A s \in Scopes : newest # <<>> /\ s \in Desired(newest) => decided[s] = DecideScope(Of(newest, s))

(* A workflow that is logged as finished has all its parts on record as finished: the governance of a morning, the review and its artifact with the same status, although the recovery may have closed their rows while they ran. *)
FinishedHasItsParts ==
    \A o \in Ops : log[o].outer.status \in Good /\ kind[o] # "midday" =>
       /\ kind[o] = "morning" => gov[o].status = "completed"
       /\ \E a \in artifacts : a.op = o /\ log[o].inner.status = a.status
=============================================================================
