-------------------------- MODULE AutonomousWorker --------------------------
(***************************************************************************)
(* scripts/autonomous-paper-worker.mjs: the process that runs the          *)
(* scheduled commands one after the other, cycle after cycle, and records  *)
(* every step with the command worker:state (persistAutonomousWorkerState).*)
(* systemd restarts the process when it fails and kills its children with  *)
(* it.  A state command may fail before or after its COMMIT; it retries    *)
(* transient errors itself, and the event id makes a retry a replay.       *)
(*                                                                         *)
(* The workstreams are the production list, with each stretch of commands  *)
(* that touch no broker order written once.                                *)
(***************************************************************************)
EXTENDS Naturals, Sequences, FiniteSets

CONSTANTS MaxCycles,        \* bound on the cycles of all processes together
          MaxAttempts,      \* DEFAULT_MAXIMUM_PERSISTENCE_ATTEMPTS
          MaxFaults         \* bound on crashes and failed or lost commits

(* What the proofs need of the constants. *)
WorkerBounds == MaxCycles \in Nat /\ MaxAttempts \in Nat \ {0} /\ MaxFaults \in Nat

VARIABLES
    last,           \* last[c]: the latest event of cycle c
    aged,           \* cycles that started before the ACTIVE_CYCLE_WINDOW
    used,           \* cycle ids drawn so far
    pc,             \* "off", "persist", "child", "inner", "delay"
    cycle, pos,     \* the cycle and the workstream of the process
    call,           \* the state command: event, attempt, inserted already
    unresolved,     \* unresolvedPriorMutation
    result,         \* result of the workstream: class and severity of its code
    flags,          \* cycleStartedPersisted, cycleTerminalPersisted, --once, and
                    \* whether the catch block or the final state command runs
    stop,           \* stopRequested
    faults,
    doubt           \* history: "owed" from the start of a mutation, "tried" once a
                    \* reconciliation has started after it, "no" once one resolved

vars == <<last, aged, used, pc, cycle, pos, call, unresolved, result, flags, stop,
          faults, doubt>>
process == <<cycle, pos, unresolved, result, flags>>

Workstreams ==
    <<"zero-dte:reconcile", "research:daily", "paper:execute:reviewed", "zero-dte:engine",
      "zero-dte:reconcile", "paper:exit:review", "paper:exit:execute", "hedge:exit:execute",
      "zero-dte:reconcile", "paper:order:cancel", "zero-dte:reconcile", "system:recover">>

BROKER_MUTATION_WORKSTREAMS ==
    {"paper:execute:reviewed", "zero-dte:engine", "paper:exit:execute",
     "hedge:exit:execute", "paper:order:cancel"}
INTERNAL_RECONCILIATION_AFTER == {"paper:execute:reviewed", "paper:exit:execute"}
RECONCILIATION_WORKSTREAM == "zero-dte:reconcile"

Cycles == 1..MaxCycles
Terminal == {"cycle_completed", "cycle_failed", "worker_stopped"}
Events == Terminal \cup {"preflight_failed", "cycle_started", "workstream_started",
                         "workstream_completed", "workstream_failed"}

Res(class, code) == [class |-> class, code |-> code]
NoResult == Res("none", "none")
Codes == {"none", "benign", "fatal", "service"}

(* What classify makes of the outputs it tells apart.  code: none; benign   *)
(* (NON_FATAL_WORKSTREAM_CODES); service (SERVICE_FATAL_CODES); else fatal. *)
Classification ==
    [spawn_error       |-> Res("runner_unavailable", "fatal"),
     timed_out         |-> Res("timed_out", "fatal"),
     status_failed     |-> Res("failed", "fatal"),
     receipt_invalid   |-> Res("mutation_indeterminate", "none"),
     transport_unknown |-> Res("mutation_indeterminate", "none"),
     recovery_invalid  |-> Res("failed", "fatal"),
     expected_no_op    |-> Res("no_action", "benign"),
     blocked           |-> Res("blocked", "benign"),
     skipped           |-> Res("skipped", "benign"),
     completed         |-> Res("success", "none"),
     live_runtime      |-> Res("safety_failure", "service"),
     disabled          |-> Res("command_rejected", "fatal"),
     lease_held        |-> Res("lease_unavailable", "fatal"),
     deferred          |-> Res("deferred", "benign"),
     postgres_error    |-> Res("postgres_failure", "fatal")]

Outputs(script) ==
    DOMAIN Classification
    \ ((IF script \in BROKER_MUTATION_WORKSTREAMS THEN {}
        ELSE {"receipt_invalid", "transport_unknown"})
       \cup IF script = "system:recover" THEN {} ELSE {"recovery_invalid"})

classify(output) == Classification[output]
workstreamResultIsFatal(r) == r.code \in {"fatal", "service"}
reconciliationResolved(r) == r.class \in {"success", "no_action"}

(* runWorkstream: a fatal result of the zero-DTE engine stays in its lane.  *)
runWorkstream(script, output) ==
    LET r == classify(output)
    IN IF script = "zero-dte:engine" /\ workstreamResultIsFatal(r)
       THEN Res("lane_error", "none") ELSE r

TypeOK ==
    /\ last \in [Cycles -> Events \cup {"none"}]
    /\ aged \subseteq Cycles /\ used \in 0..MaxCycles
    /\ pc \in {"off", "persist", "child", "inner", "delay"}
    /\ cycle \in 0..MaxCycles /\ pos \in 0..(Len(Workstreams) + 1)
    /\ call \in [event : Events \cup {"none"}, attempt : 0..(MaxAttempts - 1), inserted : BOOLEAN]
    /\ unresolved \in BOOLEAN /\ stop \in BOOLEAN
    /\ doubt \in {"no", "owed", "tried"}
    /\ DOMAIN result = {"class", "code"} /\ result.code \in Codes
    /\ flags \in [started : BOOLEAN, terminal : BOOLEAN, once : BOOLEAN, ending : BOOLEAN]
    /\ faults \in 0..MaxFaults

NoCall == [event |-> "none", attempt |-> 0, inserted |-> FALSE]
NoFlags == [started |-> FALSE, terminal |-> FALSE, once |-> FALSE, ending |-> FALSE]

Init ==
    /\ last = [c \in Cycles |-> "none"] /\ aged = {} /\ used = 0
    /\ pc = "off" /\ cycle = 0 /\ pos = 0 /\ call = NoCall
    /\ unresolved = FALSE /\ result = NoResult /\ flags = NoFlags
    /\ stop = FALSE /\ faults = MaxFaults
    /\ doubt \in {"no", "owed"}

-----------------------------------------------------------------------------
(* persistAutonomousWorkerStateWithClient *)

allowedTransition(previous, next) ==
    CASE previous = "none" -> next \in {"cycle_started", "preflight_failed"}
      [] previous \in {"preflight_failed", "worker_stopped"} -> FALSE
      [] OTHER ->
           \/ next = "worker_stopped"
           \/ previous = "cycle_started" /\ next \in {"workstream_started", "cycle_failed"}
           \/ /\ previous = "workstream_started"
              /\ next \in {"workstream_completed", "workstream_failed", "cycle_failed"}
           \/ /\ previous = "workstream_completed"
              /\ next \in {"workstream_started", "cycle_completed", "cycle_failed"}
           \/ previous = "workstream_failed" /\ next = "cycle_failed"

Open(c) == last[c] \notin Terminal \cup {"none", "preflight_failed"}

(* A defect: the cycle of a dead process is left as it is. *)
Recorded_LeavesOrphan(c, event) == [last EXCEPT ![c] = event]

(* The event is inserted; a new cycle first closes the latest cycle that    *)
(* is still open, as orphaned by a restart.                                 *)
Recorded(c, event) ==
    LET orphans == {d \in Cycles : d # c /\ Open(d) /\ d \notin aged}
        closed == IF event = "cycle_started" /\ orphans # {}
                  THEN {CHOOSE d \in orphans : \A e \in orphans : e <= d} ELSE {}
    IN [d \in Cycles |-> IF d = c THEN event
                         ELSE IF d \in closed THEN "cycle_failed" ELSE last[d]]

-----------------------------------------------------------------------------
(* Where the process goes *)

Persist(event) == pc' = "persist" /\ call' = [NoCall EXCEPT !.event = event]
Go(where) == pc' = where /\ call' = NoCall
Script == Workstreams[pos]

(* After the loop over cycles: the last state command, whose failure is ignored. *)
LastWords == Persist("worker_stopped") /\ flags' = [flags EXCEPT !.ending = TRUE]

(* The head of the for loop at position p, or the end of the cycle. *)
Loop(p) ==
    /\ pos' = p
    /\ CASE stop -> LastWords
         [] ~stop /\ p > Len(Workstreams) -> Persist("cycle_completed") /\ UNCHANGED flags
         [] OTHER -> Persist("workstream_started") /\ UNCHANGED flags

(* The catch block of the cycle, for an error that is not service fatal. *)
Catch(f) ==
    CASE stop -> Persist("worker_stopped") /\ flags' = [f EXCEPT !.ending = TRUE]
      [] ~stop /\ f.started /\ ~f.terminal ->
             Persist("cycle_failed") /\ flags' = [f EXCEPT !.ending = TRUE]
      [] OTHER -> Go(IF f.once THEN "off" ELSE "delay") /\ flags' = f

-----------------------------------------------------------------------------
(* main *)

BeginCycle(event, once) ==
    /\ used < MaxCycles
    /\ used' = used + 1 /\ cycle' = used + 1 /\ pos' = 0
    /\ unresolved' = FALSE /\ result' = NoResult
    /\ flags' = [NoFlags EXCEPT !.once = once]
    /\ Persist(event)

(* assertRuntime and the command contract: a runtime that is not paper     *)
(* exits at once; an invalid contract is recorded first.                    *)
Start ==
    /\ pc = "off"
    /\ \E event \in {"cycle_started", "preflight_failed"}, once \in BOOLEAN :
           BeginCycle(event, once)
    /\ stop' = FALSE
    /\ UNCHANGED <<last, aged, faults, doubt>>

NextCycle ==
    /\ pc = "delay"
    /\ IF stop THEN LastWords /\ UNCHANGED <<used, cycle, pos, unresolved, result>>
       ELSE BeginCycle("cycle_started", flags.once)
    /\ UNCHANGED <<last, aged, stop, faults, doubt>>

Skipped == unresolved /\ Script \in BROKER_MUTATION_WORKSTREAMS

(* The command of the workstream, or the reconciliation after it, starts. *)
Spawned(where, script) ==
    /\ Go(where)
    /\ doubt' = CASE script \in BROKER_MUTATION_WORKSTREAMS -> "owed"
                  [] script = RECONCILIATION_WORKSTREAM /\ doubt = "owed" -> "tried"
                  [] OTHER -> doubt

(* A workstream_started is recorded: stop, run the command, or skip it. *)
BeginWorkstream ==
    /\ CASE stop -> /\ Persist("worker_stopped")
                    /\ UNCHANGED <<unresolved, result, doubt>>
         [] ~stop /\ ~Skipped -> /\ Spawned("child", Script)
                                 /\ UNCHANGED <<unresolved, result>>
         [] ~stop /\ Skipped /\ Script \in INTERNAL_RECONCILIATION_AFTER ->
                /\ Spawned("inner", RECONCILIATION_WORKSTREAM)
                /\ result' = Res("blocked", "benign") /\ UNCHANGED unresolved
         [] OTHER -> Persist("workstream_completed") /\ UNCHANGED <<unresolved, result, doubt>>
    /\ UNCHANGED <<cycle, pos, flags>>

(* What follows the answer of a state command. *)
AfterPersist(event) ==
    CASE event \in {"preflight_failed", "worker_stopped"} ->
             Go("off") /\ UNCHANGED <<process, doubt>>
      [] event = "cycle_started" ->
             /\ pos' = 1
             /\ Persist(IF stop THEN "worker_stopped" ELSE "workstream_started")
             /\ flags' = [flags EXCEPT !.started = TRUE, !.ending = stop]
             /\ UNCHANGED <<cycle, unresolved, result, doubt>>
      [] event = "workstream_started" -> BeginWorkstream
      [] event = "workstream_completed" ->
             Loop(pos + 1) /\ UNCHANGED <<cycle, unresolved, result, doubt>>
      [] event = "workstream_failed" -> Persist("cycle_failed") /\ UNCHANGED <<process, doubt>>
      [] event = "cycle_failed" /\ flags.ending ->
             /\ Go(IF flags.once THEN "off" ELSE "delay")
             /\ flags' = [flags EXCEPT !.terminal = TRUE, !.ending = FALSE]
             /\ UNCHANGED <<cycle, pos, unresolved, result, doubt>>
      [] event = "cycle_failed" /\ ~flags.ending ->
             /\ IF result.code = "service" THEN Go("off") /\ UNCHANGED flags
                ELSE Catch([flags EXCEPT !.terminal = TRUE])
             /\ UNCHANGED <<cycle, pos, unresolved, result, doubt>>
      [] event = "cycle_completed" ->
             /\ flags' = [flags EXCEPT !.terminal = TRUE]
             /\ IF flags.once THEN Persist("worker_stopped") ELSE Go("delay")
             /\ UNCHANGED <<cycle, pos, unresolved, result, doubt>>

(* A defect: the last state command is repeated until it succeeds. *)
AfterFailure_Insists(event) ==
    /\ IF event = "worker_stopped" THEN LastWords ELSE Catch(flags)
    /\ UNCHANGED <<cycle, pos, unresolved, result, doubt>>

(* persistState throws; preflight_failed is supplemental and is skipped.    *)
AfterFailure(event) ==
    /\ CASE event = "preflight_failed" \/ (event = "worker_stopped" /\ flags.ending) ->
              Go("off") /\ UNCHANGED flags
         [] event = "cycle_failed" /\ flags.ending ->
              /\ Go(IF flags.once THEN "off" ELSE "delay")
              /\ flags' = [flags EXCEPT !.ending = FALSE]
         [] OTHER -> Catch(flags)
    /\ UNCHANGED <<cycle, pos, unresolved, result, doubt>>

(* The transaction commits and the answer arrives, or the event id was      *)
(* inserted by an earlier attempt.                                          *)
PersistSucceeds ==
    /\ pc = "persist"
    /\ call.inserted \/ allowedTransition(last[cycle], call.event)
    /\ last' = IF call.inserted THEN last ELSE Recorded(cycle, call.event)
    /\ AfterPersist(call.event)
    /\ UNCHANGED <<aged, used, stop, faults>>

PersistRefused ==
    /\ pc = "persist" /\ ~call.inserted
    /\ ~allowedTransition(last[cycle], call.event)
    /\ AfterFailure(call.event)
    /\ UNCHANGED <<last, aged, used, stop, faults>>

CanRetry == call.attempt + 1 < MaxAttempts

(* The attempt fails, before its COMMIT or after it; a retryable error is   *)
(* repeated while attempts are left (runAutonomousWorkerPersistence), any   *)
(* other one and the timeout of the command end persistState.               *)
PersistFails ==
    /\ pc = "persist" /\ faults > 0 /\ faults' = faults - 1
    /\ \E committed \in BOOLEAN :
           LET inserts == committed /\ ~call.inserted
           IN /\ inserts => allowedTransition(last[cycle], call.event)
              /\ last' = IF inserts THEN Recorded(cycle, call.event) ELSE last
              /\ \/ /\ CanRetry
                    /\ call' = [call EXCEPT !.attempt = @ + 1, !.inserted = @ \/ inserts]
                    /\ UNCHANGED <<pc, process, doubt>>
                 \/ AfterFailure(call.event)
    /\ UNCHANGED <<aged, used, stop>>

(* The workstream is over with result r: stop, fail or complete it.  Only   *)
(* a fatal code is read again.                                              *)
Leave(r) ==
    /\ result' = IF workstreamResultIsFatal(r) THEN r ELSE NoResult
    /\ Persist(CASE stop -> "worker_stopped"
                 [] ~stop /\ workstreamResultIsFatal(r) -> "workstream_failed"
                 [] OTHER -> "workstream_completed")

Resolved(script, r) ==
    doubt' = IF script = RECONCILIATION_WORKSTREAM /\ reconciliationResolved(r)
             THEN "no" ELSE doubt

(* A defect: a fatal mutation ends the cycle at once. *)
ReconcileBeforeLeaving_NotIfFatal(r) ==
    Script \in INTERNAL_RECONCILIATION_AFTER /\ ~workstreamResultIsFatal(r)

ReconcileBeforeLeaving(r) ==
    /\ Script \in BROKER_MUTATION_WORKSTREAMS
    /\ \/ Script \in INTERNAL_RECONCILIATION_AFTER
       \/ /\ pos < Len(Workstreams) /\ Workstreams[pos + 1] = RECONCILIATION_WORKSTREAM
          /\ workstreamResultIsFatal(r)

(* A defect: a reconciliation that was blocked lets the next mutation run. *)
UnresolvedAfter_OnlyFatal(r) ==
    IF Script = RECONCILIATION_WORKSTREAM THEN workstreamResultIsFatal(r) ELSE unresolved

(* unresolvedPriorMutation after a workstream without inner reconciliation. *)
UnresolvedAfter(r) ==
    IF Script = RECONCILIATION_WORKSTREAM THEN ~reconciliationResolved(r)
    ELSE unresolved \/ (Script \in BROKER_MUTATION_WORKSTREAMS /\ r.class = "blocked")

ChildEnds ==
    /\ pc = "child"
    /\ \E output \in Outputs(Script) :
           LET r == runWorkstream(Script, output)
           IN IF ReconcileBeforeLeaving(r)
              THEN /\ result' = r /\ Spawned("inner", RECONCILIATION_WORKSTREAM)
                   /\ UNCHANGED unresolved
              ELSE /\ unresolved' = UnresolvedAfter(r)
                   /\ Leave(r) /\ Resolved(Script, r)
    /\ UNCHANGED <<last, aged, used, cycle, pos, flags, stop, faults>>

InnerEnds ==
    /\ pc = "inner"
    /\ \E output \in Outputs(RECONCILIATION_WORKSTREAM) :
           LET r == runWorkstream(RECONCILIATION_WORKSTREAM, output)
               merged == CASE Skipped -> result
                           [] ~Skipped /\ workstreamResultIsFatal(r) -> r
                           [] ~Skipped /\ ~workstreamResultIsFatal(r)
                              /\ ~reconciliationResolved(r)
                              /\ ~workstreamResultIsFatal(result) -> Res("blocked", "benign")
                           [] OTHER -> result
           IN /\ Leave(merged) /\ Resolved(RECONCILIATION_WORKSTREAM, r)
              /\ unresolved' = ~reconciliationResolved(r)
    /\ UNCHANGED <<last, aged, used, cycle, pos, flags, stop, faults>>

(* stopWorker: the child is killed and ends like any other child. *)
StopWorker ==
    /\ pc # "off" /\ ~stop /\ stop' = TRUE
    /\ UNCHANGED <<last, aged, used, pc, call, process, faults, doubt>>

(* The process dies, its children with it; a commit under way may happen. *)
Crash ==
    /\ pc # "off" /\ faults > 0 /\ faults' = faults - 1
    /\ Go("off")
    /\ cycle' = 0 /\ pos' = 0 /\ unresolved' = FALSE /\ result' = NoResult
    /\ flags' = NoFlags /\ stop' = FALSE
    /\ \/ UNCHANGED last
       \/ /\ pc = "persist" /\ ~call.inserted /\ allowedTransition(last[cycle], call.event)
          /\ last' = Recorded(cycle, call.event)
    /\ UNCHANGED <<aged, used, doubt>>

(* ACTIVE_CYCLE_WINDOW_HOURS pass since the cycle started (a start of the   *)
(* next cycle is the only step that looks).                                 *)
Age(c) ==
    /\ pc \in {"off", "delay"} /\ c <= used /\ c \notin aged /\ \A d \in 1..(c - 1) : d \in aged
    /\ aged' = aged \cup {c}
    /\ UNCHANGED <<last, used, pc, call, process, stop, faults, doubt>>

Process == NextCycle \/ PersistSucceeds \/ PersistRefused \/ ChildEnds \/ InnerEnds
Next == Start \/ Process \/ PersistFails \/ StopWorker \/ Crash \/ \E c \in Cycles : Age(c)

(* The event loop of the process runs; starts and faults owe nothing. *)
Spec == Init /\ [][Next]_vars /\ WF_vars(Process)

-----------------------------------------------------------------------------
(* A restarted or continued worker leaves at most one cycle of the last six *)
(* hours without a terminal event, whatever state commands were lost: the   *)
(* orphan query closes one cycle per start.                                 *)
OneOpenCycle == Cardinality({c \in Cycles \ aged : Open(c)}) <= 1

(* README: "followed immediately by reconciliation, including an internal   *)
(* reconciliation before a fatal mutation result can end the cycle".  When  *)
(* a workstream is reported failed or a cycle completed, a reconciliation   *)
(* has started after the last command that may have sent an order.          *)
FatalMutationIsReconciled ==
    call.event \in {"workstream_failed", "cycle_completed"} => doubt # "owed"

(* No command that may send an order starts while the effect of an earlier  *)
(* one, of this cycle, an earlier cycle or a dead process, is unresolved.   *)
NoMutationInDoubtStep ==
    pc' = "child" /\ pc # "child" /\ Workstreams[pos'] \in BROKER_MUTATION_WORKSTREAMS
        => doubt = "no"

Stopping == stop /\ pc # "off"
Stopped == pc = "off"
=============================================================================
