----------------------- MODULE AutonomousWorker_proofs -----------------------
(***************************************************************************)
(* Proofs about the autonomous worker, for any number of cycles, attempts  *)
(* of a state command, crashes and lost answers.                           *)
(*                                                                         *)
(* Before a workstream starts, an unreconciled mutation is remembered by   *)
(* the process (unresolved), or the workstream is itself a reconciliation  *)
(* (Ready).  A cycle starts with one, and the list of workstreams has one  *)
(* after every mutation that does not bring its own.                       *)
(***************************************************************************)
EXTENDS AutonomousWorker, FiniteSetTheorems, TLAPS

Positions == 1..12

LEMMA PositionsOfList == Len(Workstreams) = 12 /\ DOMAIN Workstreams = Positions
BY DEF Workstreams, Positions

(* A cycle starts with a reconciliation, and every mutation is reconciled   *)
(* by its own workstream or by the next one.                                *)
LEMMA ListReconciles ==
  /\ Workstreams[1] = RECONCILIATION_WORKSTREAM
  /\ \A p \in Positions :
        Workstreams[p] \in BROKER_MUTATION_WORKSTREAMS \ INTERNAL_RECONCILIATION_AFTER =>
            p + 1 \in Positions /\ Workstreams[p + 1] = RECONCILIATION_WORKSTREAM
<1>1. ASSUME NEW p \in Positions
      PROVE  Workstreams[p] \in BROKER_MUTATION_WORKSTREAMS \ INTERNAL_RECONCILIATION_AFTER =>
                p + 1 \in Positions /\ Workstreams[p + 1] = RECONCILIATION_WORKSTREAM
  <2>1. p = 1 \/ p = 2 \/ p = 3 \/ p = 4 \/ p = 5 \/ p = 6 \/ p = 7 \/ p = 8 \/ p = 9 \/ p = 10 \/ p = 11 \/ p = 12
    BY <1>1 DEF Positions
  <2> QED
    BY <2>1 DEF Positions, Workstreams, BROKER_MUTATION_WORKSTREAMS, INTERNAL_RECONCILIATION_AFTER, RECONCILIATION_WORKSTREAM
<1> QED
  BY <1>1 DEF Workstreams, RECONCILIATION_WORKSTREAM

(* The workstream at position p may start: it is a reconciliation, or what  *)
(* is in doubt was looked at and, if it stayed unresolved, is remembered.   *)
Ready(p) ==
    \/ p \in Positions /\ Workstreams[p] = RECONCILIATION_WORKSTREAM
    \/ doubt # "owed" /\ (unresolved \/ doubt = "no")

Passing == {"workstream_started", "workstream_completed"}
Final == {"workstream_failed", "cycle_completed"}

DoubtInvariant ==
    /\ pc = "persist" <=> call.event # "none"
    /\ pc \in {"child", "inner"} \/ call.event \in Passing => pos \in Positions
    /\ call.event = "workstream_started" => Ready(pos)
    /\ call.event = "workstream_completed" => Ready(pos + 1)
    /\ pc = "child" =>
         \/ Script \in BROKER_MUTATION_WORKSTREAMS
         \/ doubt # "owed" /\ (Script = RECONCILIATION_WORKSTREAM \/ unresolved \/ doubt = "no")
    /\ pc = "inner" => doubt # "owed"
    /\ FatalMutationIsReconciled

-----------------------------------------------------------------------------
(* What may be in doubt *)

LEMMA PersistCall ==
  ASSUME NEW event, Persist(event)
  PROVE  pc' = "persist" /\ call'.event = event
BY DEF Persist, NoCall

LEMMA GoCall ==
  ASSUME NEW where, Go(where)
  PROVE  pc' = where /\ call'.event = "none"
BY DEF Go, NoCall

(* A step that waits or records that something ended. *)
LEMMA DoubtRests ==
  ASSUME \/ pc' = "persist" /\ call'.event \in {"preflight_failed", "cycle_started", "cycle_failed", "worker_stopped"}
         \/ pc' \in {"off", "delay"} /\ call'.event = "none"
  PROVE  DoubtInvariant' /\ NoMutationInDoubtStep
BY DEF DoubtInvariant, NoMutationInDoubtStep, FatalMutationIsReconciled, Passing

(* A step that does not concern the workstream. *)
LEMMA DoubtKept ==
  ASSUME DoubtInvariant, UNCHANGED <<pc, pos, doubt, unresolved>>, call'.event = call.event
  PROVE  DoubtInvariant' /\ NoMutationInDoubtStep
BY DEF DoubtInvariant, NoMutationInDoubtStep, FatalMutationIsReconciled, Passing, Ready, Script

LEMMA CatchRests ==
  ASSUME NEW f, Catch(f)
  PROVE  \/ pc' = "persist" /\ call'.event \in {"preflight_failed", "cycle_started", "cycle_failed", "worker_stopped"}
         \/ pc' \in {"off", "delay"} /\ call'.event = "none"
BY DEF Catch, Persist, Go, NoCall

LEMMA FailureRests ==
  ASSUME NEW event, AfterFailure(event)
  PROVE  \/ pc' = "persist" /\ call'.event \in {"preflight_failed", "cycle_started", "cycle_failed", "worker_stopped"}
         \/ pc' \in {"off", "delay"} /\ call'.event = "none"
<1>1. CASE Catch(flags)
  BY <1>1, CatchRests
<1>2. CASE Go("off") \/ Go(IF flags.once THEN "off" ELSE "delay")
  BY <1>2 DEF Go, NoCall
<1> QED
  BY <1>1, <1>2 DEF AfterFailure

(* A workstream starts, is skipped or gives way to a stop. *)
LEMMA DoubtBegins ==
  ASSUME TypeOK, DoubtInvariant, pc = "persist", call.event = "workstream_started", BeginWorkstream
  PROVE  DoubtInvariant' /\ NoMutationInDoubtStep
<1>1. pos \in Positions /\ pos' = pos /\ Ready(pos)
  BY DEF DoubtInvariant, BeginWorkstream, Passing
<1>2. CASE stop
  <2>1. Persist("worker_stopped")
    BY <1>2 DEF BeginWorkstream
  <2> QED
    BY <2>1, PersistCall, DoubtRests
<1>3. CASE ~stop /\ ~Skipped
  <2>1. Spawned("child", Script) /\ unresolved' = unresolved
    BY <1>3 DEF BeginWorkstream
  <2>2. pc' = "child" /\ call'.event = "none"
    BY <2>1, GoCall DEF Spawned
  <2>3. CASE Script \in BROKER_MUTATION_WORKSTREAMS
    <3>1. doubt = "no"
      BY <1>1, <1>3, <2>3 DEF Ready, Skipped, Script, BROKER_MUTATION_WORKSTREAMS, RECONCILIATION_WORKSTREAM
    <3> QED
      BY <1>1, <2>2, <2>3, <3>1 DEF DoubtInvariant, NoMutationInDoubtStep, FatalMutationIsReconciled, Passing, Script
  <2>4. CASE Script \notin BROKER_MUTATION_WORKSTREAMS
    <3>1. doubt' = (IF Script = RECONCILIATION_WORKSTREAM /\ doubt = "owed" THEN "tried" ELSE doubt)
      BY <2>1, <2>4 DEF Spawned
    <3>2. doubt' # "owed" /\ (Script = RECONCILIATION_WORKSTREAM \/ unresolved \/ doubt' = "no")
      BY <1>1, <3>1 DEF Ready, Script
    <3> QED
      BY <1>1, <2>1, <2>2, <2>4, <3>2 DEF DoubtInvariant, NoMutationInDoubtStep, FatalMutationIsReconciled, Passing, Script
  <2> QED
    BY <2>3, <2>4
<1>4. CASE ~stop /\ Skipped /\ Script \in INTERNAL_RECONCILIATION_AFTER
  <2>1. Spawned("inner", RECONCILIATION_WORKSTREAM)
    BY <1>4 DEF BeginWorkstream
  <2>2. pc' = "inner" /\ call'.event = "none"
    BY <2>1, GoCall DEF Spawned
  <2>3. doubt' # "owed"
    BY <2>1 DEF Spawned, RECONCILIATION_WORKSTREAM, BROKER_MUTATION_WORKSTREAMS
  <2> QED
    BY <1>1, <2>2, <2>3 DEF DoubtInvariant, NoMutationInDoubtStep, FatalMutationIsReconciled, Passing
<1>5. CASE ~stop /\ Skipped /\ Script \notin INTERNAL_RECONCILIATION_AFTER
  <2>1. Persist("workstream_completed") /\ UNCHANGED <<unresolved, doubt>>
    BY <1>5 DEF BeginWorkstream
  <2>2. pc' = "persist" /\ call'.event = "workstream_completed"
    BY <2>1, PersistCall
  <2>3. Ready(pos + 1)'
    BY <1>1, <1>5, <2>1 DEF Ready, Skipped, Script, BROKER_MUTATION_WORKSTREAMS, RECONCILIATION_WORKSTREAM
  <2> QED
    BY <1>1, <2>2, <2>3 DEF DoubtInvariant, NoMutationInDoubtStep, FatalMutationIsReconciled, Passing
<1> QED
  BY <1>2, <1>3, <1>4, <1>5

(* What follows the answer of a state command. *)
LEMMA DoubtPersisted ==
  ASSUME TypeOK, DoubtInvariant, pc = "persist", AfterPersist(call.event)
  PROVE  DoubtInvariant' /\ NoMutationInDoubtStep
<1>1. call.event \in Events
  BY DEF TypeOK, DoubtInvariant
<1>2. CASE call.event \in {"preflight_failed", "worker_stopped"}
  <2>1. Go("off")
    BY <1>2 DEF AfterPersist
  <2> QED
    BY <2>1, GoCall, DoubtRests
<1>3. CASE call.event = "cycle_started"
  <2>1. pos' = 1 /\ Persist(IF stop THEN "worker_stopped" ELSE "workstream_started")
    BY <1>3 DEF AfterPersist
  <2>2. pc' = "persist" /\ call'.event = (IF stop THEN "worker_stopped" ELSE "workstream_started")
    BY <2>1, PersistCall
  <2>3. CASE stop
    BY <2>2, <2>3, DoubtRests
  <2>4. CASE ~stop
    <3>1. Ready(pos)'
      BY <2>1, ListReconciles DEF Ready, Positions
    <3> QED
      BY <2>1, <2>2, <2>4, <3>1 DEF DoubtInvariant, NoMutationInDoubtStep, FatalMutationIsReconciled, Positions
  <2> QED
    BY <2>3, <2>4
<1>4. CASE call.event = "workstream_started"
  <2>1. BeginWorkstream
    BY <1>4 DEF AfterPersist
  <2> QED
    BY <1>4, <2>1, DoubtBegins
<1>5. CASE call.event = "workstream_completed"
  <2>1. Loop(pos + 1) /\ UNCHANGED <<unresolved, doubt>>
    BY <1>5 DEF AfterPersist
  <2>2. pos \in Positions /\ pos' = pos + 1 /\ Ready(pos + 1)
    BY <1>5, <2>1 DEF DoubtInvariant, Passing, Loop
  <2>3. CASE stop
    <3>1. Persist("worker_stopped")
      BY <2>1, <2>3 DEF Loop, LastWords
    <3> QED
      BY <3>1, PersistCall, DoubtRests
  <2>4. CASE ~stop /\ pos + 1 > Len(Workstreams)
    <3>1. Persist("cycle_completed")
      BY <2>1, <2>4 DEF Loop
    <3>2. pc' = "persist" /\ call'.event = "cycle_completed"
      BY <3>1, PersistCall
    <3>3. doubt' # "owed"
      BY <2>1, <2>2, <2>4, PositionsOfList DEF Ready, Positions
    <3> QED
      BY <3>2, <3>3 DEF DoubtInvariant, NoMutationInDoubtStep, FatalMutationIsReconciled, Passing
  <2>5. CASE ~stop /\ ~(pos + 1 > Len(Workstreams))
    <3>1. Persist("workstream_started")
      BY <2>1, <2>5 DEF Loop
    <3>2. pc' = "persist" /\ call'.event = "workstream_started"
      BY <3>1, PersistCall
    <3>3. pos' \in Positions /\ Ready(pos)'
      BY <2>1, <2>2, <2>5, PositionsOfList DEF Ready, Positions
    <3> QED
      BY <3>2, <3>3 DEF DoubtInvariant, NoMutationInDoubtStep, FatalMutationIsReconciled
  <2> QED
    BY <2>3, <2>4, <2>5
<1>6. CASE call.event = "workstream_failed"
  <2>1. Persist("cycle_failed")
    BY <1>6 DEF AfterPersist
  <2> QED
    BY <2>1, PersistCall, DoubtRests
<1>7. CASE call.event = "cycle_failed"
  <2>1. Go("off") \/ Go("delay") \/ Catch([flags EXCEPT !.terminal = TRUE])
    BY <1>7 DEF AfterPersist
  <2> QED
    BY <2>1, GoCall, CatchRests, DoubtRests
<1>8. CASE call.event = "cycle_completed"
  <2>1. Persist("worker_stopped") \/ Go("delay")
    BY <1>8 DEF AfterPersist
  <2> QED
    BY <2>1, PersistCall, GoCall, DoubtRests
<1> QED
  BY <1>1, <1>2, <1>3, <1>4, <1>5, <1>6, <1>7, <1>8 DEF Events, Terminal

(* Leave stops, fails or completes the workstream. *)
LEMMA LeaveCall ==
  ASSUME NEW r, Leave(r)
  PROVE  /\ pc' = "persist"
         /\ call'.event \in {"worker_stopped", "workstream_failed", "workstream_completed"}
         /\ call'.event = "workstream_failed" => workstreamResultIsFatal(r)
BY DEF Leave, Persist, NoCall

(* The workstream is over: what is in doubt is known for the next one. *)
LEMMA DoubtLeaves ==
  ASSUME NEW r, Leave(r), pos' = pos, pos \in Positions, Ready(pos + 1)',
         workstreamResultIsFatal(r) => doubt' # "owed"
  PROVE  DoubtInvariant' /\ NoMutationInDoubtStep
<1>1. CASE call'.event = "worker_stopped"
  BY <1>1, LeaveCall, DoubtRests
<1>2. CASE call'.event \in {"workstream_failed", "workstream_completed"}
  BY <1>2, LeaveCall DEF DoubtInvariant, NoMutationInDoubtStep, FatalMutationIsReconciled, Passing
<1> QED
  BY <1>1, <1>2, LeaveCall

LEMMA DoubtChild ==
  ASSUME TypeOK, DoubtInvariant, ChildEnds
  PROVE  DoubtInvariant' /\ NoMutationInDoubtStep
<1>1. pc = "child" /\ pos \in Positions /\ pos' = pos
  BY DEF ChildEnds, DoubtInvariant
<1>2. PICK output \in Outputs(Script) :
        LET r == runWorkstream(Script, output)
        IN IF ReconcileBeforeLeaving(r)
           THEN Spawned("inner", RECONCILIATION_WORKSTREAM)
           ELSE unresolved' = UnresolvedAfter(r) /\ Leave(r) /\ Resolved(Script, r)
  BY DEF ChildEnds
<1> DEFINE r == runWorkstream(Script, output)
<1>3. CASE ReconcileBeforeLeaving(r)
  <2>1. Spawned("inner", RECONCILIATION_WORKSTREAM)
    BY <1>2, <1>3
  <2>2. pc' = "inner" /\ call'.event = "none"
    BY <2>1, GoCall DEF Spawned
  <2>3. doubt' # "owed"
    BY <2>1 DEF Spawned, RECONCILIATION_WORKSTREAM, BROKER_MUTATION_WORKSTREAMS
  <2> QED
    BY <1>1, <2>2, <2>3 DEF DoubtInvariant, NoMutationInDoubtStep, FatalMutationIsReconciled, Passing
<1>4. CASE ~ReconcileBeforeLeaving(r)
  <2>1. unresolved' = UnresolvedAfter(r) /\ Leave(r) /\ Resolved(Script, r)
    BY <1>2, <1>4
  <2>2. CASE Script \in BROKER_MUTATION_WORKSTREAMS
    <3>1. Script \notin INTERNAL_RECONCILIATION_AFTER
      BY <1>4, <2>2 DEF ReconcileBeforeLeaving
    <3>2. pos + 1 \in Positions /\ Workstreams[pos + 1] = RECONCILIATION_WORKSTREAM
      BY <1>1, <2>2, <3>1, ListReconciles DEF Script
    <3>3. ~workstreamResultIsFatal(r)
      BY <1>1, <1>4, <2>2, <3>2, PositionsOfList DEF ReconcileBeforeLeaving, Positions
    <3>4. Ready(pos + 1)'
      BY <1>1, <3>2 DEF Ready
    <3> QED
      BY <1>1, <2>1, <3>3, <3>4, DoubtLeaves
  <2>3. CASE Script = RECONCILIATION_WORKSTREAM
    <3>1. doubt # "owed"
      BY <1>1, <2>3 DEF DoubtInvariant, RECONCILIATION_WORKSTREAM, BROKER_MUTATION_WORKSTREAMS
    <3>2. /\ unresolved' = ~reconciliationResolved(r)
          /\ doubt' = (IF reconciliationResolved(r) THEN "no" ELSE doubt)
      BY <2>1, <2>3 DEF UnresolvedAfter, Resolved
    <3>3. doubt' # "owed" /\ Ready(pos + 1)'
      BY <3>1, <3>2 DEF Ready
    <3> QED
      BY <1>1, <2>1, <3>3, DoubtLeaves
  <2>4. CASE Script \notin BROKER_MUTATION_WORKSTREAMS /\ Script # RECONCILIATION_WORKSTREAM
    <3>1. doubt # "owed" /\ (unresolved \/ doubt = "no")
      BY <1>1, <2>4 DEF DoubtInvariant
    <3>2. (unresolved' <=> unresolved) /\ doubt' = doubt
      BY <2>1, <2>4 DEF UnresolvedAfter, Resolved
    <3>3. doubt' # "owed" /\ Ready(pos + 1)'
      BY <3>1, <3>2 DEF Ready
    <3> QED
      BY <1>1, <2>1, <3>3, DoubtLeaves
  <2> QED
    BY <2>2, <2>3, <2>4
<1> QED
  BY <1>3, <1>4

LEMMA DoubtInner ==
  ASSUME TypeOK, DoubtInvariant, InnerEnds
  PROVE  DoubtInvariant' /\ NoMutationInDoubtStep
<1>1. pc = "inner" /\ pos \in Positions /\ pos' = pos /\ doubt # "owed"
  BY DEF InnerEnds, DoubtInvariant
<1>2. PICK r, merged :
        Leave(merged) /\ Resolved(RECONCILIATION_WORKSTREAM, r) /\ unresolved' = ~reconciliationResolved(r)
  BY DEF InnerEnds
<1>3. doubt' # "owed" /\ Ready(pos + 1)'
  BY <1>1, <1>2 DEF Resolved, Ready
<1> QED
  BY <1>1, <1>2, <1>3, DoubtLeaves

LEMMA DoubtNext ==
  ASSUME TypeOK, DoubtInvariant, [Next]_vars
  PROVE  DoubtInvariant' /\ NoMutationInDoubtStep
<1>1. CASE Start \/ NextCycle
  BY <1>1, PersistCall, DoubtRests DEF Start, NextCycle, BeginCycle, LastWords
<1>2. CASE PersistSucceeds
  BY <1>2, DoubtPersisted DEF PersistSucceeds
<1>3. CASE PersistRefused
  BY <1>3, FailureRests, DoubtRests DEF PersistRefused
<1>4. CASE PersistFails
  <2>1. CASE AfterFailure(call.event)
    BY <2>1, FailureRests, DoubtRests
  <2>2. CASE call'.event = call.event /\ UNCHANGED <<pc, process, doubt>>
    BY <2>2, DoubtKept DEF process
  <2>3. TypeOK /\ (AfterFailure(call.event) \/ (call'.event = call.event /\ UNCHANGED <<pc, process, doubt>>))
    BY <1>4 DEF PersistFails, TypeOK
  <2> QED
    BY <2>1, <2>2, <2>3
<1>5. CASE ChildEnds
  BY <1>5, DoubtChild
<1>6. CASE InnerEnds
  BY <1>6, DoubtInner
<1>7. CASE StopWorker \/ (\E c \in Cycles : Age(c)) \/ UNCHANGED vars
  BY <1>7, DoubtKept DEF StopWorker, Age, process, vars
<1>8. CASE Crash
  BY <1>8, GoCall, DoubtRests DEF Crash
<1> QED
  BY <1>1, <1>2, <1>3, <1>4, <1>5, <1>6, <1>7, <1>8 DEF Next, Process

-----------------------------------------------------------------------------
(* Types *)

Calls == [event : Events \cup {"none"}, attempt : 0..(MaxAttempts - 1), inserted : BOOLEAN]
Flags == [started : BOOLEAN, terminal : BOOLEAN, once : BOOLEAN, ending : BOOLEAN]

(* The variables that the process keeps for itself. *)
OwnTypes ==
    /\ pc \in {"off", "persist", "child", "inner", "delay"}
    /\ pos \in 0..13 /\ call \in Calls /\ unresolved \in BOOLEAN
    /\ doubt \in {"no", "owed", "tried"}
    /\ DOMAIN result = {"class", "code"} /\ result.code \in Codes
    /\ flags \in Flags
IsResult(r) == DOMAIN r = {"class", "code"} /\ r.code \in Codes

LEMMA NewCall ==
  ASSUME WorkerBounds, NEW event \in Events \cup {"none"}
  PROVE  [NoCall EXCEPT !.event = event] \in Calls /\ NoCall \in Calls
<1>1. 0 \in 0..(MaxAttempts - 1)
  BY DEF WorkerBounds
<1>2. NoCall \in Calls
  BY <1>1, Zenon DEF NoCall, Calls
<1>3. [NoCall EXCEPT !.event = event] \in Calls
  BY <1>2 DEF Calls
<1> QED
  BY <1>2, <1>3

LEMMA FlagSet ==
  ASSUME NEW f \in Flags, NEW b \in BOOLEAN
  PROVE  /\ [f EXCEPT !.ending = b] \in Flags
         /\ [f EXCEPT !.terminal = b] \in Flags
         /\ [f EXCEPT !.started = b] \in Flags
         /\ [f EXCEPT !.once = b] \in Flags
BY DEF Flags

LEMMA PersistTypes ==
  ASSUME WorkerBounds, NEW event \in Events \cup {"none"}, Persist(event)
  PROVE  pc' = "persist" /\ call' \in Calls
BY NewCall DEF Persist

LEMMA GoTypes ==
  ASSUME WorkerBounds, NEW where, Go(where)
  PROVE  pc' = where /\ call' \in Calls
BY NewCall DEF Go, Events

LEMMA CatchTypes ==
  ASSUME WorkerBounds, NEW f \in Flags, Catch(f)
  PROVE  pc' \in {"off", "persist", "child", "inner", "delay"} /\ call' \in Calls /\ flags' \in Flags
<1>1. CASE stop
  BY <1>1, PersistTypes, FlagSet DEF Catch, Events, Terminal
<1>2. CASE ~stop /\ f.started /\ ~f.terminal
  BY <1>2, PersistTypes, FlagSet DEF Catch, Events, Terminal
<1>3. CASE ~stop /\ ~(f.started /\ ~f.terminal)
  <2>1. Go(IF f.once THEN "off" ELSE "delay") /\ flags' = f
    BY <1>3 DEF Catch
  <2> QED
    BY <2>1, GoTypes
<1> QED
  BY <1>1, <1>2, <1>3

(* persistState throws: only the call, the flags and the stage change. *)
LEMMA FailureTypes ==
  ASSUME WorkerBounds, OwnTypes, NEW event, AfterFailure(event)
  PROVE  OwnTypes'
<1>1. flags \in Flags
  BY DEF OwnTypes
<1>2. pc' \in {"off", "persist", "child", "inner", "delay"} /\ call' \in Calls /\ flags' \in Flags
  <2>1. CASE Catch(flags)
    BY <1>1, <2>1, CatchTypes
  <2>2. CASE Go("off") /\ UNCHANGED flags
    BY <1>1, <2>2, GoTypes
  <2>3. CASE Go(IF flags.once THEN "off" ELSE "delay") /\ flags' = [flags EXCEPT !.ending = FALSE]
    BY <1>1, <2>3, GoTypes, FlagSet
  <2> QED
    BY <2>1, <2>2, <2>3 DEF AfterFailure
<1>3. UNCHANGED <<pos, unresolved, result, doubt>>
  BY DEF AfterFailure
<1> QED
  BY <1>2, <1>3 DEF OwnTypes

LEMMA BeginTypes ==
  ASSUME WorkerBounds, OwnTypes, BeginWorkstream
  PROVE  OwnTypes'
<1>1. pos' = pos /\ flags' = flags /\ unresolved' = unresolved
  BY DEF BeginWorkstream
<1>2. /\ pc' \in {"persist", "child", "inner"} /\ call' \in Calls
      /\ doubt' \in {"no", "owed", "tried"} /\ IsResult(result')
  <2>1. CASE stop
    <3>1. Persist("worker_stopped") /\ UNCHANGED <<result, doubt>>
      BY <2>1 DEF BeginWorkstream
    <3> QED
      BY <3>1, PersistTypes DEF OwnTypes, Events, Terminal, IsResult
  <2>2. CASE ~stop /\ ~Skipped
    <3>1. Spawned("child", Script) /\ UNCHANGED result
      BY <2>2 DEF BeginWorkstream
    <3> QED
      BY <3>1, GoTypes DEF OwnTypes, Spawned, IsResult
  <2>3. CASE ~stop /\ Skipped /\ Script \in INTERNAL_RECONCILIATION_AFTER
    <3>1. Spawned("inner", RECONCILIATION_WORKSTREAM) /\ result' = Res("blocked", "benign")
      BY <2>3 DEF BeginWorkstream
    <3> QED
      BY <3>1, GoTypes DEF OwnTypes, Spawned, IsResult, Res, Codes
  <2>4. CASE ~stop /\ Skipped /\ Script \notin INTERNAL_RECONCILIATION_AFTER
    <3>1. Persist("workstream_completed") /\ UNCHANGED <<result, doubt>>
      BY <2>4 DEF BeginWorkstream
    <3> QED
      BY <3>1, PersistTypes DEF OwnTypes, Events, Terminal, IsResult
  <2> QED
    BY <2>1, <2>2, <2>3, <2>4
<1> QED
  BY <1>1, <1>2 DEF OwnTypes, IsResult

LEMMA PersistedTypes ==
  ASSUME WorkerBounds, OwnTypes, DoubtInvariant, TypeOK, pc = "persist", AfterPersist(call.event)
  PROVE  OwnTypes'
<1>1. call.event \in Events /\ flags \in Flags
  BY DEF TypeOK, DoubtInvariant, Flags
<1>2. CASE call.event \in {"preflight_failed", "worker_stopped"}
  <2>1. Go("off") /\ UNCHANGED <<process, doubt>>
    BY <1>2 DEF AfterPersist
  <2> QED
    BY <2>1, GoTypes DEF OwnTypes, process
<1>3. CASE call.event = "cycle_started"
  <2> DEFINE next == IF stop THEN "worker_stopped" ELSE "workstream_started"
  <2>1. /\ pos' = 1 /\ Persist(next) /\ flags' = [flags EXCEPT !.started = TRUE, !.ending = stop]
        /\ UNCHANGED <<unresolved, result, doubt>>
    BY <1>3 DEF AfterPersist
  <2>2. next \in Events \cup {"none"} /\ stop \in BOOLEAN
    BY DEF Events, Terminal, TypeOK
  <2> HIDE DEF next
  <2>3. pc' = "persist" /\ call' \in Calls
    BY <2>1, <2>2, PersistTypes
  <2>4. flags' = [[flags EXCEPT !.started = TRUE] EXCEPT !.ending = stop]
    BY <1>1, <2>1 DEF Flags
  <2>5. flags' \in Flags
    BY <1>1, <2>2, <2>4, FlagSet
  <2> QED
    BY <2>1, <2>3, <2>5 DEF OwnTypes
<1>4. CASE call.event = "workstream_started"
  <2>1. BeginWorkstream
    BY <1>4 DEF AfterPersist
  <2> QED
    BY <2>1, BeginTypes
<1>5. CASE call.event = "workstream_completed"
  <2>1. Loop(pos + 1) /\ UNCHANGED <<unresolved, result, doubt>>
    BY <1>5 DEF AfterPersist
  <2>2. pos' \in 0..13
    BY <1>5, <2>1 DEF DoubtInvariant, Passing, Positions, Loop
  <2>3. pc' = "persist" /\ call' \in Calls /\ flags' \in Flags
    <3>1. \/ Persist("worker_stopped") /\ flags' = [flags EXCEPT !.ending = TRUE]
          \/ (Persist("cycle_completed") \/ Persist("workstream_started")) /\ UNCHANGED flags
      BY <2>1 DEF Loop, LastWords
    <3> QED
      BY <1>1, <3>1, PersistTypes, FlagSet DEF Events, Terminal
  <2> QED
    BY <2>1, <2>2, <2>3 DEF OwnTypes
<1>6. CASE call.event = "workstream_failed"
  <2>1. Persist("cycle_failed") /\ UNCHANGED <<process, doubt>>
    BY <1>6 DEF AfterPersist
  <2> QED
    BY <2>1, PersistTypes DEF OwnTypes, process, Events, Terminal
<1>7. CASE call.event = "cycle_failed" /\ flags.ending
  <2> DEFINE where == IF flags.once THEN "off" ELSE "delay"
  <2>1. /\ Go(where) /\ flags' = [flags EXCEPT !.terminal = TRUE, !.ending = FALSE]
        /\ UNCHANGED <<pos, unresolved, result, doubt>>
    BY <1>7 DEF AfterPersist
  <2>2. flags' = [[flags EXCEPT !.terminal = TRUE] EXCEPT !.ending = FALSE]
    BY <1>1, <2>1 DEF Flags
  <2>3. flags' \in Flags
    BY <1>1, <2>2, FlagSet
  <2>4. pc' = where /\ call' \in Calls
    BY <2>1, GoTypes
  <2> QED
    BY <2>1, <2>3, <2>4 DEF OwnTypes
<1>8. CASE call.event = "cycle_failed" /\ ~flags.ending
  <2>1. /\ \/ Go("off") /\ UNCHANGED flags
           \/ Catch([flags EXCEPT !.terminal = TRUE])
        /\ UNCHANGED <<pos, unresolved, result, doubt>>
    BY <1>8 DEF AfterPersist
  <2>2. [flags EXCEPT !.terminal = TRUE] \in Flags
    BY <1>1, FlagSet
  <2>3. pc' \in {"off", "persist", "child", "inner", "delay"} /\ call' \in Calls /\ flags' \in Flags
    BY <1>1, <2>1, <2>2, GoTypes, CatchTypes
  <2> QED
    BY <2>1, <2>3 DEF OwnTypes
<1>9. CASE call.event = "cycle_completed"
  <2>1. /\ flags' = [flags EXCEPT !.terminal = TRUE] /\ (Persist("worker_stopped") \/ Go("delay"))
        /\ UNCHANGED <<pos, unresolved, result, doubt>>
    BY <1>9 DEF AfterPersist
  <2>2. pc' \in {"persist", "delay"} /\ call' \in Calls
    BY <2>1, PersistTypes, GoTypes DEF Events, Terminal
  <2>3. flags' \in Flags
    BY <1>1, <2>1, FlagSet
  <2> QED
    BY <2>1, <2>2, <2>3 DEF OwnTypes
<1> QED
  BY <1>1, <1>2, <1>3, <1>4, <1>5, <1>6, <1>7, <1>8, <1>9 DEF Events, Terminal

(* Whatever a command prints is classified as a result. *)
LEMMA ClassifiedIsResult ==
  ASSUME NEW script, NEW output \in Outputs(script)
  PROVE  IsResult(runWorkstream(script, output))
<1>1. IsResult(Res("lane_error", "none"))
  BY DEF IsResult, Res, Codes
<1>2. IsResult(Classification[output])
  BY DEF Outputs, Classification, IsResult, Res, Codes
<1> QED
  BY <1>1, <1>2 DEF runWorkstream, classify

LEMMA LeaveTypes ==
  ASSUME WorkerBounds, NEW r, IsResult(r), Leave(r)
  PROVE  pc' = "persist" /\ call' \in Calls /\ IsResult(result')
<1>1. IsResult(NoResult)
  BY DEF IsResult, NoResult, Res, Codes
<1>2. \E event \in Events : Persist(event)
  BY DEF Leave, Events, Terminal
<1> QED
  BY <1>1, <1>2, PersistTypes DEF Leave

LEMMA ChildTypes ==
  ASSUME WorkerBounds, OwnTypes, ChildEnds
  PROVE  OwnTypes'
<1>1. PICK output \in Outputs(Script) :
        LET r == runWorkstream(Script, output)
        IN IF ReconcileBeforeLeaving(r)
           THEN /\ result' = r /\ Spawned("inner", RECONCILIATION_WORKSTREAM)
                /\ UNCHANGED unresolved
           ELSE /\ unresolved' = UnresolvedAfter(r)
                /\ Leave(r) /\ Resolved(Script, r)
  BY DEF ChildEnds
<1> DEFINE r == runWorkstream(Script, output)
<1>2. IsResult(r) /\ UNCHANGED <<pos, flags>>
  BY ClassifiedIsResult DEF ChildEnds
<1> HIDE DEF r
<1>3. CASE ReconcileBeforeLeaving(r)
  <2>1. result' = r /\ Spawned("inner", RECONCILIATION_WORKSTREAM) /\ UNCHANGED unresolved
    BY <1>1, <1>3 DEF r
  <2>2. pc' = "inner" /\ call' \in Calls
    BY <2>1, GoTypes DEF Spawned
  <2> QED
    BY <1>2, <2>1, <2>2 DEF OwnTypes, Spawned, IsResult
<1>4. CASE ~ReconcileBeforeLeaving(r)
  <2>1. unresolved' = UnresolvedAfter(r) /\ Leave(r) /\ Resolved(Script, r)
    BY <1>1, <1>4 DEF r
  <2>2. unresolved' \in BOOLEAN
    BY <2>1, Zenon DEF UnresolvedAfter, OwnTypes, reconciliationResolved
  <2>3. pc' = "persist" /\ call' \in Calls /\ IsResult(result')
    BY <1>2, <2>1, LeaveTypes
  <2> QED
    BY <1>2, <2>1, <2>2, <2>3 DEF OwnTypes, Resolved, IsResult
<1> QED
  BY <1>3, <1>4

LEMMA InnerTypes ==
  ASSUME WorkerBounds, OwnTypes, InnerEnds
  PROVE  OwnTypes'
<1>1. PICK output \in Outputs(RECONCILIATION_WORKSTREAM) :
         LET r == runWorkstream(RECONCILIATION_WORKSTREAM, output)
             merged == CASE Skipped -> result
                         [] ~Skipped /\ workstreamResultIsFatal(r) -> r
                         [] ~Skipped /\ ~workstreamResultIsFatal(r)
                            /\ ~reconciliationResolved(r)
                            /\ ~workstreamResultIsFatal(result) -> Res("blocked", "benign")
                         [] OTHER -> result
         IN /\ Leave(merged) /\ Resolved(RECONCILIATION_WORKSTREAM, r)
            /\ unresolved' = ~reconciliationResolved(r)
  BY DEF InnerEnds
<1> DEFINE r == runWorkstream(RECONCILIATION_WORKSTREAM, output)
<1>2. IsResult(r) /\ IsResult(result) /\ IsResult(Res("blocked", "benign")) /\ UNCHANGED <<pos, flags>>
  BY ClassifiedIsResult DEF InnerEnds, OwnTypes, IsResult, Res, Codes
<1>3. Resolved(RECONCILIATION_WORKSTREAM, r) /\ unresolved' = ~reconciliationResolved(r)
  BY <1>1
<1>4. Leave(r) \/ Leave(result) \/ Leave(Res("blocked", "benign"))
  BY <1>1
<1> HIDE DEF r
<1>5. pc' = "persist" /\ call' \in Calls /\ IsResult(result')
  BY <1>2, <1>4, LeaveTypes
<1>6. unresolved' \in BOOLEAN
  BY <1>3, Zenon
<1> QED
  BY <1>2, <1>3, <1>5, <1>6 DEF OwnTypes, Resolved, IsResult

(* What every step leaves of the tables and of the stop request. *)
RowTypes ==
    /\ last \in [Cycles -> Events \cup {"none"}]
    /\ aged \subseteq Cycles /\ used \in 0..MaxCycles
    /\ cycle \in 0..MaxCycles /\ stop \in BOOLEAN /\ faults \in 0..MaxFaults

LEMMA AllTypes == TypeOK <=> RowTypes /\ OwnTypes
BY PositionsOfList DEF TypeOK, RowTypes, OwnTypes, Calls, Flags

LEMMA AllTypesNext == RowTypes' /\ OwnTypes' => TypeOK'
BY PositionsOfList DEF TypeOK, RowTypes, OwnTypes, Calls, Flags

LEMMA RecordedTypes ==
  ASSUME RowTypes, NEW event \in Events
  PROVE  Recorded(cycle, event) \in [Cycles -> Events \cup {"none"}]
BY DEF RowTypes, Recorded, Events, Terminal

LEMMA CycleTypes ==
  ASSUME WorkerBounds, RowTypes, OwnTypes, NEW event \in Events, NEW once \in BOOLEAN, BeginCycle(event, once)
  PROVE  /\ used' \in 0..MaxCycles /\ cycle' \in 0..MaxCycles
         /\ doubt' = doubt => OwnTypes'
<1>1. NoFlags \in Flags
  BY Zenon DEF NoFlags, Flags
<1>2. flags' \in Flags
  BY <1>1, FlagSet DEF BeginCycle
<1>3. pc' = "persist" /\ call' \in Calls
  BY PersistTypes DEF BeginCycle
<1>4. used' \in 0..MaxCycles /\ cycle' \in 0..MaxCycles
  BY DEF BeginCycle, RowTypes, WorkerBounds
<1>5. pos' = 0 /\ unresolved' \in BOOLEAN
  BY DEF BeginCycle
<1>6. IsResult(result')
  BY DEF BeginCycle, IsResult, NoResult, Res, Codes
<1> QED
  BY <1>2, <1>3, <1>4, <1>5, <1>6 DEF OwnTypes, IsResult

LEMMA WorkerTypes ==
  ASSUME WorkerBounds, TypeOK, DoubtInvariant, Next
  PROVE  TypeOK'
<1>1. RowTypes /\ OwnTypes /\ (pc = "persist" => call.event \in Events)
  BY AllTypes DEF DoubtInvariant, TypeOK
<1>2. CASE Start
  <2>1. PICK event \in {"cycle_started", "preflight_failed"}, once \in BOOLEAN : BeginCycle(event, once)
    BY <1>2 DEF Start
  <2>2. UNCHANGED <<last, aged, faults, doubt>> /\ stop' \in BOOLEAN
    BY <1>2 DEF Start
  <2>3. event \in Events
    BY DEF Events
  <2>4. used' \in 0..MaxCycles /\ cycle' \in 0..MaxCycles /\ OwnTypes'
    BY <1>1, <2>1, <2>2, <2>3, CycleTypes
  <2> QED
    BY <1>1, <2>2, <2>4, AllTypesNext DEF RowTypes, OwnTypes
<1>3. CASE NextCycle
  <2>1. UNCHANGED <<last, aged, faults, doubt, stop>>
    BY <1>3 DEF NextCycle
  <2>2. CASE stop
    <3>1. LastWords /\ UNCHANGED <<used, cycle, pos, unresolved, result>>
      BY <1>3, <2>2 DEF NextCycle
    <3>2. pc' = "persist" /\ call' \in Calls /\ flags' \in Flags
      BY <1>1, <3>1, PersistTypes, FlagSet DEF LastWords, OwnTypes, Events, Terminal
    <3> QED
      BY <1>1, <2>1, <3>1, <3>2, AllTypesNext DEF RowTypes, OwnTypes
  <2>3. CASE ~stop
    <3>1. BeginCycle("cycle_started", flags.once)
      BY <1>3, <2>3 DEF NextCycle
    <3>2. "cycle_started" \in Events /\ flags.once \in BOOLEAN
      BY <1>1 DEF Events, OwnTypes, Flags
    <3>3. used' \in 0..MaxCycles /\ cycle' \in 0..MaxCycles /\ OwnTypes'
      BY <1>1, <2>1, <3>1, <3>2, CycleTypes
    <3> QED
      BY <1>1, <2>1, <3>3, AllTypesNext DEF RowTypes, OwnTypes
  <2> QED
    BY <2>2, <2>3
<1>4. CASE PersistSucceeds
  <2>1. OwnTypes'
    BY <1>1, <1>4, PersistedTypes DEF PersistSucceeds
  <2>2. UNCHANGED <<aged, used, stop, faults, cycle>>
    BY <1>1, <1>4 DEF PersistSucceeds, AfterPersist, process, BeginWorkstream, Events, Terminal
  <2>3. last' \in [Cycles -> Events \cup {"none"}]
    BY <1>1, <1>4, RecordedTypes DEF PersistSucceeds, RowTypes
  <2> QED
    BY <1>1, <2>1, <2>2, <2>3, AllTypesNext DEF RowTypes, OwnTypes
<1>5. CASE PersistRefused
  <2>1. OwnTypes'
    BY <1>1, <1>5, FailureTypes DEF PersistRefused
  <2>2. UNCHANGED <<last, aged, used, stop, faults, cycle>>
    BY <1>5 DEF PersistRefused, AfterFailure
  <2> QED
    BY <1>1, <2>1, <2>2, AllTypesNext DEF RowTypes, OwnTypes
<1>6. CASE PersistFails
  <2>1. last' \in [Cycles -> Events \cup {"none"}]
    BY <1>1, <1>6, RecordedTypes DEF PersistFails, RowTypes
  <2>2. faults' \in 0..MaxFaults /\ UNCHANGED <<aged, used, stop>>
    BY <1>1, <1>6 DEF PersistFails, RowTypes, WorkerBounds
  <2>3. cycle' = cycle /\ OwnTypes'
    <3>1. CASE AfterFailure(call.event)
      BY <1>1, <3>1, FailureTypes DEF AfterFailure
    <3>2. CASE ~AfterFailure(call.event)
      <4>1. PICK b \in BOOLEAN : call' = [call EXCEPT !.attempt = @ + 1, !.inserted = b]
        <5>1. PICK committed \in BOOLEAN :
                call' = [call EXCEPT !.attempt = @ + 1, !.inserted = @ \/ (committed /\ ~call.inserted)]
          BY <1>6, <3>2 DEF PersistFails
        <5>2. (call.inserted \/ (committed /\ ~call.inserted)) \in BOOLEAN
          BY Zenon
        <5> QED
          BY <5>1, <5>2
      <4>2. CanRetry /\ UNCHANGED <<pc, process, doubt>>
        BY <1>6, <3>2 DEF PersistFails
      <4>3. call \in Calls /\ call.attempt + 1 \in 0..(MaxAttempts - 1)
        BY <1>1, <4>2 DEF OwnTypes, Calls, CanRetry, WorkerBounds
      <4>4. [call EXCEPT !.attempt = call.attempt + 1] \in Calls
        BY <4>3 DEF Calls
      <4>5. call' = [[call EXCEPT !.attempt = call.attempt + 1] EXCEPT !.inserted = b]
        BY <4>1, <4>3 DEF Calls
      <4>6. call' \in Calls
        BY <4>4, <4>5 DEF Calls
      <4> QED
        BY <1>1, <4>2, <4>6 DEF OwnTypes, process
    <3> QED
      BY <3>1, <3>2
  <2> QED
    BY <1>1, <2>1, <2>2, <2>3, AllTypesNext DEF RowTypes, OwnTypes
<1>7. CASE ChildEnds
  <2>1. OwnTypes' /\ UNCHANGED <<last, aged, used, cycle, stop, faults>>
    BY <1>1, <1>7, ChildTypes DEF ChildEnds
  <2> QED
    BY <1>1, <2>1, AllTypesNext DEF RowTypes, OwnTypes
<1>8. CASE InnerEnds
  <2>1. OwnTypes' /\ UNCHANGED <<last, aged, used, cycle, stop, faults>>
    BY <1>1, <1>8, InnerTypes DEF InnerEnds
  <2> QED
    BY <1>1, <2>1, AllTypesNext DEF RowTypes, OwnTypes
<1>9. CASE StopWorker \/ (\E c \in Cycles : Age(c))
  <2>1. OwnTypes' /\ UNCHANGED <<last, used, cycle, faults>>
    BY <1>1, <1>9 DEF StopWorker, Age, OwnTypes, process
  <2>2. aged' \subseteq Cycles /\ stop' \in BOOLEAN
    BY <1>1, <1>9 DEF StopWorker, Age, RowTypes
  <2> QED
    BY <1>1, <2>1, <2>2, AllTypesNext DEF RowTypes, OwnTypes
<1>10. CASE Crash
  <2>1. pc' = "off" /\ call' \in Calls
    BY <1>10, GoTypes DEF Crash
  <2>2. flags' \in Flags /\ unresolved' \in BOOLEAN /\ stop' \in BOOLEAN
    BY <1>10, Zenon DEF Crash, NoFlags, Flags
  <2>3. IsResult(result')
    BY <1>10 DEF Crash, IsResult, NoResult, Res, Codes
  <2>4. pos' = 0 /\ cycle' = 0 /\ faults' \in 0..MaxFaults /\ UNCHANGED <<aged, used, doubt>>
    BY <1>1, <1>10 DEF Crash, RowTypes, WorkerBounds
  <2>5. last' \in [Cycles -> Events \cup {"none"}]
    BY <1>1, <1>10, RecordedTypes DEF Crash, RowTypes
  <2>6. 0 \in 0..MaxCycles
    BY DEF WorkerBounds
  <2> QED
    BY <1>1, <2>1, <2>2, <2>3, <2>4, <2>5, <2>6, AllTypesNext DEF RowTypes, OwnTypes, IsResult
<1> QED
  BY <1>2, <1>3, <1>4, <1>5, <1>6, <1>7, <1>8, <1>9, <1>10 DEF Next, Process

-----------------------------------------------------------------------------
(* Cycles without a terminal event *)

(* OneOpenCycle without the counting. *)
OpenAlone == \A c, d \in Cycles \ aged : Open(c) /\ Open(d) => c = d

LEMMA OpenCount == OpenAlone => OneOpenCycle
<1> SUFFICES ASSUME OpenAlone PROVE Cardinality({c \in Cycles \ aged : Open(c)}) <= 1
  BY DEF OneOpenCycle
<1> DEFINE S == {c \in Cycles \ aged : Open(c)}
<1>1. CASE S = {}
  BY <1>1, FS_EmptySet
<1>2. CASE S # {}
  <2>1. PICK x : S = {x}
    BY <1>2 DEF OpenAlone
  <2> QED
    BY <2>1, FS_Singleton
<1> QED
  BY <1>1, <1>2

(* The insert of an event: a cycle that starts closes the open one, and no  *)
(* other event opens a cycle.                                               *)
LEMMA RecordedOpensOne ==
  ASSUME WorkerBounds, TypeOK, OpenAlone, call.event \in Events, aged' = aged,
         allowedTransition(last[cycle], call.event), last' = Recorded(cycle, call.event)
  PROVE  OpenAlone'
<1> DEFINE orphans == {d \in Cycles : d # cycle /\ Open(d) /\ d \notin aged}
<1>1. CASE call.event = "cycle_started"
  <2>1. ASSUME NEW d \in Cycles \ aged, d # cycle PROVE ~Open(d)'
    <3>1. CASE d \in orphans
      <4>1. orphans = {d}
        BY <2>1, <3>1 DEF OpenAlone
      <4>2. d <= d
        BY DEF Cycles, WorkerBounds
      <4>3. (CHOOSE x \in orphans : \A e \in orphans : e <= x) = d
        BY <4>1, <4>2
      <4>4. last'[d] = "cycle_failed"
        BY <1>1, <2>1, <4>1, <4>3 DEF Recorded
      <4> QED
        BY <4>4 DEF Open, Terminal
    <3>2. CASE d \notin orphans
      <4>1. orphans # {} => (CHOOSE x \in orphans : \A e \in orphans : e <= x) # d
        <5> SUFFICES ASSUME orphans # {} PROVE (CHOOSE x \in orphans : \A e \in orphans : e <= x) # d
          OBVIOUS
        <5>1. PICK o : orphans = {o} /\ o \in Cycles
          BY DEF OpenAlone
        <5>2. o <= o
          BY <5>1 DEF Cycles, WorkerBounds
        <5>3. (CHOOSE x \in orphans : \A e \in orphans : e <= x) = o
          BY <5>1, <5>2
        <5> QED
          BY <3>2, <5>1, <5>3
      <4>2. last'[d] = last[d]
        BY <2>1, <4>1 DEF Recorded
      <4> QED
        BY <2>1, <3>2, <4>2 DEF Open
    <3> QED
      BY <3>1, <3>2
  <2> QED
    BY <2>1 DEF OpenAlone
<1>2. CASE call.event # "cycle_started"
  <2>1. \A d \in Cycles : last'[d] = IF d = cycle THEN call.event ELSE last[d]
    BY <1>2 DEF Recorded
  <2>2. ASSUME NEW d \in Cycles, Open(d)' PROVE Open(d)
    <3>1. CASE d # cycle
      BY <2>1, <2>2, <3>1 DEF Open
    <3>2. CASE d = cycle
      BY <1>2, <2>1, <2>2, <3>2 DEF Open, allowedTransition, Terminal, Events
    <3> QED
      BY <3>1, <3>2
  <2> QED
    BY <2>2 DEF OpenAlone
<1> QED
  BY <1>1, <1>2

LEMMA OpenNext ==
  ASSUME WorkerBounds, TypeOK, DoubtInvariant, OpenAlone, [Next]_vars
  PROVE  OpenAlone'
<1>1. pc = "persist" => call.event \in Events
  BY DEF TypeOK, DoubtInvariant
<1>2. CASE last' = last /\ aged \subseteq aged'
  BY <1>2 DEF OpenAlone, Open
<1>3. CASE /\ pc = "persist" /\ aged' = aged /\ allowedTransition(last[cycle], call.event)
           /\ last' = Recorded(cycle, call.event)
  BY <1>1, <1>3, RecordedOpensOne
<1>4. CASE Start \/ NextCycle \/ PersistRefused \/ ChildEnds \/ InnerEnds \/ StopWorker
           \/ (\E c \in Cycles : Age(c)) \/ UNCHANGED vars
  BY <1>2, <1>4 DEF Start, NextCycle, PersistRefused, ChildEnds, InnerEnds, StopWorker, Age, vars
<1>5. CASE PersistSucceeds \/ PersistFails \/ Crash
  BY <1>2, <1>3, <1>5 DEF PersistSucceeds, PersistFails, Crash
<1> QED
  BY <1>4, <1>5 DEF Next, Process

-----------------------------------------------------------------------------
WorkerInvariant == TypeOK /\ DoubtInvariant /\ OpenAlone

LEMMA WorkerInit == WorkerBounds /\ Init => WorkerInvariant
<1> SUFFICES ASSUME WorkerBounds, Init PROVE WorkerInvariant
  OBVIOUS
<1>1. call \in Calls /\ call.event = "none"
  BY NewCall DEF Init, Events, NoCall
<1>2. flags \in Flags /\ unresolved \in BOOLEAN /\ stop \in BOOLEAN
  BY Zenon DEF Init, NoFlags, Flags
<1>3. IsResult(result)
  BY DEF Init, IsResult, NoResult, Res, Codes
<1>4. RowTypes
  BY <1>2 DEF Init, RowTypes, WorkerBounds
<1>5. OwnTypes
  BY <1>1, <1>2, <1>3 DEF Init, OwnTypes, IsResult
<1>6. DoubtInvariant
  BY <1>1 DEF Init, DoubtInvariant, Passing, FatalMutationIsReconciled
<1>7. OpenAlone
  BY DEF Init, OpenAlone, Open
<1> QED
  BY <1>4, <1>5, <1>6, <1>7, AllTypes DEF WorkerInvariant

LEMMA WorkerNext ==
  WorkerBounds /\ WorkerInvariant /\ [Next]_vars => WorkerInvariant' /\ NoMutationInDoubtStep
<1> SUFFICES ASSUME WorkerBounds, WorkerInvariant, [Next]_vars PROVE WorkerInvariant' /\ NoMutationInDoubtStep
  OBVIOUS
<1>1. TypeOK'
  <2>1. CASE Next
    BY <2>1, WorkerTypes DEF WorkerInvariant
  <2>2. CASE UNCHANGED vars
    BY <2>2 DEF WorkerInvariant, vars, TypeOK
  <2> QED
    BY <2>1, <2>2
<1> QED
  BY <1>1, DoubtNext, OpenNext DEF WorkerInvariant

LEMMA WorkerFacts == WorkerInvariant => TypeOK /\ OneOpenCycle /\ FatalMutationIsReconciled
BY OpenCount DEF WorkerInvariant, DoubtInvariant

(* OneOpenCycle: however often the process dies and whatever state commands *)
(* are lost, the event table has at most one recent cycle without an end.   *)
(* FatalMutationIsReconciled: a workstream is reported failed and a cycle   *)
(* completed only after a reconciliation that followed the last command     *)
(* that may have sent an order.                                             *)
THEOREM EveryCycleIsAccounted ==
  ASSUME WorkerBounds
  PROVE  Spec => [](TypeOK /\ OneOpenCycle /\ FatalMutationIsReconciled)
BY WorkerInit, WorkerNext, WorkerFacts, PTL DEF Spec

(* NoMutationInDoubtStep: no command that may send an order is started      *)
(* while the effect of an earlier one, of this cycle, an earlier cycle or a *)
(* dead process, is unresolved.                                             *)
THEOREM MutationsAreCertain ==
  ASSUME WorkerBounds
  PROVE  Spec => [][NoMutationInDoubtStep]_vars
BY WorkerInit, WorkerNext, PTL DEF Spec
=============================================================================
