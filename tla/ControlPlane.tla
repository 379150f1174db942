---------------------------- MODULE ControlPlane ----------------------------
(***************************************************************************)
(* Components that share no state, checked in one run: a behaviour chooses *)
(* one of them, takes its steps and leaves the variables of the others     *)
(* unused. Here: how commands are started, kept alive and recorded.        *)
(***************************************************************************)
EXTENDS Naturals, Sequences, FiniteSets, TLAPS

VARIABLES
    part,           \* the component this behaviour is about
    cmdMode, cmdPhase, cmdLease, cmdView, cmdHb, cmdOp, cmdAborted, cmdHbFailure,
    cmdTerminated, cmdReason, cmdOutcome, cmdStarts, cmdLapsed,
    pathFrom, pathReviewType, pathStatus, pathPc, pathSearch,
    wkLast, wkAged, wkUsed, wkPc, wkCycle, wkPos, wkCall, wkUnresolved, wkResult,
    wkFlags, wkStop, wkFaults, wkDoubt

cmdVars == <<cmdMode, cmdPhase, cmdLease, cmdView, cmdHb, cmdOp, cmdAborted,
             cmdHbFailure, cmdTerminated, cmdReason, cmdOutcome, cmdStarts,
             cmdLapsed>>
pathVars == <<pathFrom, pathReviewType, pathStatus, pathPc, pathSearch>>
wkVars == <<wkLast, wkAged, wkUsed, wkPc, wkCycle, wkPos, wkCall, wkUnresolved,
            wkResult, wkFlags, wkStop, wkFaults, wkDoubt>>
vars == <<part, cmdVars, pathVars, wkVars>>

(* One scheduled command with its heartbeat loop.                           *)
Run == INSTANCE SchedulerRun_proofs WITH
    TTL <- 6, Interval <- 2, RetryEvery <- 2, Safety <- 1, MaxRenewal <- 3,
    mode <- cmdMode, phase <- cmdPhase, lease <- cmdLease, view <- cmdView, hb <- cmdHb,
    op <- cmdOp, aborted <- cmdAborted, hbFailure <- cmdHbFailure,
    terminated <- cmdTerminated, reason <- cmdReason, outcome <- cmdOutcome,
    starts <- cmdStarts, lapsed <- cmdLapsed

(* resolveLifecycleTransitionPath on every input.                           *)
Search == INSTANCE TradeLifecycleSearch WITH
    from <- pathFrom, reviewType <- pathReviewType, status <- pathStatus, pc <- pathPc,
    search <- pathSearch

(* The autonomous worker process and its event table.                       *)
Worker == INSTANCE AutonomousWorker_proofs WITH
    MaxCycles <- 2, MaxAttempts <- 2, MaxFaults <- 2, last <- wkLast, aged <- wkAged,
    used <- wkUsed, pc <- wkPc, cycle <- wkCycle, pos <- wkPos, call <- wkCall,
    unresolved <- wkUnresolved, result <- wkResult, flags <- wkFlags, stop <- wkStop,
    faults <- wkFaults, doubt <- wkDoubt

Unused == "unused"

cmdUnused ==
    /\ cmdMode = Unused /\ cmdPhase = Unused /\ cmdLease = Unused
    /\ cmdView = Unused /\ cmdHb = Unused /\ cmdOp = Unused
    /\ cmdAborted = Unused /\ cmdHbFailure = Unused /\ cmdTerminated = Unused
    /\ cmdReason = Unused /\ cmdOutcome = Unused /\ cmdStarts = Unused
    /\ cmdLapsed = Unused

pathUnused ==
    /\ pathFrom = Unused /\ pathReviewType = Unused /\ pathStatus = Unused
    /\ pathPc = Unused /\ pathSearch = Unused

wkUnused ==
    /\ wkLast = Unused /\ wkAged = Unused /\ wkUsed = Unused
    /\ wkPc = Unused /\ wkCycle = Unused /\ wkPos = Unused
    /\ wkCall = Unused /\ wkUnresolved = Unused /\ wkResult = Unused
    /\ wkFlags = Unused /\ wkStop = Unused /\ wkFaults = Unused
    /\ wkDoubt = Unused

Init ==
    \/ /\ part = "run" /\ Run!Init
       /\ pathUnused /\ wkUnused
    \/ /\ part = "search" /\ Search!Init
       /\ cmdUnused /\ wkUnused
    \/ /\ part = "worker" /\ Worker!Init
       /\ cmdUnused /\ pathUnused

RunStep ==
    /\ part = "run" /\ Run!Next
    /\ UNCHANGED <<part, pathVars, wkVars>>

SearchStep ==
    /\ part = "search" /\ Search!Next
    /\ UNCHANGED <<part, cmdVars, wkVars>>

WorkerStep ==
    /\ part = "worker" /\ Worker!Next
    /\ UNCHANGED <<part, cmdVars, pathVars>>

Next == RunStep \/ SearchStep \/ WorkerStep

(* The event loops of the command and of the worker process run what is     *)
(* ready, transactions and operations end (they have deadlines); starts,    *)
(* crashes and faults owe nothing.                                          *)
Fairness ==
    /\ WF_vars(part = "run" /\ Run!Tick /\ UNCHANGED <<part, pathVars, wkVars>>)
    /\ WF_vars(part = "run" /\ (Run!Acquire \/ Run!AcquireFails) /\ UNCHANGED <<part, pathVars, wkVars>>)
    /\ WF_vars(part = "run" /\ Run!StartRenewal /\ UNCHANGED <<part, pathVars, wkVars>>)
    /\ WF_vars(part = "run" /\ (Run!RenewalSucceeds \/ Run!RenewalRejected \/ Run!RenewalErrs) /\ UNCHANGED <<part, pathVars, wkVars>>)
    /\ WF_vars(part = "run" /\ Run!StopWaiting /\ UNCHANGED <<part, pathVars, wkVars>>)
    /\ WF_vars(part = "run" /\ Run!OperationSettles /\ UNCHANGED <<part, pathVars, wkVars>>)
    /\ WF_vars(part = "run" /\ Run!HeartbeatJoined /\ UNCHANGED <<part, pathVars, wkVars>>)
    /\ WF_vars(part = "run" /\ Run!Release /\ UNCHANGED <<part, pathVars, wkVars>>)
    /\ WF_vars(part = "run" /\ Run!Settle /\ UNCHANGED <<part, pathVars, wkVars>>)
    /\ WF_vars(part = "run" /\ Run!UnfencedOperation /\ UNCHANGED <<part, pathVars, wkVars>>)
    /\ WF_vars(part = "search" /\ Search!Next /\ UNCHANGED <<part, cmdVars, wkVars>>)
    /\ WF_vars(part = "worker" /\ Worker!Process /\ UNCHANGED <<part, cmdVars, pathVars>>)

Spec == Init /\ [][Next]_vars /\ Fairness

(* Lengths of time in seconds, scaled down. *)
ASSUME LeaseTiming == Run!Durations
ASSUME WorkerSize == Worker!WorkerBounds

-----------------------------------------------------------------------------
(* Properties *)

(* The tables and processes of the chosen component have the shape that its *)
(* module gives them.                                                       *)
TypeOK ==
    /\ part = "run" => Run!TypeOK
    /\ part = "search" => Search!TypeOK
    /\ part = "worker" => Worker!TypeOK

(* A command that reports a value held its lease without a gap from         *)
(* acquisition to release.                                                  *)
ValueMeansNoLapse == part = "run" => Run!ValueMeansNoLapse

(* The heartbeat loop never sleeps through the expiry of the lease while the*)
(* operation runs.                                                          *)
NeverSleepsPastExpiry == part = "run" => Run!NeverSleepsPastExpiry

(* A command that was terminated from outside neither reports a value nor   *)
(* leaves release_reason completed.                                         *)
TerminatedIsNotCompleted == part = "run" => Run!TerminatedIsNotCompleted

(* The shadow fallback never repeats an operation that already started.     *)
OperationStartsOnce == part = "run" => Run!OperationStartsOnce

(* resolveLifecycleTransitionPath returns table edges from the current state*)
(* to the one the broker status stands for, and no shorter path exists.     *)
PathIsShortest == part = "search" => Search!PathIsShortest

(* NO_VALID_LIFECYCLE_PATH is thrown only when the table has no path.       *)
ThrowsOnlyIfUnreachable == part = "search" => Search!ThrowsOnlyIfUnreachable

(* The trigger of migration 006 accepts every row that a resolved path makes*)
(* a reconciliation insert.                                                 *)
TriggerAcceptsPath == part = "search" => Search!TriggerAcceptsPath

(* Every order that may be at the broker can be brought to a terminal broker*)
(* status.                                                                  *)
TerminalStatusHasPath == part = "search" => Search!TerminalStatusHasPath

(* A fill or a terminal status never leads through a cancelling state that  *)
(* the path does not start in.                                              *)
FillInventsNoCancellation == part = "search" => Search!FillInventsNoCancellation

(* A restarted or continued worker leaves at most one cycle of the last six *)
(* hours without a terminal event, whatever state commands were lost.       *)
OneOpenCycle == part = "worker" => Worker!OneOpenCycle

(* When a workstream is reported failed or a cycle completed, a             *)
(* reconciliation has started after the last command that may have sent an  *)
(* order.                                                                   *)
FatalMutationIsReconciled == part = "worker" => Worker!FatalMutationIsReconciled

(* What a scheduled command reports is covered by its lease, however        *)
(* heartbeats, termination and the operation interleave; and the event table*)
(* of the worker tells of every cycle how it ended, with no order-sending   *)
(* command left without a reconciliation.                                   *)
CommandsAreAccounted ==
    /\ ValueMeansNoLapse
    /\ NeverSleepsPastExpiry
    /\ TerminatedIsNotCompleted
    /\ OperationStartsOnce
    /\ OneOpenCycle
    /\ FatalMutationIsReconciled

(* The lifecycle path of every broker answer exists when it must, is the    *)
(* shortest, passes the trigger and tells nothing that did not happen.      *)
PathsAreSound ==
    /\ PathIsShortest
    /\ ThrowsOnlyIfUnreachable
    /\ TriggerAcceptsPath
    /\ TerminalStatusHasPath
    /\ FillInventsNoCancellation

(* No command that may send an order starts while the effect of an earlier  *)
(* one, of this cycle, an earlier cycle or a dead process, is unresolved.   *)
NoMutationInDoubt == [][part = "worker" => Worker!NoMutationInDoubtStep]_vars

(* Every scheduled command ends, whatever fails (runPostgresScheduledCommand*)
(* waits for its heartbeat loop).                                           *)
CommandEnds == (part = "run") ~> (part = "run" /\ Run!Ended)

(* The breadth-first search ends on every input, in spite of the cycle      *)
(* through the cancelling states.                                           *)
SearchEnds == (part = "search") ~> (part = "search" /\ Search!Ended)

(* A worker that is told to stop ends, also when its state commands fail.   *)
StopEnds == (part = "worker" /\ Worker!Stopping) ~> (part = "worker" /\ Worker!Stopped)

(* Commands, searches and a worker that is told to stop come to an end.     *)
EverythingEnds == CommandEnds /\ SearchEnds /\ StopEnds

-----------------------------------------------------------------------------
(* Proofs.  SchedulerRun_proofs and AutonomousWorker_proofs show what a step *)
(* of one component preserves, whatever its constants; the other components  *)
(* leave its variables alone.                                                *)

AllAccounted ==
    /\ part = "run" => Run!CommandInvariant
    /\ part = "worker" => Worker!WorkerInvariant

LEMMA AccountedInit == Init => AllAccounted
<1> SUFFICES ASSUME Init PROVE AllAccounted
  OBVIOUS
<1>1. CASE part = "run"
  <2>1. Run!Init
    BY <1>1 DEF Init
  <2> QED
    BY <1>1, <2>1, LeaseTiming, Run!CommandInit DEF AllAccounted
<1>2. CASE part = "worker"
  <2>1. Worker!Init
    BY <1>2 DEF Init
  <2> QED
    BY <1>2, <2>1, WorkerSize, Worker!WorkerInit DEF AllAccounted
<1> QED
  BY <1>1, <1>2 DEF AllAccounted

LEMMA AccountedNext ==
  AllAccounted /\ [Next]_vars => AllAccounted' /\ (part = "worker" => Worker!NoMutationInDoubtStep)
<1> SUFFICES ASSUME AllAccounted, [Next]_vars
             PROVE  AllAccounted' /\ (part = "worker" => Worker!NoMutationInDoubtStep)
  OBVIOUS
<1>1. part' = part
  BY DEF Next, RunStep, SearchStep, WorkerStep, vars
<1>2. CASE part = "run"
  <2>1. Run!Next \/ UNCHANGED cmdVars
    BY <1>2 DEF Next, RunStep, SearchStep, WorkerStep, vars
  <2>2. [Run!Next]_(Run!vars)
    BY <2>1 DEF Run!vars, cmdVars
  <2>3. Run!CommandInvariant'
    BY <1>2, <2>2, LeaseTiming, Run!CommandNext DEF AllAccounted
  <2> QED
    BY <1>1, <1>2, <2>3 DEF AllAccounted
<1>3. CASE part = "worker"
  <2>1. Worker!Next \/ UNCHANGED wkVars
    BY <1>3 DEF Next, RunStep, SearchStep, WorkerStep, vars
  <2>2. [Worker!Next]_(Worker!vars)
    BY <2>1 DEF Worker!vars, wkVars
  <2>3. Worker!WorkerInvariant' /\ Worker!NoMutationInDoubtStep
    BY <1>3, <2>2, WorkerSize, Worker!WorkerNext DEF AllAccounted
  <2> QED
    BY <1>1, <1>3, <2>3 DEF AllAccounted
<1>4. CASE part # "run" /\ part # "worker"
  BY <1>1, <1>4 DEF AllAccounted
<1> QED
  BY <1>2, <1>3, <1>4

(* CommandsAreAccounted: what a scheduled command reports is covered by its  *)
(* lease, however heartbeats, termination, crashes and the operation         *)
(* interleave, and the event table of the worker tells of every cycle how it *)
(* ended.                                                                    *)
THEOREM EveryCommandIsAccounted == Spec => []CommandsAreAccounted
<1>1. AllAccounted => CommandsAreAccounted
  <2> SUFFICES ASSUME AllAccounted PROVE CommandsAreAccounted
    OBVIOUS
  <2>1. part = "run" => /\ Run!ValueMeansNoLapse /\ Run!NeverSleepsPastExpiry
                        /\ Run!TerminatedIsNotCompleted /\ Run!OperationStartsOnce
    BY Run!CommandFacts DEF AllAccounted
  <2>2. part = "worker" => Worker!OneOpenCycle /\ Worker!FatalMutationIsReconciled
    BY Worker!WorkerFacts DEF AllAccounted
  <2> QED
    BY <2>1, <2>2 DEF CommandsAreAccounted, ValueMeansNoLapse, NeverSleepsPastExpiry, TerminatedIsNotCompleted,
                      OperationStartsOnce, OneOpenCycle, FatalMutationIsReconciled
<1> QED
  BY <1>1, AccountedInit, AccountedNext, PTL DEF Spec

(* NoMutationInDoubt: no command that may send an order starts while the     *)
(* effect of an earlier one is unresolved, across cycles, restarts and lost  *)
(* state commands.                                                           *)
THEOREM NoOrderOnTopOfDoubt == Spec => NoMutationInDoubt
<1>1. AllAccounted /\ [Next]_vars => [part = "worker" => Worker!NoMutationInDoubtStep]_vars
  BY AccountedNext
<1> QED
  BY <1>1, AccountedInit, AccountedNext, PTL DEF Spec, NoMutationInDoubt
=============================================================================
