---------------------------- MODULE SchedulerRun ----------------------------
(***************************************************************************)
(* One scheduled command: runPostgresScheduledCommand around               *)
(* runWithPostgresSchedulerLease.  The command acquires the lease, runs    *)
(* its operation and the heartbeat loop side by side, stops the loop when  *)
(* the operation settles, releases the lease and reports one outcome.      *)
(*                                                                         *)
(* Time is relative: "left" is what remains of the lease by the database   *)
(* clock, "view" what the process computes from the last expiry it was     *)
(* told, and hb.t what remains of the timer or of the transaction the loop *)
(* is waiting for.  Timers are assumed to fire on time; MaxRenewal bounds  *)
(* one renewal, including pool and lock waits.  A rival owner may take the *)
(* row whenever it is free or expired.                                     *)
(***************************************************************************)
EXTENDS Naturals, FiniteSetsExt

CONSTANTS
    TTL,            \* leaseDurationMs
    Interval,       \* heartbeatIntervalMs
    RetryEvery,     \* HEARTBEAT_RETRY_INTERVAL_MS
    Safety,         \* HEARTBEAT_EXPIRY_SAFETY_MS
    MaxRenewal      \* longest renewal transaction

(* What validateInput demands of the two durations. *)
HeartbeatBounds == /\ TTL \in Nat /\ Interval \in Nat
                   /\ 0 < Interval /\ Interval < TTL
LoopConstants == /\ RetryEvery \in Nat \ {0} /\ Safety \in Nat \ {0}
                 /\ MaxRenewal \in Nat \ {0}

VARIABLES
    mode,           \* "authority", or "shadow" (shadowComparison without authority)
    phase,          \* where the command is
    lease,          \* owner and remaining time of the database row
    view,           \* remaining time by leaseExpiresAtMs
    hb,             \* the heartbeat loop: stage, timer
    op,             \* the operation; "late" if it returned after the fence was lost
    aborted,        \* operationAbort.signal.aborted
    hbFailure,      \* heartbeatFailure is set
    terminated,     \* externalSignal is aborted: terminationFailure is, or will be, set
    reason,         \* release_reason written into the row, or "none"
    outcome,        \* what the command reports
    starts,         \* history: how often input.operation was called
    lapsed          \* history: the lease expired or changed hands since acquired

vars == <<mode, phase, lease, view, hb, op, aborted, hbFailure, terminated,
          reason, outcome, starts, lapsed>>

Errors == {"SCHEDULER_LEASE_HELD", "SCHEDULER_ACQUIRE_FAILED", "HEARTBEAT",
           "SCHEDULER_RELEASE_REJECTED", "SCHEDULER_RELEASE_FAILED",
           "SCHEDULER_COMMAND_TERMINATED", "OPERATION"}

TypeOK ==
    /\ mode \in {"authority", "shadow"}
    /\ phase \in {"acquiring", "running", "stopping", "releasing", "settling",
                  "unfenced", "done"}
    /\ lease \in [owner : {"none", "me", "rival"}, left : 0..TTL]
    /\ view \in 0..TTL
    /\ hb \in [at : {"interval", "renewing", "retry", "returned"},
               t : 0..Max({Interval, RetryEvery, MaxRenewal})]
    /\ op \in {"none", "running", "ok", "late", "failed"}
    /\ aborted \in BOOLEAN /\ hbFailure \in BOOLEAN /\ terminated \in BOOLEAN
    /\ reason \in {"none", "completed", "failed", "fence_lost"}
    /\ outcome \in {"pending", "value", "shadowValue", "crashed"} \cup Errors
    /\ starts \in 0..2
    /\ lapsed \in BOOLEAN

Mine == lease.owner = "me" /\ lease.left > 0

Init ==
    /\ mode \in {"authority", "shadow"}
    /\ phase = "acquiring"
    /\ lease \in [owner : {"none", "rival"}, left : {0, TTL}]
    /\ view = 0
    /\ hb = [at |-> "returned", t |-> 0]
    /\ op = "none"
    /\ aborted = FALSE /\ hbFailure = FALSE
    /\ terminated \in BOOLEAN          \* externalSignal may be aborted already
    /\ reason = "none"
    /\ outcome = "pending"
    /\ starts = 0
    /\ lapsed = FALSE

-----------------------------------------------------------------------------
(* acquisition *)

Acquire ==
    /\ phase = "acquiring"
    /\ lease.owner = "none" \/ lease.left = 0
    /\ lease' = [owner |-> "me", left |-> TTL]
    /\ view' = TTL
    /\ phase' = "running"
    /\ hb' = [at |-> "interval", t |-> Interval]
    /\ aborted' = terminated
    /\ IF terminated                    \* assertControlPlaneFenceActive throws
       THEN op' = "failed" /\ UNCHANGED starts
       ELSE op' = "running" /\ starts' = starts + 1
    /\ UNCHANGED <<mode, hbFailure, terminated, reason, outcome, lapsed>>

(* The row is held, or the transaction fails; a failed COMMIT may have left *)
(* the row held by a run that does not know it.                             *)
AcquireFails ==
    /\ phase = "acquiring"
    /\ \/ /\ lease.owner = "rival" /\ lease.left > 0
          /\ outcome' = "SCHEDULER_LEASE_HELD" /\ UNCHANGED lease
       \/ outcome' = "SCHEDULER_ACQUIRE_FAILED" /\ UNCHANGED lease
       \/ /\ lease.owner = "none" \/ lease.left = 0
          /\ outcome' = "SCHEDULER_ACQUIRE_FAILED"
          /\ lease' = [owner |-> "me", left |-> TTL]
    /\ phase' = "settling"
    /\ UNCHANGED <<mode, view, hb, op, aborted, hbFailure, terminated,
                   reason, starts, lapsed>>

-----------------------------------------------------------------------------
(* the heartbeat loop *)

LoopStopped == phase # "running"        \* heartbeatStop.signal.aborted

LoopReturns == hb' = [at |-> "returned", t |-> 0]

FailHeartbeat == hbFailure' = TRUE /\ aborted' = TRUE /\ LoopReturns

(* A defect: the retry ignores how much of the lease is left. *)
RetryDelay_Unbounded == RetryEvery

RetryDelay == Min({RetryEvery, IF view > Safety THEN view - Safety ELSE 0})

(* The interval or the retry delay is over. *)
StartRenewal ==
    /\ ~LoopStopped
    /\ hb.at \in {"interval", "retry"} /\ hb.t = 0
    /\ hb' = [at |-> "renewing", t |-> MaxRenewal]
    /\ UNCHANGED <<mode, phase, lease, view, op, aborted, hbFailure, terminated,
                   reason, outcome, starts, lapsed>>

(* A defect: a renewal adds to the remaining time instead of replacing it. *)
RenewalSucceeds_Accumulates ==
    /\ hb.at = "renewing"
    /\ Mine
    /\ lease' = [lease EXCEPT !.left = @ + TTL]
    /\ view' = view + TTL
    /\ IF LoopStopped THEN LoopReturns ELSE hb' = [at |-> "interval", t |-> Interval]
    /\ UNCHANGED <<mode, phase, op, aborted, hbFailure, terminated, reason,
                   outcome, starts, lapsed>>

RenewalSucceeds ==
    /\ hb.at = "renewing"
    /\ Mine
    /\ lease' = [lease EXCEPT !.left = TTL]
    /\ view' = TTL
    /\ IF LoopStopped THEN LoopReturns ELSE hb' = [at |-> "interval", t |-> Interval]
    /\ UNCHANGED <<mode, phase, op, aborted, hbFailure, terminated, reason,
                   outcome, starts, lapsed>>

RenewalRejected ==
    /\ hb.at = "renewing"
    /\ ~Mine
    /\ FailHeartbeat
    /\ UNCHANGED <<mode, phase, lease, view, op, terminated, reason, outcome,
                   starts, lapsed>>

(* The transaction fails on the client; it may have been committed.  Only a *)
(* transient error is retried, and only while the safety margin lasts.      *)
RenewalErrs ==
    /\ hb.at = "renewing"
    /\ \/ UNCHANGED lease
       \/ Mine /\ lease' = [lease EXCEPT !.left = TTL]
    /\ \/ FailHeartbeat                 \* not transient
       \/ /\ RetryDelay = 0
          /\ FailHeartbeat
       \/ /\ RetryDelay > 0
          /\ IF LoopStopped THEN LoopReturns ELSE hb' = [at |-> "retry", t |-> RetryDelay]
          /\ UNCHANGED <<aborted, hbFailure>>
    /\ UNCHANGED <<mode, phase, view, op, terminated, reason, outcome, starts, lapsed>>

(* A defect: a retry delay is not ended by heartbeatStop. *)
StopWaiting_DeafRetry ==
    /\ LoopStopped
    /\ hb.at = "interval"
    /\ LoopReturns
    /\ UNCHANGED <<mode, phase, lease, view, op, aborted, hbFailure, terminated,
                   reason, outcome, starts, lapsed>>

(* heartbeatStop ends a wait at once. *)
StopWaiting ==
    /\ LoopStopped
    /\ hb.at \in {"interval", "retry"}
    /\ LoopReturns
    /\ UNCHANGED <<mode, phase, lease, view, op, aborted, hbFailure, terminated,
                   reason, outcome, starts, lapsed>>

-----------------------------------------------------------------------------
(* the operation, external termination and the release *)

(* A result counts only if the fence is still active (the second            *)
(* assertControlPlaneFenceActive); until then it counts as completed only   *)
(* for the fallback of the shadow mode.                                     *)
OperationSettles ==
    /\ phase = "running"
    /\ \/ op = "running" /\ op' = "failed"
       \/ op = "running" /\ op' = IF aborted THEN "late" ELSE "ok"
       \/ op = "failed" /\ UNCHANGED op
    /\ phase' = "stopping"
    /\ UNCHANGED <<mode, lease, view, hb, aborted, hbFailure, terminated, reason,
                   outcome, starts, lapsed>>

Terminate ==
    /\ phase \in {"running", "stopping"}
    /\ ~terminated
    /\ terminated' = TRUE
    /\ aborted' = TRUE
    /\ UNCHANGED <<mode, phase, lease, view, hb, op, hbFailure, reason, outcome,
                   starts, lapsed>>

HeartbeatJoined ==
    /\ phase = "stopping"
    /\ hb.at = "returned"
    /\ phase' = "releasing"
    /\ UNCHANGED <<mode, lease, view, hb, op, aborted, hbFailure, terminated,
                   reason, outcome, starts, lapsed>>

(* A defect: an externally terminated run whose operation returned counts   *)
(* as a success.                                                            *)
OperationError_IgnoresTermination == op \in {"late", "failed"}

OperationError == op \in {"late", "failed"} \/ terminated

ReleaseReason == IF hbFailure THEN "fence_lost"
                 ELSE IF OperationError THEN "failed" ELSE "completed"

(* What is thrown, in this order, or the value. *)
Report(releaseFailure) ==
    IF hbFailure THEN "HEARTBEAT"
    ELSE IF releaseFailure # "none" THEN releaseFailure
    ELSE IF terminated THEN "SCHEDULER_COMMAND_TERMINATED"
    ELSE IF OperationError THEN "OPERATION" ELSE "value"

WriteRelease == lease' = [owner |-> "none", left |-> 0] /\ reason' = ReleaseReason

(* A defect: the release does not test the fence. *)
Release_Unfenced ==
    /\ phase = "releasing"
    /\ WriteRelease /\ outcome' = Report("none")
    /\ phase' = "settling"
    /\ UNCHANGED <<mode, view, hb, op, aborted, hbFailure, terminated, starts, lapsed>>

Release ==
    /\ phase = "releasing"
    /\ \/ Mine /\ WriteRelease /\ outcome' = Report("none")
       \/ ~Mine /\ outcome' = Report("SCHEDULER_RELEASE_REJECTED") /\ UNCHANGED <<lease, reason>>
       \/ /\ outcome' = Report("SCHEDULER_RELEASE_FAILED")     \* may have been committed
          /\ UNCHANGED <<lease, reason>> \/ (Mine /\ WriteRelease)
    /\ phase' = "settling"
    /\ UNCHANGED <<mode, view, hb, op, aborted, hbFailure, terminated, starts, lapsed>>

(* A defect: every failed shadow run is repeated without a lease. *)
Settle_AlwaysFallsBack ==
    /\ phase = "settling"
    /\ \/ /\ mode = "authority" \/ outcome = "value"
          /\ phase' = "done"
          /\ UNCHANGED <<op, outcome, starts>>
       \/ /\ mode = "shadow" /\ outcome # "value"
          /\ phase' = "unfenced" /\ op' = "running" /\ starts' = starts + 1
          /\ UNCHANGED outcome
    /\ UNCHANGED <<mode, lease, view, hb, aborted, hbFailure, terminated, reason, lapsed>>

(* runPostgresScheduledCommand: an error is final under authority and when  *)
(* the operation started without completing; in shadow mode a completed     *)
(* operation keeps its result and one that never started runs unfenced.     *)
Settle ==
    /\ phase = "settling"
    /\ \/ /\ mode = "authority" \/ outcome = "value" \/ (starts > 0 /\ op = "failed")
          /\ phase' = "done"
          /\ UNCHANGED <<op, outcome, starts>>
       \/ /\ mode = "shadow" /\ outcome # "value" /\ starts > 0 /\ op \in {"ok", "late"}
          /\ phase' = "done" /\ outcome' = "shadowValue"
          /\ UNCHANGED <<op, starts>>
       \/ /\ mode = "shadow" /\ outcome # "value" /\ starts = 0
          /\ phase' = "unfenced" /\ op' = "running" /\ starts' = starts + 1
          /\ UNCHANGED outcome
    /\ UNCHANGED <<mode, lease, view, hb, aborted, hbFailure, terminated, reason, lapsed>>

UnfencedOperation ==
    /\ phase = "unfenced"
    /\ phase' = "done"
    /\ \/ op' = "ok" /\ outcome' = "shadowValue"
       \/ op' = "failed" /\ outcome' = "OPERATION"
    /\ UNCHANGED <<mode, lease, view, hb, aborted, hbFailure, terminated, reason,
                   starts, lapsed>>

-----------------------------------------------------------------------------
(* time, the rival and crashes *)

TimerDue == hb.at # "returned" /\ hb.t = 0

Tick ==
    /\ ~TimerDue
    /\ lease.left > 0 \/ view > 0 \/ hb.t > 0
    /\ lease' = [lease EXCEPT !.left = IF @ > 0 THEN @ - 1 ELSE 0]
    /\ view' = IF view > 0 THEN view - 1 ELSE 0
    /\ hb' = [hb EXCEPT !.t = IF @ > 0 THEN @ - 1 ELSE 0]
    /\ lapsed' = (lapsed \/ (lease.owner = "me" /\ lease'.left = 0))
    /\ UNCHANGED <<mode, phase, op, aborted, hbFailure, terminated, reason,
                   outcome, starts>>

RivalAcquires ==
    /\ phase # "acquiring"
    /\ lease.owner # "rival"
    /\ lease.owner = "none" \/ lease.left = 0
    /\ lease' = [owner |-> "rival", left |-> TTL]
    /\ UNCHANGED <<mode, phase, view, hb, op, aborted, hbFailure, terminated,
                   reason, outcome, starts, lapsed>>

(* The process is killed. *)
Crash ==
    /\ phase # "done"
    /\ phase' = "done" /\ outcome' = "crashed"
    /\ LoopReturns
    /\ UNCHANGED <<mode, lease, view, op, aborted, hbFailure, terminated, reason,
                   starts, lapsed>>

CommandStep ==
    \/ Acquire \/ AcquireFails
    \/ StartRenewal \/ RenewalSucceeds \/ RenewalRejected \/ RenewalErrs \/ StopWaiting
    \/ OperationSettles \/ HeartbeatJoined \/ Release \/ Settle \/ UnfencedOperation

Next == CommandStep \/ Crash \/ Terminate \/ RivalAcquires \/ Tick

(* The event loop runs what is ready, transactions end (they have           *)
(* timeouts), and the operation settles (commands run under deadlines).     *)
Fairness ==
    /\ WF_vars(Tick)
    /\ WF_vars(Acquire \/ AcquireFails)
    /\ WF_vars(StartRenewal)
    /\ WF_vars(RenewalSucceeds \/ RenewalRejected \/ RenewalErrs)
    /\ WF_vars(StopWaiting)
    /\ WF_vars(OperationSettles)
    /\ WF_vars(HeartbeatJoined) /\ WF_vars(Release)
    /\ WF_vars(Settle) /\ WF_vars(UnfencedOperation)

Spec == Init /\ [][Next]_vars /\ Fairness

-----------------------------------------------------------------------------
(* Properties *)

(* A command that reports a value under lease authority held the lease      *)
(* without a gap from acquisition to release: neither an expiry nor another *)
(* owner can hide between two heartbeats or before the release.             *)
ValueMeansNoLapse == outcome = "value" => ~lapsed

(* The loop never sleeps through the expiry: once the lease has lapsed      *)
(* under a running operation, the operation was told to stop, or a renewal  *)
(* that will tell it is in flight (heartbeatLoop's retry bound).            *)
NeverSleepsPastExpiry ==
    phase = "running" /\ op = "running" /\ lapsed /\ ~aborted => hb.at = "renewing"

(* A command that was terminated from outside neither reports a value nor   *)
(* leaves release_reason 'completed' in the row, even when its operation    *)
(* returned normally in the race with the signal.                           *)
TerminatedIsNotCompleted ==
    terminated /\ phase = "done" => outcome # "value" /\ reason # "completed"

(* Shadow mode never repeats an operation that already started, whatever    *)
(* failed before or after it (runPostgresScheduledCommand's fallback).      *)
OperationStartsOnce == starts <= 1

Ended == phase = "done"
=============================================================================
