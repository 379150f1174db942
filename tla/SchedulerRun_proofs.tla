------------------------- MODULE SchedulerRun_proofs -------------------------
(***************************************************************************)
(* Proofs about one scheduled command, for any durations that              *)
(* validateInput accepts, any retry interval, safety margin and length of  *)
(* a renewal.                                                              *)
(*                                                                         *)
(* While the loop waits, the lease outlasts the timer (LoopInTime): the    *)
(* interval is shorter than the lease, a retry ends before the expiry that *)
(* the process knows of, and that expiry is never later than the one in    *)
(* the database.  A lease that lapsed is not renewed (LapseIsFinal), so    *)
(* whoever can still release it held it all the time.                      *)
(***************************************************************************)
EXTENDS SchedulerRun, TLAPS

(* What is assumed of the durations. *)
Durations == HeartbeatBounds /\ LoopConstants

(* The command has not reported anything yet. *)
Before == {"acquiring", "running", "stopping", "releasing"}

(* What the command has reached in each phase. *)
PhaseInvariant ==
    /\ phase \in Before => outcome = "pending" /\ reason = "none"
    /\ phase = "acquiring" => lease.owner # "me" /\ ~lapsed /\ starts = 0 /\ ~aborted
    /\ phase \in {"acquiring", "settling", "unfenced", "done"} => hb.at = "returned"
    /\ phase = "releasing" => hb.at = "returned"
    /\ phase = "unfenced" => outcome # "value"
    /\ starts <= 1
    /\ terminated => outcome # "value" /\ reason # "completed"

(* A lease that lapsed is lost for good. *)
LapseIsFinal ==
    /\ lapsed => ~Mine
    /\ outcome = "value" => ~lapsed /\ lease.owner # "me"
    /\ phase \in {"running", "stopping", "releasing"} /\ ~lapsed => Mine

(* While the command works, the row never expires before the process       *)
(* expects it, and a waiting loop wakes up before that.                     *)
LoopInTime ==
    /\ phase = "running" /\ ~lapsed => view <= lease.left
    /\ phase = "running" /\ lapsed => view = 0
    /\ phase = "running" /\ hb.at \in {"interval", "retry"} => ~lapsed /\ hb.t < lease.left
    /\ phase = "running" /\ hb.at = "returned" => aborted

CommandInvariant == TypeOK /\ PhaseInvariant /\ LapseIsFinal /\ LoopInTime

-----------------------------------------------------------------------------
LEMMA MinOfTwo ==
  ASSUME NEW a \in Nat, NEW b \in Nat
  PROVE  /\ Min({a, b}) \in Nat
         /\ Min({a, b}) <= a /\ Min({a, b}) <= b
<1>1. \E x \in {a, b} : \A y \in {a, b} : x <= y
  OBVIOUS
<1> QED
  BY <1>1 DEF Min

LEMMA MaxOfThree ==
  ASSUME NEW a \in Nat, NEW b \in Nat, NEW c \in Nat
  PROVE  /\ Max({a, b, c}) \in Nat
         /\ a <= Max({a, b, c}) /\ b <= Max({a, b, c}) /\ c <= Max({a, b, c})
<1>1. \E x \in {a, b, c} : \A y \in {a, b, c} : x >= y
  OBVIOUS
<1> QED
  BY <1>1 DEF Max

(* The retry delay lies within what the process knows of the lease. *)
LEMMA RetryFacts ==
  ASSUME Durations, TypeOK
  PROVE  /\ RetryDelay \in 0..RetryEvery
         /\ RetryDelay > 0 => RetryDelay < view
<1> DEFINE d == IF view > Safety THEN view - Safety ELSE 0
<1>1. view \in Nat /\ RetryEvery \in Nat /\ Safety \in Nat \ {0} /\ TTL \in Nat
  BY DEF Durations, HeartbeatBounds, LoopConstants, TypeOK
<1>2. d \in Nat /\ (d > 0 => d < view)
  BY <1>1
<1> HIDE DEF d
<1>3. Min({RetryEvery, d}) \in Nat /\ Min({RetryEvery, d}) <= RetryEvery /\ Min({RetryEvery, d}) <= d
  BY <1>1, <1>2, MinOfTwo
<1>4. RetryDelay = Min({RetryEvery, d})
  BY DEF RetryDelay, d
<1> QED
  BY <1>1, <1>2, <1>3, <1>4

(* The timers of the loop. *)
LEMMA Timers ==
  ASSUME Durations
  PROVE  /\ Interval \in 0..Max({Interval, RetryEvery, MaxRenewal})
         /\ MaxRenewal \in 0..Max({Interval, RetryEvery, MaxRenewal})
         /\ 0 \in 0..Max({Interval, RetryEvery, MaxRenewal})
         /\ \A d \in 0..RetryEvery : d \in 0..Max({Interval, RetryEvery, MaxRenewal})
<1>1. Interval \in Nat /\ RetryEvery \in Nat /\ MaxRenewal \in Nat
  BY DEF Durations, HeartbeatBounds, LoopConstants
<1> DEFINE m == Max({Interval, RetryEvery, MaxRenewal})
<1>2. m \in Nat /\ Interval <= m /\ RetryEvery <= m /\ MaxRenewal <= m
  BY <1>1, MaxOfThree
<1> HIDE DEF m
<1>3. \A d \in 0..RetryEvery : d \in 0..m
  BY <1>1, <1>2
<1>4. Interval \in 0..m /\ MaxRenewal \in 0..m /\ 0 \in 0..m
  BY <1>1, <1>2
<1> QED
  BY <1>3, <1>4 DEF m

LEMMA CommandInit == Durations /\ Init => CommandInvariant
<1> SUFFICES ASSUME Durations, Init PROVE CommandInvariant
  OBVIOUS
<1>1. /\ TTL \in Nat
      /\ lease \in [owner : {"none", "rival"}, left : {0, TTL}]
      /\ hb = [at |-> "returned", t |-> 0]
  BY DEF Init, Durations, HeartbeatBounds
<1>2. /\ lease \in [owner : {"none", "me", "rival"}, left : 0..TTL] /\ 0 \in 0..TTL
      /\ hb \in [at : {"interval", "renewing", "retry", "returned"}, t : 0..Max({Interval, RetryEvery, MaxRenewal})]
  BY <1>1, Timers
<1>3. /\ aborted \in BOOLEAN /\ hbFailure \in BOOLEAN /\ terminated \in BOOLEAN /\ lapsed \in BOOLEAN
      /\ mode \in {"authority", "shadow"}
  BY Zenon DEF Init
<1>4. /\ phase = "acquiring" /\ view \in 0..TTL /\ op = "none" /\ reason = "none" /\ outcome = "pending"
      /\ starts \in 0..2
  BY <1>2 DEF Init
<1>5. TypeOK
  BY <1>2, <1>3, <1>4, Zenon DEF TypeOK
<1> QED
  BY <1>1, <1>5 DEF Init, CommandInvariant, PhaseInvariant, LapseIsFinal, LoopInTime, Before, Mine

(* The types of the variables, step by step. *)
LEMMA CommandTypes ==
  ASSUME Durations, TypeOK, starts <= 1, phase \in {"acquiring", "settling"} => starts \in 0..1, Next
  PROVE  TypeOK'
<1> DEFINE T == 0..Max({Interval, RetryEvery, MaxRenewal})
<1>1. TTL \in Nat /\ Interval \in T /\ MaxRenewal \in T /\ 0 \in T /\ RetryDelay \in T /\ T \in SUBSET Nat
  BY Timers, RetryFacts DEF Durations, HeartbeatBounds
<1> HIDE DEF T
<1>2. /\ lease \in [owner : {"none", "me", "rival"}, left : 0..TTL] /\ view \in 0..TTL
      /\ hb \in [at : {"interval", "renewing", "retry", "returned"}, t : T]
  BY DEF TypeOK, T
<1>3. /\ lease' \in [owner : {"none", "me", "rival"}, left : 0..TTL] /\ view' \in 0..TTL
      /\ hb' \in [at : {"interval", "renewing", "retry", "returned"}, t : T]
  <2>1. CASE CommandStep \/ Crash \/ Terminate \/ RivalAcquires
    BY <1>1, <1>2, <2>1 DEF CommandStep, Acquire, AcquireFails, StartRenewal, RenewalSucceeds, RenewalRejected,
         RenewalErrs, StopWaiting, OperationSettles, HeartbeatJoined, Release, Settle, UnfencedOperation, Crash,
         Terminate, RivalAcquires, LoopReturns, FailHeartbeat, WriteRelease
  <2>2. CASE Tick
    <3>1. \A n \in T : n > 0 => n - 1 \in T
      BY MaxOfThree DEF T, Durations, HeartbeatBounds, LoopConstants
    <3> QED
      BY <1>1, <1>2, <2>2, <3>1 DEF Tick
  <2> QED
    BY <2>1, <2>2 DEF Next
<1>4. /\ mode' \in {"authority", "shadow"}
      /\ phase' \in {"acquiring", "running", "stopping", "releasing", "settling", "unfenced", "done"}
      /\ op' \in {"none", "running", "ok", "late", "failed"}
      /\ reason' \in {"none", "completed", "failed", "fence_lost"}
      /\ outcome' \in {"pending", "value", "shadowValue", "crashed"} \cup Errors
      /\ starts' \in 0..2
  BY DEF TypeOK, Next, CommandStep, Acquire, AcquireFails, StartRenewal, RenewalSucceeds, RenewalRejected,
         RenewalErrs, StopWaiting, OperationSettles, HeartbeatJoined, Release, Settle, UnfencedOperation, Crash,
         Terminate, RivalAcquires, LoopReturns, FailHeartbeat, WriteRelease, Tick, ReleaseReason, Report, Errors,
         OperationError
<1>5. aborted' \in BOOLEAN /\ hbFailure' \in BOOLEAN /\ terminated' \in BOOLEAN /\ lapsed' \in BOOLEAN
  BY Zenon DEF TypeOK, Next, CommandStep, Acquire, AcquireFails, StartRenewal, RenewalSucceeds, RenewalRejected,
         RenewalErrs, StopWaiting, OperationSettles, HeartbeatJoined, Release, Settle, UnfencedOperation, Crash,
         Terminate, RivalAcquires, FailHeartbeat, Tick
<1> QED
  BY <1>3, <1>4, <1>5 DEF TypeOK, T

(* Every step keeps the rest of the invariant. *)
LEMMA CommandNext == Durations /\ CommandInvariant /\ [Next]_vars => CommandInvariant'
<1> SUFFICES ASSUME Durations, CommandInvariant, [Next]_vars PROVE CommandInvariant'
  OBVIOUS
<1>1. CASE UNCHANGED vars
  BY <1>1 DEF CommandInvariant, vars, TypeOK, PhaseInvariant, LapseIsFinal, LoopInTime, Mine
<1>2. CASE Next
  <2>1. /\ TypeOK /\ PhaseInvariant /\ LapseIsFinal /\ LoopInTime
        /\ TTL \in Nat /\ Interval \in Nat /\ Interval < TTL /\ 0 < Interval
        /\ lease.left \in 0..TTL /\ view \in 0..TTL /\ hb.t \in Nat /\ starts \in 0..2
        /\ lease \in [owner : {"none", "me", "rival"}, left : 0..TTL]
        /\ hb.at \in {"interval", "renewing", "retry", "returned"}
    BY Timers DEF CommandInvariant, TypeOK, Durations, HeartbeatBounds
  <2>2. TypeOK'
    BY <1>2, <2>1, CommandTypes DEF PhaseInvariant
  <2>3. RetryDelay \in Nat /\ (RetryDelay > 0 => RetryDelay < view)
    BY <2>1, RetryFacts
  <2>4. PhaseInvariant' /\ LapseIsFinal' /\ LoopInTime'
    <3>1. CASE Acquire
      BY <2>1, <2>3, <3>1 DEF PhaseInvariant, LapseIsFinal, LoopInTime, Before, Mine, Acquire
    <3>2. CASE AcquireFails
      BY <2>1, <2>3, <3>2 DEF PhaseInvariant, LapseIsFinal, LoopInTime, Before, Mine, AcquireFails
    <3>3. CASE StartRenewal
      BY <2>1, <2>3, <3>3 DEF PhaseInvariant, LapseIsFinal, LoopInTime, Before, Mine, StartRenewal, LoopStopped
    <3>4. CASE RenewalSucceeds
      BY <2>1, <2>3, <3>4 DEF PhaseInvariant, LapseIsFinal, LoopInTime, Before, Mine, RenewalSucceeds, LoopStopped, LoopReturns
    <3>5. CASE RenewalRejected
      BY <2>1, <2>3, <3>5 DEF PhaseInvariant, LapseIsFinal, LoopInTime, Before, Mine, RenewalRejected, FailHeartbeat, LoopReturns
    <3>6. CASE RenewalErrs
      BY <2>1, <2>3, <3>6 DEF PhaseInvariant, LapseIsFinal, LoopInTime, Before, Mine, RenewalErrs, LoopStopped, FailHeartbeat, LoopReturns
    <3>7. CASE StopWaiting
      BY <2>1, <2>3, <3>7 DEF PhaseInvariant, LapseIsFinal, LoopInTime, Before, Mine, StopWaiting, LoopStopped, LoopReturns
    <3>8. CASE OperationSettles
      BY <2>1, <2>3, <3>8 DEF PhaseInvariant, LapseIsFinal, LoopInTime, Before, Mine, OperationSettles
    <3>9. CASE HeartbeatJoined
      BY <2>1, <2>3, <3>9 DEF PhaseInvariant, LapseIsFinal, LoopInTime, Before, Mine, HeartbeatJoined
    <3>10. CASE Release
      BY <2>1, <2>3, <3>10 DEF PhaseInvariant, LapseIsFinal, LoopInTime, Before, Mine, Release, WriteRelease, ReleaseReason, Report, OperationError
    <3>11. CASE Settle
      BY <2>1, <2>3, <3>11 DEF PhaseInvariant, LapseIsFinal, LoopInTime, Before, Mine, Settle
    <3>12. CASE UnfencedOperation
      BY <2>1, <2>3, <3>12 DEF PhaseInvariant, LapseIsFinal, LoopInTime, Before, Mine, UnfencedOperation
    <3>13. CASE Crash
      BY <2>1, <2>3, <3>13 DEF PhaseInvariant, LapseIsFinal, LoopInTime, Before, Mine, Crash, LoopReturns
    <3>14. CASE Terminate
      BY <2>1, <2>3, <3>14 DEF PhaseInvariant, LapseIsFinal, LoopInTime, Before, Mine, Terminate
    <3>15. CASE RivalAcquires
      BY <2>1, <2>3, <3>15 DEF PhaseInvariant, LapseIsFinal, LoopInTime, Before, Mine, RivalAcquires
    <3>16. CASE Tick
      <4>1. /\ lease'.owner = lease.owner /\ lease'.left = (IF lease.left > 0 THEN lease.left - 1 ELSE 0)
            /\ view' = (IF view > 0 THEN view - 1 ELSE 0)
            /\ hb'.at = hb.at /\ hb'.t = (IF hb.t > 0 THEN hb.t - 1 ELSE 0)
            /\ hb.at # "returned" => hb.t > 0
        BY <2>1, <3>16 DEF Tick, TypeOK, TimerDue
      <4>2. UNCHANGED <<phase, aborted, terminated, reason, outcome, starts>>
        BY <3>16 DEF Tick
      <4>3. lapsed' <=> lapsed \/ (lease.owner = "me" /\ lease'.left = 0)
        BY <3>16 DEF Tick
      <4>4. PhaseInvariant'
        BY <2>1, <4>1, <4>2, <4>3 DEF PhaseInvariant, Before
      <4>5. LapseIsFinal'
        BY <2>1, <4>1, <4>2, <4>3 DEF LapseIsFinal, Mine
      <4>6. LoopInTime'
        BY <2>1, <4>1, <4>2, <4>3 DEF LoopInTime, LapseIsFinal, Mine
      <4> QED
        BY <4>4, <4>5, <4>6
    <3> QED
      BY <1>2, <3>1, <3>2, <3>3, <3>4, <3>5, <3>6, <3>7, <3>8, <3>9, <3>10, <3>11, <3>12, <3>13, <3>14, <3>15, <3>16 DEF Next, CommandStep
  <2> QED
    BY <2>2, <2>4 DEF CommandInvariant
<1> QED
  BY <1>1, <1>2

LEMMA CommandFacts ==
  CommandInvariant => ValueMeansNoLapse /\ NeverSleepsPastExpiry /\ TerminatedIsNotCompleted /\ OperationStartsOnce
BY DEF CommandInvariant, TypeOK, PhaseInvariant, LapseIsFinal, LoopInTime, ValueMeansNoLapse, NeverSleepsPastExpiry,
       TerminatedIsNotCompleted, OperationStartsOnce

(* What a command reports is covered by its lease: a value means that the   *)
(* lease was held without a gap, the heartbeat loop does not sleep through  *)
(* an expiry, a terminated command is not recorded as completed, and no     *)
(* operation starts twice.                                                  *)
THEOREM CommandsKeepTheirLease ==
  ASSUME Durations
  PROVE  Spec => [](ValueMeansNoLapse /\ NeverSleepsPastExpiry /\ TerminatedIsNotCompleted /\ OperationStartsOnce)
BY CommandInit, CommandNext, CommandFacts, PTL DEF Spec
=============================================================================
