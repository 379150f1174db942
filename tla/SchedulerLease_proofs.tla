------------------------ MODULE SchedulerLease_proofs ------------------------
(***************************************************************************)
(* Proofs about the scheduler lease for any set of workers, lease duration *)
(* and bounds.  The safety properties rest on one inductive invariant:     *)
(* tokens of runs that overlap differ and are not granted before their     *)
(* acquisition is applied, and whoever holds the row lock owns the row.    *)
(***************************************************************************)
EXTENDS SchedulerLease, TLAPS


(* Every step leaves the state well typed. *)
THEOREM TypeCorrect == Spec => []TypeOK
<1>1. Init => TypeOK
  BY TTLAssumption, BoundsAssumption
     DEF Init, TypeOK, NoRun, NoTxn, NoToken, Kinds, Tokens, Expiries
<1>2. TypeOK /\ [Next]_vars => TypeOK'
  <2> SUFFICES ASSUME TypeOK, [Next]_vars PROVE TypeOK'
    OBVIOUS
  <2> USE TTLAssumption, BoundsAssumption
          DEF TypeOK, NoRun, NoTxn, NoToken, Kinds, Tokens, Expiries
  <2>1. CASE UNCHANGED vars
    BY <2>1 DEF vars
  <2>2. CASE Tick
    BY <2>2 DEF Tick
  <2>3. ASSUME NEW w \in Worker, WorkerStep(w) PROVE TypeOK'
    <3>1. CASE BeginAcquire(w)
      BY <3>1 DEF BeginAcquire
    <3>2. CASE ApplyAcquire(w)
      <4>1. lease' \in [status : {"absent", "held", "released"},
                        token : 0..MaxToken, expiresAt : Expiries]
        BY <3>2 DEF ApplyAcquire
      <4>2. granted' \subseteq 0..MaxToken
        BY <3>2 DEF ApplyAcquire
      <4>3. run' \in [Worker -> [pc : {"idle", "acquiring", "running", "releasing"},
                                 token : 0..MaxToken, at : 0..MaxTime]]
        <5>1. CASE run' = [run EXCEPT ![w].pc = "running"]
          BY <5>1, SMTT(40)
        <5>2. CASE run' = [run EXCEPT ![w] = NoRun]
          BY <5>2
        <5> QED
          BY <3>2, <5>1, <5>2 DEF ApplyAcquire
      <4> QED
        BY <3>2, <4>1, <4>2, <4>3 DEF ApplyAcquire
    <3>3. CASE RejectAcquire(w)
      BY <3>3 DEF RejectAcquire
    <3>4. CASE LockHeartbeat(w)
      BY <3>4 DEF LockHeartbeat
    <3>5. CASE UpdateHeartbeat(w)
      BY <3>5 DEF UpdateHeartbeat
    <3>6. CASE FailHeartbeat(w)
      BY <3>6 DEF FailHeartbeat
    <3>7. CASE LockRelease(w)
      BY <3>7 DEF LockRelease
    <3>8. CASE UpdateRelease(w)
      BY <3>8 DEF UpdateRelease
    <3>9. ASSUME NEW kind \in Kinds, BeginTxn(w, kind) PROVE TypeOK'
      BY <3>9 DEF BeginTxn
    <3>10. CASE RequireCurrentFence(w)
      BY <3>10 DEF RequireCurrentFence, Fence
    <3>11. CASE FencePredicate(w)
      BY <3>11 DEF FencePredicate, Fence
    <3>12. CASE CommitTxn(w)
      BY <3>12 DEF CommitTxn, Holder
    <3>13. CASE RollbackTxn(w)
      BY <3>13 DEF RollbackTxn
    <3>14. CASE Crash(w)
      BY <3>14 DEF Crash
    <3> QED
      BY <2>3, <3>1, <3>2, <3>3, <3>4, <3>5, <3>6, <3>7, <3>8, <3>9, <3>10,
         <3>11, <3>12, <3>13, <3>14 DEF WorkerStep
  <2> QED
    BY <2>1, <2>2, <2>3 DEF Next
<1> QED
  BY <1>1, <1>2, PTL DEF Spec
-----------------------------------------------------------------------------
(* The inductive invariant, as a conjunction of named parts. *)

RunShape ==
    \A w \in Worker :
        /\ run[w].pc = "idle" <=> run[w].token = NoToken
        /\ run[w].token <= seq
        /\ run[w].at <= now
        /\ heartbeat[w] = "locked" => run[w].pc = "running"
        /\ txn[w].stage # "none" => run[w].pc = "running"

TokensDistinct ==
    \A v, w \in Worker : v # w => run[v].token # run[w].token \/ run[v].token = NoToken

TokensGranted ==
    /\ \A t \in granted : t > 0 /\ t <= seq
    /\ \A w \in Worker : run[w].pc = "acquiring" => run[w].token \notin granted
    /\ lease.status = "held" => lease.token \in granted

LockInv == LockHolderIsEntitled /\ OrphanBlocksAtMostTTL

LeaseInv ==
    /\ TypeOK
    /\ RunShape
    /\ TokensDistinct
    /\ TokensGranted
    /\ LockInv
    /\ LockedCommitsAreCurrent

(* What a process believes stays consistent with its own stage. *)
LEMMA RunShapeStep ==
    TypeOK /\ RunShape /\ [Next]_vars => RunShape'
<1> SUFFICES ASSUME TypeOK, RunShape, [Next]_vars PROVE RunShape'
  OBVIOUS
<1> USE TTLAssumption, BoundsAssumption
        DEF TypeOK, Expiries, NoRun, NoTxn, NoToken, Kinds, RunShape
<1>1. CASE UNCHANGED vars
  BY <1>1 DEF vars
<1>2. CASE Tick
  BY <1>2 DEF Tick
<1>3. ASSUME NEW w \in Worker, WorkerStep(w) PROVE RunShape'
  <2>1. CASE BeginAcquire(w)
    BY <2>1 DEF BeginAcquire
  <2>2. CASE ApplyAcquire(w)
    <3>1. CASE run' = [run EXCEPT ![w].pc = "running"]
      BY <2>2, <3>1 DEF ApplyAcquire
    <3>2. CASE run' = [run EXCEPT ![w] = NoRun]
      BY <2>2, <3>2 DEF ApplyAcquire
    <3> QED
      BY <2>2, <3>1, <3>2 DEF ApplyAcquire
  <2>3. CASE RejectAcquire(w)
    BY <2>3 DEF RejectAcquire
  <2>4. CASE LockHeartbeat(w)
    BY <2>4 DEF LockHeartbeat
  <2>5. CASE UpdateHeartbeat(w)
    BY <2>5 DEF UpdateHeartbeat
  <2>6. CASE FailHeartbeat(w)
    BY <2>6 DEF FailHeartbeat
  <2>7. CASE LockRelease(w)
    BY <2>7 DEF LockRelease
  <2>8. CASE UpdateRelease(w)
    BY <2>8 DEF UpdateRelease
  <2>9. ASSUME NEW kind \in Kinds, BeginTxn(w, kind) PROVE RunShape'
    BY <2>9 DEF BeginTxn
  <2>10. CASE RequireCurrentFence(w)
    BY <2>10 DEF RequireCurrentFence, Fence
  <2>11. CASE FencePredicate(w)
    BY <2>11 DEF FencePredicate, Fence
  <2>12. CASE CommitTxn(w)
    BY <2>12 DEF CommitTxn
  <2>13. CASE RollbackTxn(w)
    BY <2>13 DEF RollbackTxn
  <2>14. CASE Crash(w)
    BY <2>14 DEF Crash
  <2> QED
    BY <1>3, <2>1, <2>2, <2>3, <2>4, <2>5, <2>6, <2>7, <2>8, <2>9, <2>10, <2>11, <2>12, <2>13, <2>14
       DEF WorkerStep
<1> QED
  BY <1>1, <1>2, <1>3 DEF Next

(* Overlapping runs have different tokens. *)
LEMMA TokensDistinctStep ==
    TypeOK /\ RunShape /\ TokensDistinct /\ [Next]_vars => TokensDistinct'
<1> SUFFICES ASSUME TypeOK, RunShape, TokensDistinct, [Next]_vars PROVE TokensDistinct'
  OBVIOUS
<1> USE TTLAssumption, BoundsAssumption
        DEF TypeOK, Expiries, NoRun, NoTxn, NoToken, Kinds, RunShape, TokensDistinct
<1>1. CASE UNCHANGED vars
  BY <1>1 DEF vars
<1>2. CASE Tick
  BY <1>2 DEF Tick
<1>3. ASSUME NEW w \in Worker, WorkerStep(w) PROVE TokensDistinct'
  <2>1. CASE BeginAcquire(w)
    BY <2>1 DEF BeginAcquire
  <2>2. CASE ApplyAcquire(w)
    <3>1. CASE run' = [run EXCEPT ![w].pc = "running"]
      BY <2>2, <3>1 DEF ApplyAcquire
    <3>2. CASE run' = [run EXCEPT ![w] = NoRun]
      BY <2>2, <3>2 DEF ApplyAcquire
    <3> QED
      BY <2>2, <3>1, <3>2 DEF ApplyAcquire
  <2>3. CASE RejectAcquire(w)
    BY <2>3 DEF RejectAcquire
  <2>4. CASE LockHeartbeat(w)
    BY <2>4 DEF LockHeartbeat
  <2>5. CASE UpdateHeartbeat(w)
    BY <2>5 DEF UpdateHeartbeat
  <2>6. CASE FailHeartbeat(w)
    BY <2>6 DEF FailHeartbeat
  <2>7. CASE LockRelease(w)
    BY <2>7 DEF LockRelease
  <2>8. CASE UpdateRelease(w)
    BY <2>8 DEF UpdateRelease
  <2>9. ASSUME NEW kind \in Kinds, BeginTxn(w, kind) PROVE TokensDistinct'
    BY <2>9 DEF BeginTxn
  <2>10. CASE RequireCurrentFence(w)
    BY <2>10 DEF RequireCurrentFence
  <2>11. CASE FencePredicate(w)
    BY <2>11 DEF FencePredicate
  <2>12. CASE CommitTxn(w)
    BY <2>12 DEF CommitTxn
  <2>13. CASE RollbackTxn(w)
    BY <2>13 DEF RollbackTxn
  <2>14. CASE Crash(w)
    BY <2>14 DEF Crash
  <2> QED
    BY <1>3, <2>1, <2>2, <2>3, <2>4, <2>5, <2>6, <2>7, <2>8, <2>9, <2>10, <2>11, <2>12, <2>13, <2>14
       DEF WorkerStep
<1> QED
  BY <1>1, <1>2, <1>3 DEF Next

(* Tokens are granted once, by the step that applies the acquisition. *)
LEMMA TokensGrantedStep ==
    TypeOK /\ RunShape /\ TokensDistinct /\ TokensGranted /\ [Next]_vars => TokensGranted'
<1> SUFFICES ASSUME TypeOK, RunShape, TokensDistinct, TokensGranted, [Next]_vars PROVE TokensGranted'
  OBVIOUS
<1> USE TTLAssumption, BoundsAssumption
        DEF TypeOK, Expiries, NoRun, NoTxn, NoToken, Kinds, RunShape, TokensDistinct, TokensGranted
<1>1. CASE UNCHANGED vars
  BY <1>1 DEF vars
<1>2. CASE Tick
  BY <1>2 DEF Tick
<1>3. ASSUME NEW w \in Worker, WorkerStep(w) PROVE TokensGranted'
  <2>1. CASE BeginAcquire(w)
    BY <2>1 DEF BeginAcquire
  <2>2. CASE ApplyAcquire(w)
    <3>1. CASE run' = [run EXCEPT ![w].pc = "running"]
      BY <2>2, <3>1 DEF ApplyAcquire
    <3>2. CASE run' = [run EXCEPT ![w] = NoRun]
      BY <2>2, <3>2 DEF ApplyAcquire
    <3> QED
      BY <2>2, <3>1, <3>2 DEF ApplyAcquire
  <2>3. CASE RejectAcquire(w)
    BY <2>3 DEF RejectAcquire
  <2>4. CASE LockHeartbeat(w)
    BY <2>4 DEF LockHeartbeat
  <2>5. CASE UpdateHeartbeat(w)
    BY <2>5 DEF UpdateHeartbeat
  <2>6. CASE FailHeartbeat(w)
    BY <2>6 DEF FailHeartbeat
  <2>7. CASE LockRelease(w)
    BY <2>7 DEF LockRelease
  <2>8. CASE UpdateRelease(w)
    BY <2>8 DEF UpdateRelease
  <2>9. ASSUME NEW kind \in Kinds, BeginTxn(w, kind) PROVE TokensGranted'
    BY <2>9 DEF BeginTxn
  <2>10. CASE RequireCurrentFence(w)
    BY <2>10 DEF RequireCurrentFence
  <2>11. CASE FencePredicate(w)
    BY <2>11 DEF FencePredicate
  <2>12. CASE CommitTxn(w)
    BY <2>12 DEF CommitTxn
  <2>13. CASE RollbackTxn(w)
    BY <2>13 DEF RollbackTxn
  <2>14. CASE Crash(w)
    BY <2>14 DEF Crash
  <2> QED
    BY <1>3, <2>1, <2>2, <2>3, <2>4, <2>5, <2>6, <2>7, <2>8, <2>9, <2>10, <2>11, <2>12, <2>13, <2>14
       DEF WorkerStep
<1> QED
  BY <1>1, <1>2, <1>3 DEF Next

(* Whoever holds the row lock owns the row until its transaction ends. *)
LEMMA LockInvStep ==
    TypeOK /\ RunShape /\ TokensDistinct /\ TokensGranted /\ LockInv /\ [Next]_vars => LockInv'
<1> SUFFICES ASSUME TypeOK, RunShape, TokensDistinct, TokensGranted, LockInv, [Next]_vars PROVE LockInv'
  OBVIOUS
<1> USE TTLAssumption, BoundsAssumption
        DEF TypeOK, Expiries, NoRun, NoTxn, NoToken, Kinds, RunShape, TokensDistinct, TokensGranted, LockInv,
            LockHolderIsEntitled, OrphanBlocksAtMostTTL, HoldsRowLock, Holder
<1>1. CASE UNCHANGED vars
  BY <1>1 DEF vars
<1>2. CASE Tick
  BY <1>2 DEF Tick
<1>3. ASSUME NEW w \in Worker, WorkerStep(w) PROVE LockInv'
  <2>1. CASE BeginAcquire(w)
    BY <2>1 DEF BeginAcquire
  <2>2. CASE ApplyAcquire(w)
    <3>1. CASE run' = [run EXCEPT ![w].pc = "running"]
      BY <2>2, <3>1 DEF ApplyAcquire, RowLocked
    <3>2. CASE run' = [run EXCEPT ![w] = NoRun]
      BY <2>2, <3>2 DEF ApplyAcquire, RowLocked
    <3> QED
      BY <2>2, <3>1, <3>2 DEF ApplyAcquire
  <2>3. CASE RejectAcquire(w)
    BY <2>3 DEF RejectAcquire
  <2>4. CASE LockHeartbeat(w)
    BY <2>4 DEF LockHeartbeat, FenceMatches, CurrentAt
  <2>5. CASE UpdateHeartbeat(w)
    BY <2>5 DEF UpdateHeartbeat
  <2>6. CASE FailHeartbeat(w)
    BY <2>6 DEF FailHeartbeat
  <2>7. CASE LockRelease(w)
    BY <2>7 DEF LockRelease, FenceMatches, CurrentAt
  <2>8. CASE UpdateRelease(w)
    BY <2>8 DEF UpdateRelease
  <2>9. ASSUME NEW kind \in Kinds, BeginTxn(w, kind) PROVE LockInv'
    BY <2>9 DEF BeginTxn
  <2>10. CASE RequireCurrentFence(w)
    BY <2>10 DEF RequireCurrentFence, Fence, FenceMatches, CurrentAt
  <2>11. CASE FencePredicate(w)
    BY <2>11 DEF FencePredicate, Fence, FenceMatches, CurrentAt
  <2>12. CASE CommitTxn(w)
    BY <2>12 DEF CommitTxn
  <2>13. CASE RollbackTxn(w)
    BY <2>13 DEF RollbackTxn
  <2>14. CASE Crash(w)
    BY <2>14 DEF Crash
  <2> QED
    BY <1>3, <2>1, <2>2, <2>3, <2>4, <2>5, <2>6, <2>7, <2>8, <2>9, <2>10, <2>11, <2>12, <2>13, <2>14
       DEF WorkerStep
<1> QED
  BY <1>1, <1>2, <1>3 DEF Next

(* A locked commit records the row's token, which is the committer's own. *)
LEMMA LockedCommitStep ==
    TypeOK /\ LockInv /\ LockedCommitsAreCurrent /\ [Next]_vars => LockedCommitsAreCurrent'
<1> SUFFICES ASSUME TypeOK, LockInv, LockedCommitsAreCurrent, [Next]_vars
             PROVE LockedCommitsAreCurrent'
  OBVIOUS
<1>1. CASE commit' = commit
  BY <1>1 DEF LockedCommitsAreCurrent
<1>2. ASSUME NEW w \in Worker, CommitTxn(w) PROVE LockedCommitsAreCurrent'
  <2>1. CASE txn[w].kind = "locked"
    <3>1. HoldsRowLock(w)
      BY <1>2, <2>1 DEF CommitTxn, HoldsRowLock
    <3> QED
      BY <1>2, <2>1, <3>1
         DEF CommitTxn, LockedCommitsAreCurrent, LockInv, LockHolderIsEntitled, TypeOK, Kinds
  <2>2. CASE txn[w].kind = "predicate"
    BY <1>2, <2>2 DEF CommitTxn, LockedCommitsAreCurrent, TypeOK, Kinds
  <2> QED
    BY <2>1, <2>2 DEF TypeOK, Kinds
<1> QED
  BY <1>1, <1>2 DEF Next, WorkerStep, vars, Tick, BeginAcquire, ApplyAcquire, RejectAcquire,
     LockHeartbeat, UpdateHeartbeat, FailHeartbeat, LockRelease, UpdateRelease, BeginTxn,
     RequireCurrentFence, FencePredicate, RollbackTxn, Crash

(* The inductive invariant holds in every reachable state. *)
THEOREM LeaseInvariant == Spec => []LeaseInv
<1>1. Init => LeaseInv
  BY TTLAssumption, BoundsAssumption
     DEF Init, LeaseInv, TypeOK, RunShape, TokensDistinct, TokensGranted, LockInv,
         LockHolderIsEntitled, OrphanBlocksAtMostTTL, LockedCommitsAreCurrent,
         HoldsRowLock, Holder, NoRun, NoTxn, NoToken, Kinds, Expiries
<1>2. LeaseInv /\ TypeOK' /\ [Next]_vars => LeaseInv'
  BY RunShapeStep, TokensDistinctStep, TokensGrantedStep, LockInvStep, LockedCommitStep
     DEF LeaseInv
<1> QED
  BY <1>1, <1>2, TypeCorrect, PTL DEF Spec

-----------------------------------------------------------------------------
(* The safety properties *)

(* Whoever holds the row lock is the entitled owner: a takeover cannot slip
   between a FOR UPDATE and the COMMIT that follows it. *)
THEOREM LockHoldersAreEntitled == Spec => []LockHolderIsEntitled
<1>1. LeaseInv => LockHolderIsEntitled
  BY DEF LeaseInv, LockInv
<1> QED
  BY <1>1, LeaseInvariant, PTL

(* A transaction fenced by requireCurrentFence never commits for a superseded owner. *)
THEOREM LockedFenceIsSafe == Spec => []LockedCommitsAreCurrent
<1>1. LeaseInv => LockedCommitsAreCurrent
  BY DEF LeaseInv
<1> QED
  BY <1>1, LeaseInvariant, PTL

(* At most one run at a time passes the fence test. *)
THEOREM RunsAreExclusive == Spec => []OneCurrentRun
<1>1. LeaseInv => OneCurrentRun
  <2> SUFFICES ASSUME LeaseInv, NEW v \in Worker, NEW w \in Worker,
                      FenceMatches(v, now), FenceMatches(w, now)
               PROVE  v = w
    BY DEF OneCurrentRun
  <2>1. run[v].token = run[w].token /\ run[v].token \in granted
    BY DEF FenceMatches, CurrentAt, LeaseInv, TokensGranted
  <2>2. run[v].token # NoToken
    BY <2>1 DEF LeaseInv, TokensGranted, NoToken
  <2> QED
    BY <2>1, <2>2 DEF LeaseInv, TokensDistinct
<1> QED
  BY <1>1, LeaseInvariant, PTL

(* A dead owner blocks the job for at most one lease duration. *)
THEOREM OrphansExpire == Spec => []OrphanBlocksAtMostTTL
<1>1. LeaseInv => OrphanBlocksAtMostTTL
  BY DEF LeaseInv, LockInv
<1> QED
  BY <1>1, LeaseInvariant, PTL

(* Only ApplyAcquire changes the token in the row. *)
LEMMA TokenChange ==
    ASSUME [Next]_vars, lease'.token # lease.token, TypeOK
    PROVE  \E w \in Worker : ApplyAcquire(w)
BY DEF Next, WorkerStep, vars, Tick, BeginAcquire, RejectAcquire, LockHeartbeat,
       UpdateHeartbeat, FailHeartbeat, LockRelease, UpdateRelease, BeginTxn,
       RequireCurrentFence, FencePredicate, CommitTxn, RollbackTxn, Crash, TypeOK

(* A superseded token never becomes current again. *)
THEOREM SupersededForGood == Spec => TokensNeverReturn
<1>1. LeaseInv /\ [Next]_vars => [lease'.token # lease.token => lease'.token \notin granted]_vars
  <2> SUFFICES ASSUME LeaseInv, [Next]_vars, lease'.token # lease.token
               PROVE  lease'.token \notin granted
    OBVIOUS
  <2>1. PICK w \in Worker : ApplyAcquire(w)
    BY TokenChange DEF LeaseInv
  <2> QED
    BY <2>1 DEF ApplyAcquire, LeaseInv, TokensGranted
<1> QED
  BY <1>1, LeaseInvariant, PTL DEF Spec, TokensNeverReturn

(* A live lease is never taken from its owner. *)
THEOREM NoEarlyTakeover == Spec => TakeoverOnlyAfterExpiry
<1>1. LeaseInv /\ [Next]_vars => [lease'.token # lease.token => ~CurrentAt(now)]_vars
  <2> SUFFICES ASSUME LeaseInv, [Next]_vars, lease'.token # lease.token
               PROVE  ~CurrentAt(now)
    OBVIOUS
  <2>1. PICK w \in Worker : ApplyAcquire(w)
    BY TokenChange DEF LeaseInv
  <2> QED
    BY <2>1, TTLAssumption, BoundsAssumption
       DEF ApplyAcquire, LeaseInv, TypeOK, Expiries, RunShape, CurrentAt
<1> QED
  BY <1>1, LeaseInvariant, PTL DEF Spec, TakeoverOnlyAfterExpiry

(* The lease row with its locked transactions implements the abstract lease. *)
THEOREM Refinement == Spec => ImplementsFencedLease
<1>1. Init => Abstract!Init
  BY DEF Init, Abstract!Init, Holder, NoToken, Abstract!None, Kinds
<1>2. LeaseInv /\ LeaseInv' /\ [Next]_vars => [Abstract!Next]_(Abstract!vars)
  <2> SUFFICES ASSUME LeaseInv, LeaseInv', [Next]_vars PROVE [Abstract!Next]_(Abstract!vars)
    OBVIOUS
  <2> USE DEF Abstract!Next, Abstract!vars, Abstract!None, Abstract!Grant, Abstract!Revoke,
              Abstract!Write
  <2>1. ASSUME NEW w \in Worker, ApplyAcquire(w) PROVE [Abstract!Next]_(Abstract!vars)
    <3>1. run[w].token \in Tokens /\ run[w].token \notin granted
      BY <2>1 DEF ApplyAcquire, LeaseInv, TypeOK, TokensGranted, RunShape, Tokens, NoToken
    <3>2. Abstract!Grant(run[w].token)
      BY <2>1, <3>1 DEF ApplyAcquire, Holder
    <3> QED
      BY <3>1, <3>2
  <2>2. ASSUME NEW w \in Worker, UpdateRelease(w) PROVE [Abstract!Next]_(Abstract!vars)
    <3>1. Holder # NoToken
      BY <2>2 DEF UpdateRelease, LeaseInv, LockInv, LockHolderIsEntitled, HoldsRowLock, RunShape
    <3>2. CASE CurrentAt(now)
      <4>1. Holder' = NoToken
        BY <2>2, <3>2 DEF UpdateRelease, Holder, LeaseInv, TypeOK
      <4> QED
        BY <2>2, <3>1, <4>1 DEF UpdateRelease, NoToken
    <3>3. CASE ~CurrentAt(now)
      BY <2>2, <3>3 DEF UpdateRelease, Holder
    <3> QED
      BY <3>2, <3>3
  <2>3. ASSUME NEW w \in Worker, CommitTxn(w) PROVE [Abstract!Next]_(Abstract!vars)
    <3>1. CASE txn[w].kind = "locked"
      <4>1. HoldsRowLock(w)
        BY <2>3, <3>1 DEF CommitTxn, HoldsRowLock
      <4>2. Holder = run[w].token /\ Holder # NoToken
        BY <2>3, <4>1 DEF CommitTxn, LeaseInv, LockInv, LockHolderIsEntitled, RunShape, TypeOK
      <4>3. commit'["locked"].by = Holder /\ Holder' = Holder /\ granted' = granted
        BY <2>3, <3>1, <4>2 DEF CommitTxn, LeaseInv, TypeOK, Kinds, Holder
      <4> QED
        BY <4>2, <4>3 DEF NoToken
    <3>2. CASE txn[w].kind = "predicate"
      BY <2>3, <3>2 DEF CommitTxn, LeaseInv, TypeOK, Kinds, Holder
    <3> QED
      BY <3>1, <3>2 DEF LeaseInv, TypeOK, Kinds
  <2>4. ASSUME NEW w \in Worker, UpdateHeartbeat(w) PROVE [Abstract!Next]_(Abstract!vars)
    BY <2>4 DEF UpdateHeartbeat, Holder, LeaseInv, TypeOK
  <2>5. CASE UNCHANGED <<lease, granted, commit>>
    BY <2>5 DEF Holder
  <2> QED
    BY <2>1, <2>2, <2>3, <2>4, <2>5
       DEF Next, WorkerStep, vars, Tick, BeginAcquire, RejectAcquire, LockHeartbeat,
           FailHeartbeat, LockRelease, BeginTxn, RequireCurrentFence, FencePredicate,
           RollbackTxn, Crash
<1> QED
  BY <1>1, <1>2, LeaseInvariant, PTL DEF Spec, ImplementsFencedLease, Abstract!Spec
=============================================================================
