--------------------------- MODULE SchedulerLease ---------------------------
(***************************************************************************)
(* The scheduler lease of one job: the row of scheduler_leases, the token  *)
(* sequence, and the database transactions that worker processes run       *)
(* against them.                                                           *)
(*                                                                         *)
(* Every process has two connections that matter here: the heartbeat loop  *)
(* and the operation.  A statement that has to wait for the row lock keeps *)
(* the timestamp of its start (statement_timestamp), and a fence test      *)
(* inside a transaction uses the timestamp of BEGIN (now()); both are kept *)
(* as the field "at" because they are older than the clock when the lock   *)
(* is granted.  The row lock itself is not a variable: it is held by       *)
(* whichever session is between its FOR UPDATE and its COMMIT.             *)
(*                                                                         *)
(* Fenced state is written by two kinds of transactions: "locked" ones     *)
(* call requireCurrentFence, which locks the row until COMMIT, and         *)
(* "predicate" ones only carry an EXISTS test on the row in each           *)
(* statement, which locks nothing.                                         *)
(***************************************************************************)
EXTENDS Naturals

CONSTANTS
    Worker,         \* owner ids; each new run of a worker draws a new token
    TTL,            \* leaseDurationMs
    MaxTime,        \* bound on the database clock
    MaxToken        \* bound on the draws from scheduler_fencing_token_seq

ASSUME TTLAssumption == TTL \in Nat \ {0}
ASSUME BoundsAssumption == MaxTime \in Nat /\ MaxToken \in Nat

VARIABLES
    now,            \* the database clock
    seq,            \* last value drawn from scheduler_fencing_token_seq
    lease,          \* the row: status, token and expiry
    run,            \* run[w]: the process of w and the fence it believes in
    heartbeat,      \* heartbeat[w]: the heartbeat loop of that process
    txn,            \* txn[w]: the fenced transaction of its operation
    granted,        \* history: every token that was ever in the row
    commit          \* history: the latest fenced commit of each kind

vars == <<now, seq, lease, run, heartbeat, txn, granted, commit>>

NoToken == 0
Kinds == {"locked", "predicate"}
Tokens == 1..MaxToken
Expiries == 0..(MaxTime + TTL)

NoRun == [pc |-> "idle", token |-> NoToken, at |-> 0]
NoTxn == [kind |-> "locked", stage |-> "none", at |-> 0]

TypeOK ==
    /\ now \in 0..MaxTime
    /\ seq \in 0..MaxToken
    /\ lease \in [status : {"absent", "held", "released"},
                  token : 0..MaxToken, expiresAt : Expiries]
    /\ run \in [Worker -> [pc : {"idle", "acquiring", "running", "releasing"},
                           token : 0..MaxToken, at : 0..MaxTime]]
    /\ heartbeat \in [Worker -> {"waiting", "locked", "stopped"}]
    /\ txn \in [Worker -> [kind : Kinds, stage : {"none", "begun", "fenced"},
                           at : 0..MaxTime]]
    /\ granted \subseteq 0..MaxToken
    /\ commit \in [Kinds -> [by : 0..MaxToken, row : 0..MaxToken]]

Init ==
    /\ now = 0
    /\ seq = 0
    /\ lease = [status |-> "absent", token |-> NoToken, expiresAt |-> 0]
    /\ run = [w \in Worker |-> NoRun]
    /\ heartbeat = [w \in Worker |-> "stopped"]
    /\ txn = [w \in Worker |-> NoTxn]
    /\ granted = {}
    /\ commit = [k \in Kinds |-> [by |-> NoToken, row |-> NoToken]]

-----------------------------------------------------------------------------
(* The row as a statement sees it *)

(* A defect: a locked fence whose row lock does not last until COMMIT. *)
HoldsRowLock_ForgetsFence(w) == heartbeat[w] = "locked" \/ run[w].pc = "releasing"

(* The sessions that hold the row lock: a heartbeat or a release between   *)
(* lockLease and COMMIT, a locked fenced transaction until its COMMIT.     *)
HoldsRowLock(w) ==
    \/ heartbeat[w] = "locked"
    \/ run[w].pc = "releasing"
    \/ txn[w].kind = "locked" /\ txn[w].stage = "fenced"

RowLocked == \E w \in Worker : HoldsRowLock(w)

(* status = 'held' AND expires_at > t *)
CurrentAt(t) == lease.status = "held" /\ lease.expiresAt > t

(* The token that is entitled to write: the row's, while the row is held. *)
Holder == IF lease.status = "held" THEN lease.token ELSE NoToken

FenceMatches(w, t) == CurrentAt(t) /\ lease.token = run[w].token

-----------------------------------------------------------------------------
(* acquire *)

(* A defect: the sequence is declared CYCLE and starts over. *)
BeginAcquire_Cycles(w) ==
    /\ run[w].pc = "idle"
    /\ seq < MaxToken
    /\ seq' = IF seq = 2 THEN 1 ELSE seq + 1
    /\ run' = [run EXCEPT ![w] = [pc |-> "acquiring", token |-> seq', at |-> now]]
    /\ UNCHANGED <<now, lease, heartbeat, txn, granted, commit>>

(* The INSERT starts: its timestamp is fixed and nextval is evaluated      *)
(* before the conflicting row is locked.                                   *)
BeginAcquire(w) ==
    /\ run[w].pc = "idle"
    /\ seq < MaxToken
    /\ seq' = seq + 1
    /\ run' = [run EXCEPT ![w] = [pc |-> "acquiring", token |-> seq + 1, at |-> now]]
    /\ UNCHANGED <<now, lease, heartbeat, txn, granted, commit>>

(* A defect: the boundary of the expiry test is off by one. *)
ApplyAcquire_Early(w) ==
    /\ run[w].pc = "acquiring"
    /\ ~RowLocked
    /\ ~CurrentAt(run[w].at + 1)
    /\ lease' = [status |-> "held", token |-> run[w].token,
                 expiresAt |-> run[w].at + TTL]
    /\ granted' = granted \cup {run[w].token}
    /\ run' = [run EXCEPT ![w].pc = "running"]
    /\ heartbeat' = [heartbeat EXCEPT ![w] = "waiting"]
    /\ UNCHANGED <<now, seq, txn, commit>>

(* The row is free or expired at the statement's timestamp: it is taken,   *)
(* with an expiry counted from that timestamp.  The process may not learn  *)
(* of it (the COMMIT's answer is lost): it fails and the row stays held.   *)
ApplyAcquire(w) ==
    /\ run[w].pc = "acquiring"
    /\ ~RowLocked
    /\ ~CurrentAt(run[w].at)
    /\ lease' = [status |-> "held", token |-> run[w].token,
                 expiresAt |-> run[w].at + TTL]
    /\ granted' = granted \cup {run[w].token}
    /\ \/ /\ run' = [run EXCEPT ![w].pc = "running"]
          /\ heartbeat' = [heartbeat EXCEPT ![w] = "waiting"]
       \/ /\ run' = [run EXCEPT ![w] = NoRun]
          /\ UNCHANGED heartbeat
    /\ UNCHANGED <<now, seq, txn, commit>>

(* The row is held by a live lease (SCHEDULER_LEASE_HELD), or the statement *)
(* times out waiting for the lock (SCHEDULER_ACQUIRE_FAILED).              *)
RejectAcquire(w) ==
    /\ run[w].pc = "acquiring"
    /\ RowLocked \/ CurrentAt(run[w].at)
    /\ run' = [run EXCEPT ![w] = NoRun]
    /\ UNCHANGED <<now, seq, lease, heartbeat, txn, granted, commit>>

-----------------------------------------------------------------------------
(* heartbeat: lockLease, then an UPDATE that tests the expiry again.  A     *)
(* timestamp of lockLease that grew old in the wait for the lock makes no   *)
(* difference: the token is read under the lock, and an expired lease is    *)
(* then refused by the UPDATE.                                              *)

LockHeartbeat(w) ==
    /\ run[w].pc = "running"
    /\ heartbeat[w] = "waiting"
    /\ ~RowLocked
    /\ heartbeat' = [heartbeat EXCEPT ![w] =
                       IF FenceMatches(w, now) THEN "locked" ELSE "stopped"]
    /\ UNCHANGED <<now, seq, lease, run, txn, granted, commit>>

(* A defect: the renewal extends the old expiry instead of the clock. *)
UpdateHeartbeat_Accumulates(w) ==
    /\ heartbeat[w] = "locked"
    /\ CurrentAt(now)
    /\ lease' = [lease EXCEPT !.expiresAt = @ + TTL]
    /\ \E next \in {"waiting", "stopped"} : heartbeat' = [heartbeat EXCEPT ![w] = next]
    /\ UNCHANGED <<now, seq, run, txn, granted, commit>>

(* The renewal, whose answer may be lost: the loop then stops. *)
UpdateHeartbeat(w) ==
    /\ heartbeat[w] = "locked"
    /\ CurrentAt(now)
    /\ lease' = [lease EXCEPT !.expiresAt = now + TTL]
    /\ \E next \in {"waiting", "stopped"} : heartbeat' = [heartbeat EXCEPT ![w] = next]
    /\ UNCHANGED <<now, seq, run, txn, granted, commit>>

(* The lease expired since lockLease, or the transaction failed and rolled *)
(* back; the loop retries a transient failure and stops on any other.      *)
FailHeartbeat(w) ==
    /\ heartbeat[w] = "locked"
    /\ \E next \in {"waiting", "stopped"} : heartbeat' = [heartbeat EXCEPT ![w] = next]
    /\ UNCHANGED <<now, seq, lease, run, txn, granted, commit>>

-----------------------------------------------------------------------------
(* release, after the operation returned and the heartbeat loop ended *)

LockRelease(w) ==
    /\ run[w].pc = "running"
    /\ txn[w].stage = "none"
    /\ heartbeat[w] # "locked"
    /\ ~RowLocked
    /\ run' = [run EXCEPT ![w] = IF FenceMatches(w, now)
                                 THEN [@ EXCEPT !.pc = "releasing"] ELSE NoRun]
    /\ heartbeat' = [heartbeat EXCEPT ![w] = "stopped"]
    /\ UNCHANGED <<now, seq, lease, txn, granted, commit>>

(* SCHEDULER_RELEASE_REJECTED when the lease expired since lockLease. *)
UpdateRelease(w) ==
    /\ run[w].pc = "releasing"
    /\ lease' = IF CurrentAt(now) THEN [lease EXCEPT !.status = "released"] ELSE lease
    /\ run' = [run EXCEPT ![w] = NoRun]
    /\ UNCHANGED <<now, seq, heartbeat, txn, granted, commit>>

-----------------------------------------------------------------------------
(* fenced transactions of the operation *)

BeginTxn(w, kind) ==
    /\ run[w].pc = "running"
    /\ txn[w].stage = "none"
    /\ txn' = [txn EXCEPT ![w] = [kind |-> kind, stage |-> "begun", at |-> now]]
    /\ UNCHANGED <<now, seq, lease, run, heartbeat, granted, commit>>

Fence(w) ==
    txn' = [txn EXCEPT ![w] = IF FenceMatches(w, txn[w].at)
                              THEN [@ EXCEPT !.stage = "fenced"] ELSE NoTxn]

(* requireCurrentFence: SELECT ... FOR UPDATE, tested at the time of BEGIN *)
RequireCurrentFence(w) ==
    /\ txn[w].kind = "locked" /\ txn[w].stage = "begun"
    /\ ~RowLocked
    /\ Fence(w)
    /\ UNCHANGED <<now, seq, lease, run, heartbeat, granted, commit>>

(* the EXISTS test of a statement, tested at the time of BEGIN *)
FencePredicate(w) ==
    /\ txn[w].kind = "predicate" /\ txn[w].stage = "begun"
    /\ Fence(w)
    /\ UNCHANGED <<now, seq, lease, run, heartbeat, granted, commit>>

CommitTxn(w) ==
    /\ txn[w].stage = "fenced"
    /\ commit' = [commit EXCEPT ![txn[w].kind] =
                    [by |-> run[w].token, row |-> Holder]]
    /\ txn' = [txn EXCEPT ![w] = NoTxn]
    /\ UNCHANGED <<now, seq, lease, run, heartbeat, granted>>

RollbackTxn(w) ==
    /\ txn[w].stage # "none"
    /\ txn' = [txn EXCEPT ![w] = NoTxn]
    /\ UNCHANGED <<now, seq, lease, run, heartbeat, granted, commit>>

-----------------------------------------------------------------------------
(* The process dies: its sessions are closed and roll back; the row stays. *)
Crash(w) ==
    /\ run[w].pc # "idle"
    /\ run' = [run EXCEPT ![w] = NoRun]
    /\ heartbeat' = [heartbeat EXCEPT ![w] = "stopped"]
    /\ txn' = [txn EXCEPT ![w] = NoTxn]
    /\ UNCHANGED <<now, seq, lease, granted, commit>>

Tick ==
    /\ now < MaxTime
    /\ now' = now + 1
    /\ UNCHANGED <<seq, lease, run, heartbeat, txn, granted, commit>>

WorkerStep(w) ==
    \/ BeginAcquire(w) \/ ApplyAcquire(w) \/ RejectAcquire(w)
    \/ LockHeartbeat(w) \/ UpdateHeartbeat(w) \/ FailHeartbeat(w)
    \/ LockRelease(w) \/ UpdateRelease(w)
    \/ \E kind \in Kinds : BeginTxn(w, kind)
    \/ RequireCurrentFence(w) \/ FencePredicate(w)
    \/ CommitTxn(w) \/ RollbackTxn(w) \/ Crash(w)

Next == Tick \/ \E w \in Worker : WorkerStep(w)

Spec == Init /\ [][Next]_vars

-----------------------------------------------------------------------------
(* Properties *)

(* No two runs pass the fence test at the same time: the tokens the         *)
(* sequence hands to runs that overlap (acquire, BeginAcquire) differ, so   *)
(* a row matches at most one of them whatever the workers believe.          *)
OneCurrentRun ==
    \A v, w \in Worker : FenceMatches(v, now) /\ FenceMatches(w, now) => v = w

(* A session that holds the row lock still owns the lease: the row cannot   *)
(* be taken over between FOR UPDATE and COMMIT, even when it expires in     *)
(* between (lockLease, requireCurrentFence).                                *)
LockHolderIsEntitled == \A w \in Worker : HoldsRowLock(w) => Holder = run[w].token

(* A transaction that called requireCurrentFence commits its state only     *)
(* while its own token is the one in the row.                               *)
LockedCommitsAreCurrent == commit["locked"].by = commit["locked"].row

(* The statement of the architecture document: a stale worker cannot commit *)
(* fenced state after a newer owner takes over, whichever fence it uses.    *)
StaleWorkerCannotCommit == \A k \in Kinds : commit[k].by = commit[k].row

(* However the owner dies or stalls, the row blocks other owners for at     *)
(* most one lease duration: no path of renewals or late acquisitions makes  *)
(* an expiry that lies further ahead.                                       *)
OrphanBlocksAtMostTTL == lease.expiresAt <= now + TTL

(* A token that left the row never comes back: a superseded run cannot      *)
(* become current again.                                                    *)
TokensNeverReturn == [][lease'.token # lease.token => lease'.token \notin granted]_vars

(* A lease changes hands only when it was released or has expired by the    *)
(* database clock, although acquire compares the expiry with the older      *)
(* timestamp of its statement and waits for the row lock in between.        *)
TakeoverOnlyAfterExpiry == [][lease'.token # lease.token => ~CurrentAt(now)]_vars

(* The lease and its locked transactions implement FencedLease. *)
Abstract == INSTANCE FencedLease WITH Token <- Tokens, entitled <- Holder,
                                      writer <- commit["locked"].by

ImplementsFencedLease == Abstract!Spec
=============================================================================
