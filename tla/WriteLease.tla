------------------------------- MODULE WriteLease -------------------------------
(* sqliteWriteLeaseService, runWithSqliteBusyRetry and their callers: research *)
(* and the zero-DTE engine write batches to one SQLite file, each under a      *)
(* lease row that expires. The calls block their process; time passes anyway.  *)
EXTENDS Integers, FiniteSets

CONSTANTS Procs, Batches,        \* writers; number of batches of optionsService
          Ttl, MaxWait, MaxAttempts, MaxTime, MaxCrashes

VARIABLES now,
          row,      \* runtime_write_leases: [owner, exp]
          lock,     \* process inside BEGIN IMMEDIATE ... COMMIT
          kind,     \* process -> optionsService or the zero-DTE engine
          proc,     \* process -> [pc, since, batch, attempt, count, granted]
          stored,   \* batch -> process whose transaction inserted it
          crashes

vars == <<now, row, lock, kind, proc, stored, crashes>>

None == 0
(* The batches of optionsService, and 0 for the one transaction of the zero-DTE engine. *)
Steps == 0..Batches
NoRow == [owner |-> None, exp |-> 0]

Init ==
    /\ now = 0 /\ row = NoRow /\ lock = None /\ stored = [b \in Steps |-> None] /\ crashes = 0
    /\ kind \in [Procs -> {"options", "zero_dte"}]
    /\ proc = [p \in Procs |-> [pc |-> "idle", since |-> 0, batch |-> IF kind[p] = "options" THEN 1 ELSE 0, attempt |-> 1, count |-> 0, granted |-> 0]]

At(p, pc) == proc[p].pc = pc
Goto(p, pc) == proc' = [proc EXCEPT ![p].pc = pc, ![p].attempt = 1]
Owns(p) == row.owner = p /\ row.exp > now
Free == lock = None
Last(p) == IF kind[p] = "options" THEN Batches ELSE 0

Tick == now < MaxTime /\ now' = now + 1 /\ UNCHANGED <<row, lock, proc, stored, crashes, kind>>

-----------------------------------------------------------------------------
Retries_Always(p) == TRUE

(* runWithSqliteBusyRetry: what a busy database does to its caller. *)
Retries(p) == proc[p].attempt < MaxAttempts

(* BEGIN IMMEDIATE of any transaction while another process is inside one: the busy timeout runs out. *)
Busy(p, from, failed) ==
    /\ At(p, from) /\ ~Free
    /\ IF Retries(p) THEN proc' = [proc EXCEPT ![p].attempt = @ + 1] ELSE Goto(p, failed)
    /\ UNCHANGED <<now, row, lock, stored, crashes, kind>>

Call(p) ==
    /\ At(p, "idle") /\ proc' = [proc EXCEPT ![p].pc = "acquire", ![p].since = now]
    /\ UNCHANGED <<now, row, lock, stored, crashes, kind>>

MayTake(p) == row.owner \in {None, p} \/ row.exp <= now

(* acquireLease, one transaction; refused until the deadline it is tried again. *)
Acquire(p) ==
    /\ At(p, "acquire") /\ Free
    /\ IF MayTake(p)
       THEN row' = [owner |-> p, exp |-> now + Ttl] /\ proc' = [proc EXCEPT ![p].pc = "check", ![p].granted = now, ![p].since = 0, ![p].attempt = 1]
       ELSE /\ UNCHANGED row
            /\ now >= proc[p].since + MaxWait /\ Goto(p, "unavailable")
    /\ UNCHANGED <<now, lock, stored, crashes, kind>>

(* assertOwnership before the next batch, with the check that the research run is still active. *)
Check(p) ==
    /\ At(p, "check") /\ (IF Owns(p) THEN Goto(p, "begin") ELSE Goto(p, "lost"))
    /\ UNCHANGED <<now, row, lock, stored, crashes, kind>>

RunStopped(p) ==
    /\ At(p, "check") /\ kind[p] = "options" /\ Goto(p, "lost") /\ UNCHANGED <<now, row, lock, stored, crashes, kind>>

Begin(p) ==
    /\ At(p, "begin") /\ Free /\ lock' = p /\ proc' = [proc EXCEPT ![p].pc = "inside"] /\ UNCHANGED <<now, row, stored, crashes, kind>>

(* A statement fails: the transaction is rolled back, and tried again when the error is contention. *)
Rollback(p) ==
    /\ At(p, "inside") /\ lock' = None
    /\ \/ Retries(p) /\ proc' = [proc EXCEPT ![p].pc = "begin", ![p].attempt = @ + 1]
       \/ Goto(p, "lost")
    /\ UNCHANGED <<now, row, stored, crashes, kind>>

Inserted_Every(p) == 1

(* The rows of a batch that another writer stored before are skipped. *)
Inserted(p) == IF stored[proc[p].batch] = None THEN 1 ELSE 0

Commit(p) ==
    /\ At(p, "inside") /\ lock' = None
    /\ stored' = IF stored[proc[p].batch] = None THEN [stored EXCEPT ![proc[p].batch] = p] ELSE stored
    /\ proc' = [proc EXCEPT ![p].pc = "after", ![p].count = @ + Inserted(p), ![p].attempt = 1]
    /\ UNCHANGED <<now, row, crashes, kind>>

(* renewLease: only a lease that has not run out is extended. *)
RenewLease(p) ==
    IF Owns(p)
    THEN /\ row' = [row EXCEPT !.exp = now + Ttl]
         /\ proc' = [proc EXCEPT ![p].granted = now, ![p].attempt = 1, ![p].pc = IF proc[p].batch = Last(p) THEN "release" ELSE "check", ![p].batch = IF @ = Last(p) THEN @ ELSE @ + 1]
    ELSE UNCHANGED row /\ Goto(p, "lost")

Renew(p) == kind[p] = "options" /\ At(p, "after") /\ Free /\ RenewLease(p) /\ UNCHANGED <<now, lock, stored, crashes, kind>>

(* runInZeroDtePersistenceTransaction asserts the lease again after the commit. *)
Recheck(p) ==
    /\ kind[p] = "zero_dte" /\ At(p, "after") /\ (IF Owns(p) THEN Goto(p, "release") ELSE Goto(p, "lost"))
    /\ UNCHANGED <<now, row, lock, stored, crashes, kind>>

Release_AnyOwner(p) == row' = NoRow

(* releaseLease deletes the row only under its own owner id. *)
Release(p) == row' = IF row.owner = p THEN NoRow ELSE row

End(p) ==
    /\ proc[p].pc \in {"release", "lost"} /\ Free /\ Release(p)
    /\ Goto(p, IF At(p, "lost") THEN "failed" ELSE "done")
    /\ UNCHANGED <<now, lock, stored, crashes, kind>>

(* The process dies; SQLite undoes its open transaction, the row stays. *)
Crash(p) ==
    /\ crashes < MaxCrashes /\ proc[p].pc \notin {"idle", "done", "failed", "unavailable"}
    /\ crashes' = crashes + 1 /\ lock' = (IF lock = p THEN None ELSE lock) /\ Goto(p, "dead")
    /\ UNCHANGED <<now, row, stored, kind>>

Step(p) ==
    \/ Call(p) \/ Acquire(p) \/ Check(p) \/ Begin(p) \/ Rollback(p) \/ Commit(p) \/ Renew(p) \/ Recheck(p) \/ End(p) \/ RunStopped(p)
    \/ Busy(p, "acquire", "failed") \/ Busy(p, "begin", "lost") \/ (kind[p] = "options" /\ Busy(p, "after", "lost"))
    \/ Busy(p, "release", "failed") \/ Busy(p, "lost", "failed")

Next == Tick \/ \E p \in Procs : Step(p) \/ Crash(p)

Spec == Init /\ [][Next]_vars

-----------------------------------------------------------------------------
Pcs == {"idle", "acquire", "check", "begin", "inside", "after", "release", "lost", "done", "failed", "unavailable", "dead"}

TypeOK ==
    /\ now \in 0..MaxTime /\ row.owner \in Procs \cup {None} /\ lock \in Procs \cup {None}
    /\ \A p \in Procs : proc[p].pc \in Pcs /\ proc[p].batch \in Steps /\ proc[p].attempt \in 1..MaxAttempts

(* What a process must have taken too long for, to write while another one may hold the lease. *)
Stalled(p) == now >= proc[p].granted + Ttl

(* A batch is inside its transaction without the lease only if its process took longer than the lease since it was granted or renewed: no other process ends or takes over a lease that is still good. *)
WritesUnderLease == \A p \in Procs : At(p, "inside") => Owns(p) \/ Stalled(p)

(* A writer that returns has every one of its batches in the database, and the number it returns is what its own transactions inserted, although transactions were retried and other writers stored the same rows. *)
ReturnedIsStored ==
    \A p \in Procs : /\ At(p, "done") => \A b \in (IF kind[p] = "options" THEN 1..Batches ELSE {0}) : stored[b] # None
                     /\ proc[p].count = Cardinality({b \in Steps : stored[b] = p})
=============================================================================
