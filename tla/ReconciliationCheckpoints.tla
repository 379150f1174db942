----------------------- MODULE ReconciliationCheckpoints -----------------------
(* PostgresReconciliationCheckpointRepository: runs that compare a SQLite file  *)
(* with PostgreSQL resume one checkpoint, advance it, record discrepancies and  *)
(* finish it. Every call is a transaction of statements that interleave with    *)
(* those of other runs as far as the locks let them.                            *)
EXTENDS Naturals, FiniteSets

CONSTANTS Procs, Checksums,      \* processes; checksums the SQLite file may have
          Rows,                  \* rows to compare
          MaxTakeovers, MaxCrashes

Nobody == 0

VARIABLES ckpt,     \* [status, checksum, cursor, count, version]; version 0 is no row
          found,    \* reconciliation_discrepancies
          lease,    \* [holder, lock]: whose fence is current, and which transaction holds the row lock
          rowLock,  \* transaction that holds the lock of the checkpoint row
          file,     \* checksum of the file now
          proc,     \* process -> [pc, checksum, cursor, version, seen, counted]
          differing, \* rows that differ now
          takeovers, crashes

vars == <<ckpt, found, lease, rowLock, file, proc, differing, takeovers, crashes>>

Idle == [pc |-> "idle", checksum |-> CHOOSE s \in Checksums : TRUE, cursor |-> 0, version |-> 0, seen |-> 0, counted |-> 0]

Init ==
    /\ ckpt = [status |-> "running", checksum |-> Idle.checksum, cursor |-> 0, count |-> 0, version |-> 0]
    /\ found = {} /\ lease = [holder |-> Nobody, lock |-> Nobody] /\ rowLock = Nobody
    /\ file \in Checksums
    /\ proc = [p \in Procs |-> Idle] /\ differing \in SUBSET (1..Rows)
    /\ takeovers = 0 /\ crashes = 0

At(p, pc) == proc[p].pc = pc
Goto(p, pc) == proc' = [proc EXCEPT ![p].pc = pc]

(* The next run of the job; acquisition waits for the lock of the lease row. *)
Takeover(p) ==
    /\ takeovers < MaxTakeovers /\ At(p, "idle") /\ lease.lock = Nobody
    /\ lease' = [lease EXCEPT !.holder = p] /\ takeovers' = takeovers + 1
    /\ proc' = [proc EXCEPT ![p] = [Idle EXCEPT !.pc = "start", !.checksum = file]]
    /\ UNCHANGED <<ckpt, found, rowLock, file, differing, crashes>>

(* The SQLite file is written between two runs. *)
FileChanges(s) ==
    /\ s # file /\ file' = s
    /\ UNCHANGED <<ckpt, found, lease, rowLock, proc, differing, takeovers, crashes>>

(* A row of the target is put right between two runs. *)
Repair(r) ==
    /\ r \in differing /\ differing' = differing \ {r}
    /\ UNCHANGED <<ckpt, found, lease, rowLock, file, proc, takeovers, crashes>>

LocksLease_Reads(p) == UNCHANGED lease

(* requireCurrentFence holds the lease row until the end of the transaction. *)
LocksLease(p) == lease.lock = Nobody /\ lease' = [lease EXCEPT !.lock = p]

Unlocked(p) == [lease EXCEPT !.lock = IF @ = p THEN Nobody ELSE @]

(* The first statement of every transaction. *)
Begin(p, from, to) ==
    /\ At(p, from)
    /\ IF lease.holder = p THEN LocksLease(p) /\ Goto(p, to) ELSE UNCHANGED lease /\ proc' = [proc EXCEPT ![p] = Idle]
    /\ UNCHANGED <<ckpt, found, rowLock, file, differing, takeovers, crashes>>

(* startOrResume *)
StartOrResume(p) ==
    /\ At(p, "starting") /\ rowLock = Nobody /\ lease' = Unlocked(p)
    /\ \/ /\ ckpt.version = 0
          /\ ckpt' = [status |-> "running", checksum |-> proc[p].checksum, cursor |-> 0, count |-> 0, version |-> 1]
          /\ proc' = [proc EXCEPT ![p].pc = "work", ![p].version = 1]
       \/ /\ ckpt.version > 0 /\ ckpt.checksum = proc[p].checksum
          /\ proc' = [proc EXCEPT ![p].pc = "work", ![p].version = ckpt.version, ![p].cursor = ckpt.cursor, ![p].seen = ckpt.count]
          /\ UNCHANGED ckpt
       \/ ckpt.version > 0 /\ ckpt.checksum # proc[p].checksum /\ proc' = [proc EXCEPT ![p] = Idle] /\ UNCHANGED ckpt
    /\ UNCHANGED <<found, rowLock, file, differing, takeovers, crashes>>

-----------------------------------------------------------------------------
Mine(p) == ckpt.version = proc[p].version /\ ckpt.status = "running"

(* advance: the next row was compared, as the caller counts discrepancies. *)
Advance(p) ==
    LET seen == proc[p].seen + (IF proc[p].cursor + 1 \in differing THEN 1 ELSE 0) IN
    /\ At(p, "advancing") /\ rowLock = Nobody /\ lease' = Unlocked(p)
    /\ IF Mine(p)
       THEN /\ ckpt' = [ckpt EXCEPT !.cursor = proc[p].cursor + 1, !.count = seen, !.version = @ + 1]
            /\ proc' = [proc EXCEPT ![p].pc = "work", ![p].cursor = @ + 1, ![p].seen = seen, ![p].version = @ + 1]
       ELSE UNCHANGED ckpt /\ proc' = [proc EXCEPT ![p] = Idle]
    /\ UNCHANGED <<found, rowLock, file, differing, takeovers, crashes>>

(* appendDiscrepancy locks the checkpoint and refuses a finished one. *)
LockCheckpoint(p) ==
    /\ At(p, "appending") /\ rowLock = Nobody
    /\ IF ckpt.status = "running" THEN rowLock' = p /\ Goto(p, "inserting") /\ UNCHANGED lease
       ELSE lease' = Unlocked(p) /\ proc' = [proc EXCEPT ![p] = Idle] /\ UNCHANGED rowLock
    /\ UNCHANGED <<ckpt, found, file, differing, takeovers, crashes>>

(* ON CONFLICT (id) DO NOTHING: a run that resumes finds the same discrepancy again. *)
InsertDiscrepancy(p) ==
    /\ At(p, "inserting") /\ found' = found \cup {proc[p].cursor + 1} /\ rowLock' = Nobody /\ lease' = Unlocked(p)
    /\ Goto(p, "advance") /\ UNCHANGED <<ckpt, file, differing, takeovers, crashes>>

(* finishCheckpoint counts the rows first and writes its verdict in a second statement. *)
Count(p) ==
    /\ At(p, "finishing") /\ proc' = [proc EXCEPT ![p].pc = "deciding", ![p].counted = Cardinality(found)]
    /\ UNCHANGED <<ckpt, found, lease, rowLock, file, differing, takeovers, crashes>>

Discrepancies_Callers(p) == proc[p].seen

Discrepancies(p) == IF proc[p].seen > proc[p].counted THEN proc[p].seen ELSE proc[p].counted

(* complete, or block when the caller forces it. *)
FinishCheckpoint(p, forceBlocked) ==
    LET verdict == IF forceBlocked \/ Discrepancies(p) > 0 THEN "blocked" ELSE "passed" IN
    /\ At(p, "deciding") /\ rowLock = Nobody /\ lease' = Unlocked(p)
    /\ ckpt' = IF Mine(p) THEN [ckpt EXCEPT !.status = verdict, !.count = Discrepancies(p), !.version = @ + 1] ELSE ckpt
    /\ proc' = [proc EXCEPT ![p] = Idle] /\ UNCHANGED <<found, rowLock, file, differing, takeovers, crashes>>

(* What a caller does with the row it compares. *)
Compare(p) ==
    /\ At(p, "work")
    /\ IF proc[p].cursor = Rows THEN Goto(p, "finish")
       ELSE Goto(p, IF proc[p].cursor + 1 \in differing THEN "append" ELSE "advance")
    /\ UNCHANGED <<ckpt, found, lease, rowLock, file, differing, takeovers, crashes>>

(* The process dies: PostgreSQL rolls its transaction back. *)
Crash(p) ==
    /\ crashes < MaxCrashes /\ ~At(p, "idle") /\ crashes' = crashes + 1
    /\ lease' = Unlocked(p) /\ rowLock' = (IF rowLock = p THEN Nobody ELSE rowLock)
    /\ proc' = [proc EXCEPT ![p] = Idle] /\ UNCHANGED <<ckpt, found, file, differing, takeovers>>

Step(p) ==
    \/ Takeover(p) \/ Compare(p) \/ Crash(p)
    \/ Begin(p, "start", "starting") \/ StartOrResume(p)
    \/ Begin(p, "advance", "advancing") \/ Advance(p)
    \/ Begin(p, "append", "appending") \/ LockCheckpoint(p) \/ InsertDiscrepancy(p)
    \/ Begin(p, "finish", "finishing") \/ Count(p) \/ \E forced \in BOOLEAN : FinishCheckpoint(p, forced)

Next == (\E p \in Procs : Step(p)) \/ (\E s \in Checksums : FileChanges(s)) \/ (\E r \in 1..Rows : Repair(r))

Spec == Init /\ [][Next]_vars

-----------------------------------------------------------------------------
TypeOK ==
    /\ ckpt.status \in {"running", "passed", "blocked"} /\ ckpt.cursor \in 0..Rows
    /\ lease.holder \in Procs \cup {Nobody} /\ lease.lock \in Procs \cup {Nobody} /\ rowLock \in Procs \cup {Nobody}
    /\ \A p \in Procs : proc[p].seen \in 0..Rows /\ proc[p].cursor \in 0..Rows

(* A passed checkpoint has no discrepancy, and covers every row: also when the run that found one died before it was counted and another run resumed. *)
PassedIsClean == ckpt.version > 0 /\ ckpt.status = "passed" => found = {} /\ ckpt.count = 0 /\ ckpt.cursor = Rows

(* The count that a finished checkpoint shows covers the discrepancies that are stored. *)
CountCoversRows == ckpt.status # "running" => ckpt.count >= Cardinality(found)
=============================================================================
