---------------------------- MODULE OutcomeRefresh ----------------------------
(* runPostgresOutcomeLearningRefresh: refreshes of one range with one lease,  *)
(* each statement a fenced autocommit. A refresh that dies takes no further   *)
(* step. What trading wrote about a candidate is its version; how a record    *)
(* follows from the rows is OutcomeRecord.                                    *)
EXTENDS Integers, FiniteSets, FiniteSetsExt

CONSTANTS Runs, Cands, Chunk, \* refreshes, candidates, candidate -> its chunk of 50 records
          GroupOf,            \* version -> the group it falls in (fill status)
          MaxVersion, MinSample, MaxRecords

VARIABLES version,  \* what the database says of a candidate
          holder,   \* run that holds the lease
          run,      \* run -> [pc, low, seen, chunk, result]
          table,    \* outcome_learning_refresh_runs: source -> [status, run]
          record,   \* outcome_learning_records: candidate -> [version, run]
          agg       \* historical_outcome_aggregates: group -> [members, run, usable]

vars == <<version, holder, run, table, record, agg>>

None == 0
Versions == 0..MaxVersion
Groups == {GroupOf[v] : v \in Versions}
Chunks == {Chunk[c] : c \in Cands}
NoVersions == [c \in Cands |-> 0]
NewRun == [pc |-> "idle", low |-> NoVersions, seen |-> NoVersions, chunk |-> 1, result |-> "none"]

Init ==
    /\ version = NoVersions /\ holder = None /\ run = [r \in Runs |-> NewRun]
    /\ table = {} /\ record = [c \in Cands |-> [version |-> 0, run |-> None]]
    /\ agg = [g \in Groups |-> [members |-> {}, run |-> None, usable |-> FALSE]]

At(r, pc) == run[r].pc = pc
Set(r, pc) == run' = [run EXCEPT ![r].pc = pc]
End(r, result) == run' = [run EXCEPT ![r] = [@ EXCEPT !.pc = "done", !.result = result, !.low = NoVersions, !.chunk = 1]]

(* Trading goes on. *)
Trade(c) ==
    /\ version[c] < MaxVersion /\ version' = [version EXCEPT ![c] = @ + 1]
    /\ UNCHANGED <<holder, run, table, record, agg>>

(* The scheduler gives the lease to a refresh; the one before it may be dead, or may go on. *)
Acquire(r) ==
    /\ At(r, "idle") /\ \A q \in Runs : q < r => ~At(q, "idle")
    /\ holder' = r /\ Set(r, "read") /\ UNCHANGED <<version, table, record, agg>>

BeginRead(r) ==
    /\ At(r, "read") /\ run' = [run EXCEPT ![r].pc = "reading", ![r].low = version]
    /\ UNCHANGED <<version, holder, table, record, agg>>

(* loadSourceState: each candidate is seen as it was at some moment of the reading. *)
EndRead(r) ==
    /\ At(r, "reading")
    /\ \E seen \in [Cands -> Versions] :
          /\ \A c \in Cands : seen[c] \in run[r].low[c]..version[c]
          /\ run' = [run EXCEPT ![r].pc = "check", ![r].seen = seen]
    /\ UNCHANGED <<version, holder, table, record, agg>>

Source(r) == run[r].seen

(* The rows that answer the query for an unchanged source. *)
Existing_AnyStatus(r) == {t \in table : t.source = Source(r)}

Existing(r) == {t \in table : t.source = Source(r) /\ t.status = "completed"}

Check(r) ==
    /\ At(r, "check")
    /\ IF Existing(r) # {} THEN End(r, "no_op") ELSE Set(r, "start")
    /\ UNCHANGED <<version, holder, table, record, agg>>

HeldBy_Once(r) == At(r, "start") => holder = r

(* The fence of every statement. *)
HeldBy(r) == holder = r

(* persistRefreshStart: a row of the same source is taken over. *)
Start(r) ==
    /\ At(r, "start")
    /\ IF HeldBy(r)
       THEN /\ table' = {t \in table : t.source # Source(r)} \cup {[source |-> Source(r), status |-> "running", run |-> r]}
            /\ Set(r, "records")
       ELSE End(r, "fence_lost") /\ UNCHANGED table
    /\ UNCHANGED <<version, holder, record, agg>>

WriteRecords(r) ==
    /\ At(r, "records")
    /\ IF HeldBy(r)
       THEN /\ record' = [c \in Cands |-> IF Chunk[c] = run[r].chunk THEN [version |-> Source(r)[c], run |-> r] ELSE record[c]]
            /\ IF run[r].chunk = Max(Chunks) THEN Set(r, "aggregates") ELSE run' = [run EXCEPT ![r].chunk = @ + 1]
       ELSE End(r, "fence_lost") /\ UNCHANGED record
    /\ UNCHANGED <<version, holder, table, agg>>

Members(r, g) == {c \in Cands : GroupOf[Source(r)[c]] = g}

Usable(r, g) == Cardinality(Cands) <= MaxRecords /\ Cardinality(Members(r, g)) >= MinSample

(* Groups are only written, never removed. *)
WriteAggregates(r) ==
    /\ At(r, "aggregates")
    /\ IF HeldBy(r)
       THEN /\ agg' = [g \in Groups |-> IF Members(r, g) = {} THEN agg[g]
                                        ELSE [members |-> Members(r, g), run |-> r, usable |-> Usable(r, g)]]
            /\ Set(r, "complete")
       ELSE End(r, "fence_lost") /\ UNCHANGED agg
    /\ UNCHANGED <<version, holder, table, record>>

Complete(r) ==
    /\ At(r, "complete")
    /\ IF HeldBy(r)
       THEN /\ table' = {IF t.source = Source(r) THEN [t EXCEPT !.status = "completed"] ELSE t : t \in table}
            /\ End(r, "completed")
       ELSE End(r, "fence_lost") /\ UNCHANGED table
    /\ UNCHANGED <<version, holder, record, agg>>

Next ==
    \/ \E c \in Cands : Trade(c)
    \/ \E r \in Runs : \/ Acquire(r) \/ BeginRead(r) \/ EndRead(r) \/ Check(r) \/ Start(r)
                       \/ WriteRecords(r) \/ WriteAggregates(r) \/ Complete(r)

Spec == Init /\ [][Next]_vars

-----------------------------------------------------------------------------
TypeOK ==
    /\ version \in [Cands -> Versions] /\ holder \in Runs \cup {None}
    /\ \A t \in table : t.source \in [Cands -> Versions] /\ t.status \in {"running", "completed"}
    /\ \A c \in Cands : record[c].version \in Versions
    /\ \A r \in Runs : run[r].result \in {"none", "no_op", "fence_lost", "completed"}

(* A refresh that answers that nothing changed, or that it completed, leaves for every candidate a record at least as new as what it read: a refresh that died half way is never taken for an answer. *)
AnsweredIsStored ==
    \A r \in Runs : run[r].result \in {"no_op", "completed"} => \A c \in Cands : record[c].version >= Source(r)[c]

(* The groups a completed refresh wrote count every one of its records once, as long as nothing was written after it. *)
GroupsAddUp ==
    \A r \in Runs : run[r].result = "completed" /\ (\A c \in Cands : record[c].run = r)
       => LET mine == {g \in Groups : agg[g].run = r} IN
          /\ UNION {agg[g].members : g \in mine} = Cands
          /\ MapThenSumSet(LAMBDA g : Cardinality(agg[g].members), mine) = Cardinality(Cands)
          /\ \A g \in mine : \A c \in agg[g].members : GroupOf[record[c].version] = g

(* A record never goes back to an older state of its candidate, although a refresh that lost its lease goes on writing. *)
NeverBackwardsStep == \A c \in Cands : record'[c].version >= record[c].version

NeverBackwards == [][NeverBackwardsStep]_vars
=============================================================================
