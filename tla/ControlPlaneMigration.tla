----------------------- MODULE ControlPlaneMigration -----------------------
(* The migration of the control plane from SQLite to PostgreSQL: read-only  *)
(* snapshots of the SQLite file, the backfill that inserts their rows batch *)
(* by batch, and the reconciliation whose passed checkpoint is the evidence *)
(* for switching authority (controlPlaneMigrationService.ts).               *)
EXTENDS Naturals, Sequences, FiniteSets, SequencesExt

CONSTANTS Cands,        \* candidates of the one research run
          Events,       \* decision lifecycle events
          CandOf,       \* the candidate an event belongs to
          StatusOf,     \* the lifecycle status an event stands for
          Backfills,    \* backfill processes
          MaxSnapshots, MaxTime

VARIABLES src,      \* live SQLite: occurred_at of each event, 0 when there is none
          linked,   \* candidates that have their decision snapshot
          snaps,    \* the sealed snapshots: copies of <<src, linked>>
          tgt,      \* PostgreSQL: set of inserted rows
          bf,       \* backfill process -> [snap, todo, end]
          passed,   \* the snapshots with a passed checkpoint
          blocked   \* the snapshots with a blocked checkpoint

vars == <<src, linked, snaps, tgt, bf, passed, blocked>>

None == [snap |-> 0, todo |-> <<>>, end |-> "idle"]

(* The events of a candidate in the order of occurred_at, then event_id (the order of Events). *)
EventsOf(s, c) ==
    LET mine == {e \in Events : CandOf[e] = c /\ s.at[e] > 0}
    IN  SetToSortSeq(mine, LAMBDA d, e : s.at[d] < s.at[e] \/ (s.at[d] = s.at[e] /\ d < e))

LatestStatus(s, c) ==
    LET q == EventsOf(s, c) IN IF q = <<>> THEN "selected" ELSE StatusOf[q[Len(q)]]

RunRow == [table |-> "run", id |-> 0, of |-> 0, status |-> "completed", seq |-> 0, prior |-> "none"]

CandidateRow(s, c) == [table |-> "candidate", id |-> c, of |-> 0, status |-> LatestStatus(s, c), seq |-> 0, prior |-> "none"]

EventRow(s, c, i) ==
    LET q == EventsOf(s, c)
    IN  [table |-> "event", id |-> q[i], of |-> c, status |-> StatusOf[q[i]], seq |-> i - 1,
         prior |-> IF i = 1 THEN "none" ELSE StatusOf[q[i - 1]]]

EventRows(s, c) == [i \in 1..Len(EventsOf(s, c)) |-> EventRow(s, c, i)]

Rows_EventsFirst(s) ==
    LET cs == SetToSortSeq(Cands, LAMBDA a, b : a < b)
    IN  <<RunRow>> \o FlattenSeq([i \in 1..Len(cs) |-> EventRows(s, cs[i])])
                   \o [i \in 1..Len(cs) |-> CandidateRow(s, cs[i])]

(* What the backfill inserts: the run, the candidates, then each candidate's events in sequence. *)
Rows(s) ==
    LET cs == SetToSortSeq(Cands, LAMBDA a, b : a < b)
    IN  <<RunRow>> \o [i \in 1..Len(cs) |-> CandidateRow(s, cs[i])]
                   \o FlattenSeq([i \in 1..Len(cs) |-> EventRows(s, cs[i])])

(* A candidate without its decision, or an event whose decision does not name the candidate. *)
SourceIssues(s) == Cands \ s.linked

Primary(r) == <<r.table, r.id>>

Stored(r) == {x \in tgt : Primary(x) = Primary(r)}

(* What the tables refuse: a missing parent, or a second event with the sequence number. *)
Admits_NoSequence(r) ==
    CASE r.table = "run" -> TRUE
      [] r.table = "candidate" -> RunRow \in tgt
      [] OTHER -> \E x \in tgt : x.table = "candidate" /\ x.id = r.of

Admits(r) ==
    CASE r.table = "run" -> TRUE
      [] r.table = "candidate" -> RunRow \in tgt
      [] OTHER -> /\ \E x \in tgt : x.table = "candidate" /\ x.id = r.of
                  /\ ~\E x \in tgt : x.table = "event" /\ x.of = r.of /\ x.seq = r.seq

(* A row that is already there is accepted only when every column agrees. *)
InsertOutcome_Ignores(r) == IF Stored(r) /= {} THEN "same" ELSE IF Admits(r) THEN "inserted" ELSE "conflict"

InsertOutcome(r) ==
    IF Stored(r) /= {} THEN (IF r \in tgt THEN "same" ELSE "conflict")
    ELSE IF Admits(r) THEN "inserted" ELSE "conflict"

Init ==
    /\ src = [e \in Events |-> 0] /\ linked \in SUBSET Cands
    /\ snaps = <<>> /\ tgt = {}
    /\ bf = [b \in Backfills |-> None]
    /\ passed = {} /\ blocked = {}

(* The application still writes SQLite; an event may carry an earlier time than one before it. *)
SourceEvent(e) ==
    /\ src[e] = 0 /\ CandOf[e] \in linked
    /\ \E t \in 1..MaxTime : src' = [src EXCEPT ![e] = t]
    /\ UNCHANGED <<linked, snaps, tgt, bf, passed, blocked>>

SourceLink(c) ==
    /\ c \notin linked /\ linked' = linked \cup {c}
    /\ UNCHANGED <<src, snaps, tgt, bf, passed, blocked>>

(* createReadConsistentSqliteSnapshot: the copy is made read-only and never changes again. *)
Seal ==
    /\ Len(snaps) < MaxSnapshots
    /\ snaps' = Append(snaps, [at |-> src, linked |-> linked])
    /\ UNCHANGED <<src, linked, tgt, bf, passed, blocked>>

(* A backfill takes no lock: two of them, of one snapshot or of two, may run together. *)
StartBackfill(b) ==
    /\ bf[b].end \notin {"running", "conflict"}
    /\ \E n \in 1..Len(snaps) :
         bf' = [bf EXCEPT ![b] = IF SourceIssues(snaps[n]) /= {} THEN [snap |-> n, todo |-> <<>>, end |-> "refused"]
                                 ELSE [snap |-> n, todo |-> Rows(snaps[n]), end |-> "running"]]
    /\ UNCHANGED <<src, linked, snaps, tgt, passed, blocked>>

(* One batch of insertInBatches, in one transaction (here one row). *)
InsertBatch(b) ==
    /\ bf[b].end = "running" /\ bf[b].todo /= <<>>
    /\ LET r == Head(bf[b].todo)
           o == InsertOutcome(r)
       IN  /\ tgt' = IF o = "inserted" THEN tgt \cup {r} ELSE tgt
           /\ bf' = [bf EXCEPT ![b].todo = IF o = "conflict" THEN <<>> ELSE Tail(@),
                               ![b].end = IF o = "conflict" THEN "conflict"
                                          ELSE IF Len(bf[b].todo) = 1 THEN "completed" ELSE @]
    /\ UNCHANGED <<src, linked, snaps, passed, blocked>>

CrashBackfill(b) ==
    /\ bf[b].end = "running" /\ bf' = [bf EXCEPT ![b] = None]
    /\ UNCHANGED <<src, linked, snaps, tgt, passed, blocked>>

StatusCount(rows, st) == Cardinality({r \in rows : r.table = "candidate" /\ r.status = st})

Statuses == {"selected"} \cup {StatusOf[e] : e \in Events}

Agrees_NoMissing(s) ==
    /\ SourceIssues(s) = {}
    /\ {Primary(r) : r \in tgt} \subseteq {Primary(r) : r \in ToSet(Rows(s))}

(* compareControlPlaneState: identifiers, counts per status, and the events of every candidate. *)
Agrees(s) ==
    LET rows == ToSet(Rows(s))
    IN  /\ SourceIssues(s) = {}
        /\ {Primary(r) : r \in rows} = {Primary(r) : r \in tgt}
        /\ \A st \in Statuses : StatusCount(rows, st) = StatusCount(tgt, st)
        /\ \A c \in Cands : {[id |-> r.id, seq |-> r.seq, status |-> r.status] : r \in {x \in rows : x.of = c}} =
                            {[id |-> r.id, seq |-> r.seq, status |-> r.status] : r \in {x \in tgt : x.of = c}}

(* One repeatable-read transaction.  The identifier of a passed checkpoint is the hash of the snapshot: *)
(* a second one must repeat the first exactly (CONTROL_PLANE_CHECKPOINT_IMMUTABLE); a blocked one has a *)
(* name of its own.                                                                                     *)
Reconcile(n) ==
    /\ IF Agrees(snaps[n])
       THEN passed' = passed \cup {n} /\ UNCHANGED blocked
       ELSE blocked' = blocked \cup {n} /\ UNCHANGED passed
    /\ UNCHANGED <<src, linked, snaps, tgt, bf>>

Next ==
    \/ \E e \in Events : SourceEvent(e)
    \/ \E c \in Cands : SourceLink(c)
    \/ Seal
    \/ \E b \in Backfills : StartBackfill(b) \/ InsertBatch(b) \/ CrashBackfill(b)
    \/ \E n \in 1..Len(snaps) : Reconcile(n)

Row == [table : {"run", "candidate", "event"}, id : {0} \cup Cands \cup Events, of : {0} \cup Cands,
        status : Statuses \cup {"completed"}, seq : 0..Cardinality(Events), prior : Statuses \cup {"none"}]

TypeOK ==
    /\ src \in [Events -> 0..MaxTime] /\ linked \subseteq Cands
    /\ tgt \subseteq Row
    /\ \A b \in Backfills : bf[b].end \in {"idle", "running", "refused", "conflict", "completed"}

(* The events a candidate has in PostgreSQL are numbered without a gap and each names the status of the one *)
(* before it, also when backfills of two snapshots that order the events differently ran side by side.     *)
ChainIntact ==
    LET events == {x \in tgt : x.table = "event"}
        Before(x) == {y \in events : y.of = x.of /\ y.seq < x.seq}
    IN  \A x \in events :
            /\ Cardinality(Before(x)) = x.seq
            /\ ~\E y \in events : y /= x /\ y.of = x.of /\ y.seq = x.seq
            /\ x.prior = "none" \/ \E y \in Before(x) : y.seq = x.seq - 1 /\ y.status = x.prior

(* A backfill that reported completed left every row of its snapshot in PostgreSQL unchanged. *)
CompletedIsComplete ==
    \A b \in Backfills : bf[b].end = "completed" => ToSet(Rows(snaps[bf[b].snap])) \subseteq tgt

(* A checkpoint that passes certifies the snapshot row by row, although statuses are compared as counts. *)
PassedCertifiesStep ==
    \A n \in passed' \ passed : tgt' = ToSet(Rows(snaps[n]))

(* Interrupting a backfill and starting it again never ends in a conflict, unless PostgreSQL holds a row *)
(* that the snapshot does not have.                                                                      *)
ConflictNeedsForeignRow ==
    \A b \in Backfills : bf[b].end = "conflict" => ~(tgt \subseteq ToSet(Rows(snaps[bf[b].snap])))
=============================================================================
