---------------------- MODULE ExecutionStateMigration ----------------------
(* The migration of the execution state: the SQLite ledger, PostgreSQL rows *)
(* that the running application has already projected, the backfill of a    *)
(* sealed snapshot that inserts what is missing and reuses what it finds    *)
(* under another identifier, and the reconciliation checkpoint.             *)
EXTENDS Naturals, Sequences, FiniteSets, SequencesExt

CONSTANTS Ledgers,       \* rows of paper_execution_ledger
          KeyOf,         \* idempotency key of a row; a retry has the key of the first attempt
          MaterialOf,    \* the columns of its intent that may not differ
          MaxSnapshots, MaxTime

VARIABLES ledger,   \* ledger row -> [st, upd], upd 0 when the row does not exist
          snaps,    \* sealed snapshots: [rows, obs]
          intents,  \* PostgreSQL: intent id -> [key, mat, st, upd], "none" when absent
          orders,   \* order id -> [intent, st, upd]
          alloc,    \* the strategy allocation: [ver, deployed, upd], ver 0 when absent
          now,
          unsent,   \* ledger rows whose last change was not projected
          bf,       \* the backfill that holds the advisory lock: [snap, todo, alias, end]
          passed    \* snapshot -> number of target rows its passed checkpoint recorded

vars == <<ledger, snaps, intents, orders, alloc, now, unsent, bf, passed>>

NoRow == [key |-> 0, mat |-> 0, st |-> "none", upd |-> 0]
NoOrder == [intent |-> 0, st |-> "none", upd |-> 0]
NoBackfill == [snap |-> 0, todo |-> <<>>, alias |-> [l \in Ledgers |-> l], end |-> "idle"]
Idle == bf.end /= "running"

(* The newest ledger row of a key stands for the intent (canonicalIntents). *)
Written(s) == {l \in Ledgers : s.rows[l].upd > 0}
Canonical(s, l) == CHOOSE c \in Written(s) : KeyOf[c] = KeyOf[l] /\
                      \A d \in Written(s) : KeyOf[d] = KeyOf[l] => s.rows[d].upd <= s.rows[c].upd
SourceIssues(s) == {l \in Written(s) : \E d \in Written(s) : d /= l /\ KeyOf[d] = KeyOf[l] /\ s.rows[d].upd = s.rows[l].upd}

HasOrder(st) == st \in {"submitted", "filled"}
Deployed(rows) == Cardinality({l \in Ledgers : rows[l].st = "filled"})
AllocRow(s) == [table |-> "alloc", id |-> 0, parent |-> 0, st |-> "active", upd |-> s.obs, n |-> Deployed(s.rows)]
IntentRow(s, l) == [table |-> "intent", id |-> l, parent |-> 0, st |-> s.rows[l].st, upd |-> s.rows[l].upd, n |-> 0]
OrderRow(s, l) == [table |-> "order", id |-> l, parent |-> Canonical(s, l), st |-> s.rows[l].st, upd |-> s.rows[l].upd, n |-> 0]

(* Parents before children, each table in the order of its identifiers. *)
Rows(s) ==
    LET sort(set) == SetToSortSeq(set, LAMBDA a, b : a < b)
        is == sort({Canonical(s, l) : l \in Written(s)})
        os == sort({l \in Written(s) : HasOrder(s.rows[l].st)})
    IN  <<AllocRow(s)>> \o [i \in 1..Len(is) |-> IntentRow(s, is[i])] \o [i \in 1..Len(os) |-> OrderRow(s, os[i])]

(* classifyStrategyAllocationPrimaryReplay: the target may only be ahead of the snapshot. *)
Replay(r) ==
    IF alloc.deployed = r.n /\ alloc.ver = 1 /\ alloc.upd = r.upd THEN "equivalent"
    ELSE IF alloc.upd <= r.upd \/ alloc.ver <= 1 \/ alloc.deployed < r.n THEN "conflict" ELSE "advanced"

SameKey(l) == {i \in Ledgers : intents[i].key = KeyOf[l]}

SameKey_AnyIntent(l) == {i \in Ledgers : intents[i].st /= "none"}

(* The row found by its identity columns (account and idempotency key). *)
IdentityRow(l) == SameKey(l)

Resolve_Unaliased(alias, l) == l

(* resolveAliasedRow: a foreign key follows the row that was reused for its parent. *)
Resolve(alias, l) == alias[l]

(* insertTargetRow: "insert", "reuse" or "conflict". *)
Outcome(r, alias) ==
    CASE r.table = "alloc" -> IF alloc.ver = 0 THEN "insert" ELSE IF Replay(r) = "conflict" THEN "conflict" ELSE "reuse"
      [] r.table = "intent" ->
            IF intents[r.id].st /= "none"
            THEN IF intents[r.id] = [key |-> KeyOf[r.id], mat |-> MaterialOf[r.id], st |-> r.st, upd |-> r.upd] THEN "reuse" ELSE "conflict"
            ELSE IF IdentityRow(r.id) = {} THEN "insert"
            ELSE IF \A i \in IdentityRow(r.id) : intents[i].mat = MaterialOf[r.id] THEN "reuse" ELSE "conflict"
      [] r.table = "order" ->
            LET p == Resolve(alias, r.parent) IN
            IF orders[r.id].st /= "none" THEN IF orders[r.id] = [intent |-> p, st |-> r.st, upd |-> r.upd] THEN "reuse" ELSE "conflict"
            ELSE IF intents[p].st /= "none" THEN "insert" ELSE "conflict"

(* The identifier that later rows must use for the row. *)
AliasAfter(r, alias) ==
    IF r.table = "intent" /\ intents[r.id].st = "none" /\ IdentityRow(r.id) /= {}
    THEN [alias EXCEPT ![r.id] = CHOOSE i \in IdentityRow(r.id) : TRUE] ELSE alias

Inserts(r, alias, o) ==
    /\ alloc' = IF o = "insert" /\ r.table = "alloc" THEN [ver |-> 1, deployed |-> r.n, upd |-> r.upd] ELSE alloc
    /\ intents' = IF o = "insert" /\ r.table = "intent"
                  THEN [intents EXCEPT ![r.id] = [key |-> KeyOf[r.id], mat |-> MaterialOf[r.id], st |-> r.st, upd |-> r.upd]] ELSE intents
    /\ orders' = IF o = "insert" /\ r.table = "order"
                 THEN [orders EXCEPT ![r.id] = [intent |-> Resolve(alias, r.parent), st |-> r.st, upd |-> r.upd]] ELSE orders

Inserts_Upsert(r, alias, o) ==
    /\ alloc' = IF r.table = "alloc" THEN [ver |-> 1, deployed |-> r.n, upd |-> r.upd] ELSE alloc
    /\ UNCHANGED <<intents, orders>>

(* What the insert leaves alone: a row that was found is never written, whatever the snapshot says. *)
Apply(r, alias, o) == Inserts(r, alias, o)

Init ==
    /\ ledger = [l \in Ledgers |-> [st |-> "none", upd |-> 0]]
    /\ snaps = <<>> /\ now = 1 /\ unsent = {}
    /\ intents = [l \in Ledgers |-> NoRow] /\ orders = [l \in Ledgers |-> NoOrder]
    /\ alloc = [ver |-> 0, deployed |-> 0, upd |-> 0]
    /\ bf = NoBackfill /\ passed = [n \in {} |-> 0]

Moves == {<<"none", "reserved">>, <<"reserved", "submitted">>, <<"reserved", "failed">>, <<"submitted", "filled">>}
MayStart(l) == \A d \in Ledgers \ {l} : KeyOf[d] = KeyOf[l] => ledger[d].st = "failed" \/ (ledger[d].st = "none" /\ l < d)

(* The application's projection of one ledger row (ExecutionStateProjection has the details): the intent of *)
(* the key keeps its identifier, and a fill moves the allocation.                                           *)
Project(l, row) ==
    LET i == IF SameKey(l) = {} THEN l ELSE CHOOSE x \in SameKey(l) : TRUE
    IN  /\ intents' = [intents EXCEPT ![i] = [key |-> KeyOf[l], mat |-> IF @.st = "none" THEN MaterialOf[l] ELSE @.mat, st |-> row.st, upd |-> row.upd]]
        /\ orders' = IF HasOrder(row.st) THEN [orders EXCEPT ![l] = [intent |-> i, st |-> row.st, upd |-> row.upd]] ELSE orders
        /\ alloc' = IF row.st = "filled" THEN [ver |-> alloc.ver + 1, deployed |-> alloc.deployed + 1, upd |-> row.upd] ELSE alloc

(* The application changes a ledger row, and projects the change or fails to. *)
AppWrites(l) ==
    /\ now < MaxTime /\ now' = now + 1
    /\ \E m \in Moves :
         /\ m[1] = ledger[l].st /\ (m[1] = "none" => MayStart(l))
         /\ LET row == [st |-> m[2], upd |-> now']
            IN  /\ ledger' = [ledger EXCEPT ![l] = row]
                /\ \/ Project(l, row) /\ unsent' = unsent \ {l}
                   \/ UNCHANGED <<intents, orders, alloc>> /\ unsent' = unsent \cup {l}
    /\ UNCHANGED <<snaps, bf, passed>>

Seal ==
    /\ Len(snaps) < MaxSnapshots /\ Written([rows |-> ledger]) /= {}
    /\ snaps' = Append(snaps, [rows |-> ledger, obs |-> now])
    /\ UNCHANGED <<ledger, intents, orders, alloc, now, unsent, bf, passed>>

StartBackfill(n) ==
    /\ Idle /\ SourceIssues(snaps[n]) = {}
    /\ bf' = [NoBackfill EXCEPT !.snap = n, !.todo = Rows(snaps[n]), !.end = "running"]
    /\ UNCHANGED <<ledger, snaps, intents, orders, alloc, now, unsent, passed>>

(* One batch with its checkpoint, in one transaction (here one row). *)
BackfillBatch ==
    /\ ~Idle
    /\ LET r == Head(bf.todo)
           o == Outcome(r, bf.alias)
       IN  /\ Apply(r, bf.alias, o)
           /\ bf' = IF o = "conflict" THEN [bf EXCEPT !.todo = <<>>, !.end = "conflict"]
                    ELSE [bf EXCEPT !.todo = Tail(@), !.alias = AliasAfter(r, @),
                                    !.end = IF Len(bf.todo) = 1 THEN "completed" ELSE @]
    /\ UNCHANGED <<ledger, snaps, now, unsent, passed>>

(* The connection is lost and with it the lock; the aliases were only in memory. *)
CrashBackfill == ~Idle /\ bf' = NoBackfill /\ UNCHANGED <<ledger, snaps, intents, orders, alloc, now, unsent, passed>>

MatchOf(l) == IF intents[l].st /= "none" THEN {l} ELSE IdentityRow(l)

RowAgrees_ById(s, r) == r.table = "order" => orders[r.id].st /= "none"

(* compareTargetTable: missing and mismatching rows; columns that may move on are not compared. *)
RowAgrees(s, r) ==
    CASE r.table = "alloc" -> alloc.ver > 0 /\ Replay(r) /= "conflict"
      [] r.table = "intent" -> \E i \in MatchOf(r.id) : intents[i].mat = MaterialOf[r.id]
      [] r.table = "order" -> orders[r.id].st /= "none" /\ orders[r.id].intent \in MatchOf(r.parent)

(* A target row without a source row must be newer than the snapshot. *)
Explained(s) ==
    /\ \A i \in Ledgers : intents[i].st = "none" \/ intents[i].upd > s.obs \/ \E l \in Written(s) : i \in MatchOf(Canonical(s, l))
    /\ \A i \in Ledgers : orders[i].st = "none" \/ orders[i].upd > s.obs \/ (i \in Written(s) /\ HasOrder(s.rows[i].st))

TargetRows == Cardinality({i \in Ledgers : intents[i].st /= "none"}) + Cardinality({i \in Ledgers : orders[i].st /= "none"})

(* One repeatable-read transaction; a blocked checkpoint changes nothing that is read again.  A passed one *)
(* is never rewritten: a second pass with other counts is EXECUTION_STATE_CHECKPOINT_IMMUTABLE.            *)
Reconcile(n) ==
    /\ n \notin DOMAIN passed
    /\ SourceIssues(snaps[n]) = {} /\ Explained(snaps[n])
    /\ \A i \in 1..Len(Rows(snaps[n])) : RowAgrees(snaps[n], Rows(snaps[n])[i])
    /\ passed' = [k \in DOMAIN passed \cup {n} |-> IF k = n THEN TargetRows ELSE passed[k]]
    /\ UNCHANGED <<ledger, snaps, intents, orders, alloc, now, unsent, bf>>

Next ==
    \/ \E l \in Ledgers : AppWrites(l)
    \/ Seal \/ BackfillBatch \/ CrashBackfill
    \/ \E n \in 1..Len(snaps) : StartBackfill(n) \/ Reconcile(n)

States == {"none", "reserved", "submitted", "filled", "failed"}

TypeOK ==
    /\ \A l \in Ledgers : ledger[l].st \in States /\ ledger[l].upd \in 0..MaxTime
    /\ \A l \in Ledgers : intents[l].st \in States /\ orders[l].st \in States /\ orders[l].intent \in {0} \cup Ledgers
    /\ bf.end \in {"idle", "running", "conflict", "completed"}
    /\ alloc.deployed <= Cardinality(Ledgers)

(* Every order in PostgreSQL hangs on the one intent of its idempotency key, whichever of the projection and *)
(* the backfill wrote each of the two and under whatever identifier.                                         *)
OrderFollowsKey ==
    /\ \A l \in Ledgers : orders[l].st /= "none" => intents[orders[l].intent].key = KeyOf[l]
    /\ \A i, j \in Ledgers : intents[i].st /= "none" /\ intents[i].key = intents[j].key => i = j

(* A snapshot with a passed checkpoint is in PostgreSQL: the intent of each of its keys and each of its orders. *)
PassedIsMigrated ==
    \A n \in DOMAIN passed : \A l \in Written(snaps[n]) :
        /\ SameKey(l) /= {}
        /\ HasOrder(snaps[n].rows[l].st) => orders[l].st /= "none"

(* A backfill only conflicts with what it cannot explain: a change the application failed to project, one it  *)
(* made after the snapshot, an allocation row of other origin, or an attempt that replaced an intent with     *)
(* other terms.  Interrupting it and starting again is not among the reasons.                                 *)
ConflictHasCause ==
    bf.end = "conflict" =>
        \/ unsent \cap Written(snaps[bf.snap]) /= {}
        \/ \E l \in Ledgers : ledger[l].upd > snaps[bf.snap].obs
        \/ alloc.ver > 1 \/ (alloc.ver = 1 /\ alloc.upd /= snaps[bf.snap].obs)
        \/ \E l, d \in Written(snaps[bf.snap]) : KeyOf[l] = KeyOf[d] /\ MaterialOf[l] /= MaterialOf[d]

(* Only the application changes a row that PostgreSQL has; a backfill never brings back an older state. *)
BackfillOnlyAddsStep ==
    ledger' = ledger =>
        /\ \A l \in Ledgers : intents[l].st /= "none" => intents'[l] = intents[l]
        /\ \A l \in Ledgers : orders[l].st /= "none" => orders'[l] = orders[l]
        /\ alloc.ver > 0 => alloc' = alloc
=============================================================================
