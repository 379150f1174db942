---------------------------- MODULE ResearchRuns ----------------------------
(***************************************************************************)
(* The life of a research run.  runResearchDaily works through the         *)
(* researchControlPlaneService, which writes every step to SQLite, to      *)
(* PostgreSQL, or to both in an order that depends on the feature flags;   *)
(* runPostgresResearchWorkflow writes to PostgreSQL alone.  Both stores    *)
(* hand a stale run to the next reservation; PostgreSQL writes are also    *)
(* fenced by the scheduler lease of the job "research".                    *)
(*                                                                         *)
(* A worker stands for one process and the one run id it draws.  The       *)
(* version column is left out: a row is written by its own worker only,    *)
(* or leaves "running" (recovery), so a version conflict always shows as   *)
(* a status that is not "running".                                         *)
(***************************************************************************)
EXTENDS Naturals, FiniteSets, Sequences

CONSTANTS Workers, Families, Phases, Stale, MaxTime

VARIABLES
  mode,    \* which stores the control plane writes, and which one decides
  kind,    \* "daily" or "workflow", per worker
  rows,    \* research_runs and candidates: store -> worker -> row
  fence,   \* the worker whose scheduler lease is current
  led,     \* workers that ever held the lease: a token never returns
  now,
  pc,      \* the next call of each worker
  told,    \* what each worker reported to its caller
  errors   \* families whose lane ended in an error, per worker

vars == <<mode, kind, rows, fence, led, now, pc, told, errors>>

NoOne == "no one"

\* sqlite: no control plane; shadow: SQLite decides and PostgreSQL follows; the
\* others: PostgreSQL decides, and SQLite is projected to, without its
\* heartbeat under the scheduler authority, or not at all.
Order == [sqlite    |-> <<"sq">>,
          shadow    |-> <<"sq", "pg">>,
          mirror    |-> <<"pg", "sq">>,
          scheduler |-> <<"pg", "sq">>,
          authority |-> <<"pg">>]

Stores == {"sq", "pg"}
Statuses == {"none", "running", "completed", "failed", "recovered"}
NoRow == [status |-> "none", hb |-> 0, cand |-> {}]
Decides == Order[mode][1]

At(op) == [op |-> op, i |-> 1, left |-> 0, res |-> "ok", todo |-> {}]
Done == At("done")

TypeOK ==
  /\ mode \in DOMAIN Order
  /\ kind \in [Workers -> {"daily", "workflow"}]
  /\ rows \in [Stores -> [Workers -> [status : Statuses, hb : 0..MaxTime, cand : SUBSET Families]]]
  /\ fence \in Workers \cup {NoOne}
  /\ led \subseteq Workers
  /\ now \in 0..MaxTime
  /\ \A w \in Workers : pc[w].i \in 1..2 /\ pc[w].left \in 0..Phases /\ pc[w].res \in {"ok", "no"}
  /\ told \in [Workers -> {"nothing", "completed", "failed", "already_running"}]
  /\ errors \in [Workers -> SUBSET Families]

Init ==
  /\ mode \in DOMAIN Order
  /\ kind \in [Workers -> IF Decides = "pg" THEN {"daily", "workflow"} ELSE {"daily"}]
  /\ rows = [s \in Stores |-> [w \in Workers |-> NoRow]]
  /\ fence = NoOne
  /\ led = {}
  /\ now = 0
  /\ pc = [w \in Workers |-> At("idle")]
  /\ told = [w \in Workers |-> "nothing"]
  /\ errors = [w \in Workers |-> {}]

-----------------------------------------------------------------------------
(* The two stores *)

Running(t) == {w \in Workers : t[w].status = "running"}
IsStale(r) == r.hb + Stale <= now

\* Every stale running row is closed: "failed" in SQLite, "recovered" in PostgreSQL.
Recover(s, t) ==
  [w \in Workers |->
     IF t[w].status = "running" /\ IsStale(t[w])
     THEN [t[w] EXCEPT !.status = IF s = "sq" THEN "failed" ELSE "recovered"]
     ELSE t[w]]

\* requireCurrentFence and fencePredicate guard every PostgreSQL write.
CurrentFence(w) == fence = w

Ok(t) == [v |-> "ok", t |-> t]
No(t) == [v |-> "no", t |-> t]
Throw(t) == [v |-> "throw", t |-> t]
Started(t, w) == [t EXCEPT ![w] = [NoRow EXCEPT !.status = "running", !.hb = now]]

\* reserveResearchRun returns at once when some run is fresh; otherwise one
\* transaction recovers the stale runs, looks again and inserts.
FreshRun(t) == \E a \in Running(t) : ~IsStale(t[a])

SqReserve(w) ==
  LET t == Recover("sq", rows["sq"]) IN
  IF FreshRun(rows["sq"]) THEN No(rows["sq"])
  ELSE IF Running(t) # {} THEN No(t) ELSE Ok(Started(t, w))

\* Only the fresh runs are looked for, and none is recovered.
PgReserve_NoRecovery(w) ==
  IF ~CurrentFence(w) THEN Throw(rows["pg"])
  ELSE IF FreshRun(rows["pg"]) THEN No(rows["pg"]) ELSE Ok(Started(rows["pg"], w))

PgReserve(w) ==
  LET t == Recover("pg", rows["pg"]) IN
  IF ~CurrentFence(w) THEN Throw(rows["pg"])
  ELSE IF Running(t) # {} THEN No(t) ELSE Ok(Started(t, w))

SqHeartbeat(w) ==
  IF rows["sq"][w].status # "running" THEN No(rows["sq"])
  ELSE Ok([rows["sq"] EXCEPT ![w].hb = now])

PgHeartbeat(w) ==
  IF ~CurrentFence(w) THEN Throw(rows["pg"])
  ELSE IF rows["pg"][w].status # "running" THEN No(rows["pg"])
  ELSE Ok([rows["pg"] EXCEPT ![w].hb = now])

\* withActiveResearchRunLease renews the run and writes in one transaction.
SqPersist(w) ==
  IF rows["sq"][w].status = "running"
  THEN Ok([rows["sq"] EXCEPT ![w].cand = Families, ![w].hb = now]) ELSE Throw(rows["sq"])

\* insertMany checks the lease and the foreign key to research_runs, not the
\* status of the run; its candidates and their events commit together.
CanInsert_NoFence(w) == rows["pg"][w].status # "none"

CanInsert(w) == CurrentFence(w) /\ rows["pg"][w].status # "none"

PgPersist(w) ==
  IF CanInsert(w) THEN Ok([rows["pg"] EXCEPT ![w].cand = Families]) ELSE Throw(rows["pg"])

\* The UPDATE is not restricted to running rows.
SqFinish_AnyStatus(w, status) ==
  Ok(IF rows["sq"][w].status # "none"
     THEN [rows["sq"] EXCEPT ![w].status = status, ![w].hb = now] ELSE rows["sq"])

\* finishResearchRun says nothing when its UPDATE finds no running row.
SqFinish(w, status) ==
  Ok(IF rows["sq"][w].status = "running"
     THEN [rows["sq"] EXCEPT ![w].status = status, ![w].hb = now] ELSE rows["sq"])

\* The adapter does not look at the result, as the SQLite one does not.
PgFinish_Silent(w, status) ==
  Ok(IF CurrentFence(w) /\ rows["pg"][w].status = "running"
     THEN [rows["pg"] EXCEPT ![w].status = status, ![w].hb = now] ELSE rows["pg"])

PgFinish(w, status) ==
  IF CurrentFence(w) /\ rows["pg"][w].status = "running"
  THEN Ok([rows["pg"] EXCEPT ![w].status = status, ![w].hb = now]) ELSE Throw(rows["pg"])

sqliteAdapter(w) ==
  [reserve |-> SqReserve(w), beat |-> SqHeartbeat(w), persist |-> SqPersist(w),
   finish |-> SqFinish(w, "completed"), fail |-> SqFinish(w, "failed")]

postgresAdapter(w) ==
  [reserve |-> PgReserve(w), beat |-> PgHeartbeat(w), persist |-> PgPersist(w),
   finish |-> PgFinish(w, "completed"), fail |-> PgFinish(w, "failed")]

-----------------------------------------------------------------------------
(* createResearchControlPlaneService and runResearchDaily *)

Call(s, w) == IF s = "sq" THEN sqliteAdapter(w)[pc[w].op] ELSE postgresAdapter(w)[pc[w].op]

\* An error before the try block of runResearchDaily leaves the run as it is;
\* any other one is answered by finishRun("failed").
Threw(w) ==
  IF pc[w].op \in {"reserve", "fail"}
  THEN pc' = [pc EXCEPT ![w] = Done] /\ told' = [told EXCEPT ![w] = "failed"]
  ELSE pc' = [pc EXCEPT ![w] = At("fail")] /\ UNCHANGED told

\* The operation as a whole answered.
Answered(w, res) ==
  CASE pc[w].op = "reserve" /\ res = "ok" ->
         pc' = [pc EXCEPT ![w] = [At("beat") EXCEPT !.left = Phases]] /\ UNCHANGED told
    [] pc[w].op = "reserve" /\ res = "no" ->
         pc' = [pc EXCEPT ![w] = Done] /\ told' = [told EXCEPT ![w] = "already_running"]
    [] pc[w].op = "beat" /\ res = "no" -> Threw(w)      \* ResearchRunLeaseLostError
    [] pc[w].op = "beat" /\ res = "ok" ->
         /\ pc' = [pc EXCEPT ![w] = IF pc[w].left = 0 THEN At("persist")
                                    ELSE [At("beat") EXCEPT !.left = pc[w].left - 1]]
         /\ UNCHANGED told
    [] pc[w].op = "persist" -> pc' = [pc EXCEPT ![w] = At("finish")] /\ UNCHANGED told
    [] pc[w].op = "finish" -> pc' = [pc EXCEPT ![w] = Done] /\ told' = [told EXCEPT ![w] = "completed"]
    [] pc[w].op = "fail" -> pc' = [pc EXCEPT ![w] = Done] /\ told' = [told EXCEPT ![w] = "failed"]

\* The shadow store is called whatever SQLite answered; a projection only after
\* a positive answer.  The scheduler authority projects updateUniverseSize
\* (the first of the Phases) but no heartbeat.
CallsSecond(w, v) ==
  /\ Len(Order[mode]) = 2
  /\ v = "ok" \/ mode = "shadow"
  /\ ~(mode = "scheduler" /\ pc[w].op = "beat" /\ pc[w].left # Phases)

Operations == {"reserve", "beat", "persist", "finish", "fail"}

FirstStore(w) ==
  /\ pc[w].op \in Operations /\ pc[w].i = 1
  /\ LET s == Decides
         c == Call(s, w)
     IN /\ rows' = [rows EXCEPT ![s] = c.t]
        /\ IF c.v = "throw" THEN Threw(w)
           ELSE IF CallsSecond(w, c.v)
           THEN pc' = [pc EXCEPT ![w].i = 2, ![w].res = c.v] /\ UNCHANGED told
           ELSE Answered(w, c.v)
  /\ UNCHANGED <<mode, kind, fence, led, now, errors>>

\* A shadow store that fails or disagrees is a reported discrepancy, a
\* projection that does is an error.
SecondStore(w) ==
  /\ pc[w].op \in Operations /\ pc[w].i = 2
  /\ LET s == Order[mode][2]
         c == Call(s, w)
     IN /\ rows' = [rows EXCEPT ![s] = c.t]
        /\ IF mode # "shadow" /\ c.v # "ok" THEN Threw(w) ELSE Answered(w, pc[w].res)
  /\ UNCHANGED <<mode, kind, fence, led, now, errors>>

Start(w) ==
  /\ pc[w].op = "idle"
  /\ mode = "sqlite" \/ fence = w
  /\ pc' = [pc EXCEPT ![w] = At(IF kind[w] = "daily" THEN "reserve" ELSE "preflight")]
  /\ UNCHANGED <<mode, kind, rows, fence, led, now, told, errors>>

\* Ingestion, features, learning or targets throw between two heartbeats.
WorkFails(w) ==
  /\ pc[w].op = "beat" /\ pc[w].i = 1
  /\ Threw(w)
  /\ UNCHANGED <<mode, kind, rows, fence, led, now, errors>>

-----------------------------------------------------------------------------
(* runPostgresResearchWorkflow *)

Row(w) == rows["pg"][w]
SetRow(w, r) == rows' = [rows EXCEPT !["pg"][w] = r]
To(w, op) == pc' = [pc EXCEPT ![w] = At(op)] /\ UNCHANGED told
Report(w, what) == pc' = [pc EXCEPT ![w] = Done] /\ told' = [told EXCEPT ![w] = what]

\* Every active run of another lease is abandoned, however fresh it is.
Abandon(w) ==
  [u \in Workers |-> IF u # w /\ Row(u).status = "running"
                     THEN [Row(u) EXCEPT !.status = "recovered"] ELSE Row(u)]

Preflight(w) ==
  /\ pc[w].op = "preflight"
  /\ rows' = IF CurrentFence(w) THEN [rows EXCEPT !["pg"] = Abandon(w)] ELSE rows
  /\ To(w, "insert")
  /\ UNCHANGED <<mode, kind, fence, led, now, errors>>

Insert(w) ==
  /\ pc[w].op = "insert"
  /\ IF CurrentFence(w) /\ Running(rows["pg"]) = {}
     THEN SetRow(w, [NoRow EXCEPT !.status = "running", !.hb = now]) /\ To(w, "evidence")
     ELSE UNCHANGED rows /\ Report(w, "failed")
  /\ UNCHANGED <<mode, kind, fence, led, now, errors>>

\* Market data, features, signals and persistEvidence: each batch checks the
\* fence, and any of them may throw.
Evidence(w) ==
  /\ pc[w].op = "evidence"
  /\ \/ fence = w /\ pc' = [pc EXCEPT ![w] = [At("candidates") EXCEPT !.todo = Families]] /\ UNCHANGED told
     \/ To(w, "giveup")
  /\ UNCHANGED <<mode, kind, rows, fence, led, now, errors>>

\* One INSERT per decision: with the fence lost it inserts nothing, and nobody
\* notices.  An error ends the lane of its family, not the run; the standard
\* options, which are written last and belong to no lane, do end it.
Candidate(w, f) ==
  /\ pc[w].op = "candidates" /\ f \in pc[w].todo
  /\ f = "standard_option" => pc[w].todo = {f}
  /\ SetRow(w, IF CurrentFence(w) THEN [Row(w) EXCEPT !.cand = @ \cup {f}] ELSE Row(w))
  /\ pc' = [pc EXCEPT ![w].todo = @ \ {f}]
  /\ UNCHANGED <<mode, kind, fence, led, now, told, errors>>

CandidateFails(w, f) ==
  /\ pc[w].op = "candidates" /\ f \in pc[w].todo
  /\ f = "standard_option" => pc[w].todo = {f}
  /\ errors' = [errors EXCEPT ![w] = @ \cup {f}]
  /\ pc' = [pc EXCEPT ![w] = IF f = "standard_option" THEN At("giveup") ELSE [@ EXCEPT !.todo = @ \ {f}]]
  /\ UNCHANGED <<mode, kind, rows, fence, led, now, told>>

Completable_NoFence(w) == Row(w).status = "running"

Completable(w) == CurrentFence(w) /\ Row(w).status = "running"

Complete(w) ==
  /\ pc[w].op = "candidates" /\ pc[w].todo = {}
  /\ IF Completable(w)
     THEN SetRow(w, [Row(w) EXCEPT !.status = "completed", !.hb = now]) /\ Report(w, "completed")
     ELSE UNCHANGED rows /\ To(w, "giveup")
  /\ UNCHANGED <<mode, kind, fence, led, now, errors>>

\* failResearchRun: by the fence, or else by the owner and token of the row.
GiveUp(w) ==
  /\ pc[w].op = "giveup"
  /\ SetRow(w, IF Row(w).status = "running" THEN [Row(w) EXCEPT !.status = "failed", !.hb = now] ELSE Row(w))
  /\ Report(w, "failed")
  /\ UNCHANGED <<mode, kind, fence, led, now, errors>>

-----------------------------------------------------------------------------
(* The scheduler lease, the clock and the death of a process *)

Acquire(w) ==
  /\ mode # "sqlite" /\ w \notin led
  /\ fence' = w
  /\ led' = led \cup {w}
  /\ UNCHANGED <<mode, kind, rows, now, pc, told, errors>>

Expire ==
  /\ fence # NoOne
  /\ fence' = NoOne
  /\ UNCHANGED <<mode, kind, rows, led, now, pc, told, errors>>

Tick ==
  /\ now < MaxTime
  /\ now' = now + 1
  /\ UNCHANGED <<mode, kind, rows, fence, led, pc, told, errors>>

Crash(w) ==
  /\ pc[w].op \notin {"idle", "done"}
  /\ pc' = [pc EXCEPT ![w] = Done]
  /\ UNCHANGED <<mode, kind, rows, fence, led, now, told, errors>>

Daily(w) == FirstStore(w) \/ SecondStore(w) \/ WorkFails(w)

Workflow(w) ==
  \/ Preflight(w) \/ Insert(w) \/ Evidence(w)
  \/ \E f \in Families : Candidate(w, f) \/ CandidateFails(w, f)
  \/ Complete(w) \/ GiveUp(w)

Next ==
  \/ \E w \in Workers : Start(w) \/ Daily(w) \/ Workflow(w) \/ Acquire(w) \/ Crash(w)
  \/ Expire
  \/ Tick

Spec == Init /\ [][Next]_vars

-----------------------------------------------------------------------------
(* Properties *)

\* At most one run is running in each store: the daily reservation, its
\* recovery of stale runs and the preflight of the workflow never leave two.
OneActiveRun == \A s \in Stores : Cardinality(Running(rows[s])) <= 1

\* A run that a recovery or a finish has closed is never touched again, in
\* either store, by the worker that still believes it owns it.
ClosedIsFinalStep ==
  \A s \in Stores, w \in Workers :
        rows[s][w].status \in {"completed", "failed", "recovered"} => rows'[s][w] = rows[s][w]

\* Candidates are only added to a run that is running, although the INSERTs of
\* PostgreSQL check the lease and not the run.
CandidatesWhileRunningStep ==
  \A s \in Stores, w \in Workers :
        rows'[s][w].cand # rows[s][w].cand => rows[s][w].status = "running"

\* A run that is completed where PostgreSQL decides has the candidates of every
\* family whose lane did not report an error.
CompletedHasCandidates ==
  Decides = "pg" =>
    \A w \in Workers : rows["pg"][w].status = "completed" =>
                         Families \ errors[w] \subseteq rows["pg"][w].cand

\* A worker that reported success is recorded as completed where PostgreSQL
\* decides, and the SQLite projection is never ahead of it.
ReportMatchesRecord ==
  Decides = "pg" =>
    \A w \in Workers :
      /\ told[w] = "completed" => rows["pg"][w].status = "completed"
      /\ rows["sq"][w].status = "completed" => rows["pg"][w].status = "completed"

=============================================================================
