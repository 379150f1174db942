-------------------------- MODULE MarketDataRefresh --------------------------
(* refreshPostgresMarketData and PostgresMarketDataRepository: a research    *)
(* run reads bars, stock snapshots, option contracts and option chains and   *)
(* writes them to PostgreSQL, every statement under the fence of its job.    *)
(* The statements commit one by one; written options are read back, and only *)
(* then the ingestion of each underlying is recorded.                        *)
EXTENDS Integers, FiniteSets

CONSTANTS Runs,                  \* refreshes in the order they start: 1..n
          Underlyings, Required, \* the symbols, and those whose option evidence is required
          Contracts, Of,         \* option contracts, contract -> underlying
          MaxTime, MaxFaults

VARIABLES time,     \* quote time of the option chain at the provider
          fence,    \* the run that holds the lease, 0 when there is none
          stored,   \* option_contracts: contract -> run that wrote its row, 0 when there is none
          snap,     \* option_snapshots: <<contract, quote time>> -> run whose evidence it holds, Stream, or 0
          log,      \* market_data_ingestion_runs: <<run, underlying>> -> [result, rows]
          run,      \* run -> [pc, aborted, todo, contracts, rows, own, rejected, evid, pend]
          faults

vars == <<time, fence, stored, snap, log, run, faults>>

Stream == -1   \* the writer of the option stream
Rows == Contracts \X (1..MaxTime)
NoLog == [result |-> "none", rows |-> {}]
NotStarted == [pc |-> "none", aborted |-> FALSE, todo |-> {}, contracts |-> {}, rows |-> {}, own |-> {},
               rejected |-> {}, evid |-> [u \in Underlyings |-> "none"], pend |-> [u \in Underlyings |-> "none"]]

Init ==
    /\ time = 1 /\ fence = 0 /\ faults = 0
    /\ stored = [c \in Contracts |-> 0] /\ snap = [x \in Rows |-> 0]
    /\ log = [k \in Runs \X Underlyings |-> NoLog] /\ run = [r \in Runs |-> NotStarted]

At(r, pc) == run[r].pc = pc
Fault == faults < MaxFaults /\ faults' = faults + 1

(* throwIfAborted *)
Aborted(r) == run[r].aborted

(* requireFence, and the fence predicate inside every statement. *)
Fenced(r) == fence = r

(* A statement of a run that goes on. *)
Alive(r) == ~Aborted(r) /\ Fenced(r)

Set(r, f) == run' = [run EXCEPT ![r] = f]
Throws(r) == Set(r, [NotStarted EXCEPT !.pc = "failed", !.aborted = run[r].aborted])

Start(r) ==
    /\ At(r, "none") /\ (r > 1 => ~At(r - 1, "none")) /\ fence = 0
    /\ fence' = r /\ Set(r, [run[r] EXCEPT !.pc = "prices"])
    /\ UNCHANGED <<time, stored, snap, log, faults>>

(* upsertUniverseSymbols, upsertBars, upsertStockSnapshots *)
StorePrices(r) == Set(r, [run[r] EXCEPT !.pc = "contracts", !.todo = Underlyings])

(* Every symbol needs a recent bar and a fresh snapshot. *)
Prices(r) ==
    /\ At(r, "prices") /\ Alive(r)
    /\ \/ StorePrices(r) /\ UNCHANGED faults
       \/ Fault /\ Throws(r)
    /\ UNCHANGED <<time, fence, stored, snap, log>>

OfUnderlying(u) == {c \in Contracts : Of[c] = u}

(* fetchOptionContracts of one underlying: its valid active contracts, none, or a provider failure that is noted. *)
FetchContracts(r, u) ==
    /\ At(r, "contracts") /\ u \in run[r].todo /\ ~Aborted(r)
    /\ LET rest == [run[r] EXCEPT !.todo = @ \ {u}]
       IN  \/ Set(r, [rest EXCEPT !.contracts = @ \cup OfUnderlying(u)]) /\ UNCHANGED faults
           \/ Fault /\ IF u \in Required THEN Throws(r) ELSE Set(r, rest)
           \/ Fault /\ Set(r, [rest EXCEPT !.rejected = @ \cup {u}, !.evid[u] = "unavailable", !.pend[u] = "unavailable"])
    /\ UNCHANGED <<time, fence, stored, snap, log>>

(* upsertOptionContracts, after every underlying was asked. *)
StoreContracts(r) ==
    /\ At(r, "contracts") /\ run[r].todo = {}
    /\ LET cs == run[r].contracts
       IN  IF cs = {} /\ run[r].rejected = {} THEN Throws(r) /\ UNCHANGED stored
           ELSE /\ cs = {} \/ Alive(r)
                /\ stored' = [c \in Contracts |-> IF c \in cs THEN r ELSE stored[c]]
                /\ Set(r, [run[r] EXCEPT !.pc = "chains", !.todo = Underlyings])
    /\ UNCHANGED <<time, fence, snap, log, faults>>

(* listFreshOptionStreamSnapshots: the rows of the option stream. *)
StreamRows == {x \in Rows : snap[x] = Stream}

(* streamSnapshotIsReusable: the newest row that the option stream has stored for a contract. *)
Reusable(cs) == {x \in cs \X {time} : x \in StreamRows}

MineOf(r, u) == {c \in run[r].contracts : Of[c] = u}

Rejected_Nothing(r, u) == run[r].rejected

(* A provider failure is a reason to report degraded data whatever the underlying. *)
Rejected(r, u) == run[r].rejected \cup {u}

(* finalBoundedResult of a chain without a usable quote: a rejection for a required underlying. *)
Unusable(r, rest, u, got) ==
    [rest EXCEPT !.rows = @ \cup got, !.own = @ \cup got, !.evid[u] = "stale",
                 !.pend[u] = IF got = {} THEN "stale" ELSE "pending",
                 !.rejected = IF u \in Required THEN @ \cup {u} ELSE @]

(* One underlying's evidence: reused from the stream when that covers every contract, else fetched; stale rows are *)
(* dropped.                                                                                                        *)
FetchChain(r, u) ==
    /\ At(r, "chains") /\ u \in run[r].todo /\ ~Aborted(r)
    /\ LET cs == MineOf(r, u)
           rest == [run[r] EXCEPT !.todo = @ \ {u}]
           all == cs \X {time}
       IN  CASE cs = {} ->
                  /\ Set(r, [rest EXCEPT !.evid[u] = IF @ = "none" THEN "unavailable" ELSE @]) /\ UNCHANGED faults
             [] cs /= {} /\ Reusable(cs) = all ->
                  /\ Set(r, [rest EXCEPT !.rows = @ \cup all, !.evid[u] = "current", !.pend[u] = "pending"]) /\ UNCHANGED faults
             [] OTHER ->
                  \/ /\ Set(r, [rest EXCEPT !.rows = @ \cup all, !.own = @ \cup all, !.evid[u] = "current", !.pend[u] = "pending"])
                     /\ UNCHANGED faults
                  \/ /\ Fault
                     /\ Set(r, [rest EXCEPT !.rejected = Rejected(r, u), !.evid[u] = "unavailable", !.pend[u] = "unavailable"])
                  \/ /\ Fault
                     /\ \E got \in SUBSET all : Set(r, Unusable(r, rest, u, got))
    /\ UNCHANGED <<time, fence, stored, snap, log>>

RowsOf(r, u) == {x \in run[r].rows : Of[x[1]] = u}

ChainsDone(r) ==
    /\ At(r, "chains") /\ run[r].todo = {}
    /\ Set(r, [run[r] EXCEPT !.pc = IF run[r].rows = {} THEN "record" ELSE "write",
                             !.todo = {u \in Underlyings : RowsOf(r, u) /= {}}])
    /\ UNCHANGED <<time, fence, stored, snap, log, faults>>

Evidence(r, x) == IF x \in run[r].own THEN r ELSE Stream

MayWrite_IgnoresAbort(r) == Fenced(r)

(* persistOptionSnapshotsWithReadback looks at the signal and the fence before every batch. *)
MayWrite(r) == Alive(r)

(* A batch never spans two underlyings.  A statement without the fence writes nothing and the count is wrong. *)
WriteBatch(r, u) ==
    /\ At(r, "write") /\ u \in run[r].todo /\ MayWrite(r)
    /\ snap' = [x \in Rows |-> IF x \in RowsOf(r, u) THEN Evidence(r, x) ELSE snap[x]]
    /\ Set(r, [run[r] EXCEPT !.pc = "readback", !.todo = @ \ {u}])
    /\ UNCHANGED <<time, fence, stored, log, faults>>

(* readOptionSnapshotBatch: a stored row carries the evidence that was sent. *)
SameEvidence(r, x) == snap[x] = Evidence(r, x)

(* The batch is read back: a row with another's evidence, as the option stream may have put there, fails the refresh. *)
ReadBack(r) ==
    /\ At(r, "readback") /\ ~Aborted(r)
    /\ LET written == {x \in run[r].rows : Of[x[1]] \notin run[r].todo}
       IN  IF \A x \in written : SameEvidence(r, x)
             THEN Set(r, [run[r] EXCEPT !.pc = IF run[r].todo = {} THEN "verify" ELSE "write"])
             ELSE Throws(r)
    /\ UNCHANGED <<time, fence, stored, snap, log, faults>>

(* listOptionContractsBySymbols, and the fingerprints of what was sent. *)
ContractsUnchanged(r) == \A c \in run[r].contracts : stored[c] = r

(* The contracts are read back as well; nobody else may have written them meanwhile. *)
Verify(r) ==
    /\ At(r, "verify") /\ Alive(r)
    /\ IF ContractsUnchanged(r) THEN Set(r, [run[r] EXCEPT !.pc = "record"]) ELSE Throws(r)
    /\ UNCHANGED <<time, fence, stored, snap, log, faults>>

MayRecord(r) == Alive(r)

Result_AnyAnswer(p) == IF p = "unavailable" THEN "failed" ELSE "persisted"

(* persistenceResult: what was waiting for its rows is persisted by now. *)
Result(p) == IF p = "pending" THEN "persisted" ELSE "failed"

(* recordMarketDataIngestionRun, one underlying after the other. *)
Record(r, u) ==
    /\ At(r, "record") /\ MayRecord(r) /\ run[r].pend[u] \in {"pending", "unavailable", "stale"}
    /\ log' = [log EXCEPT ![<<r, u>>] = [result |-> Result(run[r].pend[u]), rows |-> RowsOf(r, u)]]
    /\ Set(r, [run[r] EXCEPT !.pend[u] = "recorded"])
    /\ UNCHANGED <<time, fence, stored, snap, faults>>

Returns(r) ==
    /\ At(r, "record") /\ ~Aborted(r) /\ \A u \in Underlyings : run[r].pend[u] \in {"none", "recorded"}
    /\ Set(r, [run[r] EXCEPT !.pc = "done"])
    /\ UNCHANGED <<time, fence, stored, snap, log, faults>>

Over(r) == run[r].pc \in {"none", "done", "failed"}

(* throwIfAborted, POSTGRES_MARKET_DATA_FENCE_REJECTED: the next check or statement fails. *)
Refused(r) ==
    /\ ~Over(r) /\ ~Alive(r) /\ Throws(r)
    /\ UNCHANGED <<time, fence, stored, snap, log, faults>>

Release(r) ==
    /\ Fenced(r) /\ Over(r) /\ fence' = 0
    /\ UNCHANGED <<time, stored, snap, log, run, faults>>

(* The scheduler's deadline, or a lease that is lost while the process stalls. *)
Abort(r) ==
    /\ ~Over(r) /\ ~Aborted(r) /\ Fault /\ Set(r, [run[r] EXCEPT !.aborted = TRUE])
    /\ UNCHANGED <<time, fence, stored, snap, log>>

LeaseLost(r) ==
    /\ Fenced(r) /\ ~Over(r) /\ Fault /\ fence' = 0
    /\ UNCHANGED <<time, stored, snap, log, run>>

(* The writer of the option stream, outside this code, stores the current quote of a contract. *)
StreamStores(c) ==
    /\ snap[<<c, time>>] /= Stream /\ snap' = [snap EXCEPT ![<<c, time>>] = Stream]
    /\ UNCHANGED <<time, fence, stored, log, run, faults>>

MarketMoves ==
    /\ time < MaxTime /\ time' = time + 1
    /\ UNCHANGED <<fence, stored, snap, log, run, faults>>

Step(r) ==
    \/ Start(r) \/ Prices(r) \/ StoreContracts(r) \/ ChainsDone(r) \/ ReadBack(r) \/ Verify(r) \/ Returns(r)
    \/ Refused(r) \/ Release(r) \/ Abort(r) \/ LeaseLost(r)
    \/ \E u \in Underlyings : FetchContracts(r, u) \/ FetchChain(r, u) \/ WriteBatch(r, u) \/ Record(r, u)

Next == (\E r \in Runs : Step(r)) \/ (\E c \in Contracts : StreamStores(c)) \/ MarketMoves

Spec == Init /\ [][Next]_vars

TypeOK ==
    /\ time \in 1..MaxTime /\ fence \in Runs \cup {0} /\ faults \in 0..MaxFaults
    /\ stored \in [Contracts -> Runs \cup {0}] /\ snap \in [Rows -> Runs \cup {0, Stream}]
    /\ \A k \in DOMAIN log : log[k].result \in {"none", "persisted", "failed"}
    /\ \A r \in Runs : run[r].rows \subseteq Rows /\ run[r].own \subseteq run[r].rows /\ run[r].contracts \subseteq Contracts

(* An ingestion that is recorded as persisted has its rows in PostgreSQL, whatever failed or was overtaken before. *)
PersistedIsStored ==
    \A k \in DOMAIN log : log[k].result = "persisted" => log[k].rows /= {} /\ \A x \in log[k].rows : snap[x] /= 0

(* A refresh that ends without a rejection has usable evidence for every required underlying. *)
CurrentIsCurrent ==
    \A r \in Runs : At(r, "done") /\ run[r].rejected = {} => \A u \in Required : run[r].evid[u] = "current"

(* A row only ever becomes the row of a refresh that holds the lease and was not told to stop. *)
OnlyLiveRefreshWritesStep ==
    \A r \in Runs : Aborted(r) \/ ~Fenced(r) =>
        /\ \A c \in Contracts : stored'[c] = r => stored[c] = r
        /\ \A x \in Rows : snap'[x] = r => snap[x] = r
        /\ \A u \in Underlyings : log'[<<r, u>>] = log[<<r, u>>]
OnlyLiveRefreshWrites == [][OnlyLiveRefreshWritesStep]_vars
=============================================================================
