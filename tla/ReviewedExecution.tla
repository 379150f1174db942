-------------------------- MODULE ReviewedExecution --------------------------
(***************************************************************************)
(* buildPaperReviewedPayloadExecutionReport: a process takes the latest    *)
(* signed review artifact, checks that the portfolio is still the one that *)
(* was reviewed, reserves the new risk and sends the reviewed orders one   *)
(* by one.  Between any two awaits other processes, the reconciliation of  *)
(* the PostgreSQL authority and the broker move on; a process may die, and *)
(* a POST may fail although the broker has the order.                      *)
(*                                                                         *)
(* In "inactive" and "shadow" mode the SQLite ledger decides (one BEGIN    *)
(* IMMEDIATE transaction reserves a batch); in "authority" mode PostgreSQL *)
(* decides, and the command runs under a scheduler lease.                  *)
(***************************************************************************)
EXTENDS ExecutionStateProjection, TLC

CONSTANTS Procs, MaxFaults

ASSUME FaultsAreNatural == MaxFaults \in Nat

VARIABLES
  latest,    \* the newest review artifact, 0 when there is none
  content,   \* symbols of its payloads
  reviewed,  \* structural portfolio state that was attested in it
  ledger,    \* paper_execution_ledger.status per payload
  broker,    \* the order at the broker
  inflight,  \* POSTs that timed out and have not reached the broker yet
  posts,     \* history: calls of submitPaperOrder
  late,      \* history: orders that appeared after their POST had timed out
  torn,      \* history: an order moved between the reads of one capture
  holder,    \* the process that holds the scheduler lease (authority mode)
  run,       \* the processes
  rec,       \* reconcileBrokerOrders: the observation it is about to record
  faults

execVars == <<latest, content, reviewed, ledger, broker, inflight, posts, late, torn, holder, run, rec, faults>>
vars == <<pgVars, execVars>>

Symbols == Entries \cup Exits
Sym(p) == p[2]
NoProc == "none"
NoPayload == <<0, "none">>
NoCapture == [base |-> <<>>, pos |-> {}, orders |-> {}, res |-> {}, rev |-> <<>>]
IdleRun == [pc |-> "idle", todo |-> {}, cur |-> NoPayload, cap |-> NoCapture, ans |-> NoOrder]
NoRec == [p |-> NoPayload, obs |-> NoOrder]

LedgerStatus == {"none", "reserved", "attempted", "submitted", "accepted", "rejected", "failed", "released"}
ActiveStatus == {"reserved", "attempted", "submitted", "accepted"}
Working(p) == broker[p].st \in WorkingStatus

\* listActivePaperNewRiskReservations.
listActivePaperNewRiskReservations == {p \in BuyEntries : ledger[p] \in ActiveStatus}

\* paperNewRiskLedgerMutationFingerprint: every buy row with its status.
Fingerprint == [p \in BuyEntries |-> ledger[p]]

\* Positions and open orders as the broker reports them.
Positions == {<<p, broker[p].f>> : p \in {q \in Payloads : broker[q].f > 0}}
BrokerOpenOrders == {p \in Payloads : Working(p)}
Reservations == IF Authority THEN listActiveReservations ELSE listActivePaperNewRiskReservations

\* structuralPortfolioFingerprint, without marks and prices.
Structure(cap) == <<cap.pos, cap.orders, cap.res>>

\* What a process has read of a portfolio, and the attested portfolio.
Portfolios == (SUBSET (Payloads \X (0 .. 2))) \X (SUBSET Payloads) \X (SUBSET Payloads)
Captures == [base : {<<>>} \cup [BuyEntries -> LedgerStatus], pos : SUBSET (Payloads \X (0 .. 2)),
             orders : SUBSET Payloads, res : SUBSET Payloads, rev : {<<>>} \cup Portfolios]
Stages == {"idle", "positions", "orders", "reservations", "validate", "account", "next",
           "evidence", "authorize", "post", "ledger", "record"}
Runs == [pc : Stages, todo : SUBSET Payloads, cur : Payloads \cup {NoPayload},
         cap : Captures, ans : Observations]

TypeOK ==
  /\ ProjectionTypeOK
  /\ latest \in {0} \cup Artifacts
  /\ content \subseteq Symbols
  /\ reviewed \in {<<>>} \cup Portfolios
  /\ ledger \in [Payloads -> LedgerStatus]
  /\ broker \in [Payloads -> Observations]
  /\ posts \in [Payloads -> Nat]
  /\ inflight \subseteq Payloads /\ late \subseteq Payloads
  /\ torn \in BOOLEAN
  /\ holder \in Procs \cup {NoProc}
  /\ run \in [Procs -> Runs]
  /\ rec \in [p : Payloads \cup {NoPayload}, obs : Observations]
  /\ faults \in 0 .. MaxFaults

Init ==
  /\ ProjectionInit
  /\ latest = 0 /\ content = {} /\ reviewed = <<>>
  /\ ledger = [p \in Payloads |-> "none"]
  /\ broker = [p \in Payloads |-> NoOrder]
  /\ posts = [p \in Payloads |-> 0]
  /\ inflight = {} /\ late = {} /\ torn = FALSE
  /\ holder = NoProc
  /\ run = [r \in Procs |-> IdleRun]
  /\ rec = NoRec /\ faults = 0

-----------------------------------------------------------------------------
(* The review artifact *)

\* createPaperReviewArtifact, with the submit state captured for the review.
\* Bound: the artifacts of one behaviour are all entries or all exits, which
\* meet only in the loop over the payloads.
Review(symbols) ==
  LET a == latest + 1
  IN /\ a \in Artifacts /\ symbols # {}
     /\ \E kind \in {Entries, Exits} : symbols \cup content \subseteq kind
     /\ latest' = a
     /\ content' = symbols
     /\ reviewed' = <<Positions, BrokerOpenOrders, Reservations>>
     /\ UNCHANGED <<pgVars, ledger, broker, inflight, posts, late, torn, holder, run, rec, faults>>

-----------------------------------------------------------------------------
(* One execution *)

Step(r, pc) == run' = [run EXCEPT ![r].pc = pc]
Finish(r) == run' = [run EXCEPT ![r] = IdleRun]
HasEntries(set) == set \cap BuyEntries # {}
Keep == <<latest, content, reviewed, inflight, posts, late, torn, rec>>

\* verifyPaperReviewArtifact: only the newest artifact is used.  Its signature
\* and its freshness window may refuse it at any time.
ArtifactUsable == latest # 0

\* Payloads that normalizePayload, the section filter and the flags let
\* through: any of the reviewed ones may be dropped.
EligibleBatches == SUBSET ({latest} \X content) \ {{}}

\* The gates.  A command of the authority mode runs under a lease; to take it
\* over from a process that is still running is a fault.
Start(r) ==
  /\ run[r].pc = "idle" /\ ArtifactUsable
  /\ \E chosen \in EligibleBatches :
       run' = [run EXCEPT ![r].todo = chosen,
                          ![r].pc = IF HasEntries(chosen) THEN "positions" ELSE "account",
                          ![r].cap.rev = IF HasEntries(chosen) THEN reviewed ELSE <<>>]
  /\ holder' = IF Authority THEN r ELSE NoProc
  /\ IF Authority /\ \E q \in Procs : run[q].pc # "idle" /\ holder = q
     THEN faults < MaxFaults /\ faults' = faults + 1
     ELSE UNCHANGED faults
  /\ UNCHANGED <<pgVars, Keep, ledger, broker>>

\* The lease was taken over: the next fenced transaction will say so.
Fenced(r) == Authority /\ holder # r

\* capturePaperSubmitState asks for positions and orders side by side, ...
CapturePositions(r) ==
  /\ run[r].pc = "positions"
  /\ run' = [run EXCEPT ![r].pc = "orders", ![r].cap.pos = Positions,
                        ![r].cap.base = IF Authority THEN <<>> ELSE Fingerprint]
  /\ UNCHANGED <<pgVars, Keep, ledger, broker, holder, faults>>

CaptureOrders(r) ==
  /\ run[r].pc = "orders"
  /\ run' = [run EXCEPT ![r].pc = "reservations", ![r].cap.orders = BrokerOpenOrders]
  /\ UNCHANGED <<pgVars, Keep, ledger, broker, holder, faults>>

\* ... then lists the reservations of the authority in force ...
ListReservations(r) ==
  /\ run[r].pc = "reservations"
  /\ run' = [run EXCEPT ![r].pc = "validate", ![r].cap.res = Reservations]
  /\ UNCHANGED <<pgVars, Keep, ledger, broker, holder, faults>>

\* capBlockers: no order, reservation or position of the same symbol, and
\* buying power for everything requested, reserved and open.
Headroom(entries, cap, res) ==
  /\ \A p \in entries :
       ~\E q \in cap.orders \cup res \cup {x[1] : x \in cap.pos} : q \in BuyEntries /\ Sym(q) = Sym(p)
  /\ Cardinality(entries) + Cardinality(res) + Cardinality(cap.orders \cap BuyEntries)
       + Cardinality({x \in cap.pos : x[1] \in BuyEntries}) <= Power

\* Market evidence, source identities and prices may refuse what is otherwise
\* valid (marketEvidenceBlockers, sourceIdentityBlockers).
Verdicts(valid) == {valid, FALSE}

\* mapPaperSubmitStateToExecutionProjection: what the account can still buy.
ProjectedPower(cap) ==
  LET spent == Cardinality({x \in cap.pos : x[1] \in BuyEntries})
  IN IF spent < Power THEN Power - spent ELSE 0

\* validatePaperSubmitState: the structure is the reviewed one and there is
\* headroom.
StateValid(r, cap) ==
  /\ Structure(cap) = cap.rev
  /\ Headroom(run[r].todo \cap BuyEntries, cap, cap.res)

DropEntries(r) == run[r].todo \ BuyEntries

\* ... and projects what it saw to PostgreSQL.  A failed or fenced projection
\* fails the capture in authority mode.  Entries survive only a valid state
\* and a ledger that did not move.
Validate(r) ==
  LET cap == run[r].cap
      refused == Fenced(r)
      valid == ~refused /\ StateValid(r, cap) /\ (Authority \/ cap.base = Fingerprint)
  IN /\ run[r].pc = "validate"
     /\ IF mode = "inactive" \/ refused THEN UNCHANGED pgVars ELSE syncAccountState(ProjectedPower(cap), cap.res)
     /\ \E ok \in Verdicts(valid) :
          LET todo == IF ok THEN run[r].todo ELSE DropEntries(r)
          IN run' = [run EXCEPT ![r] = IF todo = {} THEN IdleRun ELSE [@ EXCEPT !.pc = "account", !.todo = todo, !.cap.rev = <<>>]]
     /\ UNCHANGED <<Keep, ledger, broker, holder, faults>>

BatchFree_NotRechecked(r) == \A p \in run[r].todo \cap BuyEntries : ledger[p] = "none"

\* reserveReviewedPaperExecutions: duplicates, the ledger and the reservations
\* are looked at again inside BEGIN IMMEDIATE, and the batch is inserted whole.
BatchFree(r) ==
  LET entries == run[r].todo \cap BuyEntries
  IN /\ \A p \in entries : ledger[p] = "none"
     /\ Fingerprint = run[r].cap.base
     /\ listActivePaperNewRiskReservations = run[r].cap.res
     /\ Headroom(entries, run[r].cap, listActivePaperNewRiskReservations)

\* The account must be ACTIVE.  Then, if SQLite decides, the entries are
\* reserved, all or none.
Reserve(r) ==
  LET entries == run[r].todo \cap BuyEntries
      Go(todo) == run' = [run EXCEPT ![r] = [@ EXCEPT !.pc = "next", !.cap = NoCapture, !.todo = todo]]
  IN /\ run[r].pc = "account"
     /\ \/ Finish(r) /\ UNCHANGED ledger
        \/ (Authority \/ entries = {}) /\ Go(run[r].todo) /\ UNCHANGED ledger
        \/ /\ ~Authority /\ entries # {} /\ BatchFree(r) /\ Go(run[r].todo)
           /\ ledger' = [p \in Payloads |-> IF p \in entries THEN "reserved" ELSE ledger[p]]
        \/ ~Authority /\ entries # {} /\ ~BatchFree(r) /\ Go(DropEntries(r)) /\ UNCHANGED ledger
     /\ UNCHANGED <<pgVars, Keep, broker, holder, faults>>

\* The next payload: entries become attempted, an exit gets its row unless a
\* row of an earlier attempt is there; authority mode keeps the row in memory.
NextPayload(r) ==
  /\ run[r].pc = "next"
  /\ \/ run[r].todo = {} /\ Finish(r) /\ UNCHANGED ledger
     \/ \E p \in run[r].todo :
          LET duplicate == ~Authority /\ p \notin BuyEntries /\ ledger[p] # "none"
              next == [run[r] EXCEPT !.todo = @ \ {p}, !.ans = NoOrder]
          IN IF duplicate
             THEN run' = [run EXCEPT ![r] = next] /\ UNCHANGED ledger
             ELSE /\ run' = [run EXCEPT ![r] = [next EXCEPT !.pc = "evidence", !.cur = p]]
                  /\ ledger' = IF Authority THEN ledger ELSE [ledger EXCEPT ![p] = "attempted"]
  /\ UNCHANGED <<pgVars, Keep, broker, holder, faults>>

\* A projection step: it happens, or it fails (fault, fence) and then ends the
\* command in authority mode and is only reported in shadow mode.
Projected(r, pc, Write) ==
  \/ mode = "inactive" /\ UNCHANGED pgVars /\ Step(r, pc) /\ UNCHANGED faults
  \/ mode # "inactive" /\ ~Fenced(r) /\ Write /\ Step(r, pc) /\ UNCHANGED faults
  \/ Fenced(r) /\ UNCHANGED pgVars /\ Finish(r) /\ UNCHANGED faults
  \/ /\ mode # "inactive" /\ faults < MaxFaults /\ faults' = faults + 1
     /\ UNCHANGED pgVars
     /\ IF Authority THEN Finish(r) ELSE Step(r, pc)

\* storePaperReviewEvidence.
Evidence(r) ==
  /\ run[r].pc = "evidence"
  /\ Projected(r, "authorize", StoreEvidence(run[r].cur) /\ UNCHANGED <<mode, intent, stored, resv, lapsed, reserved, snapshot>>)
  /\ UNCHANGED <<Keep, ledger, broker, holder>>

\* authorizeExecution: in authority mode only a new intent goes to the broker.
Authorize(r) ==
  LET answer == ReservationAnswer(run[r].cur)
  IN /\ run[r].pc = "authorize"
     /\ Projected(r, IF BrokerAllowed(answer) THEN "post" ELSE "next", reserveOrderIntent(run[r].cur))
     /\ UNCHANGED <<Keep, ledger, broker, holder>>

\* Some process has read one part of the portfolio and not yet the others.
Capturing == \E r \in Procs : run[r].pc \in {"orders", "reservations"}

\* submitPaperOrder, with the retries of the HTTP client inside: answered,
\* rejected, timed out with or without an order (now or later), or refused as
\* a duplicate of its own first copy, which reads as an ordinary error.
Post(r) ==
  LET p == run[r].cur
      Answered(obs, ans) == /\ broker' = [broker EXCEPT ![p] = obs]
                            /\ run' = [run EXCEPT ![r].pc = IF Authority THEN "record" ELSE "ledger", ![r].ans = ans]
      Doubt == [st |-> "ambiguous", f |-> 0]
      Error == [st |-> "failed", f |-> 0]
      Accepted == [st |-> "accepted", f |-> 0]
      Rejected == [st |-> "rejected", f |-> 0]
      Filled == [st |-> "filled", f |-> 2]
  IN /\ run[r].pc = "post"
     /\ posts' = [posts EXCEPT ![p] = @ + 1]
     /\ \/ /\ \/ Answered(Accepted, Accepted)
              \/ Answered(Filled, Filled)
              \/ Answered(Rejected, Rejected)
           /\ UNCHANGED <<inflight, faults>>
        \/ /\ faults < MaxFaults /\ faults' = faults + 1
           /\ \/ Answered(Accepted, Doubt) /\ UNCHANGED inflight
              \/ Answered(NoOrder, Doubt) /\ UNCHANGED inflight
              \/ Answered(NoOrder, Doubt) /\ inflight' = inflight \cup {p}
              \/ Answered(NoOrder, Error) /\ UNCHANGED inflight
              \/ Answered(Accepted, Error) /\ UNCHANGED inflight
     /\ torn' = (torn \/ Capturing)
     /\ UNCHANGED <<pgVars, latest, content, reviewed, ledger, late, holder, rec>>

\* The SQLite row takes the answer; every error makes it failed.  Authority
\* mode has no such row.
LedgerAfter(st) ==
  CASE st \in {"failed", "ambiguous"} -> "failed"
    [] st \in {"accepted", "rejected"} -> st
    [] OTHER -> "submitted"

RecordLedger(r) ==
  /\ run[r].pc = "ledger"
  /\ ledger' = [ledger EXCEPT ![run[r].cur] = LedgerAfter(run[r].ans.st)]
  /\ Step(r, "record")
  /\ UNCHANGED <<pgVars, Keep, broker, holder, faults>>

\* recordExecutionResult: a result older than what is stored is refused, which
\* ends the command in authority mode.
RecordResult(r) ==
  LET p == run[r].cur
  IN /\ run[r].pc = "record"
     /\ IF Authority /\ ~Fenced(r) /\ ~ResultAccepted(p, run[r].ans)
        THEN Finish(r) /\ UNCHANGED <<pgVars, faults>>
        ELSE Projected(r, "next", recordBrokerResult(p, run[r].ans))
     /\ UNCHANGED <<Keep, ledger, broker, holder>>

\* The process dies.
Crash(r) ==
  /\ run[r].pc # "idle" /\ faults < MaxFaults /\ faults' = faults + 1
  /\ Finish(r)
  /\ UNCHANGED <<pgVars, Keep, ledger, broker, holder>>

-----------------------------------------------------------------------------
(* Reconciliation, authority mode only *)

\* One target: looked up by client order id; an order that the broker does not
\* know is an error in the report and nothing else.
Lookup ==
  /\ Authority /\ rec = NoRec
  /\ \E p \in ReconciliationTargets :
       broker[p] # NoOrder /\ rec' = [p |-> p, obs |-> broker[p]]
  /\ UNCHANGED <<pgVars, latest, content, reviewed, ledger, broker, inflight, posts, late, torn, holder, run, faults>>

Record ==
  /\ rec # NoRec /\ rec' = NoRec
  /\ recordBrokerResult(rec.p, rec.obs)
  /\ UNCHANGED <<latest, content, reviewed, ledger, broker, inflight, posts, late, torn, holder, run, faults>>

-----------------------------------------------------------------------------
(* The broker and the clock *)

BrokerMoves(p) ==
  /\ Working(p)
  /\ \E obs \in {[st |-> "partially_filled", f |-> 1], [st |-> "filled", f |-> 2], [st |-> "canceled", f |-> broker[p].f]} :
       obs # broker[p] /\ broker' = [broker EXCEPT ![p] = obs]
  /\ torn' = (torn \/ Capturing)
  /\ UNCHANGED <<pgVars, latest, content, reviewed, ledger, inflight, posts, late, holder, run, rec, faults>>

Arrives(p) ==
  /\ p \in inflight /\ inflight' = inflight \ {p}
  /\ broker' = [broker EXCEPT ![p] = [st |-> "accepted", f |-> 0]]
  /\ late' = late \cup {p}
  /\ torn' = (torn \/ Capturing)
  /\ UNCHANGED <<pgVars, latest, content, reviewed, ledger, posts, holder, run, rec, faults>>

\* A POST is over long before the fifteen minutes of its reservation are.
Lapse(p) ==
  /\ Authority /\ ReservationLapses(p)
  /\ \A r \in Procs : run[r].pc = "post" => run[r].cur # p
  /\ UNCHANGED execVars

ProcStep(r) ==
  \/ Start(r) \/ CapturePositions(r) \/ CaptureOrders(r) \/ ListReservations(r) \/ Validate(r)
  \/ Reserve(r) \/ NextPayload(r) \/ Evidence(r) \/ Authorize(r)
  \/ Post(r) \/ RecordLedger(r) \/ RecordResult(r)

Next ==
  \/ \E s \in SUBSET Symbols : Review(s)
  \/ \E r \in Procs : ProcStep(r) \/ Crash(r)
  \/ Lookup \/ Record
  \/ \E p \in Payloads : BrokerMoves(p) \/ Arrives(p) \/ Lapse(p)

\* Bounds of the run: portfolios are read in one piece.
Whole == ~torn
Symmetry == Permutations(Procs)

Spec == Init /\ [][Next]_vars
-----------------------------------------------------------------------------
(* Properties *)

\* However often the command is run, dies or fails, submitPaperOrder is called
\* at most once for a reviewed payload: by the unique client order id of the
\* ledger, or by the order intent of the authority.
PostedOnce == \A p \in Payloads : posts[p] <= 1

\* An order that is at the broker is known to the store that decides, before
\* it is sent and whatever happens to the process afterwards.
PostIsKnown ==
  \A p \in Payloads : posts[p] > 0 => IF Authority THEN intent[p] # "none" ELSE ledger[p] # "none"

\* Two artifacts never buy the same symbol twice, nor more than the buying
\* power, unless an order moved while a process was reading the portfolio
\* (positions, orders and reservations are three requests), or it reached
\* the broker after its POST had timed out and SQLite, which calls every
\* error a failure, or an expired reservation no longer stood for it.
Bought == {p \in BuyEntries : broker[p].st \in WorkingStatus \/ broker[p].f > 0}
Excused == torn \/ \E p \in late : ~Authority \/ p \in lapsed \/ intent[p] = "failed"
NoSecondEntry ==
  Excused \/ (/\ \A p, q \in Bought : Sym(p) = Sym(q) => p = q
              /\ Cardinality(Bought) <= Power)

\* In authority mode the reservation of an entry that may have an order is
\* not given up: it is released only when the order is finished without a
\* fill, or when its POST failed with an error that does not read as a timeout.
ReleasedMeansNoOrder ==
  \A p \in BuyEntries : Authority /\ resv[p] = "released" =>
     intent[p] = "failed" \/ (intent[p] = "cancelled" /\ ~Working(p))

\* What PostgreSQL has settled stays settled: a late answer of the executor or
\* of the reconciliation neither reopens an intent nor takes back a fill.
SettledIsFinalStep ==
  \A p \in Payloads : /\ intent[p] \in TerminalIntent => intent'[p] = intent[p]
                     /\ stored'[p].f >= stored[p].f
SettledIsFinal == [][SettledIsFinalStep]_vars

\* In authority mode the allocation accounts for every reservation that is in
\* force, although each capture overwrites it with the sum it listed before.
\* (Settling a reservation that has expired may take a unit of another one.)
ReservedCoversActive ==
  Authority /\ lapsed = {} => reserved >= Cardinality(listActiveReservations)

\* A reviewed payload is sent at most once and accounted for, from the
\* reservation before its POST to the end of its order, although executions
\* overlap, die and get their answers late.
ReviewedOrdersAreSound ==
  /\ PostedOnce
  /\ PostIsKnown
  /\ ReleasedMeansNoOrder
  /\ ReservedCoversActive
=============================================================================
