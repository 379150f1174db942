--------------------------- MODULE ZeroDteTrading ---------------------------
(***************************************************************************)
(* The same-day option engine in SQLite mode (isAuthorityActive() false):  *)
(* executeZeroDteCandidate, reconcileZeroDtePaperOrders,              *)
(* reviewZeroDteExits and reconcileZeroDteExitOrders, as four commands     *)
(* that run concurrently on one option contract of one trading day.        *)
(*                                                                         *)
(* The candidates are those of successive engine runs for the contract:    *)
(* they share the reservation key (date:symbol:entry), each has a client   *)
(* order id and a decision of its own.  Prices, windows and daily limits   *)
(* are one nondeterministic verdict, "otherwise eligible".                 *)
(***************************************************************************)
EXTENDS Naturals, Sequences, FiniteSets, SequencesExt

CONSTANTS Candidates,
          Qty,              \* contracts of an entry
          MaxAttempts,      \* bound on the executions of candidates
          MaxExits,         \* bound on exit orders
          MaxFaults         \* bound on crashes, lost answers and malformed answers

VARIABLES
    ledger,     \* paper_execution_ledger rows of the key, in order of creation
    trade,      \* zero_dte_paper_trades, one row per candidate
    latest,     \* the trade with the greatest updated_at
    entry,      \* the broker's entry order of each client order id
    exits,      \* the broker's exit orders and what the ledger says of each
    engine,     \* engine[c]: the execution of candidate c
    attempts,
    reconciler, \* entry reconciliation: the row and the answer it holds
    exiter,     \* exit review and submission
    closer,     \* exit reconciliation: the request and the answer it holds
    faults
vars == <<ledger, trade, latest, entry, exits, engine, attempts, reconciler, exiter,
          closer, faults>>

None == "none"
ACTIVE_ORDER_STATUSES == {"reserved", "submitted", "partial", "filled"}
REPAIRABLE_ZERO_DTE_LEDGER_STATUSES == {"blocked", "failed", "released"}
TERMINAL_BROKER_ORDER_STATUSES == {"canceled"}
LedgerStatuses == ACTIVE_ORDER_STATUSES \cup REPAIRABLE_ZERO_DTE_LEDGER_STATUSES
                    \cup {"canceled"}
TradeStatuses == {None, "intended", "submitted", "partially_filled", "open",
                  "exit_requested", "closed", "rejected", "canceled"}
Order(status, filled) == [status |-> status, filled |-> filled]
NoOrder == Order(None, 0)
BrokerStatuses == {"new", "partially_filled", "filled", "canceled"}
Live(o) == o.status \in {"new", "partially_filled"}
Final(o) == o.status \in {"filled", "canceled"}

Sold == FoldFunction(+, 0, [i \in DOMAIN exits |-> exits[i].order.filled])
Bought == FoldFunction(+, 0, [c \in Candidates |-> entry[c].filled])
Position == Bought - Sold
Flat == Position = 0
Clear == \A c \in Candidates : ~Live(entry[c])

Idle == [at |-> "idle", flat |-> TRUE, clear |-> TRUE, seen |-> <<>>, answer |-> NoOrder]
NoTrade == [status |-> None, quantity |-> 0, order |-> FALSE, filledAt |-> FALSE, src |-> 0,
            exit |-> 0, exitFill |-> 0, outcome |-> 0]

-----------------------------------------------------------------------------
(* Ledger and eligibility *)

RowOf(c) == SelectInSeq(ledger, LAMBDA r : r.cand = c)
Row(c, status) == [cand |-> c, status |-> status, order |-> FALSE, linked |-> FALSE]

(* DUPLICATE_ORDER: the newest row of the key is active *)
DuplicateOrder == ledger # <<>> /\ Last(ledger).status \in ACTIVE_ORDER_STATUSES

(* createBlockedLedgerEntry: the newest row of the key, whoever it is for,  *)
(* becomes blocked unless it is active; without one a row is inserted.      *)
Blocked(c) ==
    ledger' = IF ledger = <<>> THEN <<Row(c, "blocked")>>
              ELSE IF DuplicateOrder THEN ledger
              ELSE [ledger EXCEPT ![Len(ledger)].status = "blocked"]

Reusable(c) ==
    /\ ledger # <<>>
    /\ LET row == Last(ledger) IN
         /\ row.status \in REPAIRABLE_ZERO_DTE_LEDGER_STATUSES
         /\ row.cand = c /\ ~row.order

(* insert of the atomic reservation, refused by the unique client order id *)
Reserved(c) ==
    IF Reusable(c) THEN {[ledger EXCEPT ![Len(ledger)].status = "reserved",
                                        ![Len(ledger)].linked = TRUE]}
    ELSE IF RowOf(c) = 0 THEN {Append(ledger, [Row(c, "reserved") EXCEPT !.linked = TRUE])}
    ELSE {}

(* evaluateZeroDteExecutionEligibility, of an account with no position      *)
(* (flat) and no working order (clear) in the contract; its other blockers  *)
(* depend on the market and may hold at any time                            *)
Eligible(flat, clear) == ~DuplicateOrder /\ flat /\ clear
AlreadyTraded(c) == trade[c].status \in {"submitted", "partially_filled", "open"}

-----------------------------------------------------------------------------
(* Broker answers *)

Kind(o) == CASE o.status = "new" -> "pending"
             [] o.status = "partially_filled" -> "partial"
             [] o.status = "filled" -> "filled"
             [] OTHER -> "terminal"

brokerStateStrength(o) ==
    CASE Kind(o) = "filled" -> 3 [] Kind(o) = "terminal" -> 2
      [] Kind(o) = "partial" -> 1 [] OTHER -> 0

localBrokerStateStrength(t, row) ==
    CASE row.status = "filled" \/ t.status \in {"open", "exit_requested"} -> 3
      [] t.status = "partially_filled" \/ row.status = "partial" -> 1
      [] t.filledAt -> 3
      [] t.status \in {"canceled", "rejected", "closed"} \/ row.status = "canceled" -> 2
      [] OTHER -> 0

verifiedLocalFilledQuantity(t, row) ==
    IF \/ t.filledAt \/ t.status \in {"partially_filled", "open", "exit_requested"}
       \/ row.status \in {"partial", "filled"}
    THEN t.quantity ELSE 0

shouldApplyBrokerState_Always(t, row, o) == TRUE

shouldApplyBrokerState(t, row, o) ==
    /\ o.filled >= verifiedLocalFilledQuantity(t, row)
    /\ \/ brokerStateStrength(o) > localBrokerStateStrength(t, row)
       \/ /\ brokerStateStrength(o) = localBrokerStateStrength(t, row)
          /\ \/ Kind(o) = "pending"
             \/ Kind(o) = "partial" /\ o.filled > verifiedLocalFilledQuantity(t, row)

LedgerStatusOf(o) == CASE Kind(o) = "filled" -> "filled" [] Kind(o) = "partial" -> "partial"
                       [] Kind(o) = "terminal" -> "canceled" [] OTHER -> "submitted"

TradeAfter_OpensPartial(t, o) ==
    IF o.filled > 0
    THEN [t EXCEPT !.status = "open", !.order = TRUE, !.quantity = o.filled, !.filledAt = TRUE]
    ELSE [t EXCEPT !.status = IF Kind(o) = "pending" THEN "submitted" ELSE "canceled",
                   !.order = TRUE]

TradeAfter(t, o) ==
    IF o.filled > 0
    THEN [t EXCEPT !.status = IF Kind(o) = "partial" THEN "partially_filled" ELSE "open",
                   !.order = TRUE, !.quantity = o.filled, !.filledAt = TRUE]
    ELSE [t EXCEPT !.status = IF Kind(o) = "pending" THEN "submitted" ELSE "canceled",
                   !.order = TRUE]

(* validateZeroDteBrokerOrderState: the row linked to the trade is the one  *)
(* of its client order id and has no other broker order                     *)
ValidLink_AnyRow(c, l, src) == src # 0

ValidLink(c, l, src) == src # 0 /\ l[src].cand = c

(* applyZeroDteBrokerOrderState on the row l[src], in one transaction *)
ApplyBrokerState(c, l, src, o) ==
    LET t == [trade[c] EXCEPT !.src = src] IN
    IF shouldApplyBrokerState(t, l[src], o)
    THEN /\ ledger' = [l EXCEPT ![src].status = LedgerStatusOf(o), ![src].order = TRUE,
                                ![src].linked = TRUE]
         /\ trade' = [trade EXCEPT ![c] = TradeAfter(t, o)]
         /\ latest' = c
    ELSE ledger' = l /\ trade' = [trade EXCEPT ![c] = t] /\ UNCHANGED latest

-----------------------------------------------------------------------------
(* executeZeroDteCandidate *)

Fault == faults < MaxFaults /\ faults' = faults + 1
NoFault == UNCHANGED faults
others == <<entry, exits, reconciler, exiter, closer>>

(* preflight, account snapshot, eligibility, decision linkage, attestation; *)
(* the fingerprint of the ledger is taken last                              *)
Review(c) ==
    /\ engine[c].at = "idle" /\ attempts < MaxAttempts
    /\ attempts' = attempts + 1
    /\ \/ DuplicateOrder /\ UNCHANGED <<ledger, engine>>
       \/ ~DuplicateOrder /\ Blocked(c) /\ UNCHANGED engine
       \/ /\ Eligible(Flat, Clear) /\ ~AlreadyTraded(c)
          /\ engine' = [engine EXCEPT ![c] = [Idle EXCEPT !.at = "attested", !.seen = ledger]]
          /\ UNCHANGED ledger
    /\ UNCHANGED <<trade, latest, others>> /\ NoFault

(* The fresh account: positions and orders are two concurrent requests *)
FreshPositions(c) ==
    /\ engine[c].at \in {"attested", "ordersRead"}
    /\ engine' = [engine EXCEPT ![c].flat = Flat,
                                ![c].at = IF @ = "attested" THEN "positionsRead" ELSE "fresh"]
    /\ UNCHANGED <<ledger, trade, latest, attempts, others>> /\ NoFault

FreshOrders(c) ==
    /\ engine[c].at \in {"attested", "positionsRead"}
    /\ engine' = [engine EXCEPT ![c].clear = Clear,
                                ![c].at = IF @ = "attested" THEN "ordersRead" ELSE "fresh"]
    /\ UNCHANGED <<ledger, trade, latest, attempts, others>> /\ NoFault

Reserve_NotRechecked(c) ==
    /\ engine[c].at = "fresh" /\ engine[c].flat /\ engine[c].clear
    /\ \E l \in Reserved(c) : ledger' = l
    /\ engine' = [engine EXCEPT ![c] = [Idle EXCEPT !.at = "reserved"]]
    /\ UNCHANGED <<trade, latest, attempts, others>> /\ NoFault

(* fresh quote, eligibility and attestation, then runAtomicPaperNewRisk-    *)
(* Reservation: a changed ledger, a new blocker or a refused insert ends it *)
Reserve(c) ==
    /\ engine[c].at = "fresh" /\ Eligible(engine[c].flat, engine[c].clear)
    /\ ledger = engine[c].seen
    /\ \E l \in Reserved(c) : ledger' = l
    /\ engine' = [engine EXCEPT ![c] = [Idle EXCEPT !.at = "reserved"]]
    /\ UNCHANGED <<trade, latest, attempts, others>> /\ NoFault

SubmitBlocked(c) ==
    /\ engine[c].at \in {"attested", "fresh"}
    /\ \/ ~DuplicateOrder /\ Blocked(c)     \* submitBlockers, or a failed read
       \/ (DuplicateOrder \/ ledger # engine[c].seen \/ Reserved(c) = {}) /\ UNCHANGED ledger
    /\ engine' = [engine EXCEPT ![c] = Idle]
    /\ UNCHANGED <<trade, latest, attempts, others>> /\ NoFault

(* authorizeExecution refuses, or the trade is inserted unless it exists *)
Authorize(c) ==
    /\ engine[c].at = "reserved"
    /\ \/ /\ ledger' = [ledger EXCEPT ![RowOf(c)].status = "released"]
          /\ engine' = [engine EXCEPT ![c] = Idle] /\ UNCHANGED <<trade, latest>>
       \/ /\ IF trade[c].status = None
             THEN /\ trade' = [trade EXCEPT ![c] = [NoTrade EXCEPT !.status = "intended",
                                  !.quantity = Qty, !.src = RowOf(c)]]
                  /\ latest' = c
             ELSE UNCHANGED <<trade, latest>>
          /\ engine' = [engine EXCEPT ![c].at = "posting"] /\ UNCHANGED ledger
    /\ UNCHANGED <<attempts, others>> /\ NoFault

(* submitPaperOrder: the broker takes the order unless the client order id  *)
(* is used; the answer may be lost (an error here), or lack the order id    *)
PostAccepted(c) ==
    /\ engine[c].at = "posting" /\ entry[c] = NoOrder
    /\ \E f \in 0..Qty :
         entry' = [entry EXCEPT ![c] = Order(CASE f = 0 -> "new" [] f = Qty -> "filled"
                                                [] OTHER -> "partially_filled", f)]
    /\ \/ /\ engine' = [engine EXCEPT ![c] = [Idle EXCEPT !.at = "answered",
                                                          !.answer = entry'[c]]]
          /\ ledger' = [ledger EXCEPT ![RowOf(c)].status = "submitted",
                                      ![RowOf(c)].order = TRUE]
          /\ UNCHANGED <<trade, latest>> /\ NoFault
       \/ /\ engine' = [engine EXCEPT ![c] = Idle]
          /\ ledger' = [ledger EXCEPT ![RowOf(c)].status = "failed"]
          /\ trade' = [trade EXCEPT ![c].status = "rejected"] /\ latest' = c /\ Fault
    /\ UNCHANGED <<attempts, exits, reconciler, exiter, closer>>

PostRefused(c) ==
    /\ engine[c].at = "posting"
    /\ ledger' = [ledger EXCEPT ![RowOf(c)].status = "failed"]
    /\ trade' = [trade EXCEPT ![c].status = "rejected"] /\ latest' = c
    /\ engine' = [engine EXCEPT ![c] = Idle]
    /\ UNCHANGED <<attempts, others>> /\ NoFault

(* The trade's own transaction, after the ledger update *)
RecordSubmitted(c) ==
    /\ engine[c].at = "answered"
    /\ trade' = [trade EXCEPT ![c].status = "submitted", ![c].order = TRUE] /\ latest' = c
    /\ engine' = [engine EXCEPT ![c].at = "applying"]
    /\ UNCHANGED <<ledger, attempts, others>> /\ NoFault

(* The answer to the POST is validated and applied; evidence that does not  *)
(* validate fails the ledger row and leaves the trade submitted             *)
ApplyAnswer(c) ==
    /\ engine[c].at = "applying"
    /\ LET src == trade[c].src IN
       \/ ValidLink(c, ledger, src) /\ ApplyBrokerState(c, ledger, src, engine[c].answer)
          /\ NoFault
       \/ /\ ledger' = [ledger EXCEPT ![RowOf(c)].status = "failed"]
          /\ UNCHANGED <<trade, latest>> /\ Fault
    /\ engine' = [engine EXCEPT ![c] = Idle]
    /\ UNCHANGED <<attempts, others>>

(* Before the reservation a crash leaves nothing behind *)
EngineCrash(c) ==
    /\ engine[c].at \in {"reserved", "posting", "answered", "applying"} /\ Fault
    /\ engine' = [engine EXCEPT ![c] = Idle]
    /\ UNCHANGED <<ledger, trade, latest, attempts, others>>

-----------------------------------------------------------------------------
(* reconcileZeroDtePaperOrders: the selected row and getOrder, then the     *)
(* transactions that repair the link and apply the answer                   *)

NoAnswer == [cand |-> None, src |-> 0, stale |-> FALSE, order |-> NoOrder]

Unsettled(c) == trade[c].status \in {"intended", "submitted", "partially_filled"}
                  /\ trade[c].order

FetchEntry(c) ==
    /\ reconciler = NoAnswer /\ Unsettled(c)
    /\ LET row == ledger[trade[c].src] IN
         reconciler' = [cand |-> c, src |-> trade[c].src, order |-> entry[c],
             stale |-> row.cand # c /\ row.status \in REPAIRABLE_ZERO_DTE_LEDGER_STATUSES]
    /\ UNCHANGED <<ledger, trade, latest, entry, exits, engine, attempts, exiter, closer>>
    /\ NoFault

(* repairStaleZeroDteLedgerLinkage: the rows and the link it would leave *)
Repaired(c, src) ==
    IF ~reconciler.stale THEN <<ledger, src>>
    ELSE LET row == RowOf(c)
             l == IF row # 0 THEN ledger ELSE Append(ledger, Row(c, "submitted"))
             i == IF row # 0 THEN row ELSE Len(ledger) + 1
         IN  <<[l EXCEPT ![i].status = "submitted", ![i].order = TRUE, ![i].linked = TRUE], i>>

ReconcileEntry ==
    /\ reconciler # NoAnswer
    /\ LET c == reconciler.cand
           r == Repaired(c, reconciler.src)
       IN  IF ValidLink(c, r[1], r[2])
           THEN ApplyBrokerState(c, r[1], r[2], reconciler.order)
           ELSE UNCHANGED <<ledger, trade, latest>>
    /\ reconciler' = NoAnswer
    /\ UNCHANGED <<entry, exits, engine, attempts, exiter, closer>> /\ NoFault

-----------------------------------------------------------------------------
(* reviewZeroDteExits: buildPaperExitExecutionResult reviews the positions  *)
(* (the review before it only decides whether to call it) and submits, then *)
(* linkExecution                                                            *)

NoExit == [at |-> "idle", qty |-> 0, order |-> 0]
ActiveExit == \E i \in DOMAIN exits : Live(exits[i].order)
ExitCandidate == Position > 0 /\ ~ActiveExit

ReviewExits ==
    /\ exiter = NoExit /\ ExitCandidate /\ Len(exits) < MaxExits
    /\ exiter' = [NoExit EXCEPT !.at = "post", !.qty = Position]
    /\ UNCHANGED <<ledger, trade, latest, entry, exits, engine, attempts, reconciler, closer>>
    /\ NoFault

(* The broker refuses to sell more than is held; an answer may be lost *)
PostExit ==
    /\ exiter.at = "post"
    /\ \/ /\ exiter.qty <= Position
          /\ exits' = Append(exits, [order |-> Order("new", 0), qty |-> exiter.qty,
                                     ledger |-> None])
          /\ \/ exiter' = [exiter EXCEPT !.at = "link", !.order = Len(exits')] /\ NoFault
             \/ exiter' = NoExit /\ Fault
       \/ exiter' = NoExit /\ UNCHANGED exits /\ NoFault
    /\ UNCHANGED <<ledger, trade, latest, entry, engine, attempts, reconciler, closer>>

(* linkExecution: the most recently updated trade of the contract, in       *)
(* whatever status, becomes exit_requested for this order                   *)
LinkExit ==
    /\ exiter.at = "link"
    /\ IF latest = None THEN UNCHANGED <<trade, exits>>
       ELSE /\ trade' = [trade EXCEPT ![latest].status = "exit_requested",
                                      ![latest].exit = exiter.order]
            /\ exits' = [exits EXCEPT ![exiter.order].ledger = "submitted"]
    /\ exiter' = NoExit
    /\ UNCHANGED <<ledger, latest, entry, engine, attempts, reconciler, closer>> /\ NoFault

ExiterCrash ==
    /\ exiter.at = "link" /\ Fault /\ exiter' = NoExit
    /\ UNCHANGED <<ledger, trade, latest, entry, exits, engine, attempts, reconciler, closer>>

-----------------------------------------------------------------------------
(* reconcileZeroDteExitOrders *)

NoClose == [cand |-> None, exit |-> 0, quantity |-> 0, order |-> NoOrder]

FetchExit(c) ==
    /\ closer = NoClose /\ trade[c].status = "exit_requested"
    /\ closer' = [cand |-> c, exit |-> trade[c].exit, quantity |-> trade[c].quantity,
                  order |-> exits[trade[c].exit].order]
    /\ UNCHANGED <<ledger, trade, latest, entry, exits, engine, attempts, reconciler, exiter>>
    /\ NoFault

sameExitOrderRequest_Ignored(c) == TRUE

sameExitOrderRequest(c) == trade[c].exit = closer.exit

(* validatedExitBrokerState: the order sells the quantity of the trade *)
validatedExitQuantity(c) == exits[closer.exit].qty = closer.quantity

ExitKind_PartialIsFull(o, qty) ==
    CASE o.filled > 0 -> "filled" [] Live(o) -> "pending" [] OTHER -> "terminal"

ExitKind(o, qty) ==
    CASE o.filled = qty -> "filled" [] o.filled > 0 -> "partial"
      [] Live(o) -> "pending" [] OTHER -> "terminal"

(* recordPaperExitOutcome: an outcome of other evidence rolls back the close *)
OutcomeAgrees_Overwrites(c) == TRUE

OutcomeAgrees(c) == trade[c].outcome \in {0, closer.exit}

ExitValid(c) ==
    /\ validatedExitQuantity(c) /\ trade[c].status = "exit_requested"
    /\ sameExitOrderRequest(c)
    /\ closer.order.filled >= trade[c].exitFill

ReconcileExit ==
    /\ closer # NoClose
    /\ LET c == closer.cand
           kind == ExitKind(closer.order, exits[closer.exit].qty)
           recorded(status) == exits' = [exits EXCEPT ![closer.exit].ledger = status]
           after(update) == trade' = [trade EXCEPT ![c] = update] /\ latest' = c
       IN  CASE ExitValid(c) /\ kind = "pending" ->
                  recorded("submitted") /\ UNCHANGED <<trade, latest>>
             [] ExitValid(c) /\ kind = "partial" ->
                  /\ recorded("partial") /\ UNCHANGED latest
                  /\ trade' = [trade EXCEPT ![c].exitFill = closer.order.filled]
             [] ExitValid(c) /\ kind = "terminal" ->
                  recorded("canceled") /\ after([trade[c] EXCEPT !.status = "open"])
             [] ExitValid(c) /\ kind = "filled" /\ OutcomeAgrees(c) ->
                  /\ recorded("filled")
                  /\ after([trade[c] EXCEPT !.status = "closed", !.outcome = closer.exit,
                                            !.exitFill = closer.order.filled])
             [] OTHER -> UNCHANGED <<exits, trade, latest>>
    /\ closer' = NoClose
    /\ UNCHANGED <<ledger, entry, engine, attempts, reconciler, exiter>> /\ NoFault

-----------------------------------------------------------------------------
(* The broker *)

Moves(o, qty) ==
    {Order(IF f = qty THEN "filled" ELSE "partially_filled", f) : f \in (o.filled + 1)..qty}
      \cup {Order("canceled", o.filled)}

BrokerMovesEntry(c) ==
    /\ Live(entry[c]) /\ \E o \in Moves(entry[c], Qty) : entry' = [entry EXCEPT ![c] = o]
    /\ UNCHANGED <<ledger, trade, latest, exits, engine, attempts, reconciler, exiter, closer>>
    /\ NoFault

BrokerMovesExit(i) ==
    /\ Live(exits[i].order)
    /\ \E o \in Moves(exits[i].order, exits[i].qty) : exits' = [exits EXCEPT ![i].order = o]
    /\ UNCHANGED <<ledger, trade, latest, entry, engine, attempts, reconciler, exiter, closer>>
    /\ NoFault

-----------------------------------------------------------------------------

Fresh == /\ ledger = <<>> /\ trade = [c \in Candidates |-> NoTrade] /\ latest = None
         /\ entry = [c \in Candidates |-> NoOrder]

(* A link written by an earlier version: the trade of c names a blocked row *)
(* of another candidate (explored without further faults)                   *)
Legacy(c, d) ==
    /\ ledger = <<Row(d, "blocked")>> /\ latest = c
    /\ trade = [x \in Candidates |-> IF x # c THEN NoTrade
                  ELSE [NoTrade EXCEPT !.status = "submitted", !.quantity = Qty, !.order = TRUE,
                                       !.src = 1]]
    /\ entry = [x \in Candidates |-> IF x = c THEN Order("new", 0) ELSE NoOrder]

Init ==
    /\ \/ Fresh /\ faults = 0
       \/ faults = MaxFaults /\ \E c, d \in Candidates : c # d /\ Legacy(c, d)
    /\ exits = <<>> /\ engine = [c \in Candidates |-> Idle]
    /\ attempts = 0
    /\ reconciler = NoAnswer /\ exiter = NoExit /\ closer = NoClose

Engine(c) ==
    \/ Review(c) \/ FreshPositions(c) \/ FreshOrders(c) \/ Reserve(c) \/ SubmitBlocked(c)
    \/ Authorize(c) \/ PostAccepted(c) \/ PostRefused(c) \/ RecordSubmitted(c)
    \/ ApplyAnswer(c) \/ EngineCrash(c)

Next ==
    \/ \E c \in Candidates : Engine(c) \/ FetchEntry(c) \/ FetchExit(c) \/ BrokerMovesEntry(c)
    \/ ReconcileEntry \/ ReviewExits \/ PostExit \/ LinkExit \/ ExiterCrash
    \/ ReconcileExit
    \/ \E i \in DOMAIN exits : BrokerMovesExit(i)

Spec == Init /\ [][Next]_vars

-----------------------------------------------------------------------------

TypeOK ==
    /\ \A i \in DOMAIN ledger : ledger[i].cand \in Candidates /\ ledger[i].status \in LedgerStatuses
    /\ \A c \in Candidates :
         /\ trade[c].status \in TradeStatuses /\ trade[c].quantity \in 0..Qty
         /\ trade[c].src \in 0..Len(ledger) /\ trade[c].exit \in 0..Len(exits)
         /\ Cardinality({i \in DOMAIN ledger : ledger[i].cand = c}) <= 1
    /\ Position >= 0 /\ attempts \in 0..MaxAttempts /\ faults \in 0..MaxFaults

(* However the engine runs interleave, two entry orders of the contract     *)
(* that the ledger holds for active never work at the broker together: the  *)
(* reservation reads the ledger again in the transaction that writes it.    *)
OneWorkingEntry ==
    Cardinality({c \in Candidates :
        /\ Live(entry[c]) /\ RowOf(c) # 0
        /\ ledger[RowOf(c)].status \in ACTIVE_ORDER_STATUSES}) <= 1

(* README: exact decision-to-ledger linkage is preserved before positions   *)
(* are marked.  A filled trade no exit was requested for is linked to the   *)
(* row of its own client order id and decision, the legacy one included.    *)
LinkedBeforeMarked ==
    \A c \in Candidates :
        trade[c].status \in {"partially_filled", "open"} /\ trade[c].exit = 0 =>
            /\ ledger[trade[c].src].cand = c
            /\ ledger[trade[c].src].linked /\ ledger[trade[c].src].order

(* A trade is open only when its entry order is over and no fill of it can  *)
(* be missed: reconciliation does not look at open trades.                  *)
OpenHasEveryFill ==
    \A c \in Candidates : trade[c].status = "open" /\ trade[c].exit = 0 =>
        Final(entry[c]) /\ trade[c].quantity = entry[c].filled

(* README: stale pending or partial responses cannot regress a confirmed    *)
(* fill.  An answer read before another one was applied changes nothing.    *)
FillsNeverRegressStep ==
    \A c \in Candidates :
         trade[c].filledAt => /\ trade'[c].quantity >= trade[c].quantity
                              /\ trade'[c].status \notin {"intended", "submitted", "canceled"}

(* A late answer about an earlier exit order never reopens a trade whose    *)
(* newer exit order is still working.                                       *)
ReopenHasNoWorkingExitStep ==
    \A c \in Candidates :
         trade[c].status = "exit_requested" /\ trade'[c].status = "open" =>
            ~Live(exits[trade[c].exit].order)

(* A closed trade sold its whole quantity with the exit order its outcome   *)
(* was recorded for.                                                        *)
ClosedMeansSold ==
    \A c \in Candidates : trade[c].status = "closed" =>
        /\ trade[c].outcome = trade[c].exit
        /\ exits[trade[c].exit].order.filled = trade[c].quantity
        /\ exits[trade[c].exit].ledger = "filled"

(* README: a conflicting existing outcome rolls back the close.             *)
OutcomeIsPermanentStep ==
    \A c \in Candidates : trade[c].outcome # 0 => trade'[c].outcome = trade[c].outcome
=============================================================================
