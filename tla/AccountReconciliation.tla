------------------------- MODULE AccountReconciliation -------------------------
(* reconcilePaperAccountBeforeExecution: before anything is executed, the     *)
(* positions the account should hold are derived from fill activities, orders *)
(* and the ledger, and compared with the positions the broker lists. The four *)
(* answers come from four requests that run side by side, while the broker    *)
(* moves. The model follows one symbol, bought once and sold at most once.    *)
EXTENDS Integers, FiniteSets

CONSTANTS MaxRuns, Paper    \* reconciliations, and whether this is the paper environment

VARIABLES buy, sell,   \* orders at the broker: none, working, filled, canceled
          bought, sold,\* the fill activities of the two orders are visible
          adjusted,    \* none, done (the position is gone), visible (its activity is listed)
          listed,      \* the positions, and the market value of the account, include the symbol
          old,         \* the buy is older than the sync window
          ledger,      \* a ledger row of the buy
          read,        \* the answers of the reconciliation that runs
          report,      \* the last report: [status, events, missing]
          events,      \* paper_reconciliation_events of the symbol
          runs,
          moved        \* the broker moved between the first answer and the report

vars == <<buy, sell, bought, sold, adjusted, listed, old, ledger, read, report, events, runs, moved>>
broker == <<buy, sell, bought, sold, adjusted, listed, old>>

NoAnswer == [got |-> {}, buy |-> "none", sell |-> "none", bought |-> FALSE, sold |-> FALSE, adjusted |-> FALSE,
             listed |-> FALSE, valued |-> FALSE]
NoReport == [status |-> "none", events |-> {}, missing |-> FALSE]

Init ==
    /\ buy = "none" /\ sell = "none" /\ adjusted = "none" /\ ledger = FALSE /\ old = FALSE
    /\ bought = FALSE /\ sold = FALSE /\ listed = FALSE
    /\ read = NoAnswer /\ report = NoReport /\ events = {} /\ runs = 0 /\ moved = FALSE

Held == buy = "filled" /\ sell # "filled" /\ adjusted = "none"

(* The executor's order and its ledger row; the broker fills, sells, removes, and lists with a delay that ends within the sync window. *)
Buys == buy = "none" /\ buy' = "working" /\ ledger' = TRUE /\ UNCHANGED <<sell, bought, sold, adjusted, listed, old>>
BuyFills == buy = "working" /\ buy' = "filled" /\ UNCHANGED <<sell, bought, sold, adjusted, listed, old, ledger>>
Sells == Held /\ sell = "none" /\ sell' = "working" /\ UNCHANGED <<buy, bought, sold, adjusted, listed, old, ledger>>
SellEnds ==
    /\ sell = "working" /\ sell' \in {"filled", "canceled"}
    /\ listed' = (listed /\ sell' # "filled")
    /\ UNCHANGED <<buy, bought, sold, adjusted, old, ledger>>
ActivityShows ==
    /\ bought' = (buy = "filled") /\ sold' = (sell = "filled") /\ adjusted' = (IF adjusted = "done" THEN "visible" ELSE adjusted)
    /\ <<bought', sold', adjusted'>> # <<bought, sold, adjusted>>
    /\ UNCHANGED <<buy, sell, listed, old, ledger>>
PositionShows == Held /\ ~listed /\ listed' = TRUE /\ UNCHANGED <<buy, sell, bought, sold, adjusted, old, ledger>>
PositionVanishes ==
    /\ Held /\ sell # "working" /\ adjusted' \in {"done", "visible"} /\ listed' = FALSE
    /\ UNCHANGED <<buy, sell, bought, sold, old, ledger>>
Ages == buy = "filled" /\ ~old /\ (Held => listed) /\ old' = TRUE /\ UNCHANGED <<buy, sell, bought, sold, adjusted, listed, ledger>>

BrokerMoves ==
    /\ Buys \/ BuyFills \/ Sells \/ SellEnds \/ ActivityShows \/ PositionShows \/ PositionVanishes \/ Ages
    /\ moved' = (moved \/ read.got # {} \/ report # NoReport)
    /\ UNCHANGED <<read, report, events, runs>>

-----------------------------------------------------------------------------
(* Promise.all of getAccount, listPaperPositions, listRecentPaperOrders and listPaperAccountActivities. *)
Answer(request) ==
    CASE request = "account" -> [read EXCEPT !.valued = listed]
      [] request = "positions" -> [read EXCEPT !.listed = listed]
      [] request = "orders" -> [read EXCEPT !.buy = buy, !.sell = sell]
      [] request = "activities" -> [read EXCEPT !.bought = bought, !.sold = sold, !.adjusted = (adjusted = "visible")]

Requests == {"account", "positions", "orders", "activities"}

Read(request) ==
    /\ request \notin read.got /\ runs < MaxRuns
    /\ read' = [Answer(request) EXCEPT !.got = @ \cup {request}]
    /\ UNCHANGED <<broker, ledger, report, events, runs, moved>>

One(b) == IF b THEN 1 ELSE 0

SoldAway_AnySell == read.sold \/ read.sell # "none"

(* addExpectedPosition for a fill activity, and for a filled order without one. *)
FromActivities == One(read.bought) - One(read.sold)

FromOrders == One(read.buy = "filled" /\ ~read.bought)

(* ledgerEntryCanImplyOpenPosition: a row whose order is not listed, or whose filled order has no activity. *)
FromLedger == One(ledger /\ (read.buy = "none" \/ (read.buy = "filled" /\ ~read.bought)))

Expected == FromActivities + FromOrders + FromLedger > 0

SoldAway_Activity == read.sold

(* orderCanExplainClosure, or a sell fill *)
SoldAway == read.sold \/ read.sell \in {"working", "filled"}

Missing == Expected /\ ~read.listed /\ ~SoldAway

Found ==
    CASE Expected /\ read.listed -> IF events \cap {"PENDING", "REMOVAL"} # {} THEN {"RESTORED"} ELSE {}
      [] Missing /\ Paper /\ ~old -> {"PENDING"}
      [] Missing /\ Paper /\ old /\ ~read.adjusted -> {"REMOVAL"}
      [] OTHER -> {}

(* marketValueMismatch, liveMissingMismatch *)
Blocked == read.valued # read.listed \/ (~Paper /\ Missing)

Reconcile ==
    /\ read.got = Requests /\ runs' = runs + 1
    /\ report' = [status |-> IF Blocked THEN "blocked" ELSE IF Found # {} THEN "warning" ELSE "ok",
                  events |-> Found, missing |-> Missing]
    /\ events' = events \cup Found /\ read' = NoAnswer
    /\ UNCHANGED <<broker, ledger, moved>>

(* The report is used, and the next one starts afresh. *)
Used == report # NoReport /\ report' = NoReport /\ moved' = FALSE /\ read.got = {} /\ UNCHANGED <<broker, ledger, read, events, runs>>

Next == BrokerMoves \/ (report = NoReport /\ \E q \in Requests : Read(q)) \/ (report = NoReport /\ Reconcile) \/ Used

Spec == Init /\ [][Next]_vars

-----------------------------------------------------------------------------
TypeOK ==
    /\ report.status \in {"none", "ok", "warning", "blocked"} /\ events \subseteq {"PENDING", "REMOVAL", "RESTORED"}
    /\ read.got \subseteq Requests /\ runs \in 0..MaxRuns

(* A report in which nothing moved and that is neither a warning nor a block describes an account that lists what it holds. *)
OkMeansListed == report.status = "ok" /\ ~moved /\ Held => listed \/ sell = "working"

(* A removal is recorded only for a position that went away without a sale, if the broker stood still meanwhile. *)
RemovalMeansVanished == "REMOVAL" \in report.events /\ ~moved => ~Held /\ sell # "filled" /\ adjusted = "done"
=============================================================================
