----------------------------- MODULE Strategies -----------------------------
(***************************************************************************)
(* Components that share no state, checked in one run: a behaviour chooses *)
(* one of them, takes its steps and leaves the variables of the others     *)
(* unused. Here: the same-day option engine, from its queue to its         *)
(* outcomes, and the hedges.                                               *)
(***************************************************************************)
EXTENDS Naturals, Sequences, FiniteSets, TLC

CONSTANTS c1, c2, p1, p2

(* Two hedges of two contracts; a hedge and two exits of it. *)
HedgeKinds == [r \in {1, 2} |-> "entry"]
HedgeContracts == [r \in {1, 2} |-> r]
HedgeExitKinds == [r \in {1, 2, 3} |-> IF r = 1 THEN "entry" ELSE "exit"]
HedgeExitContracts == [r \in {1, 2, 3} |-> 1]
(* A run that may send orders and one that may not; what a playbook may say of a candidate. *)
EngineRuns == <<"paper", "shadow">>
PlaybookVerdicts == {[score |-> 1, eligible |-> FALSE, clean |-> FALSE], [score |-> 2, eligible |-> TRUE, clean |-> TRUE],
                     [score |-> 2, eligible |-> TRUE, clean |-> FALSE]}

VARIABLES
    part,           \* the component this behaviour is about
    zdLedger, zdTrade, zdLatest, zdEntry, zdExits, zdEngine, zdAttempts,
    zdReconciler, zdExiter, zdCloser, zdFaults,
    zeCand, zeRun, zeObserved, zeDecision, zeProc, zeOrders, zeShadow, zeRefused,
    zeDied, zeCrashes,
    zoNow, zoPrice, zoShadow, zoPaper, zoMarks, zoMissed, zoOutcome, zoProc,
    zoRaced, zoCrashes,
    hgHeld, hgOrd, hgRev, hgLed, hgPx, hgLate, hgMissed, hgFaults

zdVars == <<zdLedger, zdTrade, zdLatest, zdEntry, zdExits, zdEngine, zdAttempts,
            zdReconciler, zdExiter, zdCloser, zdFaults>>
zeVars == <<zeCand, zeRun, zeObserved, zeDecision, zeProc, zeOrders, zeShadow,
            zeRefused, zeDied, zeCrashes>>
zoVars == <<zoNow, zoPrice, zoShadow, zoPaper, zoMarks, zoMissed, zoOutcome, zoProc,
            zoRaced, zoCrashes>>
hgVars == <<hgHeld, hgOrd, hgRev, hgLed, hgPx, hgLate, hgMissed, hgFaults>>
vars == <<part, zdVars, zeVars, zoVars, hgVars>>

(* Two candidates of one contract, two executions and one exit order.       *)
ZeroDteEntries == INSTANCE ZeroDteTrading WITH
    Candidates <- {c1, c2}, Qty <- 2, MaxAttempts <- 2, MaxExits <- 1, MaxFaults <- 1,
    ledger <- zdLedger, trade <- zdTrade, latest <- zdLatest, entry <- zdEntry,
    exits <- zdExits, engine <- zdEngine, attempts <- zdAttempts,
    reconciler <- zdReconciler, exiter <- zdExiter, closer <- zdCloser,
    faults <- zdFaults

(* One candidate with one execution and two exit orders.                    *)
ZeroDteExits == INSTANCE ZeroDteTrading WITH
    Candidates <- {c1}, Qty <- 2, MaxAttempts <- 1, MaxExits <- 2, MaxFaults <- 1,
    ledger <- zdLedger, trade <- zdTrade, latest <- zdLatest, entry <- zdEntry,
    exits <- zdExits, engine <- zdEngine, attempts <- zdAttempts,
    reconciler <- zdReconciler, exiter <- zdExiter, closer <- zdCloser,
    faults <- zdFaults

(* Two engine processes that may take up the same run, two candidates, a    *)
(* paper run and a shadow run, and a crash.                                 *)
Engine == INSTANCE ZeroDteEngine WITH
    Procs <- {p1, p2}, Cands <- {c1, c2}, Runs <- EngineRuns,
    Evaluations <- PlaybookVerdicts, MinObs <- 1, QueueTopN <- 2, ExecutionTopN <- 1,
    MaxObs <- 1, MaxCrashes <- 1, cand <- zeCand, run <- zeRun, observed <- zeObserved,
    decision <- zeDecision, proc <- zeProc, orders <- zeOrders, shadow <- zeShadow,
    refused <- zeRefused, died <- zeDied, crashes <- zeCrashes

(* Two overlapping reconciliations that mark one paper trade, and a crash.  *)
PaperMarks == INSTANCE ZeroDteOutcomes WITH
    Procs <- {c1, c2}, Prices <- {1, 3}, PaperTrade <- TRUE, Slippage <- 1, Fee <- 1,
    Horizon <- 1, MaxAge <- 1, MaxFuture <- 0, SessionEnd <- 1, DayLength <- 2,
    MaxTime <- 2, MaxCrashes <- 1, now <- zoNow, price <- zoPrice, shadow <- zoShadow,
    paper <- zoPaper, marks <- zoMarks, missed <- zoMissed, outcome <- zoOutcome,
    proc <- zoProc, raced <- zoRaced, crashes <- zoCrashes

(* Two overlapping reconciliations of a candidate that is seen again or     *)
(* becomes a shadow trade.                                                  *)
Forward == INSTANCE ZeroDteOutcomes WITH
    Procs <- {c1, c2}, Prices <- {1, 5}, PaperTrade <- FALSE, Slippage <- 1, Fee <- 1,
    Horizon <- 1, MaxAge <- 1, MaxFuture <- 0, SessionEnd <- 1, DayLength <- 2,
    MaxTime <- 2, MaxCrashes <- 0, now <- zoNow, price <- zoPrice, shadow <- zoShadow,
    paper <- zoPaper, marks <- zoMarks, missed <- zoMissed, outcome <- zoOutcome,
    proc <- zoProc, raced <- zoRaced, crashes <- zoCrashes

(* Two hedges of two contracts, two executing processes, a premium cap for  *)
(* one of them.                                                             *)
HedgeEntries == INSTANCE HedgeTrading WITH
    Reviews <- {1, 2}, KindOf <- HedgeKinds, ContractOf <- HedgeContracts,
    Procs <- {c1, c2}, Held0 <- [c \in {1, 2} |-> 0], Qty <- 1, Cap <- 1,
    MaxOrders <- 2, MaxReprice <- 0, MaxFaults <- 1, held <- hgHeld, ord <- hgOrd,
    rev <- hgRev, led <- hgLed, px <- hgPx, late <- hgLate, missed <- hgMissed,
    faults <- hgFaults

(* A hedge with partial fills and a replacement, and two exit reviews of it.*)
HedgeExits == INSTANCE HedgeTrading WITH
    Reviews <- {1, 2, 3}, KindOf <- HedgeExitKinds, ContractOf <- HedgeExitContracts,
    Procs <- {c1}, Held0 <- [c \in {1} |-> 0], Qty <- 2, Cap <- 3, MaxOrders <- 1,
    MaxReprice <- 1, MaxFaults <- 1, held <- hgHeld, ord <- hgOrd, rev <- hgRev,
    led <- hgLed, px <- hgPx, late <- hgLate, missed <- hgMissed, faults <- hgFaults

Unused == "unused"

zdUnused ==
    /\ zdLedger = Unused /\ zdTrade = Unused /\ zdLatest = Unused
    /\ zdEntry = Unused /\ zdExits = Unused /\ zdEngine = Unused
    /\ zdAttempts = Unused /\ zdReconciler = Unused /\ zdExiter = Unused
    /\ zdCloser = Unused /\ zdFaults = Unused

zeUnused ==
    /\ zeCand = Unused /\ zeRun = Unused /\ zeObserved = Unused
    /\ zeDecision = Unused /\ zeProc = Unused /\ zeOrders = Unused
    /\ zeShadow = Unused /\ zeRefused = Unused /\ zeDied = Unused
    /\ zeCrashes = Unused

zoUnused ==
    /\ zoNow = Unused /\ zoPrice = Unused /\ zoShadow = Unused
    /\ zoPaper = Unused /\ zoMarks = Unused /\ zoMissed = Unused
    /\ zoOutcome = Unused /\ zoProc = Unused /\ zoRaced = Unused
    /\ zoCrashes = Unused

hgUnused ==
    /\ hgHeld = Unused /\ hgOrd = Unused /\ hgRev = Unused
    /\ hgLed = Unused /\ hgPx = Unused /\ hgLate = Unused
    /\ hgMissed = Unused /\ hgFaults = Unused

Init ==
    \/ /\ part = "zero_dte_entries" /\ ZeroDteEntries!Init
       /\ zeUnused /\ zoUnused /\ hgUnused
    \/ /\ part = "zero_dte_exits" /\ ZeroDteExits!Init
       /\ zeUnused /\ zoUnused /\ hgUnused
    \/ /\ part = "zero_dte_engine" /\ Engine!Init
       /\ zdUnused /\ zoUnused /\ hgUnused
    \/ /\ part = "zero_dte_paper_marks" /\ PaperMarks!Init
       /\ zdUnused /\ zeUnused /\ hgUnused
    \/ /\ part = "zero_dte_outcomes" /\ Forward!Init
       /\ zdUnused /\ zeUnused /\ hgUnused
    \/ /\ part = "hedge_entries" /\ HedgeEntries!Init
       /\ zdUnused /\ zeUnused /\ zoUnused
    \/ /\ part = "hedge_exits" /\ HedgeExits!Init
       /\ zdUnused /\ zeUnused /\ zoUnused

ZeroDteEntriesStep ==
    /\ part = "zero_dte_entries" /\ ZeroDteEntries!Next
    /\ UNCHANGED <<part, zeVars, zoVars, hgVars>>

ZeroDteExitsStep ==
    /\ part = "zero_dte_exits" /\ ZeroDteExits!Next
    /\ UNCHANGED <<part, zeVars, zoVars, hgVars>>

EngineStep ==
    /\ part = "zero_dte_engine" /\ Engine!Next
    /\ UNCHANGED <<part, zdVars, zoVars, hgVars>>

PaperMarksStep ==
    /\ part = "zero_dte_paper_marks" /\ PaperMarks!Next
    /\ UNCHANGED <<part, zdVars, zeVars, hgVars>>

ForwardStep ==
    /\ part = "zero_dte_outcomes" /\ Forward!Next
    /\ UNCHANGED <<part, zdVars, zeVars, hgVars>>

HedgeEntriesStep ==
    /\ part = "hedge_entries" /\ HedgeEntries!Next
    /\ UNCHANGED <<part, zdVars, zeVars, zoVars>>

HedgeExitsStep ==
    /\ part = "hedge_exits" /\ HedgeExits!Next
    /\ UNCHANGED <<part, zdVars, zeVars, zoVars>>

Next == ZeroDteEntriesStep \/ ZeroDteExitsStep \/ EngineStep \/ PaperMarksStep \/ ForwardStep \/ HedgeEntriesStep \/ HedgeExitsStep

Spec == Init /\ [][Next]_vars

Symmetry == Permutations({c1, c2}) \cup Permutations({p1, p2})

-----------------------------------------------------------------------------
(* Properties *)

(* The tables and processes of the chosen component have the shape that its *)
(* module gives them.                                                       *)
TypeOK ==
    /\ part = "zero_dte_entries" => ZeroDteEntries!TypeOK
    /\ part = "zero_dte_exits" => ZeroDteExits!TypeOK
    /\ part = "zero_dte_engine" => Engine!TypeOK
    /\ part = "zero_dte_paper_marks" => PaperMarks!TypeOK
    /\ part = "zero_dte_outcomes" => Forward!TypeOK
    /\ part = "hedge_entries" => HedgeEntries!TypeOK
    /\ part = "hedge_exits" => HedgeExits!TypeOK

(* Two entry orders of the contract that the ledger holds for active never  *)
(* work at the broker together.                                             *)
OneWorkingEntry ==
    /\ part = "zero_dte_entries" => ZeroDteEntries!OneWorkingEntry
    /\ part = "zero_dte_exits" => ZeroDteExits!OneWorkingEntry

(* A filled trade no exit was requested for is linked to the ledger row of  *)
(* its own client order id and decision.                                    *)
LinkedBeforeMarked ==
    /\ part = "zero_dte_entries" => ZeroDteEntries!LinkedBeforeMarked
    /\ part = "zero_dte_exits" => ZeroDteExits!LinkedBeforeMarked

(* A trade is open only when its entry order is over and no fill of it can  *)
(* be missed.                                                               *)
OpenHasEveryFill ==
    /\ part = "zero_dte_entries" => ZeroDteEntries!OpenHasEveryFill
    /\ part = "zero_dte_exits" => ZeroDteExits!OpenHasEveryFill

(* A closed trade sold its whole quantity with the exit order its outcome   *)
(* was recorded for.                                                        *)
ClosedMeansSold ==
    /\ part = "zero_dte_entries" => ZeroDteEntries!ClosedMeansSold
    /\ part = "zero_dte_exits" => ZeroDteExits!ClosedMeansSold

(* A candidate is decided on once in its day, whatever runs overlap, are    *)
(* repeated or die, and a shadow trade belongs to the group of that         *)
(* decision.                                                                *)
DecidedOnce == part = "zero_dte_engine" => Engine!DecidedOnce

(* No candidate is both traded and shadowed: the learning never counts a    *)
(* simulated and a real trade of one decision.                              *)
TradedOrShadowed == part = "zero_dte_engine" => Engine!TradedOrShadowed

(* A completed run has acted on everything it decided, unless one of its    *)
(* processes died on the way.                                               *)
CompletedHasActed == part = "zero_dte_engine" => Engine!CompletedHasActed

(* The excursions of a paper trade bound every mark of it, unless the       *)
(* statements of two marks overlapped or were cut off.                      *)
PaperExcursionsBoundMarks == part = "zero_dte_paper_marks" => PaperMarks!PaperExcursionsBoundMarks

(* The excursions of a shadow trade bound every mark of it and, but for the *)
(* fee of the sale, its result, in whatever order two reconciliations mark  *)
(* it.                                                                      *)
ExcursionsBoundMarks == part = "zero_dte_outcomes" => Forward!ExcursionsBoundMarks

(* A complete forward outcome compares the premium of one moment with a     *)
(* quote made a whole horizon later and not after the evaluation.           *)
NoLookAhead == part = "zero_dte_outcomes" => Forward!NoLookAhead

(* Hedge premium held and on order stays within its cap, although each      *)
(* executor works on evidence it read earlier, unless an order is sent after*)
(* its own reservation expired.                                             *)
WithinCaps ==
    /\ part = "hedge_entries" => HedgeEntries!WithinCaps
    /\ part = "hedge_exits" => HedgeExits!WithinCaps

(* A hedge order is never left to itself by mistake: its executor looks at  *)
(* the latest replacement, and the row of a working order is not final.     *)
OrderIsAttended ==
    /\ part = "hedge_entries" => HedgeEntries!OrderIsAttended
    /\ part = "hedge_exits" => HedgeExits!OrderIsAttended

(* A hedge row that says canceled means that nothing was bought or sold,    *)
(* unless a fill came after the last look at the order.                     *)
CanceledMeansNoFill ==
    /\ part = "hedge_entries" => HedgeEntries!CanceledMeansNoFill
    /\ part = "hedge_exits" => HedgeExits!CanceledMeansNoFill

(* The trades of the same-day engine follow their orders: no second entry,  *)
(* no trade opened or closed on a part of its fills.                        *)
ZeroDteOrdersAreSound ==
    /\ OneWorkingEntry
    /\ LinkedBeforeMarked
    /\ OpenHasEveryFill
    /\ ClosedMeansSold

(* What the same-day engine learns from: one decision per candidate and day,*)
(* real or simulated but not both, with excursions that bound the marks and *)
(* outcomes that do not look ahead.                                         *)
ZeroDteEvidenceIsSound ==
    /\ DecidedOnce
    /\ TradedOrShadowed
    /\ CompletedHasActed
    /\ PaperExcursionsBoundMarks
    /\ ExcursionsBoundMarks
    /\ NoLookAhead

(* Hedge premium stays within its cap, hedge orders are attended to, and    *)
(* their rows tell what was filled.                                         *)
HedgesAreSound ==
    /\ WithinCaps
    /\ OrderIsAttended
    /\ CanceledMeansNoFill

(* A late, repeated or stale answer never undoes what was recorded. A stale *)
(* pending or partial answer never takes back a confirmed fill. A late      *)
(* answer about an earlier exit order never reopens a trade whose newer exit*)
(* order is still working. The outcome of a trade is written once; a        *)
(* conflicting one rolls back the close. A candidate that was executed stays*)
(* so: later evaluations of the same contract do not reopen it. A closed    *)
(* shadow trade and a complete outcome are never written again.             *)
NothingIsTakenBack ==
    [][/\ part = "zero_dte_entries" => ZeroDteEntries!FillsNeverRegressStep
       /\ part = "zero_dte_exits" => ZeroDteExits!FillsNeverRegressStep
       /\ part = "zero_dte_entries" => ZeroDteEntries!ReopenHasNoWorkingExitStep
       /\ part = "zero_dte_exits" => ZeroDteExits!ReopenHasNoWorkingExitStep
       /\ part = "zero_dte_entries" => ZeroDteEntries!OutcomeIsPermanentStep
       /\ part = "zero_dte_exits" => ZeroDteExits!OutcomeIsPermanentStep
       /\ part = "zero_dte_engine" => Engine!ExecutedStaysStep
       /\ part = "zero_dte_outcomes" => Forward!LearnedOnceStep]_vars
=============================================================================
