------------------------------ MODULE Workflows ------------------------------
(***************************************************************************)
(* Components that share no state, checked in one run: a behaviour chooses *)
(* one of them, takes its steps and leaves the variables of the others     *)
(* unused. Here: the workflows around the orders (research, universe,      *)
(* learning, market data, migrations) and the stores they write.           *)
(***************************************************************************)
EXTENDS Naturals, Sequences, FiniteSets, TLC

CONSTANTS c1, c2

(* A candidate and two lifecycle events of it. *)
EventCandidate == [e \in {2, 3} |-> 1]
EventStatus == [e \in {2, 3} |-> IF e = 2 THEN "approved" ELSE "submitted"]
(* Ledger rows 1 and 2 have one idempotency key. *)
LedgerKey == [l \in {1, 2, 3} |-> IF l = 3 THEN 3 ELSE 1]
LedgerMaterial == [l \in {1, 2, 3} |-> 1]
OptionUnderlying == [a1 |-> "A", b1 |-> "B"]

(* Quantities of the two entry orders of a symbol. *)
EntryQuantity == <<2, 1>>
(* Two entries of candidate 1, the second of two units, and one of candidate 2; a chunk per candidate; a group per version. *)
OutcomeCandidate == <<1, 1, 2>>
OutcomeQuantity == <<1, 2, 1>>
OutcomeChunk == <<1, 2>>
(* Paper workflows that run at the same time. *)
TwoMornings == {<<"morning", "morning">>}
WorkflowPairs == {<<"morning", "late_day">>, <<"late_day", "midday">>}
OutcomeGroup == [v \in {0, 1} |-> IF v = 0 THEN "unfilled" ELSE "filled"]

VARIABLES
    part,           \* the component this behaviour is about
    rrMode, rrKind, rrRows, rrFence, rrLed, rrNow, rrPc, rrTold, rrErrors,
    cpSrc, cpLinked, cpSnaps, cpTgt, cpBf, cpPassed, cpBlocked,
    emLedger, emSnaps, emIntents, emOrders, emAlloc, emNow, emUnsent, emBf, emPassed,
    cutHeld, cutOpen, cutPgPos, cutPgOpen, cutRes, cutResearch, cutLease, cutCkpt,
    cutRun, cutFaults,
    stRunning, stSocket, stFlags, stSymbols, stTimer, stAttempts, stLatest, stWire,
    stServed, stUsed, stFaults, stNow,
    dhMarket, dhStream, dhLatest, dhNewest, dhCycles, dhOrder, dhLoad, dhDone,
    dhIds, dhAfter, dhTaken, dhForgot, dhPoll,
    mdTime, mdFence, mdStored, mdSnap, mdLog, mdRun, mdFaults,
    plClock, plFill, plReports, plSold, plPos, plLedger, plLinks, plOutcome,
    plReview, plExit, plJob, plCrashes, plTogether, plLost, plStale,
    arBuy, arSell, arBought, arSold, arAdjusted, arListed, arOld, arLedger, arRead,
    arReport, arEvents, arRuns, arMoved,
    ocClock, ocBroker, ocOrder, ocExitCand, ocSize, ocPos, ocSnap, ocSold, ocRead,
    ocRec,
    olVersion, olHolder, olRun, olTable, olRecord, olAgg,
    unListed, unSym, unTrail, unBroken, unRows, unRun, unHolder, unRefresh,
    unChanges, unRemoved, unTurn,
    wlNow, wlRow, wlLock, wlKind, wlProc, wlStored, wlCrashes,
    lgNow, lgKind, lgLog, lgOp, lgHolder, lgRecords, lgDecided, lgGov, lgNewest,
    lgArtifacts, lgCrashes,
    poNow, poKind, poLog, poOp, poHolder, poRecords, poDecided, poGov, poNewest,
    poArtifacts, poCrashes,
    irNow, irRow, irCall, irAnswers,
    weRows, weFailures, weHolder, weProc, weApplied, weTakeovers,
    rcCkpt, rcFound, rcLease, rcRowLock, rcFile, rcProc, rcDiffering, rcTakeovers,
    rcCrashes

rrVars == <<rrMode, rrKind, rrRows, rrFence, rrLed, rrNow, rrPc, rrTold, rrErrors>>
cpVars == <<cpSrc, cpLinked, cpSnaps, cpTgt, cpBf, cpPassed, cpBlocked>>
emVars == <<emLedger, emSnaps, emIntents, emOrders, emAlloc, emNow, emUnsent, emBf,
            emPassed>>
cutVars == <<cutHeld, cutOpen, cutPgPos, cutPgOpen, cutRes, cutResearch, cutLease,
             cutCkpt, cutRun, cutFaults>>
stVars == <<stRunning, stSocket, stFlags, stSymbols, stTimer, stAttempts, stLatest,
            stWire, stServed, stUsed, stFaults, stNow>>
dhVars == <<dhMarket, dhStream, dhLatest, dhNewest, dhCycles, dhOrder, dhLoad,
            dhDone, dhIds, dhAfter, dhTaken, dhForgot, dhPoll>>
mdVars == <<mdTime, mdFence, mdStored, mdSnap, mdLog, mdRun, mdFaults>>
plVars == <<plClock, plFill, plReports, plSold, plPos, plLedger, plLinks, plOutcome,
            plReview, plExit, plJob, plCrashes, plTogether, plLost, plStale>>
arVars == <<arBuy, arSell, arBought, arSold, arAdjusted, arListed, arOld, arLedger,
            arRead, arReport, arEvents, arRuns, arMoved>>
ocVars == <<ocClock, ocBroker, ocOrder, ocExitCand, ocSize, ocPos, ocSnap, ocSold,
            ocRead, ocRec>>
olVars == <<olVersion, olHolder, olRun, olTable, olRecord, olAgg>>
unVars == <<unListed, unSym, unTrail, unBroken, unRows, unRun, unHolder, unRefresh,
            unChanges, unRemoved, unTurn>>
wlVars == <<wlNow, wlRow, wlLock, wlKind, wlProc, wlStored, wlCrashes>>
lgVars == <<lgNow, lgKind, lgLog, lgOp, lgHolder, lgRecords, lgDecided, lgGov,
            lgNewest, lgArtifacts, lgCrashes>>
poVars == <<poNow, poKind, poLog, poOp, poHolder, poRecords, poDecided, poGov,
            poNewest, poArtifacts, poCrashes>>
irVars == <<irNow, irRow, irCall, irAnswers>>
weVars == <<weRows, weFailures, weHolder, weProc, weApplied, weTakeovers>>
rcVars == <<rcCkpt, rcFound, rcLease, rcRowLock, rcFile, rcProc, rcDiffering,
            rcTakeovers, rcCrashes>>
vars == <<part, rrVars, cpVars, emVars, cutVars, stVars, dhVars, mdVars, plVars, arVars, ocVars, olVars, unVars, wlVars, lgVars, poVars, irVars, weVars, rcVars>>

(* Two research workers with two families of candidates, in every store     *)
(* mode.                                                                    *)
Research == INSTANCE ResearchRuns WITH
    Workers <- {c1, c2}, Families <- {"equity", "standard_option"}, Phases <- 1,
    Stale <- 1, MaxTime <- 1, mode <- rrMode, kind <- rrKind, rows <- rrRows,
    fence <- rrFence, led <- rrLed, now <- rrNow, pc <- rrPc, told <- rrTold,
    errors <- rrErrors

(* Two backfills and a reconciliation of two snapshots of a SQLite file that*)
(* is still written.                                                        *)
ControlPlaneCopy == INSTANCE ControlPlaneMigration WITH
    Cands <- {1}, Events <- {2, 3}, CandOf <- EventCandidate, StatusOf <- EventStatus,
    Backfills <- {c1, c2}, MaxSnapshots <- 2, MaxTime <- 2, src <- cpSrc,
    linked <- cpLinked, snaps <- cpSnaps, tgt <- cpTgt, bf <- cpBf, passed <- cpPassed,
    blocked <- cpBlocked

(* One snapshot of a ledger with a repeated idempotency key, while the      *)
(* application projects new rows.                                           *)
ExecutionStateCopy == INSTANCE ExecutionStateMigration WITH
    Ledgers <- {1, 2, 3}, KeyOf <- LedgerKey, MaterialOf <- LedgerMaterial,
    MaxSnapshots <- 1, MaxTime <- 5, ledger <- emLedger, snaps <- emSnaps,
    intents <- emIntents, orders <- emOrders, alloc <- emAlloc, now <- emNow,
    unsent <- emUnsent, bf <- emBf, passed <- emPassed

(* Two cutover commands, the first of which may lose its lease while it     *)
(* reads the broker.                                                        *)
Cutover == INSTANCE AuthorityCutover WITH
    Runs <- {1, 2}, Positions <- {"p"}, MaxFaults <- 1, held <- cutHeld,
    open <- cutOpen, pgPos <- cutPgPos, pgOpen <- cutPgOpen, res <- cutRes,
    research <- cutResearch, lease <- cutLease, ckpt <- cutCkpt, run <- cutRun,
    faults <- cutFaults

(* The SIP socket with three connections, two network faults and symbols    *)
(* that change at any moment.                                               *)
Stream == INSTANCE StockStream WITH
    Symbols <- {"A"}, MaxSockets <- 3, MaxStops <- 1, MaxChanges <- 3, MaxFaults <- 2,
    MaxTime <- 2, StaleAfter <- 0, running <- stRunning, socket <- stSocket,
    flags <- stFlags, symbols <- stSymbols, timer <- stTimer, attempts <- stAttempts,
    latest <- stLatest, wire <- stWire, served <- stServed, used <- stUsed,
    faults <- stFaults, now <- stNow

(* Two hydrations of two cycles, stream events in any order and a poll of   *)
(* three activities.                                                        *)
Hub == INSTANCE DataHub WITH
    Cycles <- {1, 2}, Loads <- {1, 2}, Activities <- {1, 2, 3}, RetainedCycles <- 1,
    RetainedIds <- 2, MaxPolls <- 1, MaxTime <- 2, market <- dhMarket,
    stream <- dhStream, latest <- dhLatest, newest <- dhNewest, cycles <- dhCycles,
    order <- dhOrder, load <- dhLoad, done <- dhDone, ids <- dhIds, after <- dhAfter,
    taken <- dhTaken, forgot <- dhForgot, poll <- dhPoll

(* Two refreshes of two underlyings, one of them required; the first may    *)
(* lose its lease or be told to stop.                                       *)
Refresh == INSTANCE MarketDataRefresh WITH
    Runs <- {1, 2}, Underlyings <- {"A", "B"}, Required <- {"A"},
    Contracts <- {"a1", "b1"}, Of <- OptionUnderlying, MaxTime <- 1, MaxFaults <- 1,
    time <- mdTime, fence <- mdFence, stored <- mdStored, snap <- mdSnap, log <- mdLog,
    run <- mdRun, faults <- mdFaults

(* Two entry orders of one symbol, one of two units, reported by two        *)
(* processes; two sales; a crash.                                           *)
Positions == INSTANCE PositionLifecycle WITH
    Procs <- {c1, c2}, Orders <- {1, 2}, Qty <- EntryQuantity, Exits <- {1, 2},
    MaxTime <- 4, MaxReports <- 2, MaxCrashes <- 1, clock <- plClock, fill <- plFill,
    reports <- plReports, sold <- plSold, pos <- plPos, ledger <- plLedger,
    links <- plLinks, outcome <- plOutcome, review <- plReview, exit <- plExit,
    job <- plJob, crashes <- plCrashes, together <- plTogether, lost <- plLost,
    stale <- plStale

(* One symbol, bought and sold once, and two reconciliations whose four     *)
(* requests overlap with the broker.                                        *)
Account == INSTANCE AccountReconciliation WITH
    MaxRuns <- 2, Paper <- TRUE, buy <- arBuy, sell <- arSell, bought <- arBought,
    sold <- arSold, adjusted <- arAdjusted, listed <- arListed, old <- arOld,
    ledger <- arLedger, read <- arRead, report <- arReport, events <- arEvents,
    runs <- arRuns, moved <- arMoved

(* Three entries of two candidates and two exits of one symbol, one position*)
(* row, and a refresh that reads while they trade.                          *)
TradeOutcomes == INSTANCE OutcomeRecord WITH
    Entries <- {1, 2, 3}, CandOf <- OutcomeCandidate, Qty <- OutcomeQuantity,
    Exits <- {4, 5}, MaxTime <- 3, clock <- ocClock, broker <- ocBroker,
    order <- ocOrder, exitCand <- ocExitCand, size <- ocSize, pos <- ocPos,
    snap <- ocSnap, sold <- ocSold, read <- ocRead, rec <- ocRec

(* Three refreshes of two candidates in two chunks, each of which may lose  *)
(* its lease or die at any statement.                                       *)
Learning == INSTANCE OutcomeRefresh WITH
    Runs <- {1, 2, 3}, Cands <- {1, 2}, Chunk <- OutcomeChunk, GroupOf <- OutcomeGroup,
    MaxVersion <- 1, MinSample <- 2, MaxRecords <- 1, version <- olVersion,
    holder <- olHolder, run <- olRun, table <- olTable, record <- olRecord, agg <- olAgg

(* Three lifecycle runs over two assets that may fail or lose their lease   *)
(* between any two transactions, and one operator command, refresh or       *)
(* inventory change.                                                        *)
Universe == INSTANCE UniverseLifecycle WITH
    Assets <- {1, 2}, Seeds <- {1}, Runs <- {1, 2, 3}, ScanLimit <- 1, MaxNew <- 1,
    MaxAssess <- 1, RetireAfter <- 1, MaxChanges <- 1, listed <- unListed, sym <- unSym,
    trail <- unTrail, broken <- unBroken, rows <- unRows, run <- unRun,
    holder <- unHolder, refresh <- unRefresh, changes <- unChanges,
    removed <- unRemoved, turn <- unTurn

(* Two writers of either kind, one of which may crash, that may stall for   *)
(* longer than their lease.                                                 *)
HeavyWrites == INSTANCE WriteLease WITH
    Procs <- {c1, c2}, Batches <- 2, Ttl <- 2, MaxWait <- 1, MaxAttempts <- 2,
    MaxTime <- 4, MaxCrashes <- 1, now <- wlNow, row <- wlRow, lock <- wlLock,
    kind <- wlKind, proc <- wlProc, stored <- wlStored, crashes <- wlCrashes

(* Two morning workflows that evaluate records of two symbols and apply the *)
(* governance; the first may lose its lease.                                *)
Governance == INSTANCE PaperOps WITH
    Ops <- {1, 2}, Symbols <- {"x", "y"}, Kinds <- TwoMornings,
    Outcomes <- {"gain", "loss", "invalid"}, Statuses <- {"success"}, MinTrades <- 1,
    MaxRecords <- 2, MaxSymbols <- 1, MaxAge <- 1, StaleAfter <- 1, MaxTime <- 0,
    MaxCrashes <- 0, now <- lgNow, kind <- lgKind, log <- lgLog, op <- lgOp,
    holder <- lgHolder, records <- lgRecords, decided <- lgDecided, gov <- lgGov,
    newest <- lgNewest, artifacts <- lgArtifacts, crashes <- lgCrashes

(* A late-day workflow with a morning or a midday one, reviews that take    *)
(* time, a crash, and a recovery that only knows the age of a row.          *)
Workday == INSTANCE PaperOps WITH
    Ops <- {1, 2}, Symbols <- {"x"}, Kinds <- WorkflowPairs, Outcomes <- {"gain"},
    Statuses <- {"success", "blocked"}, MinTrades <- 1, MaxRecords <- 2,
    MaxSymbols <- 1, MaxAge <- 1, StaleAfter <- 1, MaxTime <- 2, MaxCrashes <- 1,
    now <- poNow, kind <- poKind, log <- poLog, op <- poOp, holder <- poHolder,
    records <- poRecords, decided <- poDecided, gov <- poGov, newest <- poNewest,
    artifacts <- poArtifacts, crashes <- poCrashes

(* Two callers that repeat one request under one key, or different ones,    *)
(* with attempts that expire, die or do not hear that they were committed.  *)
Idempotency == INSTANCE IdempotencyRecords WITH
    Callers <- {c1, c2}, Hashes <- {"h", "i"}, Ttl <- 1, MaxTime <- 1, MaxVersion <- 3,
    now <- irNow, row <- irRow, call <- irCall, answers <- irAnswers

(* Three events of one entity that arrive in any order, two processes that  *)
(* take the lease of the job from each other, a retry and dead letters.     *)
WorkstreamLog == INSTANCE WorkstreamEvents WITH
    Procs <- {c1, c2}, Last <- 3, MaxAttempts <- 2, MaxTakeovers <- 3, rows <- weRows,
    failures <- weFailures, holder <- weHolder, proc <- weProc, applied <- weApplied,
    takeovers <- weTakeovers

(* Two runs that resume one checkpoint over two rows, one after the other or*)
(* one overtaking the other, while the file changes and rows are put right. *)
Checkpoints == INSTANCE ReconciliationCheckpoints WITH
    Procs <- {c1, c2}, Checksums <- {"s", "u"}, Rows <- 2, MaxTakeovers <- 3,
    MaxCrashes <- 2, ckpt <- rcCkpt, found <- rcFound, lease <- rcLease,
    rowLock <- rcRowLock, file <- rcFile, proc <- rcProc, differing <- rcDiffering,
    takeovers <- rcTakeovers, crashes <- rcCrashes

Unused == "unused"

rrUnused ==
    /\ rrMode = Unused /\ rrKind = Unused /\ rrRows = Unused
    /\ rrFence = Unused /\ rrLed = Unused /\ rrNow = Unused
    /\ rrPc = Unused /\ rrTold = Unused /\ rrErrors = Unused

cpUnused ==
    /\ cpSrc = Unused /\ cpLinked = Unused /\ cpSnaps = Unused
    /\ cpTgt = Unused /\ cpBf = Unused /\ cpPassed = Unused
    /\ cpBlocked = Unused

emUnused ==
    /\ emLedger = Unused /\ emSnaps = Unused /\ emIntents = Unused
    /\ emOrders = Unused /\ emAlloc = Unused /\ emNow = Unused
    /\ emUnsent = Unused /\ emBf = Unused /\ emPassed = Unused

cutUnused ==
    /\ cutHeld = Unused /\ cutOpen = Unused /\ cutPgPos = Unused
    /\ cutPgOpen = Unused /\ cutRes = Unused /\ cutResearch = Unused
    /\ cutLease = Unused /\ cutCkpt = Unused /\ cutRun = Unused
    /\ cutFaults = Unused

stUnused ==
    /\ stRunning = Unused /\ stSocket = Unused /\ stFlags = Unused
    /\ stSymbols = Unused /\ stTimer = Unused /\ stAttempts = Unused
    /\ stLatest = Unused /\ stWire = Unused /\ stServed = Unused
    /\ stUsed = Unused /\ stFaults = Unused /\ stNow = Unused

dhUnused ==
    /\ dhMarket = Unused /\ dhStream = Unused /\ dhLatest = Unused
    /\ dhNewest = Unused /\ dhCycles = Unused /\ dhOrder = Unused
    /\ dhLoad = Unused /\ dhDone = Unused /\ dhIds = Unused
    /\ dhAfter = Unused /\ dhTaken = Unused /\ dhForgot = Unused
    /\ dhPoll = Unused

mdUnused ==
    /\ mdTime = Unused /\ mdFence = Unused /\ mdStored = Unused
    /\ mdSnap = Unused /\ mdLog = Unused /\ mdRun = Unused
    /\ mdFaults = Unused

plUnused ==
    /\ plClock = Unused /\ plFill = Unused /\ plReports = Unused
    /\ plSold = Unused /\ plPos = Unused /\ plLedger = Unused
    /\ plLinks = Unused /\ plOutcome = Unused /\ plReview = Unused
    /\ plExit = Unused /\ plJob = Unused /\ plCrashes = Unused
    /\ plTogether = Unused /\ plLost = Unused /\ plStale = Unused

arUnused ==
    /\ arBuy = Unused /\ arSell = Unused /\ arBought = Unused
    /\ arSold = Unused /\ arAdjusted = Unused /\ arListed = Unused
    /\ arOld = Unused /\ arLedger = Unused /\ arRead = Unused
    /\ arReport = Unused /\ arEvents = Unused /\ arRuns = Unused
    /\ arMoved = Unused

ocUnused ==
    /\ ocClock = Unused /\ ocBroker = Unused /\ ocOrder = Unused
    /\ ocExitCand = Unused /\ ocSize = Unused /\ ocPos = Unused
    /\ ocSnap = Unused /\ ocSold = Unused /\ ocRead = Unused
    /\ ocRec = Unused

olUnused ==
    /\ olVersion = Unused /\ olHolder = Unused /\ olRun = Unused
    /\ olTable = Unused /\ olRecord = Unused /\ olAgg = Unused

unUnused ==
    /\ unListed = Unused /\ unSym = Unused /\ unTrail = Unused
    /\ unBroken = Unused /\ unRows = Unused /\ unRun = Unused
    /\ unHolder = Unused /\ unRefresh = Unused /\ unChanges = Unused
    /\ unRemoved = Unused /\ unTurn = Unused

wlUnused ==
    /\ wlNow = Unused /\ wlRow = Unused /\ wlLock = Unused
    /\ wlKind = Unused /\ wlProc = Unused /\ wlStored = Unused
    /\ wlCrashes = Unused

lgUnused ==
    /\ lgNow = Unused /\ lgKind = Unused /\ lgLog = Unused
    /\ lgOp = Unused /\ lgHolder = Unused /\ lgRecords = Unused
    /\ lgDecided = Unused /\ lgGov = Unused /\ lgNewest = Unused
    /\ lgArtifacts = Unused /\ lgCrashes = Unused

poUnused ==
    /\ poNow = Unused /\ poKind = Unused /\ poLog = Unused
    /\ poOp = Unused /\ poHolder = Unused /\ poRecords = Unused
    /\ poDecided = Unused /\ poGov = Unused /\ poNewest = Unused
    /\ poArtifacts = Unused /\ poCrashes = Unused

irUnused ==
    /\ irNow = Unused /\ irRow = Unused /\ irCall = Unused
    /\ irAnswers = Unused

weUnused ==
    /\ weRows = Unused /\ weFailures = Unused /\ weHolder = Unused
    /\ weProc = Unused /\ weApplied = Unused /\ weTakeovers = Unused

rcUnused ==
    /\ rcCkpt = Unused /\ rcFound = Unused /\ rcLease = Unused
    /\ rcRowLock = Unused /\ rcFile = Unused /\ rcProc = Unused
    /\ rcDiffering = Unused /\ rcTakeovers = Unused /\ rcCrashes = Unused

Init ==
    \/ /\ part = "research" /\ Research!Init
       /\ cpUnused /\ emUnused /\ cutUnused /\ stUnused /\ dhUnused /\ mdUnused /\ plUnused /\ arUnused /\ ocUnused /\ olUnused /\ unUnused /\ wlUnused /\ lgUnused /\ poUnused /\ irUnused /\ weUnused /\ rcUnused
    \/ /\ part = "control_plane_migration" /\ ControlPlaneCopy!Init
       /\ rrUnused /\ emUnused /\ cutUnused /\ stUnused /\ dhUnused /\ mdUnused /\ plUnused /\ arUnused /\ ocUnused /\ olUnused /\ unUnused /\ wlUnused /\ lgUnused /\ poUnused /\ irUnused /\ weUnused /\ rcUnused
    \/ /\ part = "execution_state_migration" /\ ExecutionStateCopy!Init
       /\ rrUnused /\ cpUnused /\ cutUnused /\ stUnused /\ dhUnused /\ mdUnused /\ plUnused /\ arUnused /\ ocUnused /\ olUnused /\ unUnused /\ wlUnused /\ lgUnused /\ poUnused /\ irUnused /\ weUnused /\ rcUnused
    \/ /\ part = "cutover" /\ Cutover!Init
       /\ rrUnused /\ cpUnused /\ emUnused /\ stUnused /\ dhUnused /\ mdUnused /\ plUnused /\ arUnused /\ ocUnused /\ olUnused /\ unUnused /\ wlUnused /\ lgUnused /\ poUnused /\ irUnused /\ weUnused /\ rcUnused
    \/ /\ part = "stock_stream" /\ Stream!Init
       /\ rrUnused /\ cpUnused /\ emUnused /\ cutUnused /\ dhUnused /\ mdUnused /\ plUnused /\ arUnused /\ ocUnused /\ olUnused /\ unUnused /\ wlUnused /\ lgUnused /\ poUnused /\ irUnused /\ weUnused /\ rcUnused
    \/ /\ part = "data_hub" /\ Hub!Init
       /\ rrUnused /\ cpUnused /\ emUnused /\ cutUnused /\ stUnused /\ mdUnused /\ plUnused /\ arUnused /\ ocUnused /\ olUnused /\ unUnused /\ wlUnused /\ lgUnused /\ poUnused /\ irUnused /\ weUnused /\ rcUnused
    \/ /\ part = "market_data_refresh" /\ Refresh!Init
       /\ rrUnused /\ cpUnused /\ emUnused /\ cutUnused /\ stUnused /\ dhUnused /\ plUnused /\ arUnused /\ ocUnused /\ olUnused /\ unUnused /\ wlUnused /\ lgUnused /\ poUnused /\ irUnused /\ weUnused /\ rcUnused
    \/ /\ part = "positions" /\ Positions!Init
       /\ rrUnused /\ cpUnused /\ emUnused /\ cutUnused /\ stUnused /\ dhUnused /\ mdUnused /\ arUnused /\ ocUnused /\ olUnused /\ unUnused /\ wlUnused /\ lgUnused /\ poUnused /\ irUnused /\ weUnused /\ rcUnused
    \/ /\ part = "account_reconciliation" /\ Account!Init
       /\ rrUnused /\ cpUnused /\ emUnused /\ cutUnused /\ stUnused /\ dhUnused /\ mdUnused /\ plUnused /\ ocUnused /\ olUnused /\ unUnused /\ wlUnused /\ lgUnused /\ poUnused /\ irUnused /\ weUnused /\ rcUnused
    \/ /\ part = "outcome_records" /\ TradeOutcomes!Init
       /\ rrUnused /\ cpUnused /\ emUnused /\ cutUnused /\ stUnused /\ dhUnused /\ mdUnused /\ plUnused /\ arUnused /\ olUnused /\ unUnused /\ wlUnused /\ lgUnused /\ poUnused /\ irUnused /\ weUnused /\ rcUnused
    \/ /\ part = "outcome_refresh" /\ Learning!Init
       /\ rrUnused /\ cpUnused /\ emUnused /\ cutUnused /\ stUnused /\ dhUnused /\ mdUnused /\ plUnused /\ arUnused /\ ocUnused /\ unUnused /\ wlUnused /\ lgUnused /\ poUnused /\ irUnused /\ weUnused /\ rcUnused
    \/ /\ part = "universe" /\ Universe!Init
       /\ rrUnused /\ cpUnused /\ emUnused /\ cutUnused /\ stUnused /\ dhUnused /\ mdUnused /\ plUnused /\ arUnused /\ ocUnused /\ olUnused /\ wlUnused /\ lgUnused /\ poUnused /\ irUnused /\ weUnused /\ rcUnused
    \/ /\ part = "write_lease" /\ HeavyWrites!Init
       /\ rrUnused /\ cpUnused /\ emUnused /\ cutUnused /\ stUnused /\ dhUnused /\ mdUnused /\ plUnused /\ arUnused /\ ocUnused /\ olUnused /\ unUnused /\ lgUnused /\ poUnused /\ irUnused /\ weUnused /\ rcUnused
    \/ /\ part = "learning_governance" /\ Governance!Init
       /\ rrUnused /\ cpUnused /\ emUnused /\ cutUnused /\ stUnused /\ dhUnused /\ mdUnused /\ plUnused /\ arUnused /\ ocUnused /\ olUnused /\ unUnused /\ wlUnused /\ poUnused /\ irUnused /\ weUnused /\ rcUnused
    \/ /\ part = "paper_ops" /\ Workday!Init
       /\ rrUnused /\ cpUnused /\ emUnused /\ cutUnused /\ stUnused /\ dhUnused /\ mdUnused /\ plUnused /\ arUnused /\ ocUnused /\ olUnused /\ unUnused /\ wlUnused /\ lgUnused /\ irUnused /\ weUnused /\ rcUnused
    \/ /\ part = "idempotency" /\ Idempotency!Init
       /\ rrUnused /\ cpUnused /\ emUnused /\ cutUnused /\ stUnused /\ dhUnused /\ mdUnused /\ plUnused /\ arUnused /\ ocUnused /\ olUnused /\ unUnused /\ wlUnused /\ lgUnused /\ poUnused /\ weUnused /\ rcUnused
    \/ /\ part = "workstream_events" /\ WorkstreamLog!Init
       /\ rrUnused /\ cpUnused /\ emUnused /\ cutUnused /\ stUnused /\ dhUnused /\ mdUnused /\ plUnused /\ arUnused /\ ocUnused /\ olUnused /\ unUnused /\ wlUnused /\ lgUnused /\ poUnused /\ irUnused /\ rcUnused
    \/ /\ part = "reconciliation_checkpoints" /\ Checkpoints!Init
       /\ rrUnused /\ cpUnused /\ emUnused /\ cutUnused /\ stUnused /\ dhUnused /\ mdUnused /\ plUnused /\ arUnused /\ ocUnused /\ olUnused /\ unUnused /\ wlUnused /\ lgUnused /\ poUnused /\ irUnused /\ weUnused

ResearchStep ==
    /\ part = "research" /\ Research!Next
    /\ UNCHANGED <<part, cpVars, emVars, cutVars, stVars, dhVars, mdVars, plVars, arVars, ocVars, olVars, unVars, wlVars, lgVars, poVars, irVars, weVars, rcVars>>

ControlPlaneCopyStep ==
    /\ part = "control_plane_migration" /\ ControlPlaneCopy!Next
    /\ UNCHANGED <<part, rrVars, emVars, cutVars, stVars, dhVars, mdVars, plVars, arVars, ocVars, olVars, unVars, wlVars, lgVars, poVars, irVars, weVars, rcVars>>

ExecutionStateCopyStep ==
    /\ part = "execution_state_migration" /\ ExecutionStateCopy!Next
    /\ UNCHANGED <<part, rrVars, cpVars, cutVars, stVars, dhVars, mdVars, plVars, arVars, ocVars, olVars, unVars, wlVars, lgVars, poVars, irVars, weVars, rcVars>>

CutoverStep ==
    /\ part = "cutover" /\ Cutover!Next
    /\ UNCHANGED <<part, rrVars, cpVars, emVars, stVars, dhVars, mdVars, plVars, arVars, ocVars, olVars, unVars, wlVars, lgVars, poVars, irVars, weVars, rcVars>>

StreamStep ==
    /\ part = "stock_stream" /\ Stream!Next
    /\ UNCHANGED <<part, rrVars, cpVars, emVars, cutVars, dhVars, mdVars, plVars, arVars, ocVars, olVars, unVars, wlVars, lgVars, poVars, irVars, weVars, rcVars>>

HubStep ==
    /\ part = "data_hub" /\ Hub!Next
    /\ UNCHANGED <<part, rrVars, cpVars, emVars, cutVars, stVars, mdVars, plVars, arVars, ocVars, olVars, unVars, wlVars, lgVars, poVars, irVars, weVars, rcVars>>

RefreshStep ==
    /\ part = "market_data_refresh" /\ Refresh!Next
    /\ UNCHANGED <<part, rrVars, cpVars, emVars, cutVars, stVars, dhVars, plVars, arVars, ocVars, olVars, unVars, wlVars, lgVars, poVars, irVars, weVars, rcVars>>

PositionsStep ==
    /\ part = "positions" /\ Positions!Next
    /\ UNCHANGED <<part, rrVars, cpVars, emVars, cutVars, stVars, dhVars, mdVars, arVars, ocVars, olVars, unVars, wlVars, lgVars, poVars, irVars, weVars, rcVars>>

AccountStep ==
    /\ part = "account_reconciliation" /\ Account!Next
    /\ UNCHANGED <<part, rrVars, cpVars, emVars, cutVars, stVars, dhVars, mdVars, plVars, ocVars, olVars, unVars, wlVars, lgVars, poVars, irVars, weVars, rcVars>>

TradeOutcomesStep ==
    /\ part = "outcome_records" /\ TradeOutcomes!Next
    /\ UNCHANGED <<part, rrVars, cpVars, emVars, cutVars, stVars, dhVars, mdVars, plVars, arVars, olVars, unVars, wlVars, lgVars, poVars, irVars, weVars, rcVars>>

LearningStep ==
    /\ part = "outcome_refresh" /\ Learning!Next
    /\ UNCHANGED <<part, rrVars, cpVars, emVars, cutVars, stVars, dhVars, mdVars, plVars, arVars, ocVars, unVars, wlVars, lgVars, poVars, irVars, weVars, rcVars>>

UniverseStep ==
    /\ part = "universe" /\ Universe!Next
    /\ UNCHANGED <<part, rrVars, cpVars, emVars, cutVars, stVars, dhVars, mdVars, plVars, arVars, ocVars, olVars, wlVars, lgVars, poVars, irVars, weVars, rcVars>>

HeavyWritesStep ==
    /\ part = "write_lease" /\ HeavyWrites!Next
    /\ UNCHANGED <<part, rrVars, cpVars, emVars, cutVars, stVars, dhVars, mdVars, plVars, arVars, ocVars, olVars, unVars, lgVars, poVars, irVars, weVars, rcVars>>

GovernanceStep ==
    /\ part = "learning_governance" /\ Governance!Next
    /\ UNCHANGED <<part, rrVars, cpVars, emVars, cutVars, stVars, dhVars, mdVars, plVars, arVars, ocVars, olVars, unVars, wlVars, poVars, irVars, weVars, rcVars>>

WorkdayStep ==
    /\ part = "paper_ops" /\ Workday!Next
    /\ UNCHANGED <<part, rrVars, cpVars, emVars, cutVars, stVars, dhVars, mdVars, plVars, arVars, ocVars, olVars, unVars, wlVars, lgVars, irVars, weVars, rcVars>>

IdempotencyStep ==
    /\ part = "idempotency" /\ Idempotency!Next
    /\ UNCHANGED <<part, rrVars, cpVars, emVars, cutVars, stVars, dhVars, mdVars, plVars, arVars, ocVars, olVars, unVars, wlVars, lgVars, poVars, weVars, rcVars>>

WorkstreamLogStep ==
    /\ part = "workstream_events" /\ WorkstreamLog!Next
    /\ UNCHANGED <<part, rrVars, cpVars, emVars, cutVars, stVars, dhVars, mdVars, plVars, arVars, ocVars, olVars, unVars, wlVars, lgVars, poVars, irVars, rcVars>>

CheckpointsStep ==
    /\ part = "reconciliation_checkpoints" /\ Checkpoints!Next
    /\ UNCHANGED <<part, rrVars, cpVars, emVars, cutVars, stVars, dhVars, mdVars, plVars, arVars, ocVars, olVars, unVars, wlVars, lgVars, poVars, irVars, weVars>>

Next == ResearchStep \/ ControlPlaneCopyStep \/ ExecutionStateCopyStep \/ CutoverStep \/ StreamStep \/ HubStep \/ RefreshStep \/ PositionsStep \/ AccountStep \/ TradeOutcomesStep \/ LearningStep \/ UniverseStep \/ HeavyWritesStep \/ GovernanceStep \/ WorkdayStep \/ IdempotencyStep \/ WorkstreamLogStep \/ CheckpointsStep

Spec == Init /\ [][Next]_vars

Symmetry == Permutations({c1, c2})

-----------------------------------------------------------------------------
(* Properties *)

(* The tables and processes of the chosen component have the shape that its *)
(* module gives them.                                                       *)
TypeOK ==
    /\ part = "research" => Research!TypeOK
    /\ part = "control_plane_migration" => ControlPlaneCopy!TypeOK
    /\ part = "execution_state_migration" => ExecutionStateCopy!TypeOK
    /\ part = "cutover" => Cutover!TypeOK
    /\ part = "stock_stream" => Stream!TypeOK
    /\ part = "data_hub" => Hub!TypeOK
    /\ part = "market_data_refresh" => Refresh!TypeOK
    /\ part = "positions" => Positions!TypeOK
    /\ part = "account_reconciliation" => Account!TypeOK
    /\ part = "outcome_records" => TradeOutcomes!TypeOK
    /\ part = "outcome_refresh" => Learning!TypeOK
    /\ part = "universe" => Universe!TypeOK
    /\ part = "write_lease" => HeavyWrites!TypeOK
    /\ part = "learning_governance" => Governance!TypeOK
    /\ part = "paper_ops" => Workday!TypeOK
    /\ part = "idempotency" => Idempotency!TypeOK
    /\ part = "workstream_events" => WorkstreamLog!TypeOK
    /\ part = "reconciliation_checkpoints" => Checkpoints!TypeOK

(* At most one research run is running in each store, with stale runs       *)
(* recovered while their owner is alive.                                    *)
OneActiveRun == part = "research" => Research!OneActiveRun

(* A run that is completed where PostgreSQL decides has the candidates of   *)
(* every family whose lane did not report an error.                         *)
CompletedHasCandidates == part = "research" => Research!CompletedHasCandidates

(* A worker that reported success is recorded as completed where PostgreSQL *)
(* decides, and the SQLite projection is never ahead of it.                 *)
ReportMatchesRecord == part = "research" => Research!ReportMatchesRecord

(* The migrated lifecycle events of a candidate are numbered without a gap  *)
(* and each names the status before it, also when backfills of two snapshots*)
(* ran side by side.                                                        *)
ChainIntact == part = "control_plane_migration" => ControlPlaneCopy!ChainIntact

(* A backfill that reported completed left every row of its snapshot in     *)
(* PostgreSQL unchanged.                                                    *)
CompletedIsComplete == part = "control_plane_migration" => ControlPlaneCopy!CompletedIsComplete

(* An interrupted backfill can be started again: it ends in a conflict only *)
(* when PostgreSQL holds a row that the snapshot does not have.             *)
ConflictNeedsForeignRow == part = "control_plane_migration" => ControlPlaneCopy!ConflictNeedsForeignRow

(* A migrated broker order belongs to an intent of its own idempotency key, *)
(* whatever id the intent has in PostgreSQL.                                *)
OrderFollowsKey == part = "execution_state_migration" => ExecutionStateCopy!OrderFollowsKey

(* A passed reconciliation means that every intent of the snapshot, and     *)
(* every order of an intent, is in PostgreSQL.                              *)
PassedIsMigrated == part = "execution_state_migration" => ExecutionStateCopy!PassedIsMigrated

(* A backfill ends in a conflict only over a row that PostgreSQL holds with *)
(* another content.                                                         *)
ConflictHasCause == part = "execution_state_migration" => ExecutionStateCopy!ConflictHasCause

(* Stale reservations are expired only by a cutover that passes: a refused, *)
(* overtaken or dead one leaves them as they were.                          *)
CleanupNeedsPass == part = "cutover" => Cutover!CleanupNeedsPass

(* A running stream has a socket or a reconnection ahead of it, never both; *)
(* a stopped one has neither.                                               *)
NeverStranded == part = "stock_stream" => Stream!NeverStranded

(* No socket is left open behind the service: every socket it has not closed*)
(* is the current one.                                                      *)
OneConnection == part = "stock_stream" => Stream!OneConnection

(* Once the provider has read every command, it sends exactly the wanted    *)
(* symbols, whenever they were changed, unless a send threw.                *)
SubscriptionsFollow == part = "stock_stream" => Stream!SubscriptionsFollow

(* An answer taken from the stream is younger than the limit.               *)
ServedIsFresh == part = "stock_stream" => Stream!ServedIsFresh

(* The hub holds the newest quote it was ever given, although REST answers  *)
(* arrive late and the stream may go back.                                  *)
HubKeepsNewest == part = "data_hub" => Hub!HubKeepsNewest

(* Every caller shares the load of a cycle while it is pending, unless it   *)
(* was replaced, pruned or dropped with an older load of its cycle.         *)
SharedWhilePending == part = "data_hub" => Hub!SharedWhilePending

(* An account activity that arrives by a poll and by hydrations is recorded *)
(* once, as long as its id is remembered.                                   *)
RecordedOnce == part = "data_hub" => Hub!RecordedOnce

(* An ingestion that is recorded as persisted has its rows in PostgreSQL.   *)
PersistedIsStored == part = "market_data_refresh" => Refresh!PersistedIsStored

(* A refresh that ends without a rejection has usable evidence for every    *)
(* required underlying.                                                     *)
CurrentIsCurrent == part = "market_data_refresh" => Refresh!CurrentIsCurrent

(* An outcome that has prices belongs to a position that was never open next*)
(* to another one of its symbol.                                            *)
PricedAlone == part = "positions" => Positions!PricedAlone

(* The prices of an outcome are those of its own entry and exit fills.      *)
PricedByItsFills == part = "positions" => Positions!PricedByItsFills

(* The closed lifecycles together are no larger than what was sold.         *)
ClosedWasSold == part = "positions" => Positions!ClosedWasSold

(* A report that says ok, and during which nothing moved, describes an      *)
(* account that lists what it holds.                                        *)
OkMeansListed == part = "account_reconciliation" => Account!OkMeansListed

(* A removal is recorded only for a position that went away without a sale. *)
RemovalMeansVanished == part = "account_reconciliation" => Account!RemovalMeansVanished

(* A realized return pairs an entry with the exit that sold all of it and   *)
(* nothing else, although the rows are read at different times and the      *)
(* position row serves several trades.                                      *)
ReturnIsOfTheTrade == part = "outcome_records" => TradeOutcomes!ReturnIsOfTheTrade

(* The market evidence that was loaded is that of the order the record is   *)
(* about.                                                                   *)
EvidenceIsOfTheOrder == part = "outcome_records" => TradeOutcomes!EvidenceIsOfTheOrder

(* An exact record of a closed position names an order that sold what its   *)
(* entry bought.                                                            *)
ExactNamesTheExit == part = "outcome_records" => TradeOutcomes!ExactNamesTheExit

(* A refresh that completed, or that answers that nothing changed, leaves   *)
(* for every candidate a record at least as new as what it read.            *)
AnsweredIsStored == part = "outcome_refresh" => Learning!AnsweredIsStored

(* The groups of a completed refresh count every record once, as long as    *)
(* nothing was written after it.                                            *)
GroupsAddUp == part = "outcome_refresh" => Learning!GroupsAddUp

(* The events of a symbol tell its history without a gap and end in its     *)
(* state, unless the operator removed it on the way.                        *)
TrailIsUnbroken == part = "universe" => Universe!TrailIsUnbroken

(* Research is never given a symbol whose last recorded transition made it  *)
(* ineligible, although the refresh writes back an old flag.                *)
ServedIsNotSuspended == part = "universe" => Universe!ServedIsNotSuspended

(* At most one lifecycle run is shown as running.                           *)
OneRunning == part = "universe" => Universe!OneRunning

(* A batch is inside its transaction without the lease only if its process  *)
(* took longer than the lease since it was granted or renewed.              *)
WritesUnderLease == part = "write_lease" => HeavyWrites!WritesUnderLease

(* A writer that returns has every one of its batches in the database, and  *)
(* counts what its own transactions inserted.                               *)
ReturnedIsStored == part = "write_lease" => HeavyWrites!ReturnedIsStored

(* The current decision on every scope is the one that follows from the     *)
(* newest evidence a completed governance run has read.                     *)
NewestEvidenceRules == part = "learning_governance" => Governance!NewestEvidenceRules

(* An artifact that is announced as ready was made from an account that was *)
(* read at most its lifetime ago.                                           *)
ReadyWasReadRecently == part = "paper_ops" => Workday!ReadyWasReadRecently

(* A workflow that is logged as finished has all its parts on record as     *)
(* finished.                                                                *)
FinishedHasItsParts == part = "paper_ops" => Workday!FinishedHasItsParts

(* Two attempts under one idempotency key work at the same time only if one *)
(* of them has run out of its time.                                         *)
OneLiveAttempt == part = "idempotency" => Idempotency!OneLiveAttempt

(* Everybody who was given a response under one idempotency key was given   *)
(* the same one.                                                            *)
AnswersAgree == part = "idempotency" => Idempotency!AnswersAgree

(* Events of an entity are completed in the order of their versions and     *)
(* without gaps.                                                            *)
AppliedInOrder == part = "workstream_events" => WorkstreamLog!AppliedInOrder

(* An event that is failed or dead has a failure row that says so for its   *)
(* last attempt.                                                            *)
FailureIsExplained == part = "workstream_events" => WorkstreamLog!FailureIsExplained

(* A passed reconciliation checkpoint has no discrepancy and covers every   *)
(* row.                                                                     *)
PassedIsClean == part = "reconciliation_checkpoints" => Checkpoints!PassedIsClean

(* The count of a finished reconciliation checkpoint covers the             *)
(* discrepancies that are stored.                                           *)
CountCoversRows == part = "reconciliation_checkpoints" => Checkpoints!CountCoversRows

(* Research and universe runs exclude each other and leave a record that    *)
(* agrees with what they did; requests under one key are done once, events  *)
(* in order.                                                                *)
RunsAreAccountable ==
    /\ OneActiveRun
    /\ CompletedHasCandidates
    /\ ReportMatchesRecord
    /\ TrailIsUnbroken
    /\ ServedIsNotSuspended
    /\ OneRunning
    /\ OneLiveAttempt
    /\ AnswersAgree
    /\ AppliedInOrder
    /\ FailureIsExplained

(* What the migrations to PostgreSQL report is what they left there.        *)
MigrationsAreFaithful ==
    /\ ChainIntact
    /\ CompletedIsComplete
    /\ ConflictNeedsForeignRow
    /\ OrderFollowsKey
    /\ PassedIsMigrated
    /\ ConflictHasCause
    /\ CleanupNeedsPass
    /\ PassedIsClean
    /\ CountCoversRows

(* Market data that is served or recorded is the newest there is, over one  *)
(* connection that keeps its subscriptions.                                 *)
MarketDataIsCurrent ==
    /\ NeverStranded
    /\ OneConnection
    /\ SubscriptionsFollow
    /\ ServedIsFresh
    /\ HubKeepsNewest
    /\ SharedWhilePending
    /\ RecordedOnce
    /\ PersistedIsStored
    /\ CurrentIsCurrent

(* Positions, account reconciliations and outcomes attribute fills to the   *)
(* trades that made them.                                                   *)
TradesAreExplained ==
    /\ PricedAlone
    /\ PricedByItsFills
    /\ ClosedWasSold
    /\ OkMeansListed
    /\ RemovalMeansVanished
    /\ ReturnIsOfTheTrade
    /\ EvidenceIsOfTheOrder
    /\ ExactNamesTheExit

(* A refresh, a writer, a governance run or a paper workflow that reports   *)
(* success has stored what it reports, from evidence that is not outdated.  *)
ReportedIsStored ==
    /\ AnsweredIsStored
    /\ GroupsAddUp
    /\ WritesUnderLease
    /\ ReturnedIsStored
    /\ NewestEvidenceRules
    /\ ReadyWasReadRecently
    /\ FinishedHasItsParts

(* Checkpoints of migration and cutover are decided by the run that holds   *)
(* the job, on what PostgreSQL and the broker hold. A reconciliation        *)
(* checkpoint passes only when PostgreSQL holds the snapshot row by row. A  *)
(* backfill never changes a row that PostgreSQL already has, except the     *)
(* allocation it may advance. A cutover that another one has overtaken never*)
(* decides its checkpoint afterwards. A checkpoint that passes while the    *)
(* account stands still leaves PostgreSQL with exactly the positions and    *)
(* open orders of the broker.                                               *)
CheckpointsCertify ==
    [][/\ part = "control_plane_migration" => ControlPlaneCopy!PassedCertifiesStep
       /\ part = "execution_state_migration" => ExecutionStateCopy!BackfillOnlyAddsStep
       /\ part = "cutover" => Cutover!OvertakenNeverDecidesStep
       /\ part = "cutover" => Cutover!PassedDescribesBrokerStep]_vars

(* Closed runs, positions and outcomes are never touched again, and nothing *)
(* is skipped or written by a run that lost its right to. A run that a      *)
(* recovery or a finish has closed is never touched again, in either store. *)
(* Candidates are only added to a run that is running. A row only ever      *)
(* becomes the row of a refresh that holds the lease and was not told to    *)
(* stop. A position never loses quantity, a closed one and an outcome never *)
(* change. A record never goes back to an older state of its candidate. When*)
(* the discovery starts again at the front, every asset has been looked at  *)
(* since it last did. A completed or dead event never changes again.        *)
HistoryOnlyGrows ==
    [][/\ part = "research" => Research!ClosedIsFinalStep
       /\ part = "research" => Research!CandidatesWhileRunningStep
       /\ part = "market_data_refresh" => Refresh!OnlyLiveRefreshWritesStep
       /\ part = "positions" => Positions!SettledIsFinalStep
       /\ part = "outcome_refresh" => Learning!NeverBackwardsStep
       /\ part = "universe" => Universe!NothingSkippedStep
       /\ part = "workstream_events" => WorkstreamLog!OutcomeIsFinalStep]_vars
=============================================================================
