----------------------------- MODULE ZeroDteOutcomes -----------------------------
(* runZeroDteReconciliation after the orders are settled (ZeroDteTrading): it    *)
(* marks a paper trade and a shadow trade, closes the shadow trade at the end of *)
(* its session and records what a candidate that was not traded would have done. *)
(* zero-dte:reconcile and zero-dte:eod have locks of their own and both run it,  *)
(* so two of them overlap, each with the time at which it started.               *)
EXTENDS Integers, FiniteSets, FiniteSetsExt

CONSTANTS Procs, Prices,
          PaperTrade,                \* TRUE: there is a paper trade, FALSE: a candidate that may become a shadow trade
          Slippage, Fee,             \* shadowSlippage, shadowFeePerContract
          Horizon,                   \* one of outcomeHorizonsMinutes
          MaxAge, MaxFuture,         \* shadowMaxQuoteAgeMs, MAX_FUTURE_QUOTE_MS
          SessionEnd, DayLength, MaxTime, MaxCrashes

VARIABLES now, price,    \* [bid, at]: the last quote of the contract
          shadow,        \* zero_dte_shadow_trades
          paper,         \* zero_dte_paper_trades: [mfe, mae]
          marks,         \* zero_dte_position_marks: [of, at, pnl, mfe, mae]
          missed,        \* zero_dte_candidates: the row of a candidate that was not traded
          outcome,       \* zero_dte_terminal_outcomes: of the candidate and the horizon
          proc,          \* process -> [pc, asOf, quote, seen, prior]
          raced,         \* history: the statements of two paper marks overlapped, or one was cut off
          crashes

vars == <<now, price, shadow, paper, marks, missed, outcome, proc, raced, crashes>>

NoQuote == [bid |-> 0, at |-> 0, stamped |-> TRUE, given |-> FALSE]
NoPrior == [mfe |-> 0, mae |-> 0]
NoMissed == [premium |-> 0, at |-> 0]
Idle == [pc |-> "idle", asOf |-> 0, quote |-> NoQuote, seen |-> NoMissed, prior |-> NoPrior]

Day(t) == t \div DayLength
InSessionEnd(t) == t % DayLength >= SessionEnd
Null == 99   \* SQL NULL, a number no premium reaches

(* The paper trade was filled at 2 before the first mark. *)
PaperEntry == 2

Init ==
    /\ now = 0 /\ price = [bid |-> Min(Prices), at |-> 0] /\ crashes = 0 /\ raced = FALSE
    /\ shadow = [status |-> "none", day |-> 0, entry |-> 0, mfe |-> Null, mae |-> Null, pnl |-> Null]
    /\ paper = [mfe |-> Null, mae |-> Null]
    /\ marks = {} /\ missed = [premium |-> Min(Prices) + Slippage, at |-> 0]
    /\ outcome = [status |-> "none", pnl |-> Null, entryAt |-> 0, quoteAt |-> 0, asOf |-> 0, stamped |-> TRUE]
    /\ proc = [p \in Procs |-> Idle]

At(p, pc) == proc[p].pc = pc
Goto(p, pc) == proc' = [proc EXCEPT ![p].pc = pc]

-----------------------------------------------------------------------------
Tick ==
    /\ now < MaxTime /\ now' = now + 1
    /\ price' \in {price} \cup {[bid |-> b, at |-> now'] : b \in Prices}
    /\ UNCHANGED <<shadow, paper, marks, missed, outcome, proc, raced, crashes>>

(* The engine (ZeroDteEngine) sees the candidate again, *)
Observe ==
    /\ ~PaperTrade /\ shadow.status = "none" /\ Day(now) = 0
    /\ missed' = [premium |-> price.bid + Slippage, at |-> now]
    /\ UNCHANGED <<now, price, shadow, paper, marks, outcome, proc, raced, crashes>>

(* or opens a shadow trade: it buys at the ask plus slippage. *)
Open ==
    /\ ~PaperTrade /\ shadow.status = "none" /\ Day(now) = 0
    /\ shadow' = [shadow EXCEPT !.status = "open", !.day = Day(now), !.entry = price.bid + Slippage]
    /\ UNCHANGED <<now, price, paper, marks, missed, outcome, proc, raced, crashes>>

-----------------------------------------------------------------------------
Begin(p) ==
    /\ At(p, "idle") /\ proc' = [proc EXCEPT ![p] = [Idle EXCEPT !.pc = "fetch", !.asOf = now]]
    /\ UNCHANGED <<now, price, shadow, paper, marks, missed, outcome, raced, crashes>>

(* getMarketContexts, quoteMapFor: the contract may be absent, and a quote may come without its time. *)
Fetch(p) ==
    /\ At(p, "fetch")
    /\ \E q \in {NoQuote} \cup {[bid |-> price.bid, at |-> price.at, stamped |-> s, given |-> TRUE] : s \in BOOLEAN} :
          proc' = [proc EXCEPT ![p].quote = q, ![p].pc = IF PaperTrade THEN "paper" ELSE "shadow"]
    /\ UNCHANGED <<now, price, shadow, paper, marks, missed, outcome, raced, crashes>>

(* normalizeZeroDteShadowQuote: status "valid". *)
Valid(q, asOf) == q.given /\ (q.stamped => asOf - q.at <= MaxAge /\ q.at - asOf <= MaxFuture)

MarkPrice(q) == Max({0, q.bid - Slippage})

Most_Latest(old, v) == Max({v, 0})
Most(old, v) == Max({IF old = Null THEN 0 ELSE old, v, 0})

Least(old, v) == Min({IF old = Null THEN 0 ELSE old, v, 0})

PaperMarks == {m \in marks : m.of = "paper"}

(* markZeroDtePaperTrades: there is a quote with a bid, however old it is. *)
PaperMarkable(q) == q.given

(* appendPaperMark reads the marks of the trade, *)
PaperReads(p) ==
    /\ At(p, "paper")
    /\ LET prior == [mfe |-> Max({0} \cup {m.mfe : m \in PaperMarks}), mae |-> Min({0} \cup {m.mae : m \in PaperMarks})]
           skip == ~PaperMarkable(proc[p].quote) \/ \E m \in PaperMarks : m.at = proc[p].asOf
       IN  /\ proc' = [proc EXCEPT ![p] = IF skip THEN Idle ELSE [@ EXCEPT !.prior = prior, !.pc = "insert"]]
           /\ raced' = (raced \/ (~skip /\ \E q \in Procs \ {p} : proc[q].pc \in {"insert", "update"}))
    /\ UNCHANGED <<now, price, shadow, paper, marks, missed, outcome, crashes>>

PaperPnl(q) == q.bid - PaperEntry - Fee

Extend_Fresh(prior, v) == [mfe |-> Max({0, v}), mae |-> Min({0, v})]
Extend(prior, v) == [mfe |-> Max({prior.mfe, v}), mae |-> Min({prior.mae, v})]

PaperRow(p) == Extend(proc[p].prior, PaperPnl(proc[p].quote))

(* inserts its own, *)
PaperInserts(p) ==
    /\ At(p, "insert") /\ Goto(p, "update")
    /\ marks' = marks \cup {[of |-> "paper", at |-> proc[p].asOf, pnl |-> PaperPnl(proc[p].quote),
                             mfe |-> PaperRow(p).mfe, mae |-> PaperRow(p).mae]}
    /\ UNCHANGED <<now, price, shadow, paper, missed, outcome, raced, crashes>>

(* and updates the trade: three statements without a transaction. There is nothing else to do with a paper trade. *)
PaperUpdates(p) ==
    /\ At(p, "update") /\ proc' = [proc EXCEPT ![p] = Idle]
    /\ paper' = PaperRow(p)
    /\ UNCHANGED <<now, price, shadow, marks, missed, outcome, raced, crashes>>

Markable(t) == t.status \in {"intended", "open"}

(* isSessionEnd is only true on the trading date of the trade. *)
Ends(asOf, t) == Day(asOf) = t.day /\ InSessionEnd(asOf)

(* closeTrade: sells at the bid minus slippage and pays the fee a second time. *)
Closed(t, q, asOf) ==
    [t EXCEPT !.status = "closed", !.pnl = IF Valid(q, asOf) THEN MarkPrice(q) - t.entry - 2 * Fee ELSE Null]

(* markZeroDteShadowTrades, one transaction; the id of a mark is the trade and the time. *)
Marked(p, pc) ==
    LET q == proc[p].quote
        asOf == proc[p].asOf
        v == MarkPrice(q) - shadow.entry - Fee
        t == IF Valid(q, asOf) THEN [shadow EXCEPT !.mfe = Most(@, v), !.mae = Least(@, v)] ELSE shadow
    IN  /\ proc' = [proc EXCEPT ![p] = IF pc = "idle" THEN Idle ELSE [@ EXCEPT !.pc = pc]]
        /\ \/ ~Markable(shadow) /\ UNCHANGED <<shadow, marks>>
           \/ /\ Markable(shadow)
              /\ marks' = IF \E m \in marks : m.of = "shadow" /\ m.at = asOf THEN marks
                          ELSE marks \cup {[of |-> "shadow", at |-> asOf, pnl |-> IF Valid(q, asOf) THEN v ELSE Null,
                                           mfe |-> 0, mae |-> 0]}
              /\ shadow' = IF Ends(asOf, shadow) THEN Closed(t, q, asOf) ELSE t
        /\ UNCHANGED <<now, price, paper, missed, outcome, raced, crashes>>

MarkShadow(p) == At(p, "shadow") /\ Marked(p, "missed")

(* missedCandidatesFor: candidates of the date that have no trade. *)
IsMissed(asOf) == shadow.status = "none" /\ Day(asOf) = Day(missed.at)

AfterMissed(p) == IF InSessionEnd(proc[p].asOf) THEN [proc[p] EXCEPT !.seen = NoMissed, !.pc = "again"] ELSE Idle

ReadMissed(p) ==
    /\ At(p, "missed")
    /\ proc' = [proc EXCEPT ![p] = IF IsMissed(@.asOf) THEN [@ EXCEPT !.seen = missed, !.pc = "capture"]
                                   ELSE AfterMissed(p)]
    /\ UNCHANGED <<now, price, shadow, paper, marks, missed, outcome, raced, crashes>>

(* writeOutcome: the horizon is over, and the quote was made after it and before the evaluation. *)
Complete_AnyQuote(q, asOf, target) == target <= asOf /\ Valid(q, IF q.stamped THEN q.at ELSE target)

Complete(q, asOf, target) ==
    /\ target <= asOf
    /\ q.stamped => target <= q.at /\ q.at <= asOf
    /\ Valid(q, IF q.stamped THEN q.at ELSE target)

Replaces_Always(old, complete) == TRUE

Replaces(old, complete) == old = "none" \/ (old # "complete" /\ complete)

Capture(p) ==
    LET q == proc[p].quote
        s == proc[p].seen
        done == q.given /\ Complete(q, proc[p].asOf, s.at + Horizon)
    IN  /\ At(p, "capture") /\ proc' = [proc EXCEPT ![p] = AfterMissed(p)]
        /\ outcome' = IF ~Replaces(outcome.status, done) THEN outcome
                      ELSE IF ~done THEN [outcome EXCEPT !.status = "incomplete"]
                      ELSE [status |-> "complete", pnl |-> MarkPrice(q) - s.premium - Fee,
                            entryAt |-> s.at, quoteAt |-> q.at, asOf |-> proc[p].asOf, stamped |-> q.stamped]
        /\ UNCHANGED <<now, price, shadow, paper, marks, missed, raced, crashes>>

(* captureZeroDteOutcomes marks once more after the close. *)
MarkAgain(p) == At(p, "again") /\ Marked(p, "idle")

Crash(p) ==
    /\ ~At(p, "idle") /\ crashes < MaxCrashes /\ crashes' = crashes + 1
    /\ raced' = (raced \/ At(p, "update"))
    /\ proc' = [proc EXCEPT ![p] = Idle]
    /\ UNCHANGED <<now, price, shadow, paper, marks, missed, outcome>>

Next ==
    \/ Tick \/ Observe \/ Open
    \/ \E p \in Procs :
        \/ Begin(p) \/ Fetch(p) \/ PaperReads(p) \/ PaperInserts(p) \/ PaperUpdates(p)
        \/ MarkShadow(p) \/ ReadMissed(p) \/ Capture(p) \/ MarkAgain(p) \/ Crash(p)

Spec == Init /\ [][Next]_vars

-----------------------------------------------------------------------------
TypeOK ==
    /\ now \in 0..MaxTime /\ price.bid \in Prices /\ price.at \in 0..now
    /\ shadow.status \in {"none", "open", "closed"} /\ outcome.status \in {"none", "incomplete", "complete"}
    /\ \A m \in marks : m.of \in {"paper", "shadow"} /\ m.at \in 0..now

(* The excursions of a shadow trade bound every mark of it and, but for the fee of the sale, its result,
   in whatever order two reconciliations mark it. *)
ExcursionsBoundMarks ==
    /\ \A m \in marks : m.of = "shadow" /\ m.pnl # Null => m.pnl <= shadow.mfe /\ m.pnl >= shadow.mae
    /\ shadow.pnl # Null => shadow.pnl <= shadow.mfe /\ shadow.pnl + Fee >= shadow.mae

(* Those of a paper trade bound every mark once it is written, unless two marks overlapped or one was cut off. *)
PaperExcursionsBoundMarks ==
    \A m \in PaperMarks : raced \/ (\E p \in Procs : At(p, "update"))
        \/ (m.pnl <= paper.mfe /\ m.pnl >= paper.mae)

(* A complete forward outcome compares the premium of one moment with a quote that was made a whole horizon
   later and not after the evaluation, although the candidate is seen again and again meanwhile. *)
NoLookAhead ==
    outcome.status = "complete" /\ outcome.stamped =>
        outcome.entryAt + Horizon <= outcome.quoteAt /\ outcome.quoteAt <= outcome.asOf

(* A closed shadow trade and a complete outcome are never written again. *)
LearnedOnceStep ==
    /\ shadow.status = "closed" => shadow' = shadow
    /\ outcome.status = "complete" => outcome' = outcome
LearnedOnce == [][LearnedOnceStep]_vars
=============================================================================
