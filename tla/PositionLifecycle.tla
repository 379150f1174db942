--------------------------- MODULE PositionLifecycle ---------------------------
(* paperPositionLifecycleService, with the callers that feed it: the reviewed *)
(* executor reports the fill in the answer to an order, the portfolio review  *)
(* marks what the broker holds, and a review artifact binds a sale to the one *)
(* open lifecycle of its symbol. The broker nets every entry of a symbol into *)
(* one position; the lifecycles keep them apart. All statements autocommit.   *)
EXTENDS Integers, FiniteSets, FiniteSetsExt

CONSTANTS Procs,      \* processes that report fills
          Orders, Qty,\* entry orders of one symbol, order -> quantity
          Exits,      \* review artifacts that sell the symbol
          MaxTime, MaxReports, MaxCrashes

VARIABLES clock,
          fill,       \* broker: entry order -> [qty, at]
          reports,    \* reports of fills so far
          sold,       \* broker: quantity sold
          pos,        \* paper_positions: entry order -> [status, qty, ambiguous, exit]
          ledger,     \* entry order -> its ledger row names the lifecycle
          links,      \* paper_position_observation_links: [kind, of, at, pos, exact]
          outcome,    \* paper_position_outcomes: entry order -> [status, first, last]
          review,     \* the portfolio review that runs: [pc, qty, at]
          exit,       \* exit decision -> [state, life, qty, at]
          job,        \* process -> [pc, of, qty, at]
          crashes,
          together,   \* orders whose positions were open next to another one that was not being closed
          lost,       \* orders with a report that ended in a crash, or that was not done when they were closed
          stale       \* orders that were marked by a review whose reading of the broker does not describe them

vars == <<clock, fill, reports, sold, pos, ledger, links, outcome, review, exit, job, crashes, together, lost, stale>>

None == 0
NoPos == [status |-> "none", qty |-> 0, ambiguous |-> FALSE, exit |-> None]
NoMark == [kind |-> "none", of |-> None, at |-> 0]
NoOutcome == [status |-> "none", first |-> NoMark, last |-> NoMark]
Idle == [pc |-> "idle", of |-> None, qty |-> 0, at |-> 0]
NoReview == [pc |-> "idle", qty |-> 0, at |-> 0]

Init ==
    /\ clock = 0 /\ sold = 0 /\ reports = 0 /\ crashes = 0 /\ links = {} /\ together = {} /\ lost = {} /\ stale = {}
    /\ fill = [o \in Orders |-> [qty |-> 0, at |-> 0]] /\ pos = [o \in Orders |-> NoPos]
    /\ ledger = [o \in Orders |-> FALSE] /\ outcome = [o \in Orders |-> NoOutcome]
    /\ review = NoReview /\ exit = [d \in Exits |-> [state |-> "none", life |-> None, qty |-> 0, at |-> 0]]
    /\ job = [p \in Procs |-> Idle]

At(p, pc) == job[p].pc = pc
Goto(p, pc) == job' = [job EXCEPT ![p].pc = pc]
Ends(p) == job' = [job EXCEPT ![p] = Idle]
Tick == clock < MaxTime /\ clock' = clock + 1

Reports(p, o) == job[p].of = o /\ job[p].pc \in {"entry", "insert", "link", "observe"}

Of(p) == exit[job[p].of].life

Open == {o \in Orders : pos[o].status = "OPEN"}

Held == MapThenSumSet(LAMBDA o : fill[o].qty, Orders) - sold

(* The broker fills one unit of an entry order. *)
BrokerFills(o) ==
    /\ fill[o].qty < Qty[o] /\ Tick
    /\ fill' = [fill EXCEPT ![o] = [qty |-> @.qty + 1, at |-> clock + 1]]
    /\ UNCHANGED <<reports, sold, pos, ledger, links, outcome, review, exit, job, crashes, together, lost, stale>>

-----------------------------------------------------------------------------
Capture_AlwaysExact(mark) ==
    /\ links' = links \cup {[kind |-> mark.kind, of |-> mark.of, at |-> mark.at, pos |-> o, exact |-> TRUE] : o \in Open}
    /\ UNCHANGED pos

(* capturePaperPositionObservation: the mark belongs to the one open lifecycle of the symbol, or to all of them and to none exactly. *)
Capture(mark) ==
    LET exact == Cardinality(Open) = 1
        known(o) == \E l \in links : l.pos = o /\ l.kind = mark.kind /\ l.of = mark.of /\ l.at = mark.at
    IN  /\ links' = links \cup {[kind |-> mark.kind, of |-> mark.of, at |-> mark.at, pos |-> o, exact |-> exact] :
                                  o \in {x \in Open : ~known(x)}}
        /\ pos' = IF exact THEN pos ELSE [o \in Orders |-> IF o \in Open THEN [pos[o] EXCEPT !.ambiguous = TRUE] ELSE pos[o]]

(* The answer to an entry order that is filled, wholly or in part. *)
Report(p, o) ==
    /\ At(p, "idle") /\ fill[o].qty > 0 /\ reports < MaxReports /\ reports' = reports + 1
    /\ job' = [job EXCEPT ![p] = [pc |-> "entry", of |-> o, qty |-> fill[o].qty, at |-> fill[o].at]]
    /\ UNCHANGED <<clock, fill, sold, pos, ledger, links, outcome, review, exit, crashes, together, lost, stale>>

ReconcileEntry_Shrinks(p) ==
    LET o == job[p].of IN
    /\ At(p, "entry")
    /\ \/ /\ ledger[o] /\ pos[o] # NoPos
          /\ pos' = [pos EXCEPT ![o].qty = job[p].qty] /\ Goto(p, "observe") /\ UNCHANGED ledger
       \/ ~ledger[o] /\ pos[o] # NoPos /\ ledger' = [ledger EXCEPT ![o] = TRUE] /\ UNCHANGED <<pos, job>>
       \/ ~ledger[o] /\ pos[o] = NoPos /\ Goto(p, "insert") /\ UNCHANGED <<pos, ledger>>
    /\ UNCHANGED <<clock, fill, reports, sold, links, outcome, review, exit, crashes, together, lost, stale>>

(* reconcilePaperEntryFill: a known lifecycle grows while it is open, a lifecycle the ledger does not name yet is linked. *)
ReconcileEntry(p) ==
    LET o == job[p].of IN
    /\ At(p, "entry")
    /\ \/ /\ ledger[o] /\ pos[o].status = "OPEN" /\ job[p].qty >= pos[o].qty
          /\ pos' = [pos EXCEPT ![o].qty = job[p].qty] /\ Goto(p, "observe") /\ UNCHANGED ledger
       \/ /\ ledger[o] /\ ~(pos[o].status = "OPEN" /\ job[p].qty >= pos[o].qty)
          /\ Ends(p) /\ UNCHANGED <<pos, ledger>>
       \/ /\ ~ledger[o] /\ pos[o] # NoPos
          /\ ledger' = [ledger EXCEPT ![o] = TRUE] /\ UNCHANGED <<pos, job>>
       \/ ~ledger[o] /\ pos[o] = NoPos /\ Goto(p, "insert") /\ UNCHANGED <<pos, ledger>>
    /\ UNCHANGED <<clock, fill, reports, sold, links, outcome, review, exit, crashes, together, lost, stale>>

(* Lifecycles whose exit mark is taken and whose row is closed next. *)
Closing == {Of(p) : p \in {q \in Procs : At(q, "close")}}

(* INSERT INTO paper_positions: the second of two reports meets the unique client order id and throws. *)
InsertPosition(p) ==
    LET o == job[p].of IN
    /\ At(p, "insert")
    /\ IF pos[o] # NoPos THEN Ends(p) /\ UNCHANGED <<pos, together>>
       ELSE /\ pos' = [pos EXCEPT ![o] = [NoPos EXCEPT !.status = "OPEN", !.qty = job[p].qty]]
            /\ together' = LET others == Open \ Closing IN IF others = {} THEN together ELSE together \cup others \cup {o}
            /\ Goto(p, "link")
    /\ UNCHANGED <<clock, fill, reports, sold, ledger, links, outcome, review, exit, crashes, lost, stale>>

(* linkPaperExecutionPositionLifecycle *)
LinkLedger(p) ==
    /\ At(p, "link") /\ ledger' = [ledger EXCEPT ![job[p].of] = TRUE] /\ Goto(p, "observe")
    /\ UNCHANGED <<clock, fill, reports, sold, pos, links, outcome, review, exit, crashes, together, lost, stale>>

ObserveEntry(p) ==
    /\ At(p, "observe") /\ Capture([kind |-> "entry", of |-> job[p].of, at |-> job[p].at]) /\ Ends(p)
    /\ UNCHANGED <<clock, fill, reports, sold, ledger, outcome, review, exit, crashes, together, lost, stale>>

-----------------------------------------------------------------------------
(* buildPaperPortfolioReview: the broker is read first, everything else follows later. *)
ReviewReads ==
    /\ review.pc = "idle" /\ Held > 0 /\ Tick
    /\ review' = [pc |-> "read", qty |-> Held, at |-> clock + 1]
    /\ UNCHANGED <<fill, reports, sold, pos, ledger, links, outcome, exit, job, crashes, together, lost, stale>>

(* Open lifecycles the reading does not describe: filled after it, or sold before it. *)
Later == {o \in Open : fill[o].at > review.at \/ \E p \in Procs : job[p].pc \in {"exit", "close"} /\ Of(p) = o /\ job[p].at < review.at}

ReviewMarks ==
    /\ review.pc = "read" /\ review' = [review EXCEPT !.pc = "marked"]
    /\ IF Open = {} THEN UNCHANGED <<pos, links>> ELSE Capture([kind |-> "mark", of |-> None, at |-> review.at])
    /\ stale' = stale \cup Later
    /\ UNCHANGED <<clock, fill, reports, sold, ledger, outcome, exit, job, crashes, together, lost>>

(* createPaperReviewArtifact and persistArtifactDecisionLinks *)
Lifecycle == IF Cardinality(Open) = 1 THEN CHOOSE o \in Open : TRUE ELSE None

ReviewSells(d) ==
    /\ review.pc = "marked" /\ exit[d].state = "none"
    /\ exit' = [exit EXCEPT ![d] = [state |-> "reviewed", life |-> Lifecycle, qty |-> review.qty, at |-> review.at]]
    /\ review' = NoReview
    /\ UNCHANGED <<clock, fill, reports, sold, pos, ledger, links, outcome, job, crashes, together, lost, stale>>

ReviewHolds ==
    /\ review.pc = "marked" /\ review' = NoReview
    /\ UNCHANGED <<clock, fill, reports, sold, pos, ledger, links, outcome, exit, job, crashes, together, lost, stale>>

SellFills_AnyAnswer(p, d) ==
    /\ At(p, "idle") /\ exit[d].state = "reviewed" /\ exit[d].qty <= Held /\ Tick
    /\ exit' = [exit EXCEPT ![d].state = "sold"] /\ exit[d].life # None
    /\ job' = [job EXCEPT ![p] = [pc |-> "exit", of |-> d, qty |-> exit[d].qty, at |-> clock + 1]]
    /\ UNCHANGED <<fill, reports, sold, pos, ledger, links, outcome, review, crashes, together, lost, stale>>

(* The reviewed sale is sent while the broker still holds what it sells; the lifecycle is closed only when the answer says filled. *)
SellFills(p, d) ==
    /\ At(p, "idle") /\ exit[d].state = "reviewed" /\ exit[d].qty <= Held /\ Tick
    /\ sold' = sold + exit[d].qty /\ exit' = [exit EXCEPT ![d].state = "sold"]
    /\ \/ exit[d].life # None /\ job' = [job EXCEPT ![p] = [pc |-> "exit", of |-> d, qty |-> exit[d].qty, at |-> clock + 1]]
       \/ UNCHANGED job
    /\ UNCHANGED <<fill, reports, pos, ledger, links, outcome, review, crashes, together, lost, stale>>

(* closePaperPositionFromFill: the exit mark is taken before the row is closed; a position that another exit closed refuses this one. *)
ObserveExit(p) ==
    /\ At(p, "exit")
    /\ IF pos[Of(p)].status = "CLOSED"
       THEN IF pos[Of(p)].exit # job[p].of THEN Ends(p) /\ UNCHANGED <<pos, links>> ELSE Goto(p, "outcome") /\ UNCHANGED <<pos, links>>
       ELSE Capture([kind |-> "exit", of |-> Of(p), at |-> job[p].at]) /\ Goto(p, "close")
    /\ UNCHANGED <<clock, fill, reports, sold, ledger, outcome, review, exit, crashes, together, lost, stale>>

Close(p) ==
    /\ At(p, "close") /\ Goto(p, "outcome")
    /\ pos' = IF pos[Of(p)].status = "OPEN" THEN [pos EXCEPT ![Of(p)].status = "CLOSED", ![Of(p)].exit = job[p].of] ELSE pos
    /\ lost' = IF \E q \in Procs : Reports(q, Of(p)) THEN lost \cup {Of(p)} ELSE lost
    /\ UNCHANGED <<clock, fill, reports, sold, ledger, links, outcome, review, exit, crashes, together, stale>>

-----------------------------------------------------------------------------
Marks(o) == {l \in links : l.pos = o /\ l.exact}

MarkOf(l) == [kind |-> l.kind, of |-> l.of, at |-> l.at]
First_AnyMark(o) == MarkOf(CHOOSE l \in Marks(o) : l.kind # "entry" \/ \A x \in Marks(o) : x.kind = "entry")

First(o) == MarkOf(CHOOSE l \in Marks(o) : \A x \in Marks(o) : l.at <= x.at)

Last(o) == MarkOf(CHOOSE l \in Marks(o) : \A x \in Marks(o) : l.at >= x.at)

Ambiguous(o) == pos[o].ambiguous \/ \E l \in links : l.pos = o /\ ~l.exact

(* persistPaperPositionOutcome: the return is that of the first and the last exact mark. *)
Evaluation(o) ==
    CASE Ambiguous(o) -> [NoOutcome EXCEPT !.status = "AMBIGUOUS_LINEAGE"]
      [] ~Ambiguous(o) /\ Cardinality(Marks(o)) < 2 -> [NoOutcome EXCEPT !.status = "INSUFFICIENT_OBSERVATIONS"]
      [] OTHER -> [status |-> "COMPLETE", first |-> First(o), last |-> Last(o)]

PersistOutcome(p) ==
    LET o == Of(p) IN
    /\ At(p, "outcome") /\ pos[o].status = "CLOSED" /\ Ends(p)
    /\ outcome' = IF outcome[o].status = "none" THEN [outcome EXCEPT ![o] = Evaluation(o)] ELSE outcome
    /\ UNCHANGED <<clock, fill, reports, sold, pos, ledger, links, review, exit, crashes, together, lost, stale>>

Crash(p) ==
    /\ ~At(p, "idle") /\ crashes < MaxCrashes /\ crashes' = crashes + 1 /\ Ends(p)
    /\ lost' = lost \cup {o \in Orders : Reports(p, o)}
    /\ UNCHANGED <<clock, fill, reports, sold, pos, ledger, links, outcome, review, exit, together, stale>>

Next ==
    \/ \E o \in Orders : BrokerFills(o)
    \/ \E p \in Procs, o \in Orders : Report(p, o)
    \/ \E p \in Procs : ReconcileEntry(p) \/ InsertPosition(p) \/ LinkLedger(p) \/ ObserveEntry(p)
    \/ \E p \in Procs : ObserveExit(p) \/ Close(p) \/ PersistOutcome(p) \/ Crash(p)
    \/ ReviewReads \/ ReviewMarks \/ ReviewHolds \/ \E d \in Exits : ReviewSells(d)
    \/ \E p \in Procs, d \in Exits : SellFills(p, d)

Spec == Init /\ [][Next]_vars

-----------------------------------------------------------------------------
TypeOK ==
    /\ \A o \in Orders : pos[o].status \in {"none", "OPEN", "CLOSED"} /\ pos[o].qty \in 0..Qty[o]
    /\ \A p \in Procs : job[p].pc \in {"idle", "entry", "insert", "link", "observe", "exit", "close", "outcome"}
    /\ Held >= 0

(* The order of a closed lifecycle was not filled any further after its sale was sized. *)
SizedWhenFilled(o) == fill[o].at <= exit[pos[o].exit].at

(* An outcome that has prices belongs to a position that was never open next to another position of its symbol. *)
PricedAlone == \A o \in Orders : outcome[o].status = "COMPLETE" => o \notin together

(* The prices of an outcome are those of its own entry and exit fills if its order was filled when the sale was sized, unless a report of the entry was cut off by a *)
(* crash or overtaken, or a review marked the position from a reading of the broker before it was filled or after it was sold.        *)
PricedByItsFills ==
    \A o \in Orders : outcome[o].status = "COMPLETE" /\ SizedWhenFilled(o) /\ o \notin lost \cup stale =>
        /\ outcome[o].first.kind = "entry" /\ outcome[o].first.of = o
        /\ outcome[o].last.kind = "exit" /\ outcome[o].last.of = o

(* The closed lifecycles together are no larger than what was sold, except for orders that went on filling after their sale was sized. *)
ClosedWasSold ==
    LET closed == {o \in Orders : pos[o].status = "CLOSED" /\ SizedWhenFilled(o)}
    IN  MapThenSumSet(LAMBDA o : pos[o].qty, closed) <= sold

(* A position never loses quantity, a closed one is never changed and keeps the exit that closed it, and an outcome is final. *)
SettledIsFinalStep ==
    \A o \in Orders : /\ pos'[o].qty >= pos[o].qty
                      /\ pos[o].status = "CLOSED" => /\ pos'[o].qty = pos[o].qty /\ pos'[o].exit = pos[o].exit
                                                     /\ pos'[o].status = "CLOSED"
                      /\ outcome[o].status # "none" => outcome'[o] = outcome[o]
SettledIsFinal == [][SettledIsFinalStep]_vars
=============================================================================
