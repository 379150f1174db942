--------------------------- MODULE ReviewWorkflow ---------------------------
(***************************************************************************)
(* runPostgresReviewWorkflow.  An entry review reads the selected          *)
(* candidates with one picture of the account, validates and sizes them,   *)
(* lets arbitratePortfolioResources share the remaining capital between    *)
(* them in rank order, and then writes, statement by statement, the        *)
(* decisions, the reviews, the order intents and the stage of every        *)
(* candidate.  An exit review writes review, confirmation and intent in    *)
(* one statement.  Every write is fenced by the lease of the job; what was *)
(* read is not.  Later commands reserve, order and settle the intents      *)
(* (OrderSubmission and OrderReconciliation).                              *)
(*                                                                         *)
(* Amounts are counted in units of account.  All runs belong to one worker *)
(* cycle, so a repeated review meets the arbitration it left behind.       *)
(***************************************************************************)
EXTENDS Naturals, Sequences, FiniteSets

CONSTANTS
  EntryRuns,        \* runs of one entry review job
  ExitRuns,         \* runs of exit review jobs
  JobOf,            \* the job of every run: one scheduler lease per job
  Candidate,        \* candidate -> [symbol, option, unit], see RankOrder
  RankOrder,        \* the candidates by lane priority, score and name
  Capacity,         \* allocation_amount
  OptionsPower,     \* options_buying_power of the account snapshot
  MaxNeed, MaxSnapshots

Candidates == DOMAIN Candidate

(* One lease guards the entry reviews; the rank is an order of all candidates. *)
ReviewConstants ==
  /\ \A r, q \in EntryRuns : JobOf[r] = JobOf[q]
  /\ EntryRuns \cap ExitRuns = {}
  /\ IsFiniteSet(Candidates)
  /\ RankOrder \in Seq(Candidates)
  /\ \A c \in Candidates : \E i \in 1..Len(RankOrder) : RankOrder[i] = c
  /\ \A i, j \in 1..Len(RankOrder) : RankOrder[i] = RankOrder[j] => i = j
  /\ \A c \in Candidates : Candidate[c].unit \in Nat \ {0} /\ Candidate[c].option \in BOOLEAN
  /\ Capacity \in Nat /\ OptionsPower \in Nat /\ MaxNeed \in Nat /\ MaxSnapshots \in Nat \ {0}

VARIABLES
  stage,      \* candidates.lifecycle_status
  snapshot,   \* the latest account snapshot
  reviews,    \* execution_reviews of entries, by client order id
  intents,    \* order_intents of entries, by client order id
  decisions,  \* portfolio_arbitration_decisions
  closes,     \* order_intents that close the one open position
  holder,     \* job -> run whose lease is current
  run         \* the runs

vars == <<stage, snapshot, reviews, intents, decisions, closes, holder, run>>

Runs == EntryRuns \cup ExitRuns
Jobs == {JobOf[r] : r \in Runs}
Keys == Candidates \X (1..MaxSnapshots)
NoIntent == [state |-> "none", units |-> 0]
IntentStates == {"none", "created", "reserved", "ordered", "held", "closed"}
NoContext == [snap |-> 0, version |-> <<>>, power |-> 0, options |-> 0, busy |-> {}]
Decision == [action : {"approve", "resize", "skip"}, units : 0..MaxNeed]
IdleRun == [pc |-> "idle", ctx |-> NoContext, need |-> <<>>, verdict |-> <<>>, todo |-> {}]

Set(r, f) == run' = [run EXCEPT ![r] = f]
Held(r) == holder[JobOf[r]] = r

Init ==
  /\ stage = [c \in Candidates |-> "selected"]
  /\ snapshot = 1
  /\ reviews = {}
  /\ intents = [k \in Keys |-> NoIntent]
  /\ decisions = {}
  /\ closes = {}
  /\ holder = [j \in Jobs |-> "none"]
  /\ run = [r \in Runs |-> IdleRun]

-----------------------------------------------------------------------------
(* arbitratePortfolioResources *)

\* The sum of the numbers a[i] over S, counted unit by unit.
SumOver(a, S) == Cardinality(UNION {{i} \X (1..a[i]) : i \in S})

Units(K) == SumOver([k \in Keys |-> intents[k].units], K)
Pending == {k \in Keys : intents[k].state = "created"}
Committed == {k \in Keys : intents[k].state \in {"reserved", "ordered", "held"}}

\* The symbols of the open positions, working orders and pending commitments:
\* an intent that is reserved and has no order row yet is none of them.
Busy == {Candidate[k[1]].symbol : k \in {q \in Keys : intents[q].state \in {"created", "ordered", "held"}}}

Monus(a, b) == IF a > b THEN a - b ELSE 0
Least(a, b) == IF a < b THEN a ELSE b

\* portfolioResourceContext: what is pending is taken off every capacity.
portfolioResourceContext ==
  [snap |-> snapshot, version |-> <<snapshot, Pending, Committed>>,
   power |-> Monus(Monus(Capacity, Units(Committed)), Units(Pending)),
   options |-> Monus(OptionsPower, Units(Pending)),
   busy |-> Busy]

\* A notional order shrinks to what is left, a whole order in whole units.
sizedResource(c, need, available) ==
  LET bounded == Least(need, available) IN
  (bounded \div Candidate[c].unit) * Candidate[c].unit

\* What the proposals so far have left: the state of the loop.
Start(ctx) == [power |-> ctx.power, options |-> ctx.options, taken |-> {}, out |-> [c \in {} |-> 0]]

\* The decision on a proposal that is given so many units.
Decide(need, units) ==
  [action |-> IF units = 0 THEN "skip" ELSE IF units < need THEN "resize" ELSE "approve", units |-> units]

\* Options are not held to the options buying power.
Available_OneBudget(s, c) == s.power

Available(s, c) == IF Candidate[c].option THEN Least(s.power, s.options) ELSE s.power

\* The symbols that were approved in this arbitration are forgotten.
Conflicts_OnlyContext(s, ctx, c) == Candidate[c].symbol \in ctx.busy

Conflicts(s, ctx, c) == Candidate[c].symbol \in ctx.busy \cup s.taken

Given(s, ctx, c, need) == IF Conflicts(s, ctx, c) THEN 0 ELSE sizedResource(c, need, Available(s, c))

Arbitrate(s, ctx, c, need) ==
  LET units == Given(s, ctx, c, need) IN
  [power |-> s.power - units,
   options |-> IF Candidate[c].option THEN s.options - units ELSE s.options,
   taken |-> IF units = 0 THEN s.taken ELSE s.taken \cup {Candidate[c].symbol},
   out |-> [d \in DOMAIN s.out \cup {c} |-> IF d = c THEN Decide(need, units) ELSE s.out[d]]]

\* The proposals in rank order; need is defined for those that passed validation and sizing.
Shared(ctx, need) ==
  LET Rest[i \in 0..Len(RankOrder)] ==
        IF i = 0 THEN Start(ctx)
        ELSE IF RankOrder[i] \in DOMAIN need
             THEN Arbitrate(Rest[i - 1], ctx, RankOrder[i], need[RankOrder[i]])
             ELSE Rest[i - 1]
  IN Rest

arbitratePortfolioResources(ctx, need) == Shared(ctx, need)[Len(RankOrder)].out

-----------------------------------------------------------------------------
(* An entry review *)

\* entrySourceSql: selected, not settled, and not yet reviewed with this snapshot.
Source == {c \in Candidates : stage[c] \in {"selected", "sized"} /\ <<c, snapshot>> \notin reviews}

\* The rows are worked off in rank order.
First(C) ==
  RankOrder[CHOOSE i \in 1..Len(RankOrder) :
              RankOrder[i] \in C /\ \A j \in 1..Len(RankOrder) : RankOrder[j] \in C => i <= j]
Others(C) == C \ {First(C)}

\* Whether the quote, the underlying and the contract of a row are present,
\* fresh and consistent; a failure of this kind blocks the row and no other.
validateEntryReviewEvidence == {"valid", "blocked"}

\* Whole units within the validated capital, 0 when not one unit fits.
Sizes(c) == {n \in 0..MaxNeed : n % Candidate[c].unit = 0}

\* What each row may ask for after validation and sizing; 0 blocks it.
Needs(C) ==
  {need \in [C -> 0..MaxNeed] :
     \A c \in C : \E v \in validateEntryReviewEvidence :
       IF v = "valid" THEN need[c] \in Sizes(c) ELSE need[c] = 0}

Read(r) ==
  /\ r \in EntryRuns /\ run[r].pc = "idle" /\ Held(r)
  /\ \E need \in Needs(Source) :
       /\ Set(r, [pc |-> IF Source = {} THEN "done" ELSE "block", ctx |-> portfolioResourceContext,
                  need |-> [c \in {d \in Source : need[d] > 0} |-> need[c]],
                  verdict |-> <<>>, todo |-> {c \in Source : need[c] = 0}])
  /\ UNCHANGED <<stage, snapshot, reviews, intents, decisions, closes, holder>>

\* An error that is not scoped to one proposal ends the review.
ReadThrows(r) ==
  /\ r \in EntryRuns /\ run[r].pc = "idle" /\ Held(r)
  /\ Set(r, [IdleRun EXCEPT !.pc = "done"])
  /\ UNCHANGED <<stage, snapshot, reviews, intents, decisions, closes, holder>>

\* persistCandidateStage throws when the lease is gone, and the review ends.
persistCandidateStage(r, c, s, after) ==
  IF Held(r) THEN stage' = [stage EXCEPT ![c] = s] /\ Set(r, after)
  ELSE UNCHANGED stage /\ Set(r, [IdleRun EXCEPT !.pc = "done"])

Block(r) ==
  /\ run[r].pc = "block"
  /\ IF run[r].todo = {}
     THEN /\ Set(r, [run[r] EXCEPT !.pc = IF DOMAIN run[r].need = {} THEN "done" ELSE "arbitrate"])
          /\ UNCHANGED stage
     ELSE persistCandidateStage(r, First(run[r].todo), "blocked", [run[r] EXCEPT !.todo = Others(@)])
  /\ UNCHANGED <<snapshot, reviews, intents, decisions, closes, holder>>

\* The decisions are written at once; a decision of the same arbitration that
\* says something else is a conflict.
Decided(r) ==
  LET out == arbitratePortfolioResources(run[r].ctx, run[r].need) IN
  {[arb |-> run[r].ctx.version, cand |-> c, action |-> out[c].action, units |-> out[c].units] : c \in DOMAIN out}

Agrees(r) == \A d \in Decided(r), e \in decisions : d.arb = e.arb /\ d.cand = e.cand => d = e

PersistDecisions(r) ==
  /\ run[r].pc = "arbitrate"
  /\ IF Held(r) /\ Agrees(r)
     THEN /\ decisions' = decisions \cup Decided(r)
          /\ Set(r, [run[r] EXCEPT !.pc = "skip", !.todo = DOMAIN run[r].need,
                       !.verdict = arbitratePortfolioResources(run[r].ctx, run[r].need)])
     ELSE UNCHANGED decisions /\ Set(r, [IdleRun EXCEPT !.pc = "done"])
  /\ UNCHANGED <<stage, snapshot, reviews, intents, closes, holder>>

Skipped(r) == {c \in run[r].todo : run[r].verdict[c].action = "skip"}
Approved(r) == {c \in DOMAIN run[r].need : run[r].verdict[c].action # "skip"}

Skip(r) ==
  /\ run[r].pc = "skip"
  /\ IF Skipped(r) = {}
     THEN /\ Set(r, [run[r] EXCEPT !.pc = IF Approved(r) = {} THEN "done" ELSE "review", !.todo = Approved(r)])
          /\ UNCHANGED stage
     ELSE persistCandidateStage(r, First(Skipped(r)), "skipped", [run[r] EXCEPT !.todo = Others(Skipped(r))])
  /\ UNCHANGED <<snapshot, reviews, intents, decisions, closes, holder>>

Key(r) == <<First(run[r].todo), run[r].ctx.snap>>

\* The statement is fenced and inserts once; a lost lease goes unnoticed here.
InsertReview(r) ==
  /\ run[r].pc = "review"
  /\ reviews' = IF Held(r) THEN reviews \cup {Key(r)} ELSE reviews
  /\ Set(r, [run[r] EXCEPT !.pc = "intent"])
  /\ UNCHANGED <<stage, snapshot, intents, decisions, closes, holder>>

CanInsertIntent_Unfenced(r) == intents[Key(r)].state = "none"

CanInsertIntent(r) == Held(r) /\ intents[Key(r)].state = "none"

InsertIntent(r) ==
  /\ run[r].pc = "intent"
  /\ intents' = IF CanInsertIntent(r)
                THEN [intents EXCEPT ![Key(r)] = [state |-> "created", units |-> run[r].verdict[Key(r)[1]].units]]
                ELSE intents
  /\ Set(r, [run[r] EXCEPT !.pc = "sized"])
  /\ UNCHANGED <<stage, snapshot, reviews, decisions, closes, holder>>

Sized(r) ==
  /\ run[r].pc = "sized"
  /\ persistCandidateStage(r, First(run[r].todo), "sized",
       [run[r] EXCEPT !.todo = Others(@), !.pc = IF Others(run[r].todo) = {} THEN "done" ELSE "review"])
  /\ UNCHANGED <<snapshot, reviews, intents, decisions, closes, holder>>

-----------------------------------------------------------------------------
(* An exit review of the one open position *)

ActiveCloses == {x \in closes : x.active}

\* exitSourceSql finds no position that has an active closing intent.
ExitSource == ActiveCloses = {}

\* Missing or stale evidence of the position ends the whole review; otherwise
\* a stop, a profit target, the time left or the trend asks for the exit or not.
exitTrigger == {"throws", "none", "fires"}

ReadExit(r) ==
  /\ r \in ExitRuns /\ run[r].pc = "idle" /\ Held(r)
  /\ \E t \in exitTrigger :
       Set(r, [IdleRun EXCEPT !.pc = IF ExitSource /\ t = "fires" THEN "close" ELSE "done",
                              !.ctx = [NoContext EXCEPT !.snap = snapshot]])
  /\ UNCHANGED <<stage, snapshot, reviews, intents, decisions, closes, holder>>

\* Review, confirmation and intent in one statement.
CanClose_Unfenced(r) == \A x \in closes : x.snap # run[r].ctx.snap

CanClose(r) == Held(r) /\ \A x \in closes : x.snap # run[r].ctx.snap

InsertExit(r) ==
  /\ run[r].pc = "close"
  /\ closes' = IF CanClose(r) THEN closes \cup {[snap |-> run[r].ctx.snap, job |-> JobOf[r], active |-> TRUE]}
               ELSE closes
  /\ Set(r, [run[r] EXCEPT !.pc = "done"])
  /\ UNCHANGED <<stage, snapshot, reviews, intents, decisions, holder>>

-----------------------------------------------------------------------------
(* The rest of the system *)

Acquire(r) ==
  /\ run[r].pc = "idle" /\ ~Held(r)
  /\ holder' = [holder EXCEPT ![JobOf[r]] = r]
  /\ UNCHANGED <<stage, snapshot, reviews, intents, decisions, closes, run>>

Crash(r) ==
  /\ run[r].pc \notin {"idle", "done"}
  /\ Set(r, [IdleRun EXCEPT !.pc = "done"])
  /\ UNCHANGED <<stage, snapshot, reviews, intents, decisions, closes, holder>>

NewSnapshot ==
  /\ snapshot < MaxSnapshots
  /\ snapshot' = snapshot + 1
  /\ UNCHANGED <<stage, reviews, intents, decisions, closes, holder, run>>

NextState == [created |-> {"reserved", "closed"}, reserved |-> {"ordered", "closed"},
              ordered |-> {"held", "closed"}, held |-> {"closed"}]

\* Reservation, submission, fill and settlement of an intent.
IntentMoves(k) ==
  /\ intents[k].state \in DOMAIN NextState
  /\ \E s \in NextState[intents[k].state] : intents' = [intents EXCEPT ![k].state = s]
  /\ UNCHANGED <<stage, snapshot, reviews, decisions, closes, holder, run>>

\* A closing intent ends without a fill.
CloseEnds(x) ==
  /\ closes' = (closes \ {x}) \cup {[x EXCEPT !.active = FALSE]}
  /\ UNCHANGED <<stage, snapshot, reviews, intents, decisions, holder, run>>

EntryReview(r) ==
  \/ Read(r) \/ ReadThrows(r) \/ Block(r) \/ PersistDecisions(r) \/ Skip(r)
  \/ InsertReview(r) \/ InsertIntent(r) \/ Sized(r)

Next ==
  \/ \E r \in Runs : EntryReview(r) \/ ReadExit(r) \/ InsertExit(r) \/ Acquire(r) \/ Crash(r)
  \/ NewSnapshot
  \/ \E k \in Keys : IntentMoves(k)
  \/ \E x \in ActiveCloses : CloseEnds(x)

Spec == Init /\ [][Next]_vars

-----------------------------------------------------------------------------
(* Properties *)

TypeOK ==
  /\ stage \in [Candidates -> {"selected", "sized", "blocked", "skipped"}]
  /\ snapshot \in 1..MaxSnapshots
  /\ reviews \subseteq Keys
  /\ intents \in [Keys -> [state : IntentStates, units : 0..MaxNeed]]
  /\ \A d \in decisions : d.cand \in Candidates /\ [action |-> d.action, units |-> d.units] \in Decision
  /\ \A j \in Jobs : holder[j] \in Runs \cup {"none"}
  /\ \A r \in Runs : run[r].pc \in {"idle", "block", "arbitrate", "skip", "review", "intent", "sized", "close", "done"}

\* The intents of all reviews together, pending or already committed, stay
\* within the allocation, although each review worked on a picture that was
\* read before the others wrote and any of them may die half way.
WithinAllocation == Units(Pending \cup Committed) <= Capacity

\* No arbitration gives options more than the options buying power it saw, nor
\* one symbol to two proposals.
ArbitrationIsFair ==
  \A r \in EntryRuns :
    LET given == {c \in DOMAIN run[r].verdict : run[r].verdict[c].units > 0} IN
    /\ SumOver([c \in given |-> run[r].verdict[c].units], {c \in given : Candidate[c].option}) <= run[r].ctx.options
    /\ \A c, d \in given : Candidate[c].symbol = Candidate[d].symbol => c = d

\* At most one intent per symbol waits for its reservation.
OnePendingPerSymbol == \A k, q \in Pending : Candidate[k[1]].symbol = Candidate[q[1]].symbol => k = q

\* What an intent asks for is what a recorded decision of the arbitration on the
\* same snapshot approved, and its review exists: no intent outlives a run that
\* lost its lease between the statements.
IntentWasApproved ==
  \A k \in Keys : intents[k].state # "none" =>
    /\ k \in reviews
    /\ \E d \in decisions : d.arb[1] = k[2] /\ d.cand = k[1] /\ d.units = intents[k].units /\ d.action # "skip"

\* A job never has two active closing intents for one position, and two jobs
\* never close it with the same snapshot.
OneActiveClosePerJob == \A x, y \in ActiveCloses : x.job = y.job \/ x.snap = y.snap => x = y

\* The reviews propose what the arbitration approved, within the allocation,
\* once per symbol and position, although they overlap and die half way.
ReviewsAreSound ==
  /\ WithinAllocation
  /\ ArbitrationIsFair
  /\ OnePendingPerSymbol
  /\ IntentWasApproved
  /\ OneActiveClosePerJob

=============================================================================
