---------------------------- MODULE HedgeTrading ----------------------------
(* Protective puts from the signed review to the closed order (SQLite        *)
(* authority): hedgeLearningService, hedgeCapitalEvidenceService,            *)
(* hedgeExecutionService, hedgeExitService and the reservation of            *)
(* paperExecutionLedgerService.  A contract costs one unit of premium.       *)
EXTENDS Integers, FiniteSets, FiniteSetsExt

CONSTANTS Reviews, KindOf, ContractOf,  \* review -> "entry" | "exit", review -> contract
          Procs,                        \* executing processes
          Held0,                        \* contract -> contracts held at the start
          Qty, Cap, MaxOrders, MaxReprice, MaxFaults

VARIABLES held,    \* the broker: contract -> contracts held
          ord,     \* the broker: review -> its order, with the number of its latest replacement
          rev,     \* review -> [st, qty, seen, expired]
          led,     \* paper_execution_ledger: review -> [st, gen, raw, filled]
          px,      \* process -> [pc, rev, fp, pos, ord, polled, tries]
          late,    \* reviews whose order was sent after their reservation had been released
          missed,  \* reviews whose order filled after it was last looked at
          faults

vars == <<held, ord, rev, led, px, late, missed, faults>>

Contracts == DOMAIN Held0
NoOrder == [st |-> "none", filled |-> 0, gen |-> 0]
NoRow == [st |-> "none", gen |-> 0, raw |-> "none", filled |-> 0]
NoReview == [st |-> "none", qty |-> 0, seen |-> <<>>, expired |-> FALSE]
Idle == [pc |-> "idle", rev |-> 0, fp |-> <<>>, pos |-> <<>>, ord |-> <<>>, polled |-> 0, tries |-> 0]

Init ==
    /\ held = Held0 /\ ord = [r \in Reviews |-> NoOrder] /\ led = [r \in Reviews |-> NoRow]
    /\ rev = [r \in Reviews |-> NoReview] /\ px = [p \in Procs |-> Idle]
    /\ late = {} /\ missed = {} /\ faults = 0

Entries == {r \in Reviews : KindOf[r] = "entry"}
At(p, pc) == px[p].pc = pc
Fault == faults < MaxFaults /\ faults' = faults + 1
Working(o) == o.st = "working"

(* ledgerFragment: the status in the stored answer of the broker is preferred to the row's own. *)
LedgerStatus(row) == IF row.raw = "none" THEN row.st ELSE row.raw
LedgerOpen(r, row) == LedgerStatus(row) \in {"reserved", "submitted", "working", "partial"} /\ row.filled < rev[r].qty

(* brokerFragment *)
BrokerOpen(o) == o.st \in {"working", "canceling"}

(* grouped: one group per order; the larger of what the broker and the ledger say counts. *)
ReservedOf(r, orders, rows) ==
    Max({IF BrokerOpen(orders[r]) THEN rev[r].qty - orders[r].filled ELSE 0,
         IF LedgerOpen(r, rows[r]) THEN rev[r].qty - rows[r].filled ELSE 0})

ActualOf(r, orders, rows) == Max({orders[r].filled, rows[r].filled})

OpenOrders(orders, rows) == {r \in Entries : BrokerOpen(orders[r]) \/ LedgerOpen(r, rows[r])}

(* buildHedgeCapitalEvidence: positions, and fills of contracts that the positions do not show yet. *)
ExistingPremium(pos, orders, rows) ==
    MapThenSumSet(LAMBDA c : pos[c], Contracts)
    + MapThenSumSet(LAMBDA r : IF pos[ContractOf[r]] = 0 THEN ActualOf(r, orders, rows) ELSE 0, Entries)
ReservedPremium(orders, rows) == MapThenSumSet(LAMBDA r : ReservedOf(r, orders, rows), Entries)

(* The fingerprint of the evidence covers positions, entry orders and entry rows of the ledger. *)
Fingerprint(pos, orders, rows) ==
    <<pos, [r \in Entries |-> [st |-> orders[r].st, filled |-> orders[r].filled]],
      [r \in Entries |-> [st |-> LedgerStatus(rows[r]), filled |-> rows[r].filled]]>>

(* hedgeCapitalCapBlockers *)
CapAllows(qty, pos, orders, rows) ==
    /\ ExistingPremium(pos, orders, rows) + ReservedPremium(orders, rows) + qty <= Cap
    /\ Cardinality(OpenOrders(orders, rows)) < MaxOrders

(* recommendHedgeFromEvidence: the premium that is left, nothing while enough orders are open. *)
Budget(pos, orders, rows) ==
    IF Cardinality(OpenOrders(orders, rows)) >= MaxOrders THEN 0
    ELSE Cap - ExistingPremium(pos, orders, rows) - ReservedPremium(orders, rows)

(* protectivePutCandidate: the contracts wanted, as far as the budget goes. *)
Units(pos, orders, rows) == Max({0, Min({Qty, Budget(pos, orders, rows)})})

(* createHedgeExecutionReview *)
Review(n, fingerprint) == [st |-> "reviewed", qty |-> n, seen |-> fingerprint, expired |-> FALSE]

(* persistHedgeExecutionReview *)
Persisted(r, review) == [rev EXCEPT ![r] = review]

(* buildHedgeRecommendation reads the positions with the risk snapshot and the orders afterwards. *)
StartReview(r) ==
    /\ KindOf[r] = "entry" /\ rev[r].st = "none"
    /\ rev' = [rev EXCEPT ![r].st = "building", ![r].seen = held]
    /\ UNCHANGED <<held, ord, led, px, late, missed, faults>>

(* buildAndPersistHedgeReview: without an executable candidate no review is signed. *)
FinishReview(r) ==
    /\ rev[r].st = "building"
    /\ LET n == Units(rev[r].seen, ord, led)
       IN  rev' = Persisted(r, IF n = 0 THEN [NoReview EXCEPT !.st = "refused"]
                               ELSE Review(n, Fingerprint(rev[r].seen, ord, led)))
    /\ UNCHANGED <<held, ord, led, px, late, missed, faults>>

(* buildHedgeExitReview: a review for what is held. *)
ReviewExit(r) ==
    /\ KindOf[r] = "exit" /\ rev[r].st = "none" /\ held[ContractOf[r]] > 0
    /\ rev' = Persisted(r, Review(held[ContractOf[r]], <<>>))
    /\ UNCHANGED <<held, ord, led, px, late, missed, faults>>

(* The five minutes of a review pass. *)
Expire(r) ==
    /\ rev[r].st \in {"reviewed", "consumed"} /\ ~rev[r].expired /\ rev' = [rev EXCEPT ![r].expired = TRUE]
    /\ UNCHANGED <<held, ord, led, px, late, missed, faults>>

(* releaseExpiredHedgeReservations *)
Released == [r \in Reviews |-> IF led[r].st = "reserved" /\ rev[r].expired
                               THEN [led[r] EXCEPT !.st = "released"] ELSE led[r]]

BuyRows(rows) == [r \in Entries |-> rows[r]]

(* readHedgeExecutionReview *)
Readable(r) == rev[r].st = "reviewed" /\ ~rev[r].expired

(* executeReviewedPaperHedge / executeReviewedPaperHedgeExit: the review must verify and be unconsumed. *)
Begin(p, r) ==
    /\ At(p, "idle") /\ Readable(r)
    /\ led' = Released
    /\ px' = [px EXCEPT ![p] = [Idle EXCEPT !.pc = IF KindOf[r] = "entry" THEN "read" ELSE "readPos",
                                            !.rev = r, !.fp = BuyRows(Released)]]
    /\ UNCHANGED <<held, ord, rev, late, missed, faults>>

(* Positions and orders are two requests side by side. *)
ReadPositions(p) ==
    /\ px[p].pc \in {"read", "readPos"}
    /\ px' = [px EXCEPT ![p].pos = held, ![p].pc = IF At(p, "read") THEN "readOrd" ELSE "check"]
    /\ UNCHANGED <<held, ord, rev, led, late, missed, faults>>

ReadOrders(p) ==
    /\ px[p].pc \in {"read", "readOrd"}
    /\ px' = [px EXCEPT ![p].ord = ord, ![p].pc = IF At(p, "read") THEN "readPos" ELSE "check"]
    /\ UNCHANGED <<held, ord, rev, led, late, missed, faults>>

(* reconcileHedgeAccountState: the contract is neither held nor in an order that is not canceled. *)
AccountIsClear(r, pos, orders) ==
    /\ pos[ContractOf[r]] = 0
    /\ \A q \in Entries : ContractOf[q] = ContractOf[r] => orders[q].st \in {"none", "canceled"}
    /\ led[r].st \in {"none", "failed", "released"}

(* verifyHedgeExecutionReview with fresh evidence, the caps, the account. *)
Verified(r, pos, orders) ==
    /\ Fingerprint(pos, orders, led) = rev[r].seen
    /\ CapAllows(rev[r].qty, pos, orders, led)
    /\ AccountIsClear(r, pos, orders)

(* executeReviewedPaperHedgeExit: as many contracts as the review sells are held. *)
ExitAllowed(r, pos) == pos[ContractOf[r]] >= rev[r].qty

Check(p) ==
    /\ At(p, "check")
    /\ LET r == px[p].rev
           ok == IF KindOf[r] = "entry" THEN Verified(r, px[p].pos, px[p].ord)
                 ELSE ExitAllowed(r, px[p].pos)
       IN  px' = [px EXCEPT ![p] = IF ok THEN [@ EXCEPT !.pc = "reserve", !.pos = <<>>, !.ord = <<>>] ELSE Idle]
    /\ UNCHANGED <<held, ord, rev, led, late, missed, faults>>

(* validatePaperHedgeOptionOrder and the price drift refuse the fresh quote of an entry. *)
QuoteRefused(p) ==
    /\ At(p, "reserve") /\ KindOf[px[p].rev] = "entry" /\ px' = [px EXCEPT ![p] = Idle]
    /\ UNCHANGED <<held, ord, rev, led, late, missed, faults>>

MayReserve_Unguarded(p, r) == led[r].st = "none" /\ rev[r].st = "reviewed"

(* reservePaperExecutionAttempt: one immediate transaction; the buy rows must be the ones the caps were checked with. *)
MayReserve(p, r) ==
    /\ led[r].st = "none"
    /\ KindOf[r] = "entry" => BuyRows(led) = px[p].fp
    /\ rev[r].st = "reviewed"

Reserve(p) ==
    /\ At(p, "reserve")
    /\ LET r == px[p].rev
       IN  \/ /\ MayReserve(p, r)
              /\ led' = [led EXCEPT ![r] = [NoRow EXCEPT !.st = "reserved"]]
              /\ rev' = [rev EXCEPT ![r].st = "consumed"]
              /\ px' = [px EXCEPT ![p].pc = "post", ![p].fp = <<>>]
           \/ /\ ~MayReserve(p, r) /\ px' = [px EXCEPT ![p] = Idle] /\ UNCHANGED <<led, rev>>
    /\ UNCHANGED <<held, ord, late, missed, faults>>

(* The projection refuses the intent: the row is released. *)
Refused(p) ==
    /\ At(p, "post") /\ Fault /\ led' = [led EXCEPT ![px[p].rev].st = "released"]
    /\ px' = [px EXCEPT ![p] = Idle]
    /\ UNCHANGED <<held, ord, rev, late, missed>>

Available(c) ==
    held[c] - MapThenSumSet(LAMBDA r : IF KindOf[r] = "exit" /\ ContractOf[r] = c /\ BrokerOpen(ord[r])
                                       THEN rev[r].qty - ord[r].filled ELSE 0, Reviews)

(* The answer of the POST is stored with the row. *)
SubmittedRow == [st |-> "submitted", gen |-> 1, raw |-> "working", filled |-> 0]

(* submitPaperOrder: accepted, refused, or accepted with the answer lost; a thrown error marks the row failed. *)
Post(p) ==
    /\ At(p, "post")
    /\ LET r == px[p].rev
           accepted == KindOf[r] = "entry" \/ Available(ContractOf[r]) >= rev[r].qty
       IN  /\ late' = IF led[r].st = "released" THEN late \cup {r} ELSE late
           /\ \/ /\ accepted /\ ord' = [ord EXCEPT ![r] = [st |-> "working", filled |-> 0, gen |-> 1]]
                 /\ \/ /\ led' = [led EXCEPT ![r] = SubmittedRow]
                       /\ px' = [px EXCEPT ![p].pc = "poll"] /\ UNCHANGED faults
                    \/ /\ Fault /\ led' = [led EXCEPT ![r].st = "failed"] /\ px' = [px EXCEPT ![p] = Idle]
              \/ /\ ~accepted /\ led' = [led EXCEPT ![r].st = "failed"] /\ px' = [px EXCEPT ![p] = Idle]
                 /\ UNCHANGED <<ord, faults>>
    /\ UNCHANGED <<held, rev, missed>>

(* The order an executor looks at is the latest replacement it knows of. *)
Known(r) == IF led[r].gen = ord[r].gen THEN ord[r] ELSE [st |-> "replaced", filled |-> 0, gen |-> led[r].gen]

(* getPaperOrder: terminal answers end the execution; otherwise the price is improved or the order canceled. *)
Poll(p) ==
    /\ At(p, "poll")
    /\ LET r == px[p].rev
           o == Known(r)
       IN  \/ /\ o.st \in {"filled", "canceled"}
              /\ led' = [led EXCEPT ![r].st = o.st, ![r].raw = o.st, ![r].filled = o.filled]
              /\ px' = [px EXCEPT ![p] = Idle] /\ UNCHANGED missed
           \/ /\ o.st \notin {"filled", "canceled"} /\ UNCHANGED led
              /\ missed' = missed \ {r}
              /\ \E next \in {"cancel"} \cup (IF KindOf[r] = "entry" /\ px[p].tries < MaxReprice THEN {"replace"} ELSE {}) :
                     px' = [px EXCEPT ![p].polled = o.filled, ![p].pc = next]
    /\ UNCHANGED <<held, ord, rev, late, faults>>

FollowReplacement_Forgotten(r) == led[r]

(* The row follows the order to its replacement. *)
FollowReplacement(r) == [led[r] EXCEPT !.st = "submitted", !.gen = ord[r].gen + 1, !.raw = "working"]

(* replacePaperOrder: the broker replaces an order that has no fill; an error leaves the function, the row as it is. *)
Replace(p) ==
    /\ At(p, "replace")
    /\ LET r == px[p].rev
       IN  \/ /\ Working(Known(r)) /\ ord[r].filled = 0
              /\ ord' = [ord EXCEPT ![r].gen = @ + 1]
              /\ \/ /\ led' = [led EXCEPT ![r] = FollowReplacement(r)]
                    /\ px' = [px EXCEPT ![p].pc = "poll", ![p].tries = @ + 1] /\ UNCHANGED faults
                 \/ Fault /\ px' = [px EXCEPT ![p] = Idle] /\ UNCHANGED led
           \/ /\ ~(Working(Known(r)) /\ ord[r].filled = 0)
              /\ px' = [px EXCEPT ![p] = Idle] /\ UNCHANGED <<ord, led, faults>>
    /\ UNCHANGED <<held, rev, late, missed>>

CanceledStatus_NoFill(polled) == "canceled"

(* The final status is taken from the answer before the cancellation. *)
CanceledStatus(polled) == IF polled > 0 THEN "partial" ELSE "canceled"

(* A cancellation the broker refuses leaves executeReviewedPaperHedge; the exit marks its row. *)
AfterFailedCancel(r) == IF KindOf[r] = "exit" THEN [led[r] EXCEPT !.st = "failed"] ELSE led[r]

Cancel(p) ==
    /\ At(p, "cancel") /\ px' = [px EXCEPT ![p] = Idle]
    /\ LET r == px[p].rev
       IN  \/ /\ Working(Known(r)) /\ ord' = [ord EXCEPT ![r].st = "canceling"]
              /\ led' = [led EXCEPT ![r].st = CanceledStatus(px[p].polled), ![r].raw = "working", ![r].filled = px[p].polled]
           \/ /\ ~Working(Known(r)) /\ UNCHANGED ord
              /\ led' = [led EXCEPT ![r] = AfterFailedCancel(r)]
    /\ UNCHANGED <<held, rev, late, missed, faults>>

(* The process dies, or a request it makes fails. *)
Crash(p) ==
    /\ ~At(p, "idle") /\ Fault /\ px' = [px EXCEPT ![p] = Idle]
    /\ UNCHANGED <<held, ord, rev, led, late, missed>>

(* The broker fills contracts one by one and carries out cancellations. *)
Fill(r) ==
    /\ BrokerOpen(ord[r])
    /\ ord' = [ord EXCEPT ![r].filled = @ + 1, ![r].st = IF ord[r].filled + 1 = rev[r].qty THEN "filled" ELSE @]
    /\ held' = [held EXCEPT ![ContractOf[r]] = IF KindOf[r] = "entry" THEN @ + 1 ELSE @ - 1]
    /\ missed' = missed \cup {r}
    /\ UNCHANGED <<rev, led, px, late, faults>>

Canceled(r) ==
    /\ ord[r].st = "canceling" /\ ord' = [ord EXCEPT ![r].st = "canceled"]
    /\ UNCHANGED <<held, rev, led, px, late, missed, faults>>

Executor(p) ==
    \/ (\E r \in Reviews : Begin(p, r)) \/ ReadPositions(p) \/ ReadOrders(p) \/ Check(p) \/ QuoteRefused(p) \/ Reserve(p)
    \/ Refused(p) \/ Post(p) \/ Poll(p) \/ Replace(p) \/ Cancel(p) \/ Crash(p)

Next ==
    \/ \E p \in Procs : Executor(p)
    \/ \E r \in Reviews : StartReview(r) \/ FinishReview(r) \/ ReviewExit(r) \/ Expire(r) \/ Fill(r) \/ Canceled(r)

TypeOK ==
    /\ \A c \in Contracts : held[c] >= 0
    /\ \A r \in Reviews : rev[r].qty <= Qty /\ ord[r].filled <= rev[r].qty /\ led[r].gen <= ord[r].gen

(* The premium held and on order stays within the cap, and so does the number of orders, although each executor   *)
(* checks evidence that it read earlier and another process may reserve, send or lose an order in the meantime;    *)
(* unless an order is sent after its own reservation has expired.                                                *)
WithinCaps ==
    late = {} =>
        /\ MapThenSumSet(LAMBDA c : held[c], Contracts)
           + MapThenSumSet(LAMBDA r : IF BrokerOpen(ord[r]) THEN rev[r].qty - ord[r].filled ELSE 0, Entries) <= Cap
        /\ Cardinality({r \in Entries : Working(ord[r])}) <= MaxOrders

(* An order is never left to itself by mistake: its executor looks at the latest replacement, and the row of an *)
(* order that still works is not final.                                                                         *)
OrderIsAttended ==
    /\ \A p \in Procs : px[p].pc \in {"poll", "replace", "cancel"} => led[px[p].rev].gen = ord[px[p].rev].gen
    /\ \A r \in Reviews : led[r].st \in {"filled", "canceled", "partial"} => ~Working(ord[r])

(* A canceled row means that nothing was bought or sold, unless a fill came after the last look at the order. *)
CanceledMeansNoFill == \A r \in Reviews : led[r].st = "canceled" /\ r \notin missed => ord[r].filled = 0
=============================================================================
