----------------------------- MODULE OutcomeRecord -----------------------------
(* buildOutcomeLearningRecord on rows that postgresOutcomeLearningService     *)
(* reads one relation after the other while trading goes on. All candidates   *)
(* trade one symbol, so PostgreSQL has one position row, which the            *)
(* reconciliation closes and later opens again for another trade. Every       *)
(* candidate has one arbitration decision and every intent its review.        *)
EXTENDS Integers, FiniteSets, FiniteSetsExt

CONSTANTS Entries, CandOf,  \* entry intents, entry -> candidate
          Qty,              \* entry -> quantity
          Exits,            \* closing intents
          MaxTime

VARIABLES clock,
          broker,   \* order -> [status, filled]
          order,    \* orders and order_intents: order -> [status, filled, at]
          exitCand, \* exit -> candidate_id of its intent
          size,     \* exit -> quantity
          pos,      \* the positions row [status, cand, qty, opening, closing, closedAt]
          snap,     \* account snapshot of a reconciliation [pc, held, at]
          sold,     \* exit -> entries whose units it sold
          read,     \* the refresh [pc, todo, cand, reviews, intents, orders, pos, hasPos]
          rec       \* its record [order, loaded, exit, pos, status, return]

vars == <<clock, broker, order, exitCand, size, pos, snap, sold, read, rec>>

None == 0
Orders == Entries \cup Exits
NoPos == [status |-> "none", cand |-> None, qty |-> 0, opening |-> None, closing |-> None, closedAt |-> 0]
NoRead == [pc |-> "idle", todo |-> {}, cand |-> None, reviews |-> {}, intents |-> {}, orders |-> <<>>, pos |-> NoPos, hasPos |-> FALSE]
NoRec == [order |-> None, loaded |-> None, exit |-> None, pos |-> FALSE, status |-> "none", return |-> FALSE]

Init ==
    /\ clock = 0 /\ snap = [pc |-> "idle", held |-> 0, at |-> 0] /\ pos = NoPos /\ read = NoRead /\ rec = NoRec
    /\ broker = [o \in Orders |-> [status |-> "none", filled |-> 0]]
    /\ order = [o \in Orders |-> [status |-> "none", filled |-> 0, at |-> 0]]
    /\ exitCand = [x \in Exits |-> None] /\ size = [x \in Exits |-> 0] /\ sold = [x \in Exits |-> {}]

Bought(e) == broker[e].filled
SoldSoFar == MapThenSumSet(LAMBDA x : broker[x].filled, Exits)
Held == MapThenSumSet(Bought, Entries) - SoldSoFar
Unsold(e) == MapThenSumSet(LAMBDA x : IF e \in sold[x] THEN broker[x].filled ELSE 0, Exits) < broker[e].filled
SizeOf(o) == IF o \in Entries THEN Qty[o] ELSE size[o]
CandidateOf(o) == IF o \in Entries THEN CandOf[o] ELSE exitCand[o]
Live(o) == order[o].status \in {"intent", "new", "partially_filled"}
Tick == clock < MaxTime /\ clock' = clock + 1

-----------------------------------------------------------------------------
(* The review workflow makes an entry: its symbol is free, and no earlier entry of its candidate bought anything. *)
MakeEntry(e) ==
    /\ order[e].status = "none" /\ Held = 0 /\ pos.status # "open" /\ \A o \in Orders : ~Live(o)
    /\ \A f \in Entries : CandOf[f] = CandOf[e] => broker[f].filled = 0 /\ (f < e => order[f].status # "none")
    /\ order' = [order EXCEPT ![e].status = "intent"]
    /\ UNCHANGED <<clock, broker, exitCand, size, pos, snap, sold, read, rec>>

(* The exit review closes the position row: the intent carries its candidate and its quantity. *)
MakeExit(x) ==
    /\ order[x].status = "none" /\ pos.status = "open" /\ pos.cand # None /\ \A o \in Orders : ~Live(o) /\ (o \in Exits /\ o < x => order[o].status # "none")
    /\ order' = [order EXCEPT ![x].status = "intent"]
    /\ exitCand' = [exitCand EXCEPT ![x] = pos.cand] /\ size' = [size EXCEPT ![x] = pos.qty]
    /\ UNCHANGED <<clock, broker, pos, snap, sold, read, rec>>

Submit(o) ==
    /\ order[o].status = "intent"
    /\ order' = [order EXCEPT ![o].status = "new"] /\ broker' = [broker EXCEPT ![o].status = "new"]
    /\ UNCHANGED <<clock, exitCand, size, pos, snap, sold, read, rec>>

BrokerFills(o) ==
    /\ broker[o].status \in {"new", "partially_filled"} /\ (o \in Exits => Held > 0)
    /\ LET n == broker[o].filled + 1 IN
       broker' = [broker EXCEPT ![o] = [status |-> IF n = SizeOf(o) THEN "filled" ELSE "partially_filled", filled |-> n]]
    /\ sold' = IF o \in Entries THEN sold
               ELSE [sold EXCEPT ![o] = @ \cup {CHOOSE e \in Entries : Unsold(e)}]
    /\ UNCHANGED <<clock, order, exitCand, size, pos, snap, read, rec>>

BrokerCancels(o) ==
    /\ broker[o].status \in {"new", "partially_filled"} /\ broker' = [broker EXCEPT ![o].status = "canceled"]
    /\ UNCHANGED <<clock, order, exitCand, size, pos, snap, sold, read, rec>>

(* The reconciliation of the orders. *)
SyncOrder(o) ==
    /\ broker[o].status # "none" /\ <<order[o].status, order[o].filled>> # <<broker[o].status, broker[o].filled>> /\ Tick
    /\ order' = [order EXCEPT ![o] = [status |-> broker[o].status, filled |-> broker[o].filled, at |-> clock + 1]]
    /\ UNCHANGED <<broker, exitCand, size, pos, snap, sold, read, rec>>

(* The reconciliation of the positions: the broker is read before anything is written. *)
Capture ==
    /\ snap.pc = "idle" /\ (Held > 0) # (pos.status = "open")
    /\ snap' = [pc |-> "captured", held |-> Held, at |-> clock]
    /\ UNCHANGED <<clock, broker, order, exitCand, size, pos, sold, read, rec>>

(* The order with the latest row, if there is one. *)
Latest(S) == IF S = {} THEN None ELSE CHOOSE o \in S : \A p \in S : order[p].at < order[o].at \/ (order[p].at = order[o].at /\ p <= o)

Lineage == Latest({e \in Entries : /\ order[e].status \in {"filled", "partially_filled"} /\ order[e].filled = snap.held
                                   /\ order[e].at <= snap.at /\ order[e].at > pos.closedAt})

ClosePosition ==
    /\ snap.pc = "captured" /\ snap.held = 0 /\ snap' = [snap EXCEPT !.pc = "idle"]
    /\ pos' = IF pos.status # "open" THEN pos
              ELSE [pos EXCEPT !.status = "closed", !.qty = 0, !.closedAt = snap.at,
                               !.closing = IF @ # None THEN @ ELSE Latest({x \in Exits : order[x].status = "filled"})]
    /\ UNCHANGED <<clock, broker, order, exitCand, size, sold, read, rec>>

(* An open row keeps what it knows, a closed one is opened for the new trade; the closing order is never cleared. *)
UpsertPosition ==
    /\ snap.pc = "captured" /\ snap.held > 0 /\ snap' = [snap EXCEPT !.pc = "idle"]
    /\ LET e == Lineage
           c == IF e = None THEN None ELSE CandOf[e]
           keep == pos.status = "open"
       IN  pos' = [pos EXCEPT !.status = "open", !.qty = snap.held, !.closedAt = 0,
                              !.cand = IF keep /\ @ # None THEN @ ELSE c, !.opening = IF keep /\ @ # None THEN @ ELSE e]
    /\ UNCHANGED <<clock, broker, order, exitCand, size, sold, read, rec>>

-----------------------------------------------------------------------------
(* loadSourceState, for one of the candidates. *)
Refresh(c) ==
    /\ read.pc = "idle" /\ read' = [NoRead EXCEPT !.pc = "parallel", !.todo = {"reviews", "intents", "positions"}, !.cand = c]
    /\ UNCHANGED <<clock, broker, order, exitCand, size, pos, snap, sold, rec>>

Intents(c) == {o \in Orders : order[o].status # "none" /\ CandidateOf(o) = c}

(* Three of the parallel queries of the pool. *)
ReadReviews ==
    /\ "reviews" \in read.todo /\ read' = [read EXCEPT !.todo = @ \ {"reviews"}, !.reviews = Intents(read.cand)]
    /\ UNCHANGED <<clock, broker, order, exitCand, size, pos, snap, sold, rec>>

ReadIntents ==
    /\ "intents" \in read.todo /\ read' = [read EXCEPT !.todo = @ \ {"intents"}, !.intents = Intents(read.cand)]
    /\ UNCHANGED <<clock, broker, order, exitCand, size, pos, snap, sold, rec>>

ReadPositions ==
    /\ "positions" \in read.todo
    /\ read' = [read EXCEPT !.todo = @ \ {"positions"}, !.pos = pos, !.hasPos = pos.status # "none" /\ pos.cand = read.cand]
    /\ UNCHANGED <<clock, broker, order, exitCand, size, pos, snap, sold, rec>>

\* The orders of every intent, not only of those that were read.
ReadOrders_All ==
    /\ read.pc = "parallel" /\ read.todo = {}
    /\ read' = [read EXCEPT !.pc = "build", !.orders = [o \in {i \in Orders : order[i].status \notin {"none", "intent"}} |-> order[o]]]
    /\ UNCHANGED <<clock, broker, order, exitCand, size, pos, snap, sold, rec>>

ReadOrders ==
    /\ read.pc = "parallel" /\ read.todo = {}
    /\ read' = [read EXCEPT !.pc = "build", !.orders = [o \in {i \in read.intents : order[i].status # "intent"} |-> order[o]]]
    /\ UNCHANGED <<clock, broker, order, exitCand, size, pos, snap, sold, rec>>

EntryOrders(r) == (DOMAIN r.orders) \cap Entries

\* A position decides only when there is one entry order.
SourceEntryOrder_NoPosition(r) == IF Cardinality(EntryOrders(r)) = 1 THEN CHOOSE o \in EntryOrders(r) : TRUE ELSE None

(* selectSourceEntryOrder: the service loads market evidence for this order. *)
SourceEntryOrder(r) ==
    IF r.hasPos /\ r.pos.opening \in EntryOrders(r) THEN r.pos.opening
    ELSE IF Cardinality(EntryOrders(r)) = 1 THEN CHOOSE o \in EntryOrders(r) : TRUE ELSE None

-----------------------------------------------------------------------------
(* buildOutcomeLearningRecord: the order and the position of the record, with the flags raised on the way. *)
Linked(r) == r.hasPos /\ r.pos.opening \in EntryOrders(r)

Order(r) == IF Linked(r) THEN r.pos.opening
            ELSE IF Cardinality(EntryOrders(r)) = 1 THEN CHOOSE o \in EntryOrders(r) : TRUE ELSE None

HasFill(r) == Order(r) # None /\ r.orders[Order(r)].filled > 0

HasPosition(r) == r.hasPos /\ (Linked(r) \/ (HasFill(r) /\ r.pos.opening = None))

ReviewFlags(r) == IF Order(r) # None /\ Order(r) \notin r.reviews THEN {"missing"} ELSE {}

EntryFlags(r) ==
    LET o == Order(r)
        others == r.intents \cap (Entries \ {o})
        orderless == r.intents \cap Entries
    IN  IF o # None
        THEN ReviewFlags(r) \cup (IF others # {} \/ (r.reviews \cap Entries) \ {o} # {} THEN {"partial"} ELSE {})
             \cup (IF HasFill(r) /\ ~Linked(r)
                   THEN IF HasPosition(r) THEN {"partial"} ELSE {"missing"} ELSE {})
             \cup (IF r.orders[o].filled = 0 /\ r.orders[o].status # "canceled" THEN {"missing"} ELSE {})
        ELSE IF Cardinality(EntryOrders(r)) > 1 THEN {"ambiguous"}
        ELSE IF Cardinality(orderless) > 1 THEN {"ambiguous"} ELSE {"missing"}

ExitOrders(r) == (DOMAIN r.orders) \cap Exits

\* A closing order the position does not know yet is taken from the intents.
Exit_ByParent(r) ==
    IF HasPosition(r) /\ Cardinality(ExitOrders(r)) = 1 THEN CHOOSE x \in ExitOrders(r) : TRUE ELSE None

Exit(r) ==
    IF ~HasPosition(r) THEN None
    ELSE IF r.pos.closing # None THEN IF r.pos.closing \in DOMAIN r.orders THEN r.pos.closing ELSE None
    ELSE IF Cardinality(ExitOrders(r)) = 1 THEN CHOOSE x \in ExitOrders(r) : TRUE ELSE None

ExitFlags(r) ==
    IF ~HasPosition(r) THEN {}
    ELSE (IF r.pos.closing # None THEN IF Exit(r) = None THEN {"missing"} ELSE {}
          ELSE IF r.pos.status # "closed" THEN {}
          ELSE IF Cardinality(ExitOrders(r)) > 1 THEN {"ambiguous"}
          ELSE IF Exit(r) # None THEN {"partial"}
          ELSE IF Cardinality(r.intents \cap Exits) > 1 THEN {"ambiguous"} ELSE {"missing"})
         \cup (IF Exit(r) # None /\ Exit(r) \notin r.reviews /\ r.pos.status = "closed" THEN {"missing"} ELSE {})

RealizedReturn(r) ==
    /\ HasPosition(r) /\ r.pos.status = "closed" /\ r.pos.opening = Order(r) /\ Exit(r) # None /\ r.pos.closing = Exit(r)
    /\ r.orders[Order(r)].filled > 0 /\ r.orders[Order(r)].filled = r.orders[Exit(r)].filled

Status(flags) ==
    IF "ambiguous" \in flags THEN "ambiguous" ELSE IF "missing" \in flags THEN "missing"
    ELSE IF "partial" \in flags THEN "partial" ELSE "exact"

Build ==
    /\ read.pc = "build" /\ read' = [read EXCEPT !.pc = "done"]
    /\ rec' = [order |-> Order(read), loaded |-> SourceEntryOrder(read), exit |-> Exit(read), pos |-> HasPosition(read),
               status |-> Status(EntryFlags(read) \cup ExitFlags(read)), return |-> RealizedReturn(read)]
    /\ UNCHANGED <<clock, broker, order, exitCand, size, pos, snap, sold>>

Next ==
    \/ \E e \in Entries : MakeEntry(e)
    \/ \E x \in Exits : MakeExit(x)
    \/ \E o \in Orders : Submit(o) \/ BrokerFills(o) \/ BrokerCancels(o) \/ SyncOrder(o)
    \/ Capture \/ ClosePosition \/ UpsertPosition
    \/ \E c \in {CandOf[e] : e \in Entries} : Refresh(c)
    \/ ReadReviews \/ ReadIntents \/ ReadPositions \/ ReadOrders \/ Build

Spec == Init /\ [][Next]_vars

-----------------------------------------------------------------------------
TypeOK ==
    /\ clock \in 0..MaxTime /\ pos.opening \in Entries \cup {None} /\ pos.closing \in Exits \cup {None}
    /\ rec.status \in {"none", "ambiguous", "missing", "partial", "exact"} /\ read.pc \in {"idle", "parallel", "build", "done"}

(* A realized return pairs an entry with the one exit that sold all of it and nothing else, although the rows are read at different times and the position row serves several trades. *)
ReturnIsOfTheTrade ==
    rec.return => /\ broker[rec.order].filled = broker[rec.exit].filled
                  /\ sold[rec.exit] = {rec.order}

(* The market evidence that was loaded is that of the order the record is about: the service and the model choose alike. *)
EvidenceIsOfTheOrder == rec.status # "none" => rec.loaded = rec.order

(* An exact record of a closed position names the order that closed it, and that order sold what the entry bought or the record claims no return. *)
ExactNamesTheExit ==
    rec.status = "exact" /\ rec.pos /\ read.pos.status = "closed"
       => rec.exit # None /\ rec.order \in sold[rec.exit]
=============================================================================
