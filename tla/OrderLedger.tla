----------------------------- MODULE OrderLedger -----------------------------
(***************************************************************************)
(* The state that the order workers share: the tables of the execution     *)
(* ledger, the broker, and one process per worker.                         *)
(*                                                                         *)
(* A worker is a scheduled command that holds the lease of its job:        *)
(* paper:execute:reviewed, paper:exit:execute, zero-dte:reconcile,         *)
(* paper:order:cancel or system:recover.                                   *)
(* A transaction or a single statement is one step, a broker call is one   *)
(* step, and anything a worker read earlier is kept in its process record, *)
(* because it may be stale by the time it is used.                         *)
(*                                                                         *)
(* Wall-clock time is reduced to two sets that only grow: "lapsed", the    *)
(* intents whose review, confirmation and reservation have expired, and    *)
(* "aged", the intents whose submission attempt is older than              *)
(* BROKER_ABSENCE_TERMINAL_AGE_MS.  Workers use the clock they read when   *)
(* they started, so they keep a copy of the set as it was then.            *)
(***************************************************************************)
EXTENDS TradeLifecycle, FiniteSetsExt

CONSTANTS
    Entries, Exits,         \* order intents of entry and of exit reviews
    Executors,              \* runs of paper:execute:reviewed (entries)
    ExitExecutors,          \* runs of paper:exit:execute
    Reconcilers,            \* runs of zero-dte:reconcile
    Cancellers,             \* runs of paper:order:cancel
    Recoverers,             \* runs of system:recover
    NoIntent,               \* "no intent" in a process record
    Qty,                    \* ordered quantity
    Amount,                 \* max_risk, the amount of a reservation
    Allocation,             \* allocation_amount of the strategy
    AbsenceObservations,    \* BROKER_ABSENCE_TERMINAL_OBSERVATIONS
    MaxRetries,             \* ALPACA_MAX_RETRIES
    MaxFaults               \* bound on crashes, lost leases, timeouts and failed statements

Intents == Entries \cup Exits
Workers == Executors \cup ExitExecutors \cup Reconcilers \cup Cancellers \cup Recoverers

ASSUME SetsAssumption ==
    /\ Entries \cap Exits = {}
    /\ IsFiniteSet(Entries) /\ IsFiniteSet(Exits)
    /\ NoIntent \notin Intents
ASSUME QuantitiesAssumption ==
    /\ Qty \in Nat \ {0} /\ Amount \in Nat \ {0} /\ Allocation \in Nat
    /\ AbsenceObservations \in Nat \ {0} /\ MaxRetries \in Nat /\ MaxFaults \in Nat

VARIABLES
    intent,         \* order_intents: status and lifecycle_state
    auth,           \* status of the execution review and of the confirmation
    res,            \* buying_power_reservations: status, amount; terminal transition
    alloc,          \* strategy_allocations: reserved_amount, deployed_amount
    order,          \* orders: status and filled_quantity
    attempted,      \* intents with an order_submission_attempt event
    absences,       \* number of order_submission_absence events
    recorded,       \* idempotency keys of the lifecycle transitions
    lapsed,         \* intents whose authorizations have expired
    aged,           \* intents whose attempt is old enough to be given up
    broker,         \* the orders at Alpaca
    proc,           \* the worker processes
    calls,          \* history: calls of submitOrder
    deletes,        \* history: calls of cancelOrder
    faults          \* faults that may still happen

ledger == <<intent, auth, res, alloc, order, attempted, absences, recorded>>
clocks == <<lapsed, aged>>
history == <<calls, deletes>>
vars == <<ledger, clocks, broker, proc, history, faults>>

TypeOf(i) == IF i \in Entries THEN "entry" ELSE "exit"

Job(w) ==
    CASE w \in Executors -> "paper-execution"
      [] w \in ExitExecutors -> "paper-exit"
      [] w \in Reconcilers \cup Cancellers -> "reconciliation"
      [] w \in Recoverers -> "autonomous-recovery"

-----------------------------------------------------------------------------
(* Types *)

IntentStatuses == {"created", "ready_for_submission", "submission_pending", "submitted",
                   "ambiguous", "reconciled", "failed", "cancelled"}
OrderStatuses == {"none", "new", "partially_filled", "filled", "canceled"}
Working == {"new", "partially_filled"}

(* An order as Alpaca or the orders table reports it. *)
NoOrder == [status |-> "none", filled |-> 0]
Report == [status : OrderStatuses, filled : 0..Qty]

(* What targetsSql returns about an intent. *)
Snapshot == [status : IntentStatuses, life : States, prior : 0..Qty]
NoSnapshot == [i \in Intents |->
                  [status |-> "created", life |-> "candidate_created", prior |-> 0]]

Idle == [pc |-> "idle", i |-> NoIntent, cur |-> NoIntent, fence |-> "held", seen |-> {},
         todo |-> {}, snap |-> NoSnapshot, resp |-> NoOrder, got |-> NoOrder,
         left |-> 0, err |-> FALSE]

ProgramCounters ==
    {"idle", "persist", "promote", "claim", "claimed", "attempt", "release", "submit",
     "post", "record", "markFailed", "markAmbiguous", "lookup", "receipt",
     "list", "next", "fetch", "observe", "settle", "absence", "sync",
     "stale", "staleLookup", "staleWrite", "reservations", "reviews", "confirmations",
     "createdIntents",
     "target", "before", "request", "claimCancel", "delete", "poll"}

Process == [pc : ProgramCounters, i : Intents \cup {NoIntent}, cur : Intents \cup {NoIntent},
            fence : {"held", "lapsed", "lost"}, seen : SUBSET Intents,
            todo : SUBSET Intents, snap : [Intents -> Snapshot], resp : Report,
            got : Report, left : Nat, err : BOOLEAN]

LedgerTypeOK ==
    /\ intent \in [Intents -> [status : IntentStatuses, life : States]]
    /\ auth \in [Intents -> [review : {"valid", "expired", "consumed"},
                             confirmation : {"none", "valid", "expired", "consumed"}]]
    /\ res \in [Intents -> [status : {"none", "active", "committed", "released", "expired"},
                            amount : Nat,
                            terminal : {"none", "filled", "cancelled", "stale"}]]
    /\ alloc \in [reserved : Nat, deployed : Nat]
    /\ order \in [Intents -> Report]
    /\ attempted \subseteq Intents
    /\ absences \in [Intents -> 0..AbsenceObservations]
    /\ recorded \in [Intents -> SUBSET (States \X (0..Cardinality(States)))]

TypeOK ==
    /\ LedgerTypeOK
    /\ lapsed \subseteq Intents /\ aged \subseteq Intents
    /\ broker \in [Intents -> [status : OrderStatuses \cup {"inflight"}, filled : 0..Qty]]
    /\ proc \in [Workers -> Process]
    /\ calls \in [Intents -> Nat] /\ deletes \in [Intents -> Nat]
    /\ faults \in 0..MaxFaults

(* A reviewed entry waits for its confirmation; an exit is inserted with   *)
(* its confirmation, ready to be submitted, and has no reservation.        *)
Init ==
    /\ intent = [i \in Intents |->
                    IF i \in Entries
                    THEN [status |-> "created", life |-> "review_created"]
                    ELSE [status |-> "ready_for_submission",
                          life |-> "exit_ready_for_submission"]]
    /\ auth = [i \in Intents |->
                  [review |-> "valid",
                   confirmation |-> IF i \in Entries THEN "none" ELSE "valid"]]
    /\ res = [i \in Intents |-> [status |-> "none", amount |-> 0, terminal |-> "none"]]
    /\ alloc = [reserved |-> 0, deployed |-> 0]
    /\ order = [i \in Intents |-> NoOrder]
    /\ attempted = {}
    /\ absences = [i \in Intents |-> 0]
    /\ recorded = [i \in Intents |-> {}]
    /\ lapsed = {} /\ aged = {}
    /\ broker = [i \in Intents |-> NoOrder]
    /\ proc = [w \in Workers |-> Idle]
    /\ calls = [i \in Intents |-> 0]
    /\ deletes = [i \in Intents |-> 0]
    /\ faults = MaxFaults

-----------------------------------------------------------------------------
(* Processes and fences *)

(* A process record moves on.  A fenced write that had begun when the      *)
(* lease was lost may still commit; the step after it may not.             *)
Goto(w, p) == proc' = [proc EXCEPT ![w] =
                  [p EXCEPT !.fence = IF @ = "lapsed" THEN "lost" ELSE @]]

At(w, pc) == proc[w].pc = pc
To(w, pc) == [proc[w] EXCEPT !.pc = pc]
End(w) == proc' = [proc EXCEPT ![w] = Idle]

(* The fence predicate of a write holds, and the write is committed. *)
Commits(w) == proc[w].fence # "lost" /\ UNCHANGED faults

(* The fence predicate selects no row, or the statement or its COMMIT fails. *)
Fails(w) ==
    \/ proc[w].fence = "lost" /\ UNCHANGED faults
    \/ proc[w].fence # "lost" /\ faults > 0 /\ faults' = faults - 1

(* COMMIT takes effect, but its answer is lost and the caller sees an error. *)
CommitLost(w) == proc[w].fence # "lost" /\ faults > 0 /\ faults' = faults - 1

FenceHeld(w) == proc[w].fence = "held" /\ UNCHANGED faults

(* A command starts when it gets the lease of its job. *)
Free(w) ==
    /\ At(w, "idle")
    /\ \A v \in Workers \ {w} :
          Job(v) = Job(w) => At(v, "idle") \/ proc[v].fence # "held"

(* The process dies; its lease runs out. *)
Crash(w) ==
    /\ ~At(w, "idle")
    /\ faults > 0 /\ faults' = faults - 1
    /\ End(w)
    /\ UNCHANGED <<ledger, clocks, broker, history>>

WritePoints == {"persist", "promote", "claim", "attempt", "release", "record", "markFailed",
                "markAmbiguous", "receipt", "observe", "settle", "absence", "sync",
                "staleWrite", "reservations", "reviews", "confirmations", "createdIntents",
                "request", "claimCancel"}

(* The lease is lost; a write that is under way may still commit. *)
LoseFence(w) ==
    /\ ~At(w, "idle") /\ proc[w].fence = "held"
    /\ faults > 0 /\ faults' = faults - 1
    /\ proc' = [proc EXCEPT ![w].fence =
                   IF proc[w].pc \in WritePoints THEN "lapsed" ELSE "lost"]
    /\ UNCHANGED <<ledger, clocks, broker, history>>

-----------------------------------------------------------------------------
(* The broker and the clock *)

Visible(i) == broker[i].status \notin {"none", "inflight"}

(* A request that the client gave up on reaches the broker after all, or   *)
(* is lost for good.                                                       *)
Arrive(i) ==
    /\ broker[i].status = "inflight"
    /\ \E s \in {"new", "none"} : broker' = [broker EXCEPT ![i].status = s]
    /\ UNCHANGED <<ledger, clocks, proc, history, faults>>

Fill(i) ==
    /\ broker[i].status \in Working
    /\ \E n \in (broker[i].filled + 1)..Qty :
          broker' = [broker EXCEPT ![i] =
                        [status |-> IF n = Qty THEN "filled" ELSE "partially_filled",
                         filled |-> n]]
    /\ UNCHANGED <<ledger, clocks, proc, history, faults>>

(* canceled, rejected and expired are treated alike by the ledger. *)
BrokerCancels(i) ==
    /\ broker[i].status \in Working
    /\ broker' = [broker EXCEPT ![i].status = "canceled"]
    /\ UNCHANGED <<ledger, clocks, proc, history, faults>>

Lapse(i) ==
    /\ lapsed' = lapsed \cup {i} /\ i \notin lapsed
    /\ UNCHANGED <<ledger, aged, broker, proc, history, faults>>

(* An executor between its claim and the end of its broker call. *)
InHand(i) == \E w \in Workers : /\ proc[w].i = i
                                /\ proc[w].pc \in {"claimed", "attempt", "release", "submit", "post"}

(* The attempt becomes old.  Assumption: a run and its requests are over   *)
(* before that (timeouts of seconds against 120 seconds).                  *)
Age(i) ==
    /\ i \notin aged
    /\ intent[i].status \in {"submission_pending", "ambiguous"}
    /\ ~InHand(i) /\ broker[i].status # "inflight"
    /\ aged' = aged \cup {i}
    /\ UNCHANGED <<ledger, lapsed, broker, proc, history, faults>>

Environment ==
    \/ \E i \in Intents : Arrive(i) \/ Fill(i) \/ BrokerCancels(i) \/ Lapse(i) \/ Age(i)
    \/ \E w \in Workers : Crash(w) \/ LoseFence(w)

-----------------------------------------------------------------------------
(* Reservations *)

Live(r) == r.status \in {"active", "committed"}

Release(r, as, terminal) == [r EXCEPT !.status = as, !.terminal = terminal]

(* The sum of the amounts a[i] over S, as the number of their units. *)
Units(a, S) == UNION {{i} \X (1..a[i]) : i \in S}
SumOver(a, S) == Cardinality(Units(a, S))

Total(S) == SumOver([i \in Intents |-> res[i].amount], S)

(* GREATEST(0, reserved_amount - n) *)
Less(reserved, n) == IF reserved >= n THEN reserved - n ELSE 0
=============================================================================
