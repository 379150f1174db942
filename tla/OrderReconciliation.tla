------------------------- MODULE OrderReconciliation -------------------------
(***************************************************************************)
(* reconcilePostgresPaperOrders: list the unsettled intents, look each one *)
(* up at the broker, write what was found (one statement), settle the      *)
(* reservation of a terminal order (another), or record that the order is  *)
(* absent, and finally synchronize account and positions.  An error of one *)
(* target is collected and the next target is taken.  The statements are   *)
(* not in one transaction, so other workers run between them.              *)
(*                                                                         *)
(* zero-dte:reconcile and paper:order:cancel reconcile every target, an    *)
(* executor that recovers an ambiguous submission only its own.            *)
(***************************************************************************)
EXTENDS OrderLedger

-----------------------------------------------------------------------------
(* targetsSql *)

(* A defect: a reconciled intent is never looked at again. *)
Target_ForgetsReconciled(i) ==
    intent[i].status \in {"submission_pending", "submitted", "ambiguous"}

(* A defect: a claim whose executor died before it knew more is not listed. *)
Target_ForgetsPending(i) ==
    \/ intent[i].status \in {"submitted", "ambiguous"}
    \/ intent[i].status = "reconciled" /\ Live(res[i]) /\ res[i].terminal = "none"

Target(i) ==
    \/ intent[i].status \in {"submission_pending", "submitted", "ambiguous"}
    \/ intent[i].status = "reconciled" /\ Live(res[i]) /\ res[i].terminal = "none"

(* The process record p after it listed its targets in scope. *)
Listing(p, scope) ==
    LET targets == {i \in scope : Target(i)} IN
    [p EXCEPT !.pc = IF targets = {} THEN "sync" ELSE "next",
              !.seen = aged, !.todo = targets,
              !.snap = [i \in Intents |->
                           IF i \in targets
                           THEN [status |-> intent[i].status, life |-> intent[i].life,
                                 prior |-> order[i].filled]
                           ELSE NoSnapshot[i]]]

StartReconciliation(w) ==
    /\ w \in Reconcilers
    /\ Free(w)
    /\ Goto(w, Listing(Idle, Intents))
    /\ UNCHANGED <<ledger, clocks, broker, history, faults>>

(* A recovering executor asserts its fence first, and fails in the end if   *)
(* its own order was not among the targets.                                 *)
List(w) ==
    LET p == proc[w] IN
    /\ At(w, "list")
    /\ IF w \in Cancellers
       THEN Goto(w, Listing(p, Intents)) /\ UNCHANGED faults
       ELSE /\ FenceHeld(w)
            /\ Goto(w, [Listing(p, {p.i}) EXCEPT !.err = ~Target(p.i)])
    /\ UNCHANGED <<ledger, clocks, broker, history>>

ListFails(w) ==
    /\ At(w, "list")
    /\ Fails(w)
    /\ End(w)
    /\ UNCHANGED <<ledger, clocks, broker, history>>

(* The process record when the current target j is done. *)
Processed(w, j, failed) ==
    LET rest == proc[w].todo \ {j} IN
    [proc[w] EXCEPT !.pc = IF rest = {} THEN "sync" ELSE "next",
                    !.cur = NoIntent, !.todo = rest, !.snap[j] = NoSnapshot[j],
                    !.got = NoOrder, !.left = 0, !.err = @ \/ failed]

-----------------------------------------------------------------------------
(* getOrderByClientOrderId *)

Own(w, j) == j = proc[w].i /\ proc[w].resp # NoOrder

Undecided == {"submission_pending", "ambiguous"}

(* The caller's response stands for the lookup of its own order. *)
FetchFinds(w) ==
    /\ At(w, "next")
    /\ \E j \in proc[w].todo :
          /\ Own(w, j) \/ Visible(j)
          /\ Goto(w, [To(w, "observe") EXCEPT !.cur = j,
                         !.got = IF Own(w, j) THEN proc[w].resp ELSE broker[j]])
    /\ UNCHANGED <<ledger, clocks, broker, history, faults>>

(* 404; the absence events are counted next, and the age is that of the     *)
(* attempt if there is one by now, else of the row as it was listed.        *)
FetchAbsent(w) ==
    /\ At(w, "next")
    /\ \E j \in proc[w].todo :
          /\ ~Own(w, j) /\ ~Visible(j)
          /\ proc[w].snap[j].status \in Undecided
          /\ Goto(w, [To(w, "absence") EXCEPT
                         !.cur = j, !.left = absences[j],
                         !.seen = IF j \in attempted THEN @ \cap aged ELSE @])
    /\ UNCHANGED <<ledger, clocks, broker, history, faults>>

FetchFails(w) ==
    /\ At(w, "next")
    /\ \E j \in proc[w].todo :
          /\ ~Own(w, j)
          /\ \/ faults > 0 /\ faults' = faults - 1
             \/ ~Visible(j) /\ proc[w].snap[j].status \notin Undecided /\ UNCHANGED faults
          /\ Goto(w, Processed(w, j, TRUE))
    /\ UNCHANGED <<ledger, clocks, broker, history>>

-----------------------------------------------------------------------------
(* The observation *)

(* resolveBrokerReconciliationLifecyclePath, tabulated: @@ makes TLC build  *)
(* the table once.                                                          *)
PathTable ==
    [k \in States \X ReviewTypes \X (OrderStatuses \ {"none"}) |->
        resolveBrokerReconciliationLifecyclePath(k[1], k[2], k[3])] @@ <<>>

(* What the search yields, checked for the whole table: a path leads from   *)
(* the listed state to the state of the broker status, or stays put, and an *)
(* entry that is filled or cancelled has no path back to an open order.     *)
PathFact(s, t, r) ==
    LET path == PathTable[<<s, t, r>>] IN
    path # <<>> =>
        /\ Head(path) = s
        /\ Last(path) = IF StaysPut(s, t, r) THEN s ELSE lifecycleStateForBrokerStatus(t, r)
        /\ t = "entry" /\ s \in {"filled", "cancelled"} => r \in TerminalBrokerStatuses

ASSUME PathTableFacts ==
    \A s \in States, t \in ReviewTypes, r \in OrderStatuses \ {"none"} : PathFact(s, t, r)

(* The chain of lifecycle states from the one that was listed. *)
Path(p) == PathTable[<<p.snap[p.cur].life, TypeOf(p.cur), p.got.status>>]

HasReservation(i) == res[i].status # "none"

(* A defect: a partially filled order counts as over. *)
Terminal_Partial(r) == r.status \in TerminalBrokerStatuses \cup {"partially_filled"}

Terminal(r) == r.status \in TerminalBrokerStatuses

PartialFill(p) == p.got.status = "partially_filled" /\ HasReservation(p.cur)

(* What is thrown before the statement is sent. *)
Invalid(p) ==
    LET prior == p.snap[p.cur].prior IN
    \/ p.snap[p.cur].status = "reconciled" /\ ~Terminal(p.got)
    \/ Path(p) = <<>>
    \/ PartialFill(p) /\ (p.got.filled < prior \/ p.got.filled >= Qty)

(* resized: the share of the reservation that is settled, as a fraction.   *)
(* The columns are numeric(28, 8): each of them rounds what it is given to  *)
(* its last decimal, a half upwards.  An amount counts units of that        *)
(* decimal.                                                                 *)
Rounded(n, d) == (2 * n + d) \div (2 * d)

Unfilled(p) == Qty - p.snap[p.cur].prior
Remaining(p) == Rounded(res[p.cur].amount * (Qty - p.got.filled), Unfilled(p))
SettledShare(p) == res[p.cur].amount * (p.got.filled - p.snap[p.cur].prior)
Settled(p) == Rounded(SettledShare(p), Unfilled(p))

(* The settled share is positive and reserved, and buying_power_reservations_amount_positive holds. *)
Resizable(p) ==
    /\ Live(res[p.cur])
    /\ alloc.reserved * Unfilled(p) >= SettledShare(p) /\ SettledShare(p) > 0
    /\ Remaining(p) > 0

Resizes(p) == PartialFill(p) /\ p.got.filled > p.snap[p.cur].prior

(* A defect: the lifecycle state is not compared with the one that was      *)
(* listed.                                                                  *)
ObservationAllowed_NoPathGuard(p) ==
    /\ intent[p.cur].status \in {"submission_pending", "submitted", "ambiguous", "reconciled"}
    /\ Resizes(p) => Resizable(p)

(* current_order_intent, lifecycle_path_guard and persistence_guard *)
ObservationAllowed(p) ==
    /\ intent[p.cur].status \in {"submission_pending", "submitted", "ambiguous", "reconciled"}
    /\ intent[p.cur].life = Head(Path(p))
    /\ Resizes(p) => Resizable(p)

Refused(p) == IF Invalid(p) THEN TRUE ELSE ~ObservationAllowed(p)

(* Idempotency keys: broker-reconciliation:<broker id>:<state>:<ordinal> *)
Keys(p) == {<<Last(Path(p)), n>> : n \in 1..(Len(Path(p)) - 1)}

(* A defect: the settled part leaves the reservation but not reserved_amount. *)
Resize_KeepsReserved(p) ==
    IF Resizes(p)
    THEN /\ res' = [res EXCEPT ![p.cur].amount = Remaining(p)]
         /\ alloc' = [alloc EXCEPT !.deployed = @ + Settled(p)]
    ELSE UNCHANGED <<res, alloc>>

Resize(p) ==
    IF Resizes(p)
    THEN /\ res' = [res EXCEPT ![p.cur].amount = Remaining(p)]
         /\ alloc' = [reserved |-> alloc.reserved - res[p.cur].amount + Remaining(p),
                      deployed |-> alloc.deployed + Settled(p)]
    ELSE UNCHANGED <<res, alloc>>

Observe(w) ==
    LET p == proc[w]
        j == p.cur
        settles == Terminal(p.got) /\ HasReservation(j)
    IN
    /\ At(w, "observe")
    /\ ~Refused(p)
    /\ Keys(p) \cap recorded[j] = {}
    /\ order' = [order EXCEPT ![j] = p.got]
    /\ Resize(p)
    /\ recorded' = [recorded EXCEPT ![j] = @ \cup Keys(p)]
    /\ intent' = [intent EXCEPT ![j] =
                     [status |-> IF Terminal(p.got) THEN "reconciled" ELSE "submitted",
                      life |-> Last(Path(p))]]
    /\ \/ Commits(w) /\ Goto(w, IF settles THEN To(w, "settle") ELSE Processed(w, j, FALSE))
       \/ CommitLost(w) /\ Goto(w, Processed(w, j, TRUE))
    /\ UNCHANGED <<auth, attempted, absences, clocks, broker, history>>

(* A transition key was recorded before: ON CONFLICT DO NOTHING keeps the   *)
(* intent as it is, the other writes of the statement stay, and an error is *)
(* reported.                                                                *)
ObserveConflict(w) ==
    LET p == proc[w] IN
    /\ At(w, "observe")
    /\ ~Refused(p)
    /\ Keys(p) \cap recorded[p.cur] # {}
    /\ order' = [order EXCEPT ![p.cur] = p.got]
    /\ Resize(p)
    /\ recorded' = [recorded EXCEPT ![p.cur] = @ \cup Keys(p)]
    /\ Commits(w) \/ CommitLost(w)
    /\ Goto(w, Processed(w, p.cur, TRUE))
    /\ UNCHANGED <<intent, auth, attempted, absences, clocks, broker, history>>

ObserveFails(w) ==
    LET p == proc[w] IN
    /\ At(w, "observe")
    /\ Fails(w) \/ (Refused(p) /\ UNCHANGED faults)
    /\ Goto(w, Processed(w, p.cur, TRUE))
    /\ UNCHANGED <<ledger, clocks, broker, history>>

-----------------------------------------------------------------------------
(* Settlement of a terminal order *)

TerminalState(r) == IF r.status = "filled" THEN "filled" ELSE "cancelled"

(* A defect: the settlement looks neither at the reservation nor for an     *)
(* earlier settlement.                                                      *)
CanSettle_Again(p) ==
    intent[p.cur] = [status |-> "reconciled", life |-> Last(Path(p))]

CanSettle(p) ==
    /\ intent[p.cur] = [status |-> "reconciled", life |-> Last(Path(p))]
    /\ Live(res[p.cur]) /\ res[p.cur].terminal = "none"
    /\ alloc.reserved >= res[p.cur].amount

Settle(w) ==
    LET p == proc[w]
        j == p.cur
    IN
    /\ At(w, "settle")
    /\ CanSettle(p)
    /\ res' = [res EXCEPT ![j] = Release(@, "released", TerminalState(p.got))]
    /\ alloc' = [reserved |-> Less(alloc.reserved, res[j].amount),
                 deployed |-> alloc.deployed +
                              (IF p.got.status = "filled" THEN res[j].amount ELSE 0)]
    /\ \/ Commits(w) /\ Goto(w, Processed(w, j, FALSE))
       \/ CommitLost(w) /\ Goto(w, Processed(w, j, TRUE))
    /\ UNCHANGED <<intent, auth, order, attempted, absences, recorded, clocks,
                   broker, history>>

Replayed(p) == res[p.cur].terminal = TerminalState(p.got)

(* Settled before with the same outcome, or an error. *)
SettleNothing(w) ==
    LET p == proc[w] IN
    /\ At(w, "settle")
    /\ \/ /\ ~CanSettle(p) /\ UNCHANGED faults
          /\ Goto(w, Processed(w, p.cur, ~Replayed(p)))
       \/ Fails(w) /\ Goto(w, Processed(w, p.cur, TRUE))
    /\ UNCHANGED <<ledger, clocks, broker, history>>

-----------------------------------------------------------------------------
(* recordBrokerOrderAbsence *)

(* A defect: the age of the attempt is not considered. *)
AbsenceConfirmed_NoAge(p) == p.left + 1 >= AbsenceObservations

AbsenceConfirmed(p) == p.left + 1 >= AbsenceObservations /\ p.cur \in p.seen

(* The event of this observation is new; the counter is capped.             *)
NewObservation(p) == absences[p.cur] = p.left
CountAbsence(p) ==
    absences' = [absences EXCEPT ![p.cur] =
                    IF NewObservation(p) THEN Min({@ + 1, AbsenceObservations}) ELSE @]

RecordAbsence(w) ==
    LET p == proc[w] IN
    /\ At(w, "absence")
    /\ ~AbsenceConfirmed(p)
    /\ CountAbsence(p)
    /\ \/ Commits(w) /\ Goto(w, Processed(w, p.cur, FALSE))
       \/ CommitLost(w) /\ Goto(w, Processed(w, p.cur, TRUE))
    /\ UNCHANGED <<intent, auth, res, alloc, order, attempted, recorded, clocks,
                   broker, history>>

ReleasedByAbsence(i) == Live(res[i])

(* The intent fails and its reservation is released, unless another worker  *)
(* was faster; a reservation that is gone already is an error, although the *)
(* intent was failed.                                                       *)
ConfirmAbsence(w) ==
    LET p == proc[w]
        j == p.cur
        fails == NewObservation(p) /\ intent[j].status \in Undecided
        frees == fails /\ ReleasedByAbsence(j)
    IN
    /\ At(w, "absence")
    /\ AbsenceConfirmed(p)
    /\ CountAbsence(p)
    /\ intent' = [intent EXCEPT ![j].status = IF fails THEN "failed" ELSE @]
    /\ res' = [res EXCEPT ![j].status = IF frees THEN "released" ELSE @]
    /\ alloc' = [alloc EXCEPT !.reserved = IF frees THEN Less(@, res[j].amount) ELSE @]
    /\ \/ /\ Commits(w)
          /\ Goto(w, Processed(w, j, ~fails \/ (HasReservation(j) /\ ~frees)))
       \/ CommitLost(w) /\ Goto(w, Processed(w, j, TRUE))
    /\ UNCHANGED <<auth, order, attempted, recorded, clocks, broker, history>>

(* Without the fence a further observation is silently not written. *)
AbsenceFails(w) ==
    LET p == proc[w] IN
    /\ At(w, "absence")
    /\ Fails(w)
    /\ Goto(w, Processed(w, p.cur, AbsenceConfirmed(p) \/ p.fence # "lost"))
    /\ UNCHANGED <<ledger, clocks, broker, history>>

-----------------------------------------------------------------------------
(* syncBrokerAccountAndPositions *)

(* A defect: the status of the order is not considered. *)
Closable_AnyOrder == {i \in Exits : intent[i].life \in {"exit_broker_order_discovered",
                                                        "exit_partially_filled"}}

(* Exits whose order is recorded as filled; their position may be gone from *)
(* the broker's snapshot, or the snapshot may be older.                     *)
Closable == {i \in Exits : /\ intent[i].life \in {"exit_broker_order_discovered",
                                                  "exit_partially_filled"}
                           /\ order[i].status = "filled"}

ClosePositions ==
    /\ \E closed \in SUBSET Closable :
          intent' = [i \in Intents |->
                        IF i \in closed THEN [status |-> "reconciled", life |-> "closed"]
                        ELSE intent[i]]
    /\ UNCHANGED <<auth, res, alloc, order, attempted, absences, recorded>>

(* The end of a reconciliation: an executor without errors goes on to its   *)
(* receipt, every other worker is done.                                     *)
Sync(w) ==
    /\ At(w, "sync")
    /\ Commits(w)
    /\ ClosePositions
    /\ IF w \in Executors \cup ExitExecutors /\ ~proc[w].err
       THEN Goto(w, [To(w, "receipt") EXCEPT !.seen = {}]) ELSE End(w)
    /\ UNCHANGED <<clocks, broker, history>>

SyncFails(w) ==
    /\ At(w, "sync")
    /\ Fails(w)
    /\ End(w)
    /\ UNCHANGED <<ledger, clocks, broker, history>>

(* persistBrokerSnapshot at the start of an execution, in a transaction. *)
Persist(w) ==
    /\ At(w, "persist")
    /\ Commits(w)
    /\ ClosePositions
    /\ Goto(w, To(w, IF proc[w].todo = {} THEN "promote" ELSE "claim"))
    /\ UNCHANGED <<clocks, broker, history>>

PersistFails(w) ==
    /\ At(w, "persist")
    /\ Fails(w)
    /\ End(w)
    /\ UNCHANGED <<ledger, clocks, broker, history>>

Reconciliation(w) ==
    \/ StartReconciliation(w) \/ List(w) \/ ListFails(w)
    \/ FetchFinds(w) \/ FetchAbsent(w) \/ FetchFails(w)
    \/ Observe(w) \/ ObserveConflict(w) \/ ObserveFails(w)
    \/ Settle(w) \/ SettleNothing(w)
    \/ RecordAbsence(w) \/ ConfirmAbsence(w) \/ AbsenceFails(w)
    \/ Sync(w) \/ SyncFails(w) \/ Persist(w) \/ PersistFails(w)
=============================================================================
