---------------------------- MODULE OrderRecovery ----------------------------
(***************************************************************************)
(* runAutonomousPostgresRecovery (system:recover): look up the stale ready *)
(* intents at the broker and cancel or preserve them, expire reservations, *)
(* reviews and confirmations, and cancel created intents whose review is   *)
(* gone.  Each statement is one step and the run uses the clock it read at *)
(* its start ("seen" is what had expired by then).  The recovery of        *)
(* research runs touches no order and is left out.                         *)
(***************************************************************************)
EXTENDS OrderLedger

(* Certainly stale: an authorization is gone, or there is no live           *)
(* reservation, which holds of every exit.                                  *)
Stale(i, gone) ==
    \/ i \in gone
    \/ auth[i].review = "expired" \/ auth[i].confirmation # "valid"
    \/ ~Live(res[i])

Ready(i) == intent[i].status = "ready_for_submission" /\ order[i] = NoOrder

(* A ready intent is also stale when its candidate was rejected or is old,  *)
(* so any of them may be listed; the ones that are certainly stale are.     *)
StartRecovery(w) ==
    /\ w \in Recoverers
    /\ Free(w)
    /\ \E listed \in SUBSET {i \in Intents : Ready(i)} :
          /\ \A i \in Intents : Ready(i) /\ Stale(i, lapsed) => i \in listed
          /\ Goto(w, [Idle EXCEPT !.pc = IF listed = {} THEN "reservations" ELSE "stale",
                                  !.seen = lapsed, !.todo = listed])
    /\ UNCHANGED <<ledger, clocks, broker, history, faults>>

(* getOrderByClientOrderId *)
LookUpStale(w) ==
    /\ At(w, "stale")
    /\ \E j \in proc[w].todo :
          Goto(w, [To(w, "staleWrite") EXCEPT !.cur = j, !.todo = @ \ {j},
                      !.got = IF Visible(j) THEN broker[j] ELSE NoOrder])
    /\ UNCHANGED <<ledger, clocks, broker, history, faults>>

NextStale(w) ==
    Goto(w, [To(w, IF proc[w].todo = {} THEN "reservations" ELSE "stale")
                EXCEPT !.cur = NoIntent, !.got = NoOrder])

(* The broker knows the order: the intent is kept for reconciliation.  (By *)
(* ReadyMeansNotSent of module PaperTrading this never happens.)            *)
PreserveStale(j) ==
    /\ intent[j].status = "ready_for_submission"
    /\ intent' = [intent EXCEPT ![j].status = "ambiguous"]
    /\ UNCHANGED <<res, alloc>>

(* A defect: the intent is cancelled whatever became of it after the lookup. *)
CancelsStale_Unchecked(j) ==
    Live(res[j]) => alloc.reserved >= res[j].amount

CancelsStale(j) ==
    /\ Ready(j)
    /\ Live(res[j]) => alloc.reserved >= res[j].amount

(* A defect: the reservation is released, reserved_amount is not reduced. *)
CancelStale_KeepsReserved(j) ==
    /\ CancelsStale(j)
    /\ intent' = [intent EXCEPT ![j].status = "cancelled"]
    /\ IF Live(res[j]) THEN res' = [res EXCEPT ![j] = Release(@, "released", "stale")]
       ELSE UNCHANGED res
    /\ UNCHANGED alloc

CancelStale(j) ==
    /\ CancelsStale(j)
    /\ intent' = [intent EXCEPT ![j].status = "cancelled"]
    /\ IF Live(res[j])
       THEN /\ res' = [res EXCEPT ![j] = Release(@, "released", "stale")]
            /\ alloc' = [alloc EXCEPT !.reserved = @ - res[j].amount]
       ELSE UNCHANGED <<res, alloc>>

ResolveStale(w) ==
    LET j == proc[w].cur IN
    /\ At(w, "staleWrite")
    /\ IF proc[w].got = NoOrder THEN CancelStale(j) ELSE PreserveStale(j)
    /\ \/ Commits(w) /\ NextStale(w)
       \/ CommitLost(w) /\ End(w)
    /\ UNCHANGED <<auth, order, attempted, absences, recorded, clocks, broker, history>>

(* The intent is not ready any more, or the fence is lost: nothing is       *)
(* written and the next one is taken.                                       *)
SkipStale(w) ==
    LET j == proc[w].cur IN
    /\ At(w, "staleWrite")
    /\ intent[j].status # "ready_for_submission" \/ proc[w].fence = "lost"
    /\ NextStale(w)
    /\ UNCHANGED <<ledger, clocks, broker, history, faults>>

-----------------------------------------------------------------------------

Expired(w) == {i \in Intents \cap proc[w].seen : res[i].status = "active"}

ExpireReservations(w) ==
    /\ At(w, "reservations")
    /\ alloc.reserved >= Total(Expired(w))
    /\ res' = [i \in Intents |->
                  IF i \in Expired(w) THEN Release(res[i], "expired", "stale") ELSE res[i]]
    /\ alloc' = [alloc EXCEPT !.reserved = @ - Total(Expired(w))]
    /\ \/ Commits(w) /\ Goto(w, To(w, "reviews"))
       \/ CommitLost(w) /\ End(w)
    /\ UNCHANGED <<intent, auth, order, attempted, absences, recorded, clocks,
                   broker, history>>

ExpireReviews(w) ==
    /\ At(w, "reviews")
    /\ auth' = [i \in Intents |->
                   IF i \in proc[w].seen /\ auth[i].review = "valid"
                   THEN [auth[i] EXCEPT !.review = "expired"] ELSE auth[i]]
    /\ \/ Commits(w) /\ Goto(w, To(w, "confirmations"))
       \/ CommitLost(w) /\ End(w)
    /\ UNCHANGED <<intent, res, alloc, order, attempted, absences, recorded, clocks,
                   broker, history>>

ExpireConfirmations(w) ==
    /\ At(w, "confirmations")
    /\ auth' = [i \in Intents |->
                   IF i \in proc[w].seen /\ auth[i].confirmation = "valid"
                   THEN [auth[i] EXCEPT !.confirmation = "expired"] ELSE auth[i]]
    /\ \/ Commits(w) /\ Goto(w, To(w, "createdIntents"))
       \/ CommitLost(w) /\ End(w)
    /\ UNCHANGED <<intent, res, alloc, order, attempted, absences, recorded, clocks,
                   broker, history>>

CancelCreated(w) ==
    /\ At(w, "createdIntents")
    /\ intent' = [i \in Intents |->
                     IF /\ intent[i].status = "created"
                        /\ auth[i].review = "expired" \/ i \in proc[w].seen
                     THEN [intent[i] EXCEPT !.status = "cancelled"] ELSE intent[i]]
    /\ Commits(w) \/ CommitLost(w)
    /\ End(w)
    /\ UNCHANGED <<auth, res, alloc, order, attempted, absences, recorded, clocks,
                   broker, history>>

(* Without the fence the statements select no row and the run goes on; a    *)
(* failed lookup or statement, and a reservation that its allocation does   *)
(* not cover, end it.                                                       *)
RecoveryWritesNothing(w) ==
    /\ proc[w].fence = "lost"
    /\ \/ At(w, "reservations") /\ Goto(w, To(w, "reviews"))
       \/ At(w, "reviews") /\ Goto(w, To(w, "confirmations"))
       \/ At(w, "confirmations") /\ Goto(w, To(w, "createdIntents"))
       \/ At(w, "createdIntents") /\ End(w)
    /\ UNCHANGED <<ledger, clocks, broker, history, faults>>

Mismatch(w) ==
    \/ At(w, "reservations") /\ alloc.reserved < Total(Expired(w))
    \/ At(w, "staleWrite") /\ Live(res[proc[w].cur]) /\ alloc.reserved < res[proc[w].cur].amount

RecoveryFails(w) ==
    /\ proc[w].pc \in {"stale", "staleWrite", "reservations", "reviews", "confirmations",
                       "createdIntents"}
    /\ IF Mismatch(w) THEN UNCHANGED faults ELSE faults > 0 /\ faults' = faults - 1
    /\ End(w)
    /\ UNCHANGED <<ledger, clocks, broker, history>>

Recovery(w) ==
    \/ StartRecovery(w) \/ LookUpStale(w) \/ ResolveStale(w)
    \/ SkipStale(w) \/ ExpireReservations(w) \/ ExpireReviews(w)
    \/ ExpireConfirmations(w) \/ CancelCreated(w)
    \/ RecoveryWritesNothing(w) \/ RecoveryFails(w)
=============================================================================
