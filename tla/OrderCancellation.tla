-------------------------- MODULE OrderCancellation --------------------------
(***************************************************************************)
(* runPostgresPaperOrderCancellation, called with an order id by an        *)
(* operator or for the oldest cancellable order by the worker.  The        *)
(* request and the claim of the one DELETE are persisted as lifecycle      *)
(* transitions before the broker is called; then the order is polled and   *)
(* all targets are reconciled (module OrderReconciliation) with the polled *)
(* response for the cancelled order.                                       *)
(***************************************************************************)
EXTENDS OrderLedger

RequestKey == <<"cancel_requested", 0>>     \* cancel-request:<broker order id>
ClaimKey == <<"cancel_ambiguous", 0>>       \* cancel-ambiguous:<broker order id>

(* The target is read under the fence, with the lifecycle state of its intent. *)
StartCancellation(w) ==
    /\ w \in Cancellers
    /\ Free(w)
    /\ \E i \in Intents :
          /\ order[i] # NoOrder
          /\ Goto(w, [Idle EXCEPT !.pc = "before", !.i = i,
                                  !.snap[i].life = intent[i].life])
    /\ UNCHANGED <<ledger, clocks, broker, history, faults>>

LifeRead(w) == proc[w].snap[proc[w].i].life

(* A defect: a cancellation that is resumed sends its DELETE again. *)
LookBefore_DeletesAgain(w) ==
    LET i == proc[w].i IN
    /\ At(w, "before")
    /\ Goto(w, [To(w, IF broker[i].status \in TerminalBrokerStatuses THEN "list"
                      ELSE IF LifeRead(w) = "cancel_ambiguous" THEN "delete"
                      ELSE IF LifeRead(w) = "cancel_requested" THEN "claimCancel"
                      ELSE "request")
                   EXCEPT !.resp = broker[i]])
    /\ UNCHANGED <<ledger, clocks, broker, history, faults>>

(* getOrderById; an order that is terminal is only reconciled. *)
LookBefore(w) ==
    LET i == proc[w].i IN
    /\ At(w, "before")
    /\ Goto(w, [To(w, IF broker[i].status \in TerminalBrokerStatuses THEN "list"
                      ELSE IF LifeRead(w) = "cancel_ambiguous" THEN "poll"
                      ELSE IF LifeRead(w) = "cancel_requested" THEN "claimCancel"
                      ELSE "request")
                   EXCEPT !.resp = broker[i]])
    /\ UNCHANGED <<ledger, clocks, broker, history, faults>>

CanRequest(w) ==
    LET i == proc[w].i IN
    /\ intent[i].life = LifeRead(w)
    /\ TriggerAccepts(LifeRead(w), "cancel_requested")
    /\ RequestKey \notin recorded[i]

RequestCancel(w) ==
    LET i == proc[w].i IN
    /\ At(w, "request")
    /\ CanRequest(w)
    /\ recorded' = [recorded EXCEPT ![i] = @ \cup {RequestKey}]
    /\ intent' = [intent EXCEPT ![i].life = "cancel_requested"]
    /\ \/ Commits(w) /\ Goto(w, To(w, "claimCancel"))
       \/ CommitLost(w) /\ End(w)
    /\ UNCHANGED <<auth, res, alloc, order, attempted, absences, clocks, broker, history>>

CanClaim(i) == intent[i].life = "cancel_requested" /\ ClaimKey \notin recorded[i]

(* A defect: the order is looked up again after the claim, with the state read before. *)
ClaimCancel_LooksFirst(w) ==
    LET i == proc[w].i IN
    /\ At(w, "claimCancel")
    /\ CanClaim(i)
    /\ recorded' = [recorded EXCEPT ![i] = @ \cup {ClaimKey}]
    /\ intent' = [intent EXCEPT ![i].life = "cancel_ambiguous"]
    /\ \/ Commits(w) /\ Goto(w, To(w, "before"))
       \/ CommitLost(w) /\ End(w)
    /\ UNCHANGED <<auth, res, alloc, order, attempted, absences, clocks, broker, history>>

(* The claim of the DELETE, after a read of the fence. *)
ClaimCancel(w) ==
    LET i == proc[w].i IN
    /\ At(w, "claimCancel")
    /\ CanClaim(i)
    /\ recorded' = [recorded EXCEPT ![i] = @ \cup {ClaimKey}]
    /\ intent' = [intent EXCEPT ![i].life = "cancel_ambiguous"]
    /\ \/ Commits(w) /\ Goto(w, To(w, "delete"))
       \/ CommitLost(w) /\ End(w)
    /\ UNCHANGED <<auth, res, alloc, order, attempted, absences, clocks, broker, history>>

(* Somebody else has claimed it: look up only. *)
ClaimedBefore(w) ==
    /\ At(w, "claimCancel")
    /\ ~CanClaim(proc[w].i)
    /\ FenceHeld(w)
    /\ Goto(w, To(w, "poll"))
    /\ UNCHANGED <<ledger, clocks, broker, history>>

(* cancelPaperOrder: the order is cancelled at once, or later, or not at    *)
(* all; errors are swallowed.                                               *)
DeleteOrder(w) ==
    LET i == proc[w].i IN
    /\ At(w, "delete")
    /\ FenceHeld(w)
    /\ deletes' = [deletes EXCEPT ![i] = @ + 1]
    /\ \/ UNCHANGED broker
       \/ broker[i].status \in Working /\ broker' = [broker EXCEPT ![i].status = "canceled"]
    /\ Goto(w, To(w, "poll"))
    /\ UNCHANGED <<ledger, clocks, calls>>

(* The last of the bounded lookups. *)
Poll(w) ==
    /\ At(w, "poll")
    /\ FenceHeld(w)
    /\ Goto(w, [To(w, "list") EXCEPT !.resp = broker[proc[w].i]])
    /\ UNCHANGED <<ledger, clocks, broker, history>>

(* A lookup or a statement fails, the request is refused, or the fence is   *)
(* lost where it is read.                                                   *)
CancellationFails(w) ==
    /\ \/ proc[w].pc \in {"before", "request", "claimCancel", "delete", "poll"} /\ Fails(w)
       \/ At(w, "request") /\ ~CanRequest(w) /\ UNCHANGED faults
    /\ End(w)
    /\ UNCHANGED <<ledger, clocks, broker, history>>

Cancellation(w) ==
    \/ StartCancellation(w) \/ LookBefore(w) \/ RequestCancel(w)
    \/ ClaimCancel(w) \/ ClaimedBefore(w) \/ DeleteOrder(w) \/ Poll(w)
    \/ CancellationFails(w)
=============================================================================
