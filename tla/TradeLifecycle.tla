--------------------------- MODULE TradeLifecycle ---------------------------
(***************************************************************************)
(* The lifecycle of an autonomous trade: its states, the transitions table *)
(* of autonomousTradeLifecycleService, the edges that the trigger of       *)
(* migration 006 accepts, and the breadth-first search that turns a broker *)
(* status into the chain of transitions a reconciliation records.          *)
(*                                                                         *)
(* One iteration of the search is the operator Expand, so that             *)
(* TradeLifecycleSearch can run it step by step and                        *)
(* resolveLifecycleTransitionPath can run it to its end.                   *)
(***************************************************************************)
EXTENDS Naturals, Sequences, SequencesExt, FiniteSets

ReviewTypes == {"entry", "exit"}

(* The statuses the services tell apart: canceled stands for its two       *)
(* spellings, new for accepted, new, pending_new and held, other for the   *)
(* rest (pending_cancel, replaced, done_for_day, ...).                     *)
BrokerStatuses ==
    {"new", "partially_filled", "filled", "canceled", "rejected", "expired", "other"}

TerminalBrokerStatuses == {"filled", "canceled", "rejected", "expired"}

(* A defect: cancel_requested listed before the states it should come after. *)
transitions_CancelFirst(s) ==
    CASE s = "broker_order_discovered" ->
             <<"cancel_requested", "broker_order_accepted", "cancelled", "rejected", "expired">>
      [] s = "submission_attempt_persisted" ->
             <<"submission_ambiguous", "broker_order_discovered", "cancelled",
               "rejected", "expired">>
      [] s = "submission_ambiguous" -> <<"broker_order_discovered", "failed_terminal">>
      [] s = "broker_order_accepted" ->
             <<"partially_filled", "filled", "cancelled", "rejected", "expired",
               "cancel_requested">>
      [] s = "cancel_requested" -> <<"cancel_ambiguous", "filled">>
      [] OTHER -> <<>>

(* A defect: an exit order that fills while its cancellation is in doubt   *)
(* has no way back.                                                        *)
transitions_NoWayBack(s) ==
    CASE s = "cancel_ambiguous" -> <<"filled", "rejected", "expired", "cancelled", "failed_terminal">>
      [] OTHER -> <<>>

(* The table; the order of each list decides between paths of equal length. *)
transitions(s) ==
    CASE s = "candidate_created" -> <<"review_created", "failed_terminal">>
      [] s = "review_created" -> <<"confirmed", "failed_terminal">>
      [] s = "confirmed" -> <<"ready_for_submission", "failed_terminal">>
      [] s = "ready_for_submission" -> <<"submission_attempt_persisted", "cancel_requested">>
      [] s = "submission_attempt_persisted" ->
             <<"submission_ambiguous", "broker_order_discovered", "cancelled",
               "rejected", "expired">>
      [] s = "submission_ambiguous" -> <<"broker_order_discovered", "failed_terminal">>
      [] s = "broker_order_discovered" ->
             <<"broker_order_accepted", "cancelled", "rejected", "expired",
               "cancel_requested">>
      [] s = "broker_order_accepted" ->
             <<"partially_filled", "filled", "cancelled", "rejected", "expired",
               "cancel_requested">>
      [] s = "partially_filled" ->
             <<"filled", "position_reconciled", "cancelled", "rejected", "expired",
               "cancel_requested">>
      [] s = "filled" -> <<"position_reconciled", "exit_evaluated">>
      [] s = "position_reconciled" -> <<"exit_evaluated">>
      [] s = "exit_evaluated" -> <<"exit_review_created", "closed">>
      [] s = "exit_review_created" -> <<"exit_confirmed">>
      [] s = "exit_confirmed" -> <<"exit_ready_for_submission">>
      [] s = "exit_ready_for_submission" ->
             <<"exit_submission_attempt_persisted", "cancel_requested">>
      [] s = "exit_submission_attempt_persisted" ->
             <<"exit_submission_ambiguous", "exit_broker_order_discovered", "cancelled",
               "rejected", "expired">>
      [] s = "exit_submission_ambiguous" ->
             <<"exit_broker_order_discovered", "failed_terminal">>
      [] s = "exit_broker_order_discovered" ->
             <<"exit_partially_filled", "closed", "cancelled", "rejected", "expired",
               "cancel_requested">>
      [] s = "exit_partially_filled" ->
             <<"closed", "cancelled", "rejected", "expired", "cancel_requested">>
      [] s = "cancel_requested" ->
             <<"cancel_ambiguous", "filled", "exit_broker_order_discovered", "rejected",
               "expired", "cancelled", "failed_terminal">>
      [] s = "cancel_ambiguous" ->
             <<"filled", "exit_broker_order_discovered", "rejected", "expired",
               "cancelled", "failed_terminal">>
      [] OTHER -> <<>>                 \* closed and the four other terminal states

TerminalLife == {"closed", "cancelled", "rejected", "expired", "failed_terminal"}
Cancelling == {"cancel_requested", "cancel_ambiguous"}

States ==
    {"candidate_created", "review_created", "confirmed", "ready_for_submission",
     "submission_attempt_persisted", "submission_ambiguous", "broker_order_discovered",
     "broker_order_accepted", "partially_filled", "filled", "position_reconciled",
     "exit_evaluated", "exit_review_created", "exit_confirmed",
     "exit_ready_for_submission", "exit_submission_attempt_persisted",
     "exit_submission_ambiguous", "exit_broker_order_discovered",
     "exit_partially_filled"} \cup Cancelling \cup TerminalLife

-----------------------------------------------------------------------------
(* The edges of enforce_autonomous_lifecycle_transition *)

AdditionalEdges ==
    ({"candidate_created", "review_created", "confirmed", "submission_ambiguous",
      "exit_submission_ambiguous"} \X {"failed_terminal"})
    \cup ({"broker_order_discovered", "exit_broker_order_discovered"} \X {"cancelled"})
    \cup ({"broker_order_accepted", "partially_filled", "exit_partially_filled"}
              \X {"cancelled", "rejected", "expired"})
    \cup (Cancelling \X {"exit_broker_order_discovered"})
    \cup {<<"submission_ambiguous", "broker_order_discovered">>,
          <<"filled", "exit_evaluated">>,
          <<"exit_evaluated", "closed">>,
          <<"exit_submission_ambiguous", "exit_broker_order_discovered">>}

OriginalEdges ==
    {<<"candidate_created", "review_created">>, <<"review_created", "confirmed">>,
     <<"confirmed", "ready_for_submission">>,
     <<"ready_for_submission", "submission_attempt_persisted">>,
     <<"broker_order_discovered", "broker_order_accepted">>,
     <<"partially_filled", "filled">>,
     <<"partially_filled", "position_reconciled">>, <<"filled", "position_reconciled">>,
     <<"position_reconciled", "exit_evaluated">>,
     <<"exit_evaluated", "exit_review_created">>,
     <<"exit_review_created", "exit_confirmed">>,
     <<"exit_confirmed", "exit_ready_for_submission">>,
     <<"exit_ready_for_submission", "exit_submission_attempt_persisted">>,
     <<"exit_partially_filled", "closed">>,
     <<"cancel_requested", "cancel_ambiguous">>}
    \cup ({"submission_attempt_persisted"} \X
              {"submission_ambiguous", "broker_order_discovered", "cancelled",
               "rejected", "expired"})
    \cup ({"broker_order_discovered"} \X {"rejected", "expired"})
    \cup ({"broker_order_accepted"} \X {"partially_filled", "filled"})
    \cup ({"exit_submission_attempt_persisted"} \X
              {"exit_submission_ambiguous", "exit_broker_order_discovered", "cancelled",
               "rejected", "expired"})
    \cup ({"exit_broker_order_discovered"} \X
              {"exit_partially_filled", "closed", "rejected", "expired"})
    \cup ({"ready_for_submission", "broker_order_discovered", "broker_order_accepted",
           "partially_filled", "exit_ready_for_submission",
           "exit_broker_order_discovered", "exit_partially_filled"}
              \X {"cancel_requested"})
    \cup (Cancelling \X {"filled", "rejected", "expired", "cancelled", "failed_terminal"})

(* A defect: a database that never got the additional edges. *)
TriggerAccepts_OriginalOnly(from, to) == <<from, to>> \in OriginalEdges

(* INSERT of a transition row passes the trigger. *)
TriggerAccepts(from, to) == <<from, to>> \in AdditionalEdges \cup OriginalEdges

-----------------------------------------------------------------------------
(* resolveLifecycleTransitionPath *)

NewSearch(from) == [queue |-> << <<from>> >>, visited |-> {from}, result |-> <<>>]

(* A defect: a queued path keeps only its last edge. *)
Expand_LastEdge(search, to) ==
    LET path == Head(search.queue)
        Visit(acc, next) ==
            IF acc.result # <<>> \/ next \in acc.visited THEN acc
            ELSE IF next = to THEN [acc EXCEPT !.result = Append(path, next)]
            ELSE [acc EXCEPT !.visited = @ \cup {next}, !.queue = Append(@, <<Last(path), next>>)]
    IN FoldLeft(Visit, [search EXCEPT !.queue = Tail(@)], transitions(Last(path)))

(* A defect: the loop over the successors stops at a visited one. *)
Expand_StopsAtVisited(search, to) ==
    LET path == Head(search.queue)
        Visit(acc, next) ==
            IF acc.result # <<>> \/ acc.stop THEN acc
            ELSE IF next \in acc.visited THEN [acc EXCEPT !.stop = TRUE]
            ELSE IF next = to THEN [acc EXCEPT !.result = Append(path, next)]
            ELSE [acc EXCEPT !.visited = @ \cup {next}, !.queue = Append(@, Append(path, next))]
        end == FoldLeft(Visit,
                        [queue |-> Tail(search.queue), visited |-> search.visited,
                         result |-> <<>>, stop |-> FALSE],
                        transitions(Last(path)))
    IN [queue |-> end.queue, visited |-> end.visited, result |-> end.result]

(* A defect: the expanded path stays at the head of the queue. *)
Expand_NoShift(search, to) ==
    LET path == Head(search.queue)
        Visit(acc, next) ==
            IF acc.result # <<>> \/ next \in acc.visited THEN acc
            ELSE IF next = to THEN [acc EXCEPT !.result = Append(path, next)]
            ELSE [acc EXCEPT !.visited = @ \cup {next}, !.queue = Append(@, Append(path, next))]
    IN FoldLeft(Visit, search, transitions(Last(path)))

(* The body of the while loop: shift one path, try each successor of its   *)
(* end in table order, return at once when the target is met.              *)
Expand(search, to) ==
    LET path == Head(search.queue)
        Visit(acc, next) ==
            IF acc.result # <<>> \/ next \in acc.visited THEN acc
            ELSE IF next = to THEN [acc EXCEPT !.result = Append(path, next)]
            ELSE [acc EXCEPT !.visited = @ \cup {next}, !.queue = Append(@, Append(path, next))]
    IN FoldLeft(Visit, [search EXCEPT !.queue = Tail(@)], transitions(Last(path)))

Searching(search) == search.result = <<>> /\ search.queue # <<>>

(* The whole search; no state is queued twice, so it ends within           *)
(* Cardinality(States) iterations.  The empty sequence is the thrown       *)
(* NO_VALID_LIFECYCLE_PATH.                                                *)
resolveLifecycleTransitionPath(from, to) ==
    LET after[n \in 0..Cardinality(States)] ==
            IF n = 0 THEN NewSearch(from)
            ELSE LET before == after[n - 1]
                 IN IF Searching(before) THEN Expand(before, to) ELSE before
    IN IF from = to THEN <<from>> ELSE after[Cardinality(States)].result

-----------------------------------------------------------------------------
(* lifecycleStateForBrokerStatus and resolveBrokerReconciliationLifecyclePath *)

(* A defect: the broker's spelling is stored. *)
lifecycleStateForBrokerStatus_Raw(reviewType, status) ==
    CASE status \in {"canceled", "rejected", "expired", "partially_filled", "filled"} -> status
      [] reviewType = "exit" /\ status \in {"new", "other"} -> "exit_broker_order_discovered"
      [] reviewType = "entry" /\ status = "new" -> "broker_order_accepted"
      [] reviewType = "entry" /\ status = "other" -> "broker_order_discovered"

lifecycleStateForBrokerStatus(reviewType, status) ==
    CASE status = "canceled" -> "cancelled"
      [] status = "rejected" -> "rejected"
      [] status = "expired" -> "expired"
      [] reviewType = "exit" /\ status = "partially_filled" -> "exit_partially_filled"
      [] reviewType = "exit" /\ status \in {"new", "filled", "other"} ->
             "exit_broker_order_discovered"
      [] reviewType = "entry" /\ status = "partially_filled" -> "partially_filled"
      [] reviewType = "entry" /\ status = "filled" -> "filled"
      [] reviewType = "entry" /\ status = "new" -> "broker_order_accepted"
      [] reviewType = "entry" /\ status = "other" -> "broker_order_discovered"

(* The early returns: an exit that fills after partial fills stays where   *)
(* it is until the position closes, and a cancellation in doubt waits for  *)
(* a terminal status.                                                      *)
StaysPut(from, reviewType, status) ==
    \/ reviewType = "exit" /\ status = "filled" /\ from = "exit_partially_filled"
    \/ from \in Cancelling /\ status \notin TerminalBrokerStatuses

resolveBrokerReconciliationLifecyclePath(from, reviewType, status) ==
    IF StaysPut(from, reviewType, status) THEN <<from>>
    ELSE resolveLifecycleTransitionPath(from, lifecycleStateForBrokerStatus(reviewType, status))
=============================================================================
