------------------------ MODULE TradeLifecycleSearch ------------------------
(***************************************************************************)
(* resolveBrokerReconciliationLifecyclePath run step by step, from every   *)
(* lifecycle state, for both review types and every broker status.  Its    *)
(* result becomes rows of autonomous_trade_lifecycle_transitions, one per  *)
(* edge, so a wrong path is either rejected by the trigger (the order is   *)
(* then never reconciled) or recorded as a history that never happened.    *)
(***************************************************************************)
EXTENDS TradeLifecycle

VARIABLES
    from, reviewType, status,   \* the input
    pc,                         \* "start", "search" or "done"
    search                      \* queue, visited and the path returned

vars == <<from, reviewType, status, pc, search>>

target == lifecycleStateForBrokerStatus(reviewType, status)

TypeOK ==
    /\ from \in States /\ reviewType \in ReviewTypes /\ status \in BrokerStatuses
    /\ pc \in {"start", "search", "done"}
    /\ search.queue \in Seq(Seq(States))
    /\ search.visited \subseteq States
    /\ search.result \in Seq(States)

Init ==
    /\ from \in States /\ reviewType \in ReviewTypes /\ status \in BrokerStatuses
    /\ pc = "start"
    /\ search = NewSearch(from)

(* The early returns, and the shortcut fromState = toState. *)
ReturnAtOnce ==
    /\ pc = "start"
    /\ StaysPut(from, reviewType, status) \/ from = target
    /\ pc' = "done"
    /\ search' = [search EXCEPT !.result = <<from>>]
    /\ UNCHANGED <<from, reviewType, status>>

StartSearch ==
    /\ pc = "start"
    /\ ~StaysPut(from, reviewType, status) /\ from # target
    /\ pc' = "search"
    /\ UNCHANGED <<from, reviewType, status, search>>

Dequeue ==
    /\ pc = "search"
    /\ Searching(search)
    /\ search' = Expand(search, target)
    /\ UNCHANGED <<from, reviewType, status, pc>>

(* The path is returned, or NO_VALID_LIFECYCLE_PATH is thrown. *)
Finish ==
    /\ pc = "search"
    /\ ~Searching(search)
    /\ pc' = "done"
    /\ UNCHANGED <<from, reviewType, status, search>>

Next == ReturnAtOnce \/ StartSearch \/ Dequeue \/ Finish

(* The search is synchronous code: it runs until it returns. *)
Spec == Init /\ [][Next]_vars /\ WF_vars(Next)

-----------------------------------------------------------------------------
(* Reference definitions *)

Edges == UNION {{<<s, t>> : t \in ToSet(transitions(s))} : s \in States}

(* The states within k transitions of s. *)
Within(s, k) ==
    LET ball[n \in 0..k] ==
            IF n = 0 THEN {s}
            ELSE LET inner == ball[n - 1]
                 IN inner \cup UNION {ToSet(transitions(t)) : t \in inner}
    IN ball[k]

Steps(path) == {<<path[n], path[n + 1]>> : n \in 1..(Len(path) - 1)}

Thrown == pc = "done" /\ search.result = <<>>

(* The states of an intent whose order may be at the broker, for each type. *)
AtBroker(type) ==
    Cancelling \cup
    IF type = "entry"
    THEN {"submission_attempt_persisted", "submission_ambiguous",
          "broker_order_discovered", "broker_order_accepted", "partially_filled"}
    ELSE {"exit_submission_attempt_persisted", "exit_submission_ambiguous",
          "exit_broker_order_discovered", "exit_partially_filled"}

-----------------------------------------------------------------------------
(* Properties *)

(* resolveLifecycleTransitionPath returns a path of table edges from the   *)
(* current state to the one the broker status stands for, and no shorter   *)
(* one exists.                                                             *)
PathIsShortest ==
    pc = "done" /\ search.result # <<>> /\ Len(search.result) > 1 =>
        LET path == search.result IN
        /\ Head(path) = from /\ Last(path) = target
        /\ Steps(path) \subseteq Edges
        /\ target \notin Within(from, Len(path) - 2)

(* NO_VALID_LIFECYCLE_PATH is thrown only when the table has no path.      *)
ThrowsOnlyIfUnreachable == Thrown => target \notin Within(from, Cardinality(States))

(* The trigger of migration 006, kept by hand beside the TypeScript table, *)
(* accepts every row that a resolved path makes a reconciliation insert.   *)
TriggerAcceptsPath ==
    pc = "done" => \A e \in Steps(search.result) : TriggerAccepts(e[1], e[2])

(* Every order that may be at the broker can be brought to a terminal      *)
(* broker status: the path the reconciliation needs is never missing.      *)
TerminalStatusHasPath ==
    Thrown => ~(from \in AtBroker(reviewType) /\ status \in TerminalBrokerStatuses)

(* A fill, partial or complete, and a terminal status never lead through   *)
(* cancel_requested or cancel_ambiguous unless the path starts there: the  *)
(* reconciliation would otherwise record a cancellation nobody asked for.  *)
(* The two ways from broker_order_discovered to filled have the same       *)
(* length; only the order of the table keeps this true.  (It is not true   *)
(* of the statuses called "other": a partially filled exit that the broker *)
(* reports as done_for_day is taken through cancel_requested.)             *)
FillInventsNoCancellation ==
    /\ pc = "done" /\ from \in AtBroker(reviewType) \ Cancelling
    /\ status \in TerminalBrokerStatuses \cup {"partially_filled"}
    => ToSet(search.result) \cap Cancelling = {}

Ended == pc = "done"
=============================================================================
