---------------------- MODULE ExecutionStateProjection ----------------------
(***************************************************************************)
(* The PostgreSQL copy of the execution state: what                        *)
(* executionStateProjectionService.ts and PostgresExecutionStateRepository *)
(* keep of evidence, order intents, orders and reservations of buying      *)
(* power.  With executionStateAuthority the copy decides whether the       *)
(* broker may be called; with executionStateShadow it only follows the     *)
(* SQLite ledger and every failure of it is reported and swallowed.        *)
(* ReviewedExecution adds the process that uses it.                        *)
(*                                                                         *)
(* A payload is one reviewed order.  Entries carry a risk of one unit.     *)
(* Prices, quantities and identities are abstracted: an observation of a   *)
(* broker order is its status and how much of it is filled (0, 1 part,     *)
(* 2 all).                                                                 *)
(***************************************************************************)
EXTENDS Naturals, FiniteSets

CONSTANTS Artifacts,    \* review artifacts, numbered in the order of creation
          Entries,      \* symbols that reviewed payloads buy
          Exits,        \* symbols that reviewed payloads sell
          Power,        \* buying power of the paper account, in units of risk
          KeySelected   \* findCurrentAccount selects strategy_key

ASSUME FiniteReviews == IsFiniteSet(Artifacts) /\ IsFiniteSet(Entries) /\ IsFiniteSet(Exits)
ASSUME PowerIsNatural == Power \in Nat

\* A reviewed order; its client_order_id and dedupe key follow from the two.
Payloads == Artifacts \X (Entries \cup Exits)

\* The payloads that open risk (reservationRequired).
BuyEntries == Artifacts \X Entries

VARIABLES
  mode,       \* "inactive", "shadow" or "authority" (runtimeMode)
  evidence,   \* execution_reviews and confirmation_evidence of a payload
  intent,     \* order_intents.status, "none" when there is no row
  stored,     \* the current row of orders: status and filled quantity
  resv,       \* buying_power_reservations.status
  lapsed,     \* the payloads whose reservation is past its expires_at
  reserved,   \* strategy_allocations.reserved_amount
  snapshot    \* account_snapshots.buying_power of the latest snapshot

pgVars == <<mode, evidence, intent, stored, resv, lapsed, reserved, snapshot>>

Modes == {"inactive", "shadow", "authority"}
NoOrder == [st |-> "none", f |-> 0]
WorkingStatus == {"accepted", "partially_filled"}
OrderStatus == WorkingStatus \cup {"filled", "canceled", "rejected", "failed", "ambiguous"}
Observations == {NoOrder} \cup [st : OrderStatus, f : 0 .. 2]
IntentStatus == {"ready_for_submission", "submitted", "ambiguous", "reconciled", "cancelled", "failed"}
TerminalIntent == {"reconciled", "failed", "cancelled"}
TerminalOrder == {"filled", "rejected", "canceled"}

ProjectionTypeOK ==
  /\ mode \in Modes
  /\ evidence \in [Payloads -> {"none", "valid", "consumed"}]
  /\ intent \in [Payloads -> IntentStatus \cup {"none"}]
  /\ stored \in [Payloads -> Observations]
  /\ resv \in [Payloads -> {"none", "active", "committed", "released"}]
  /\ lapsed \subseteq Payloads
  /\ reserved \in Nat
  /\ snapshot \in 0 .. Power

ProjectionInit ==
  /\ mode \in Modes
  /\ evidence = [p \in Payloads |-> "none"]
  /\ intent = [p \in Payloads |-> "none"]
  /\ stored = [p \in Payloads |-> NoOrder]
  /\ resv = [p \in Payloads |-> "none"]
  /\ lapsed = {}
  /\ reserved = 0
  /\ snapshot = Power

Authority == mode = "authority"

orderIntentStatus_Raw(st) ==
  CASE st = "filled" -> "reconciled"
    [] st \in WorkingStatus -> "submitted"
    [] st = "canceled" -> "cancelled"
    [] OTHER -> st

\* orderIntentStatus of the repository.
orderIntentStatus(st) ==
  CASE st = "filled" -> "reconciled"
    [] st \in WorkingStatus -> "submitted"
    [] st = "ambiguous" -> "ambiguous"
    [] st = "canceled" -> "cancelled"
    [] OTHER -> "failed"

\* Reservations that still count: active and not expired.
listActiveReservations == {p \in Payloads : resv[p] = "active" /\ p \notin lapsed}

\* orders.status of the open_orders subquery.
OpenOrders == {p \in Payloads : stored[p].st \in WorkingStatus}

\* buying_power_allowed: the snapshot less active reservations and open orders.
buyingPowerAllowed ==
  Cardinality(listActiveReservations) + Cardinality(OpenOrders) + 1 <= snapshot

\* strategy_allowed: the allocation is as large as the plan limit, here Power.
\* findCurrentAccount declares strategy_key but does not select it, so the
\* allocation is looked up with NULL and no row of limits is found: as the
\* code stands KeySelected is FALSE.
strategyAllowed == KeySelected /\ reserved + 1 <= Power

\* upsertExecutionEvidence: inserted as valid, or a replay of the same row.
StoreEvidence(p) ==
  evidence' = IF evidence[p] = "none" THEN [evidence EXCEPT ![p] = "valid"] ELSE evidence

\* The answer of reserveAndCreateOrderIntent, in the order of its returns.
ReservationAnswer(p) ==
  IF intent[p] # "none" THEN "duplicate"
  ELSE IF evidence[p] # "valid" THEN "blocked"
  ELSE IF p \in BuyEntries /\ ~(buyingPowerAllowed /\ strategyAllowed) THEN "blocked"
  ELSE "authorized"

\* What an authorized reservation writes: evidence consumed, reservation
\* active, allocation charged, intent ready.
CreateIntent(p) ==
  /\ evidence' = [evidence EXCEPT ![p] = "consumed"]
  /\ intent' = [intent EXCEPT ![p] = "ready_for_submission"]
  /\ resv' = IF p \in BuyEntries THEN [resv EXCEPT ![p] = "active"] ELSE resv
  /\ reserved' = IF p \in BuyEntries THEN reserved + 1 ELSE reserved
  /\ UNCHANGED <<mode, stored, lapsed, snapshot>>

\* reserveOrderIntent of the service: the transaction above, and whether the
\* caller may go to the broker.  A duplicate intent means an earlier attempt
\* whose outcome only reconciliation can settle.
BrokerAllowed_Duplicate(answer) == ~Authority \/ answer # "blocked"
BrokerAllowed_Blocked(answer) == ~Authority \/ answer # "duplicate"
BrokerAllowed(answer) == ~Authority \/ answer = "authorized"

reserveOrderIntent(p) ==
  IF mode # "inactive" /\ ReservationAnswer(p) = "authorized"
  THEN CreateIntent(p) ELSE UNCHANGED pgVars

StatusRegression_FillsOnly(p, obs) == stored[p].f > obs.f

\* POSTGRES_BROKER_RESULT_STATUS_REGRESSION: the result is older than what is
\* stored.
StatusRegression(p, obs) ==
  \/ stored[p].f > obs.f
  \/ intent[p] \in TerminalIntent /\ orderIntentStatus(obs.st) # intent[p]
  \/ stored[p].st \in TerminalOrder /\ stored[p].st # obs.st

ResultAccepted(p, obs) == intent[p] # "none" /\ ~StatusRegression(p, obs)

ReservationAfter_DropsDoubt(p, status) ==
  IF resv[p] # "active" THEN resv[p]
  ELSE IF status \in {"submitted", "reconciled"} THEN "committed" ELSE "released"

\* The active reservation follows the intent: an ambiguous result keeps it.
ReservationAfter(p, status) ==
  IF resv[p] # "active" \/ status = "ambiguous" THEN resv[p]
  ELSE IF status \in {"submitted", "reconciled"} THEN "committed" ELSE "released"

\* recordBrokerResult: the order row, the intent, the reservation and the
\* allocation in one transaction; an older result changes nothing (it throws).
recordBrokerResult(p, obs) ==
  IF ResultAccepted(p, obs)
  THEN LET status == orderIntentStatus(obs.st)
           after == ReservationAfter(p, status)
       IN /\ stored' = [stored EXCEPT ![p] = obs]
          /\ intent' = [intent EXCEPT ![p] = status]
          /\ resv' = [resv EXCEPT ![p] = after]
          /\ reserved' = IF after # resv[p] /\ reserved > 0 THEN reserved - 1 ELSE reserved
          /\ UNCHANGED <<mode, evidence, lapsed, snapshot>>
  ELSE UNCHANGED pgVars

syncAccountState_Resets(power, active) ==
  /\ snapshot' = power
  /\ reserved' = 0
  /\ UNCHANGED <<mode, evidence, intent, stored, resv, lapsed>>

\* syncAccountState: the snapshot and the allocation are overwritten with what
\* the caller captured, active holds the reservations it listed before.
syncAccountState(power, active) ==
  /\ snapshot' = power
  /\ reserved' = Cardinality(active)
  /\ UNCHANGED <<mode, evidence, intent, stored, resv, lapsed>>

\* listBrokerReconciliationTargets.
ReconciliationTargets ==
  {p \in Payloads : intent[p] \in {"ready_for_submission", "submitted", "ambiguous"}}

\* A reservation passes its expires_at, fifteen minutes after the ledger row.
ReservationLapses(p) ==
  /\ resv[p] = "active" /\ p \notin lapsed
  /\ lapsed' = lapsed \cup {p}
  /\ UNCHANGED <<mode, evidence, intent, stored, resv, reserved, snapshot>>

=============================================================================
