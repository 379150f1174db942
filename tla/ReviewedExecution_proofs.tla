---------------------- MODULE ReviewedExecution_proofs ----------------------
(***************************************************************************)
(* Proofs about the execution of reviewed payloads, for any finite sets of *)
(* artifacts and symbols, any processes, any buying power and any number   *)
(* of faults, in SQLite, shadow and authority mode.                        *)
(*                                                                         *)
(* One inductive invariant carries them: whoever may still send a payload  *)
(* owns it alone, and the store that decides knows of it before it is sent *)
(* (SendInvariant); what the store has of an order agrees with the broker  *)
(* (OrderInvariant); and the holder of the lease has listed every          *)
(* reservation that is in force (CoverInvariant).  The last section adds   *)
(* what it takes to show that no entry is bought twice.                    *)
(***************************************************************************)
EXTENDS ReviewedExecution, FiniteSetTheorems, TLAPS

(* Stages with a current payload, before its POST and after. *)
Sending == {"evidence", "authorize", "post"}
Busy == Sending \cup {"ledger", "record"}

(* The stages in which the entries of a batch are reserved. *)
Past == Busy \cup {"next"}

(* The run x may still send payload p. *)
Owns(x, p) ==
    IF Authority THEN x.pc = "post" /\ x.cur = p
    ELSE \/ x.pc \in Sending /\ x.cur = p
         \/ x.pc \in Past /\ p \in x.todo /\ p \in BuyEntries

(* The store that decides has a row of payload p. *)
Known(p) == IF Authority THEN intent[p] # "none" ELSE ledger[p] # "none"

Placed(x) ==
    /\ x.pc \in Busy => x.cur \in Payloads
    /\ x.pc \in Sending => x.cur \notin x.todo

SendInvariant ==
    /\ \A r \in Procs : Placed(run[r])
    /\ \A r \in Procs, p \in Payloads : Owns(run[r], p) => Known(p) /\ posts[p] = 0
    /\ \A q, r \in Procs, p \in Payloads : Owns(run[q], p) /\ Owns(run[r], p) => q = r
    /\ \A p \in Payloads : posts[p] <= 1 /\ (posts[p] > 0 => Known(p))

OrderInvariant ==
    /\ \A p \in Payloads :
          /\ posts[p] = 0 => broker[p] = NoOrder /\ p \notin inflight
          /\ p \in inflight => broker[p] = NoOrder
          /\ intent[p] = "cancelled" => broker[p].st = "canceled"
          /\ resv[p] = "released" => intent[p] \in {"failed", "cancelled"}
    /\ \A r \in Procs : run[r].ans.st # "canceled"
    /\ rec = NoRec \/ rec.p \in Payloads
    /\ rec.obs.st = "canceled" => rec.p \in Payloads /\ broker[rec.p].st = "canceled"

CoverInvariant ==
    Authority /\ lapsed = {} =>
        /\ reserved >= Cardinality(listActiveReservations)
        /\ \A r \in Procs : run[r].pc = "validate" /\ holder = r =>
              listActiveReservations \subseteq run[r].cap.res

Invariant == TypeOK /\ SendInvariant /\ OrderInvariant /\ CoverInvariant

-----------------------------------------------------------------------------
(* Sets and records *)

LEMMA PayloadsAreFinite == IsFiniteSet(Payloads) /\ BuyEntries \subseteq Payloads
<1>1. IsFiniteSet(Entries \cup Exits)
  BY FiniteReviews, FS_Union
<1> QED
  BY <1>1, FiniteReviews, FS_Product DEF Payloads, BuyEntries

(* A subset of the payloads has a size. *)
LEMMA SizeOf ==
  ASSUME NEW S \in SUBSET Payloads
  PROVE  IsFiniteSet(S) /\ Cardinality(S) \in Nat
BY PayloadsAreFinite, FS_Subset, FS_CardinalityType

(* A process that has just ended. *)
LEMMA IdleTyped == IdleRun \in Runs /\ NoCapture \in Captures
BY DEF IdleRun, NoCapture, Runs, Captures, Stages, Observations, NoOrder

(* One run changes. *)
LEMMA OneRun ==
  ASSUME run \in [Procs -> Runs], NEW r \in Procs, NEW x \in Runs, run' = [run EXCEPT ![r] = x]
  PROVE  /\ run' \in [Procs -> Runs]
         /\ run'[r] = x
         /\ \A q \in Procs : q # r => run'[q] = run[q]
OBVIOUS

-----------------------------------------------------------------------------
(* The PostgreSQL copy *)

(* What no transaction takes back: rows stay, a finished intent stays as it *)
(* is, fills only grow, and a reservation is released with its intent.      *)
PgStep ==
    /\ mode' = mode /\ lapsed \subseteq lapsed'
    /\ \A p \in Payloads :
          /\ intent[p] # "none" => intent'[p] # "none"
          /\ intent[p] \in TerminalIntent => intent'[p] = intent[p]
          /\ stored'[p].f >= stored[p].f
          /\ resv'[p] = "released" => resv[p] = "released" \/ intent'[p] \in {"failed", "cancelled"}

(* The allocation goes on accounting for what is in force. *)
Covered == reserved >= Cardinality(listActiveReservations)
CoverStep == lapsed = {} /\ Covered => Covered'

LEMMA PgStutter ==
  ASSUME ProjectionTypeOK, UNCHANGED <<intent, stored, resv, lapsed, mode>>
  PROVE  PgStep
BY DEF PgStep, ProjectionTypeOK, Observations, NoOrder

LEMMA IntentStatusTyped ==
  ASSUME NEW obs \in Observations
  PROVE  /\ orderIntentStatus(obs.st) \in IntentStatus
         /\ orderIntentStatus(obs.st) = "cancelled" => obs.st = "canceled"
         /\ orderIntentStatus(obs.st) \notin {"submitted", "reconciled", "ambiguous"} =>
               orderIntentStatus(obs.st) \in {"failed", "cancelled"}
         /\ obs.f \in 0 .. 2
BY DEF Observations, NoOrder, OrderStatus, WorkingStatus, orderIntentStatus, IntentStatus

(* reserveAndCreateOrderIntent *)
LEMMA CreateFacts ==
  ASSUME ProjectionTypeOK, NEW p \in Payloads, reserveOrderIntent(p)
  PROVE  /\ ProjectionTypeOK' /\ PgStep /\ CoverStep /\ lapsed' = lapsed
         /\ \A q \in Payloads : intent'[q] = "cancelled" => intent[q] = "cancelled"
         /\ mode # "inactive" /\ ReservationAnswer(p) = "authorized" => intent[p] = "none" /\ intent'[p] # "none"
<1>1. CASE ~(mode # "inactive" /\ ReservationAnswer(p) = "authorized")
  <2>1. UNCHANGED pgVars
    BY <1>1 DEF reserveOrderIntent
  <2> QED
    BY <1>1, <2>1, PgStutter DEF pgVars, ProjectionTypeOK, CoverStep, Covered, listActiveReservations
<1>2. CASE mode # "inactive" /\ ReservationAnswer(p) = "authorized" /\ CreateIntent(p)
  <2>1. intent[p] = "none"
    BY <1>2 DEF ReservationAnswer
  <2>2. ProjectionTypeOK'
    BY <1>2 DEF CreateIntent, ProjectionTypeOK, IntentStatus
  <2>3. PgStep /\ intent'[p] # "none"
    BY <1>2, <2>1 DEF PgStep, CreateIntent, ProjectionTypeOK, TerminalIntent, Observations, NoOrder
  <2>4. CoverStep
    <3>1. CASE p \in BuyEntries
      <4>1. listActiveReservations' \subseteq listActiveReservations \cup {p}
        BY <1>2, <3>1 DEF CreateIntent, listActiveReservations, ProjectionTypeOK
      <4>2. IsFiniteSet(listActiveReservations) /\ Cardinality(listActiveReservations) \in Nat
        BY SizeOf DEF listActiveReservations
      <4>3. /\ IsFiniteSet(listActiveReservations \cup {p})
            /\ Cardinality(listActiveReservations \cup {p}) <= Cardinality(listActiveReservations) + 1
        <5> DEFINE L == listActiveReservations
        <5>1. IsFiniteSet(L) /\ Cardinality(L) \in Nat
          BY <4>2
        <5> HIDE DEF L
        <5>2. IsFiniteSet(L \cup {p}) /\ (Cardinality(L \cup {p}) = Cardinality(L) \/ Cardinality(L \cup {p}) = Cardinality(L) + 1)
          BY <5>1, FS_AddElement
        <5>3. IsFiniteSet(L \cup {p}) /\ Cardinality(L \cup {p}) <= Cardinality(L) + 1
          BY <5>1, <5>2
        <5> QED
          BY <5>3 DEF L
      <4>4. Cardinality(listActiveReservations \cup {p}) \in Nat /\ Cardinality(listActiveReservations') \in Nat
        BY <4>1, <4>3, FS_Subset, FS_CardinalityType
      <4>5. Cardinality(listActiveReservations') <= Cardinality(listActiveReservations \cup {p})
        BY <4>1, <4>3, FS_Subset
      <4>6. reserved' = reserved + 1 /\ reserved \in Nat
        BY <1>2, <3>1 DEF CreateIntent, ProjectionTypeOK
      <4> QED
        BY <4>2, <4>3, <4>4, <4>5, <4>6 DEF CoverStep, Covered
    <3>2. CASE p \notin BuyEntries
      BY <1>2, <3>2 DEF CreateIntent, CoverStep, Covered, listActiveReservations
    <3> QED
      BY <3>1, <3>2
  <2>5. \A q \in Payloads : intent'[q] = "cancelled" => intent[q] = "cancelled"
    BY <1>2 DEF CreateIntent, ProjectionTypeOK
  <2> QED
    BY <1>2, <2>1, <2>2, <2>3, <2>4, <2>5 DEF CreateIntent
<1> QED
  BY <1>1, <1>2 DEF reserveOrderIntent

(* recordBrokerResult *)
LEMMA RecordFacts ==
  ASSUME ProjectionTypeOK, NEW p \in Payloads, NEW obs \in Observations, recordBrokerResult(p, obs)
  PROVE  /\ ProjectionTypeOK' /\ PgStep /\ CoverStep /\ lapsed' = lapsed
         /\ \A q \in Payloads :
               intent'[q] = "cancelled" => intent[q] = "cancelled" \/ (q = p /\ obs.st = "canceled")
         /\ listActiveReservations' \subseteq listActiveReservations
<1>1. CASE UNCHANGED pgVars
  BY <1>1, PgStutter DEF pgVars, ProjectionTypeOK, CoverStep, Covered, listActiveReservations
<1>2. CASE ~UNCHANGED pgVars
  <2> DEFINE status == orderIntentStatus(obs.st)
             after == ReservationAfter(p, status)
  <2>1. /\ ResultAccepted(p, obs)
        /\ stored' = [stored EXCEPT ![p] = obs]
        /\ intent' = [intent EXCEPT ![p] = status]
        /\ resv' = [resv EXCEPT ![p] = after]
        /\ reserved' = IF after # resv[p] /\ reserved > 0 THEN reserved - 1 ELSE reserved
        /\ UNCHANGED <<mode, evidence, lapsed, snapshot>>
    BY <1>2 DEF recordBrokerResult
  <2>2. status \in IntentStatus /\ (status = "cancelled" => obs.st = "canceled") /\ obs.f \in 0 .. 2
    BY IntentStatusTyped
  <2>3. /\ after \in {"none", "active", "committed", "released"}
        /\ after # resv[p] => resv[p] = "active" /\ after # "active"
        /\ after = "released" => resv[p] = "released" \/ status \in {"failed", "cancelled"}
    <3>1. resv[p] \in {"none", "active", "committed", "released"}
      BY DEF ProjectionTypeOK
    <3>2. status \notin {"submitted", "reconciled", "ambiguous"} => status \in {"failed", "cancelled"}
      BY IntentStatusTyped
    <3> HIDE DEF status
    <3>3. CASE resv[p] # "active" \/ status = "ambiguous"
      BY <3>1, <3>3 DEF ReservationAfter
    <3>4. CASE resv[p] = "active" /\ status \in {"submitted", "reconciled"}
      <4>1. after = "committed"
        BY <3>4 DEF ReservationAfter
      <4> QED
        BY <3>4, <4>1
    <3>5. CASE resv[p] = "active" /\ status \notin {"submitted", "reconciled", "ambiguous"}
      <4>1. after = "released"
        BY <3>5 DEF ReservationAfter
      <4> QED
        BY <3>2, <3>5, <4>1
    <3> QED
      BY <3>3, <3>4, <3>5
  <2>4. /\ intent[p] # "none" /\ stored[p].f <= obs.f
        /\ intent[p] \in TerminalIntent => status = intent[p]
    <3>1. stored[p].f \in 0 .. 2
      BY DEF ProjectionTypeOK, Observations, NoOrder
    <3> QED
      BY <2>1, <2>2, <3>1 DEF ResultAccepted, StatusRegression
  <2> HIDE DEF status, after
  <2>5. ProjectionTypeOK'
    BY <2>1, <2>2, <2>3 DEF ProjectionTypeOK
  <2>6. PgStep
    BY <2>1, <2>2, <2>3, <2>4 DEF PgStep, ProjectionTypeOK, IntentStatus, Observations, NoOrder
  <2>7. \A q \in Payloads : intent'[q] = "cancelled" => intent[q] = "cancelled" \/ (q = p /\ obs.st = "canceled")
    BY <2>1, <2>2 DEF ProjectionTypeOK
  <2>8. listActiveReservations' \subseteq listActiveReservations
    BY <2>1, <2>3 DEF listActiveReservations, ProjectionTypeOK
  <2>9. CoverStep
    <3> SUFFICES ASSUME lapsed = {}, Covered PROVE Covered'
      BY DEF CoverStep
    <3>1. IsFiniteSet(listActiveReservations) /\ Cardinality(listActiveReservations) \in Nat
      BY SizeOf DEF listActiveReservations
    <3>2. Cardinality(listActiveReservations') \in Nat /\ Cardinality(listActiveReservations') <= Cardinality(listActiveReservations)
      BY <2>8, <3>1, FS_Subset, FS_CardinalityType
    <3>3. CASE after = resv[p]
      BY <2>1, <3>1, <3>2, <3>3 DEF Covered, ProjectionTypeOK
    <3>4. CASE after # resv[p]
      <4>1. p \in listActiveReservations /\ listActiveReservations' \subseteq listActiveReservations \ {p}
        BY <2>1, <2>3, <3>4 DEF listActiveReservations, ProjectionTypeOK
      <4>2. /\ IsFiniteSet(listActiveReservations \ {p})
            /\ Cardinality(listActiveReservations \ {p}) = Cardinality(listActiveReservations) - 1
        BY <3>1, <4>1, FS_RemoveElement
      <4>3. Cardinality(listActiveReservations') <= Cardinality(listActiveReservations) - 1
        BY <4>1, <4>2, FS_Subset
      <4> QED
        BY <2>1, <3>1, <3>2, <3>4, <4>3 DEF Covered, ProjectionTypeOK
    <3> QED
      BY <3>3, <3>4
  <2> QED
    BY <2>1, <2>5, <2>6, <2>7, <2>8, <2>9
<1> QED
  BY <1>1, <1>2

(* Nothing happens in PostgreSQL, or what happens is not about orders. *)
LEMMA PgSame ==
  ASSUME ProjectionTypeOK, UNCHANGED pgVars
  PROVE  /\ ProjectionTypeOK' /\ PgStep /\ CoverStep /\ lapsed' = lapsed /\ intent' = intent
         /\ listActiveReservations' = listActiveReservations
BY PgStutter DEF pgVars, ProjectionTypeOK, CoverStep, Covered, listActiveReservations

(* storePaperReviewEvidence *)
LEMMA EvidenceFacts ==
  ASSUME ProjectionTypeOK, NEW p \in Payloads, StoreEvidence(p),
         UNCHANGED <<mode, intent, stored, resv, lapsed, reserved, snapshot>>
  PROVE  /\ ProjectionTypeOK' /\ PgStep /\ CoverStep /\ lapsed' = lapsed /\ intent' = intent
         /\ listActiveReservations' = listActiveReservations
<1>1. ProjectionTypeOK'
  BY DEF StoreEvidence, ProjectionTypeOK
<1>2. PgStep
  BY PgStutter
<1> QED
  BY <1>1, <1>2 DEF CoverStep, Covered, listActiveReservations

(* What the account can still buy is at most the buying power. *)
LEMMA PowerTyped ==
  ASSUME NEW cap \in Captures
  PROVE  ProjectedPower(cap) \in 0 .. Power
<1> DEFINE spent == {x \in cap.pos : x[1] \in BuyEntries}
<1>1. IsFiniteSet(0 .. 2)
  <2>1. 0 \in Int /\ 2 \in Int
    OBVIOUS
  <2> QED
    BY <2>1, FS_Interval
<1>2. IsFiniteSet(Payloads \X (0 .. 2))
  BY <1>1, PayloadsAreFinite, FS_Product
<1>3. spent \subseteq Payloads \X (0 .. 2)
  BY DEF Captures
<1>4. Cardinality(spent) \in Nat
  BY <1>2, <1>3, FS_Subset, FS_CardinalityType
<1> HIDE DEF spent
<1>5. (IF Cardinality(spent) < Power THEN Power - Cardinality(spent) ELSE 0) \in 0 .. Power
  BY <1>4, PowerIsNatural
<1> QED
  BY <1>5 DEF ProjectedPower, spent

(* syncAccountState: the allocation covers what the caller has listed. *)
LEMMA SyncFacts ==
  ASSUME ProjectionTypeOK, NEW power \in 0 .. Power, NEW S \in SUBSET Payloads,
         syncAccountState(power, S)
  PROVE  /\ ProjectionTypeOK' /\ PgStep /\ lapsed' = lapsed /\ intent' = intent
         /\ listActiveReservations' = listActiveReservations
         /\ listActiveReservations \subseteq S => Covered'
<1>1. IsFiniteSet(S) /\ Cardinality(S) \in Nat
  BY SizeOf
<1>2. ProjectionTypeOK'
  BY <1>1 DEF syncAccountState, ProjectionTypeOK
<1>3. PgStep
  BY PgStutter DEF syncAccountState
<1>4. listActiveReservations' = listActiveReservations
  BY DEF syncAccountState, listActiveReservations
<1>5. ASSUME listActiveReservations \subseteq S PROVE Covered'
  <2>1. Cardinality(listActiveReservations) <= Cardinality(S)
    BY <1>1, <1>5, FS_Subset
  <2>2. reserved' = Cardinality(S)
    BY DEF syncAccountState
  <2>3. Cardinality(listActiveReservations) \in Nat
    BY SizeOf DEF listActiveReservations
  <2> QED
    BY <1>1, <1>4, <2>1, <2>2, <2>3 DEF Covered
<1> QED
  BY <1>2, <1>3, <1>4, <1>5 DEF syncAccountState

-----------------------------------------------------------------------------
(* A step of one process that does not reach the broker *)

(* The payloads that y owns, it owned before, or nobody knew of them. *)
Acquires(r, y) ==
    \A p \in Payloads : Owns(y, p) => Known(p)' /\ (Owns(run[r], p) \/ ~Known(p))

LEMMA SendStep ==
  ASSUME TypeOK, SendInvariant, NEW r \in Procs, NEW y \in Runs, run' = [run EXCEPT ![r] = y],
         mode' = mode, posts' = posts, Placed(y), Acquires(r, y),
         \A p \in Payloads : Known(p) => Known(p)'
  PROVE  SendInvariant'
<1>1. /\ run' \in [Procs -> Runs] /\ run'[r] = y
      /\ \A q \in Procs : q # r => run'[q] = run[q]
  BY OneRun DEF TypeOK
<1>2. \A q \in Procs, p \in Payloads : Owns(run[q], p) => Known(p) /\ posts[p] = 0
  BY DEF SendInvariant
<1>3. \A p \in Payloads : posts[p] <= 1 /\ (posts[p] > 0 => Known(p))
  BY DEF SendInvariant
<1>4. \A p \in Payloads : ~Known(p) => posts[p] = 0
  BY <1>3 DEF TypeOK
<1>5. \A q \in Procs, p \in Payloads : Owns(run[q], p)' <=> Owns(run'[q], p)
  BY DEF Owns, Authority
<1>6. \A q \in Procs, p \in Payloads : q # r => (Owns(run[q], p)' <=> Owns(run[q], p))
  BY <1>1, <1>5
<1>7. \A p \in Payloads : Owns(run[r], p)' <=> Owns(y, p)
  BY <1>1, <1>5
<1>8. (\A q \in Procs : Placed(run[q]))'
  BY <1>1 DEF SendInvariant, Placed
<1>9. (\A q \in Procs, p \in Payloads : Owns(run[q], p) => Known(p) /\ posts[p] = 0)'
  <2> SUFFICES ASSUME NEW q \in Procs, NEW p \in Payloads, Owns(run[q], p)'
               PROVE  Known(p)' /\ posts[p] = 0
    OBVIOUS
  <2>1. CASE q # r
    BY <1>2, <1>6, <2>1
  <2>2. CASE q = r
    BY <1>2, <1>4, <1>7, <2>2 DEF Acquires
  <2> QED
    BY <2>1, <2>2
<1>10. (\A q, s \in Procs, p \in Payloads : Owns(run[q], p) /\ Owns(run[s], p) => q = s)'
  <2> SUFFICES ASSUME NEW q \in Procs, NEW s \in Procs, NEW p \in Payloads,
                      Owns(run[q], p)', Owns(run[s], p)'
               PROVE  q = s
    OBVIOUS
  <2>1. CASE q # r /\ s # r
    BY <1>6, <2>1 DEF SendInvariant
  <2>2. ASSUME NEW t \in Procs, t # r, Owns(run[t], p)', Owns(run[r], p)' PROVE FALSE
    <3>1. Owns(run[t], p) /\ Known(p)
      BY <1>2, <1>6, <2>2
    <3>2. Owns(run[r], p)
      BY <1>7, <2>2, <3>1 DEF Acquires
    <3> QED
      BY <2>2, <3>1, <3>2 DEF SendInvariant
  <2> QED
    BY <2>1, <2>2
<1>11. (\A p \in Payloads : posts[p] <= 1 /\ (posts[p] > 0 => Known(p)))'
  BY <1>3
<1> QED
  BY <1>8, <1>9, <1>10, <1>11 DEF SendInvariant

LEMMA OrderStep ==
  ASSUME TypeOK, OrderInvariant, PgStep, UNCHANGED <<broker, posts, inflight>>,
         \A p \in Payloads : intent'[p] = "cancelled" => intent[p] = "cancelled" \/ broker[p].st = "canceled",
         \A q \in Procs : run'[q].ans.st # "canceled",
         rec' = NoRec \/ rec'.p \in Payloads,
         rec'.obs.st = "canceled" => rec'.p \in Payloads /\ broker[rec'.p].st = "canceled"
  PROVE  OrderInvariant'
<1>1. ASSUME NEW p \in Payloads, resv'[p] = "released" PROVE intent'[p] \in {"failed", "cancelled"}
  BY <1>1 DEF OrderInvariant, PgStep, TerminalIntent
<1>2. ASSUME NEW p \in Payloads, intent'[p] = "cancelled" PROVE broker'[p].st = "canceled"
  BY <1>2 DEF OrderInvariant
<1> QED
  BY <1>1, <1>2 DEF OrderInvariant

LEMMA CoverageStep ==
  ASSUME CoverInvariant, PgStep, lapsed' = lapsed,
         Authority /\ lapsed = {} /\ Covered => Covered',
         Authority => \A q \in Procs : run'[q].pc = "validate" /\ holder' = q =>
            listActiveReservations' \subseteq run'[q].cap.res
  PROVE  CoverInvariant'
<1>1. Authority' <=> Authority
  BY DEF Authority, PgStep
<1> QED
  BY <1>1 DEF CoverInvariant, Covered

LEMMA RunStep ==
  ASSUME Invariant, NEW r \in Procs, NEW y \in Runs, run' = [run EXCEPT ![r] = y],
         UNCHANGED <<latest, content, reviewed, broker, inflight, posts, late, torn, rec>>,
         ledger' \in [Payloads -> LedgerStatus], faults' \in 0 .. MaxFaults,
         \A p \in Payloads : ledger[p] # "none" => ledger'[p] # "none",
         ProjectionTypeOK', PgStep, lapsed' = lapsed,
         Authority /\ lapsed = {} /\ Covered => Covered',
         \A p \in Payloads : intent'[p] = "cancelled" => intent[p] = "cancelled",
         Placed(y), y.ans.st # "canceled", Acquires(r, y),
         holder' \in Procs \cup {NoProc}, Authority => holder' \in {holder, r},
         listActiveReservations' \subseteq listActiveReservations \/ (Authority => holder = r),
         Authority /\ y.pc = "validate" => listActiveReservations' \subseteq y.cap.res
  PROVE  Invariant'
<1>1. /\ run' \in [Procs -> Runs] /\ run'[r] = y
      /\ \A q \in Procs : q # r => run'[q] = run[q]
  BY OneRun DEF Invariant, TypeOK
<1>2. TypeOK'
  BY <1>1 DEF Invariant, TypeOK
<1>3. SendInvariant'
  <2>1. mode' = mode
    BY DEF PgStep
  <2>2. \A p \in Payloads : Known(p) => Known(p)'
    BY <2>1 DEF Known, Authority, PgStep
  <2> QED
    BY <2>1, <2>2, SendStep DEF Invariant
<1>4. OrderInvariant'
  <2>1. \A q \in Procs : run'[q].ans.st # "canceled"
    BY <1>1 DEF Invariant, OrderInvariant
  <2>2. /\ rec' = NoRec \/ rec'.p \in Payloads
        /\ rec'.obs.st = "canceled" => rec'.p \in Payloads /\ broker[rec'.p].st = "canceled"
    BY DEF Invariant, OrderInvariant
  <2> QED
    BY <2>1, <2>2, OrderStep DEF Invariant
<1>5. CoverInvariant'
  <2>1. CASE Authority /\ lapsed = {}
    <3>1. ASSUME NEW q \in Procs, run'[q].pc = "validate", holder' = q
          PROVE  listActiveReservations' \subseteq run'[q].cap.res
      <4>1. CASE q = r
        BY <1>1, <2>1, <3>1, <4>1
      <4>2. CASE q # r
        <5>1. holder = q /\ run[q].pc = "validate" /\ run'[q] = run[q]
          BY <1>1, <2>1, <3>1, <4>2
        <5>2. listActiveReservations \subseteq run[q].cap.res
          BY <2>1, <5>1 DEF Invariant, CoverInvariant
        <5>3. listActiveReservations' \subseteq listActiveReservations
          BY <2>1, <4>2, <5>1
        <5> QED
          BY <5>1, <5>2, <5>3
      <4> QED
        BY <4>1, <4>2
    <3> QED
      BY <2>1, <3>1, CoverageStep DEF Invariant
  <2>2. CASE ~(Authority /\ lapsed = {})
    BY <2>2 DEF CoverInvariant, Authority, PgStep
  <2> QED
    BY <2>1, <2>2
<1> QED
  BY <1>2, <1>3, <1>4, <1>5 DEF Invariant

(* The same with nothing done in PostgreSQL. *)
LEMMA LocalStep ==
  ASSUME Invariant, NEW r \in Procs, NEW y \in Runs, run' = [run EXCEPT ![r] = y],
         UNCHANGED pgVars,
         UNCHANGED <<latest, content, reviewed, broker, inflight, posts, late, torn, rec>>,
         ledger' \in [Payloads -> LedgerStatus], faults' \in 0 .. MaxFaults,
         \A p \in Payloads : ledger[p] # "none" => ledger'[p] # "none",
         Placed(y), y.ans.st # "canceled", Acquires(r, y),
         holder' \in Procs \cup {NoProc}, Authority => holder' \in {holder, r},
         Authority /\ y.pc = "validate" => listActiveReservations \subseteq y.cap.res
  PROVE  Invariant'
<1>1. /\ ProjectionTypeOK' /\ PgStep /\ CoverStep /\ lapsed' = lapsed /\ intent' = intent
      /\ listActiveReservations' = listActiveReservations
  BY PgSame DEF Invariant, TypeOK
<1> QED
  BY <1>1, RunStep DEF CoverStep

(* A process that neither sends nor reserves owns nothing. *)
LEMMA QuietRun ==
  ASSUME NEW r \in Procs, NEW y \in Runs, y.pc \notin Past
  PROVE  Placed(y) /\ Acquires(r, y)
BY DEF Placed, Acquires, Owns, Past, Busy, Sending

LEMMA IdleQuiet ==
  ASSUME NEW r \in Procs
  PROVE  /\ Placed(IdleRun) /\ Acquires(r, IdleRun) /\ IdleRun.ans.st # "canceled"
         /\ IdleRun.pc # "validate" /\ IdleRun \in Runs
<1>1. IdleRun \in Runs /\ IdleRun.pc = "idle" /\ IdleRun.ans.st = "none"
  BY IdleTyped DEF IdleRun, NoOrder
<1> QED
  BY <1>1, QuietRun DEF Past, Busy, Sending

-----------------------------------------------------------------------------
(* The actions of a process *)

LEMMA PositionsAreTyped ==
  ASSUME TypeOK
  PROVE  /\ Positions \in SUBSET (Payloads \X (0 .. 2))
         /\ BrokerOpenOrders \in SUBSET Payloads
         /\ Reservations \in SUBSET Payloads
         /\ Fingerprint \in [BuyEntries -> LedgerStatus]
<1>1. \A p \in Payloads : broker[p].f \in 0 .. 2
  BY DEF TypeOK, Observations, NoOrder
<1>2. BuyEntries \subseteq Payloads
  BY PayloadsAreFinite
<1>3. Positions \in SUBSET (Payloads \X (0 .. 2))
  BY <1>1 DEF Positions
<1>4. BrokerOpenOrders \in SUBSET Payloads
  BY DEF BrokerOpenOrders
<1>5. Reservations \in SUBSET Payloads
  BY <1>2 DEF Reservations, listActiveReservations, listActivePaperNewRiskReservations
<1>6. Fingerprint \in [BuyEntries -> LedgerStatus]
  BY <1>2 DEF Fingerprint, TypeOK
<1> QED
  BY <1>3, <1>4, <1>5, <1>6

(* Facts about a process that every action needs. *)
LEMMA RunFacts ==
  ASSUME Invariant, NEW r \in Procs
  PROVE  /\ run[r] \in Runs /\ Placed(run[r]) /\ run[r].ans.st # "canceled"
         /\ run[r].ans \in Observations /\ run[r].cap \in Captures
         /\ run[r].todo \in SUBSET Payloads /\ run[r].cap.res \in SUBSET Payloads
         /\ ledger \in [Payloads -> LedgerStatus] /\ faults \in 0 .. MaxFaults
         /\ holder \in Procs \cup {NoProc}
         /\ ProjectionTypeOK
<1>1. run[r] \in Runs
  BY DEF Invariant, TypeOK
<1> QED
  BY <1>1 DEF Invariant, TypeOK, SendInvariant, OrderInvariant, Runs, Captures

LEMMA StartInv ==
  ASSUME Invariant, NEW r \in Procs, Start(r)
  PROVE  Invariant'
<1> DEFINE Y(chosen) == [run[r] EXCEPT !.todo = chosen,
                            !.pc = IF HasEntries(chosen) THEN "positions" ELSE "account",
                            !.cap.rev = IF HasEntries(chosen) THEN reviewed ELSE <<>>]
<1>1. PICK chosen \in EligibleBatches :
         run' = [run EXCEPT ![r].todo = chosen,
                            ![r].pc = IF HasEntries(chosen) THEN "positions" ELSE "account",
                            ![r].cap.rev = IF HasEntries(chosen) THEN reviewed ELSE <<>>]
  BY DEF Start
<1>0. run' = [run EXCEPT ![r] = Y(chosen)]
  BY <1>1 DEF Invariant, TypeOK, Runs, Captures
<1>2. chosen \in SUBSET Payloads
  BY DEF EligibleBatches, Start, ArtifactUsable, Invariant, TypeOK, Payloads, Symbols
<1>3. /\ (IF HasEntries(chosen) THEN "positions" ELSE "account") \in {"positions", "account"}
      /\ (IF HasEntries(chosen) THEN reviewed ELSE <<>>) \in {<<>>} \cup Portfolios
  BY DEF Invariant, TypeOK
<1>4. /\ Y(chosen) \in Runs /\ Y(chosen).pc \in {"positions", "account"} /\ Y(chosen).ans = run[r].ans
  <2>1. run[r] \in Runs
    BY RunFacts
  <2> QED
    BY <1>2, <1>3, <2>1 DEF Runs, Captures, Stages
<1>5. Placed(Y(chosen)) /\ Acquires(r, Y(chosen))
  BY <1>4, QuietRun DEF Past, Busy, Sending
<1>6. /\ faults' \in 0 .. MaxFaults /\ holder' \in Procs \cup {NoProc} /\ (Authority => holder' \in {holder, r})
  BY RunFacts, FaultsAreNatural DEF Start
<1>7. /\ UNCHANGED pgVars /\ ledger' = ledger
      /\ UNCHANGED <<latest, content, reviewed, broker, inflight, posts, late, torn, rec>>
  BY DEF Start, Keep
<1> HIDE DEF Y
<1> QED
  BY <1>0, <1>4, <1>5, <1>6, <1>7, RunFacts, LocalStep

LEMMA CaptureInv ==
  ASSUME Invariant, NEW r \in Procs, CapturePositions(r) \/ CaptureOrders(r) \/ ListReservations(r)
  PROVE  Invariant'
<1>1. /\ UNCHANGED pgVars /\ ledger' = ledger /\ holder' = holder /\ faults' = faults
      /\ UNCHANGED <<latest, content, reviewed, broker, inflight, posts, late, torn, rec>>
  BY DEF CapturePositions, CaptureOrders, ListReservations, Keep
<1>2. ASSUME NEW y \in Runs, run' = [run EXCEPT ![r] = y], y.ans = run[r].ans,
             y.pc \in {"orders", "reservations", "validate"},
             y.pc = "validate" /\ Authority => listActiveReservations \subseteq y.cap.res
      PROVE  Invariant'
  BY <1>1, <1>2, RunFacts, QuietRun, LocalStep DEF Past, Busy, Sending
<1>3. CASE CapturePositions(r)
  <2> DEFINE base == IF Authority THEN <<>> ELSE Fingerprint
             y == [run[r] EXCEPT !.pc = "orders", !.cap.pos = Positions, !.cap.base = base]
  <2>1. run' = [run EXCEPT ![r] = y]
    BY <1>3 DEF CapturePositions
  <2>2. base \in {<<>>} \cup [BuyEntries -> LedgerStatus]
    BY PositionsAreTyped DEF Invariant
  <2>3. y \in Runs /\ y.pc = "orders" /\ y.ans = run[r].ans
    <3>1. run[r] \in Runs /\ Positions \in SUBSET (Payloads \X (0 .. 2))
      BY RunFacts, PositionsAreTyped DEF Invariant
    <3> HIDE DEF base
    <3> QED
      BY <2>2, <3>1 DEF Runs, Captures, Stages
  <2> QED
    BY <1>2, <2>1, <2>3
<1>4. CASE CaptureOrders(r)
  <2> DEFINE y == [run[r] EXCEPT !.pc = "reservations", !.cap.orders = BrokerOpenOrders]
  <2>1. run' = [run EXCEPT ![r] = y]
    BY <1>4 DEF CaptureOrders
  <2>2. y \in Runs /\ y.pc = "reservations" /\ y.ans = run[r].ans
    <3>1. run[r] \in Runs /\ BrokerOpenOrders \in SUBSET Payloads
      BY RunFacts, PositionsAreTyped DEF Invariant
    <3> QED
      BY <3>1 DEF Runs, Captures, Stages
  <2> QED
    BY <1>2, <2>1, <2>2
<1>5. CASE ListReservations(r)
  <2> DEFINE y == [run[r] EXCEPT !.pc = "validate", !.cap.res = Reservations]
  <2>1. run' = [run EXCEPT ![r] = y]
    BY <1>5 DEF ListReservations
  <2>2. y \in Runs /\ y.pc = "validate" /\ y.ans = run[r].ans /\ y.cap.res = Reservations
    <3>1. run[r] \in Runs /\ Reservations \in SUBSET Payloads
      BY RunFacts, PositionsAreTyped DEF Invariant
    <3> QED
      BY <3>1 DEF Runs, Captures, Stages
  <2>3. Authority => listActiveReservations \subseteq y.cap.res
    BY <2>2 DEF Reservations
  <2> QED
    BY <1>2, <2>1, <2>2, <2>3
<1> QED
  BY <1>3, <1>4, <1>5

LEMMA ValidateInv ==
  ASSUME Invariant, NEW r \in Procs, Validate(r)
  PROVE  Invariant'
<1> DEFINE Y(todo) == IF todo = {} THEN IdleRun ELSE [run[r] EXCEPT !.pc = "account", !.todo = todo, !.cap.rev = <<>>]
<1>1. PICK todo \in SUBSET Payloads : run' = [run EXCEPT ![r] = Y(todo)]
  <2>1. run[r].todo \in SUBSET Payloads /\ DropEntries(r) \in SUBSET Payloads
    BY RunFacts DEF DropEntries
  <2> QED
    BY <2>1 DEF Validate
<1>2. Y(todo) \in Runs /\ Y(todo).pc \in {"idle", "account"} /\ Y(todo).ans.st # "canceled"
  <2>1. CASE todo = {}
    BY <2>1, IdleTyped DEF IdleRun, NoOrder
  <2>2. CASE todo # {}
    <3>1. LET y == [run[r] EXCEPT !.pc = "account", !.todo = todo, !.cap.rev = <<>>]
          IN y \in Runs /\ y.pc = "account" /\ y.ans = run[r].ans
      <4>1. run[r] \in Runs
        BY RunFacts
      <4> QED
        BY <4>1 DEF Runs, Captures, Stages
    <3> QED
      BY <2>2, <3>1, RunFacts
  <2> QED
    BY <2>1, <2>2
<1>3. Placed(Y(todo)) /\ Acquires(r, Y(todo))
  BY <1>2, QuietRun DEF Past, Busy, Sending
<1>4. /\ ledger' = ledger /\ holder' = holder /\ faults' = faults
      /\ UNCHANGED <<latest, content, reviewed, broker, inflight, posts, late, torn, rec>>
      /\ run[r].pc = "validate"
      /\ IF mode = "inactive" \/ Fenced(r) THEN UNCHANGED pgVars
         ELSE syncAccountState(ProjectedPower(run[r].cap), run[r].cap.res)
  BY DEF Validate, Keep
<1> HIDE DEF Y
<1>5. CASE UNCHANGED pgVars
  BY <1>1, <1>2, <1>3, <1>4, <1>5, RunFacts, LocalStep
<1>6. CASE ~Fenced(r) /\ syncAccountState(ProjectedPower(run[r].cap), run[r].cap.res)
  <2>1. /\ ProjectionTypeOK' /\ PgStep /\ lapsed' = lapsed /\ intent' = intent
        /\ listActiveReservations' = listActiveReservations
        /\ listActiveReservations \subseteq run[r].cap.res => Covered'
    BY <1>6, RunFacts, PowerTyped, SyncFacts
  <2>2. Authority /\ lapsed = {} => Covered'
    BY <1>4, <1>6, <2>1 DEF Fenced, Invariant, CoverInvariant
  <2> QED
    BY <1>1, <1>2, <1>3, <1>4, <2>1, <2>2, RunFacts, RunStep
<1> QED
  BY <1>4, <1>5, <1>6

LEMMA FinishInv ==
  ASSUME Invariant, NEW r \in Procs, Finish(r), UNCHANGED pgVars, UNCHANGED <<Keep, ledger, broker, holder>>,
         faults' \in 0 .. MaxFaults
  PROVE  Invariant'
<1>1. run' = [run EXCEPT ![r] = IdleRun]
  BY DEF Finish
<1>2. UNCHANGED <<latest, content, reviewed, broker, inflight, posts, late, torn, rec>> /\ ledger' = ledger /\ holder' = holder
  BY DEF Keep
<1> QED
  BY <1>1, <1>2, IdleQuiet, RunFacts, LocalStep

LEMMA ReserveInv ==
  ASSUME Invariant, NEW r \in Procs, Reserve(r)
  PROVE  Invariant'
<1> DEFINE entries == run[r].todo \cap BuyEntries
           Y(todo) == [run[r] EXCEPT !.pc = "next", !.cap = NoCapture, !.todo = todo]
<1>1. /\ UNCHANGED pgVars /\ holder' = holder /\ faults' = faults
      /\ UNCHANGED <<latest, content, reviewed, broker, inflight, posts, late, torn, rec>>
      /\ run[r].pc = "account"
  BY DEF Reserve, Keep
<1>2. ASSUME NEW todo \in SUBSET Payloads, run' = [run EXCEPT ![r] = Y(todo)],
             ledger' \in [Payloads -> LedgerStatus],
             \A p \in Payloads : ledger[p] # "none" => ledger'[p] # "none",
             ~Authority => \A p \in todo \cap BuyEntries : ledger[p] = "none" /\ ledger'[p] # "none"
      PROVE  Invariant'
  <2>1. Y(todo) \in Runs /\ Y(todo).pc = "next" /\ Y(todo).todo = todo /\ Y(todo).ans = run[r].ans
    <3>1. run[r] \in Runs
      BY RunFacts
    <3> QED
      BY <1>2, <3>1, IdleTyped DEF Runs, Stages
  <2> HIDE DEF Y
  <2>2. Placed(Y(todo))
    BY <2>1 DEF Placed, Busy, Sending
  <2>3. Acquires(r, Y(todo))
    <3> SUFFICES ASSUME NEW p \in Payloads, Owns(Y(todo), p) PROVE Known(p)' /\ ~Known(p)
      BY DEF Acquires
    <3>1. ~Authority /\ p \in todo \cap BuyEntries
      BY <2>1 DEF Owns, Sending
    <3> QED
      BY <1>1, <1>2, <3>1 DEF Known, Authority, pgVars
  <2> QED
    BY <1>1, <1>2, <2>1, <2>2, <2>3, RunFacts, LocalStep
<1>3. CASE Finish(r) /\ UNCHANGED ledger
  BY <1>1, <1>3, FinishInv, RunFacts DEF Keep
<1>4. CASE (Authority \/ entries = {}) /\ run' = [run EXCEPT ![r] = Y(run[r].todo)] /\ UNCHANGED ledger
  BY <1>2, <1>4, RunFacts
<1>5. CASE /\ ~Authority /\ entries # {} /\ BatchFree(r) /\ run' = [run EXCEPT ![r] = Y(run[r].todo)]
           /\ ledger' = [p \in Payloads |-> IF p \in entries THEN "reserved" ELSE ledger[p]]
  <2>1. \A p \in entries : ledger[p] = "none"
    BY <1>5 DEF BatchFree
  <2>2. entries \subseteq Payloads /\ run[r].todo \in SUBSET Payloads
    BY RunFacts
  <2>3. ledger' \in [Payloads -> LedgerStatus]
    BY <1>5, RunFacts DEF LedgerStatus
  <2>4. \A p \in Payloads : (ledger[p] # "none" => ledger'[p] # "none") /\ (p \in entries => ledger'[p] # "none")
    BY <1>5
  <2> QED
    BY <1>2, <1>5, <2>1, <2>2, <2>3, <2>4
<1>6. CASE ~Authority /\ run' = [run EXCEPT ![r] = Y(DropEntries(r))] /\ UNCHANGED ledger
  <2>1. DropEntries(r) \in SUBSET Payloads /\ DropEntries(r) \cap BuyEntries = {}
    BY RunFacts DEF DropEntries
  <2> QED
    BY <1>2, <1>6, <2>1, RunFacts
<1> HIDE DEF Y, entries
<1> QED
  BY <1>3, <1>4, <1>5, <1>6 DEF Reserve, Y, entries

LEMMA NextPayloadInv ==
  ASSUME Invariant, NEW r \in Procs, NextPayload(r)
  PROVE  Invariant'
<1>1. /\ UNCHANGED pgVars /\ holder' = holder /\ faults' = faults
      /\ UNCHANGED <<latest, content, reviewed, broker, inflight, posts, late, torn, rec>>
      /\ run[r].pc = "next"
  BY DEF NextPayload, Keep
<1>2. CASE Finish(r) /\ UNCHANGED ledger
  BY <1>1, <1>2, FinishInv, RunFacts DEF Keep
<1>3. CASE ~(Finish(r) /\ UNCHANGED ledger)
  <2>1. PICK p \in run[r].todo :
          LET duplicate == ~Authority /\ p \notin BuyEntries /\ ledger[p] # "none"
              next == [run[r] EXCEPT !.todo = @ \ {p}, !.ans = NoOrder]
          IN IF duplicate
             THEN run' = [run EXCEPT ![r] = next] /\ UNCHANGED ledger
             ELSE /\ run' = [run EXCEPT ![r] = [next EXCEPT !.pc = "evidence", !.cur = p]]
                  /\ ledger' = IF Authority THEN ledger ELSE [ledger EXCEPT ![p] = "attempted"]
    BY <1>3 DEF NextPayload
  <2> DEFINE x == [run[r] EXCEPT !.todo = @ \ {p}, !.ans = NoOrder]
             y == [x EXCEPT !.pc = "evidence", !.cur = p]
  <2>2. p \in Payloads
    BY RunFacts
  <2>3. /\ x \in Runs
        /\ x.pc = "next" /\ x.todo = run[r].todo \ {p} /\ x.ans = NoOrder
        /\ y \in Runs
        /\ y.pc = "evidence" /\ y.todo = run[r].todo \ {p} /\ y.cur = p /\ y.ans = NoOrder
    <3>1. run[r] \in Runs
      BY RunFacts
    <3> QED
      BY <1>1, <2>2, <3>1 DEF Runs, Stages, Observations
  <2>4. NoOrder.st # "canceled"
    BY DEF NoOrder
  <2>5. CASE ~Authority /\ p \notin BuyEntries /\ ledger[p] # "none"
    <3>1. run' = [run EXCEPT ![r] = x] /\ ledger' = ledger
      BY <2>1, <2>5
    <3> HIDE DEF x, y
    <3>2. Placed(x)
      BY <2>3 DEF Placed, Busy, Sending
    <3>3. Acquires(r, x)
      <4> SUFFICES ASSUME NEW q \in Payloads, Owns(x, q) PROVE Known(q)' /\ Owns(run[r], q)
        BY DEF Acquires
      <4>1. Owns(run[r], q)
        BY <1>1, <2>3, <2>5 DEF Owns, Past, Busy, Sending
      <4>2. Known(q)
        BY <4>1 DEF Invariant, SendInvariant
      <4> QED
        BY <1>1, <3>1, <4>1, <4>2 DEF Known, Authority, pgVars
    <3> QED
      BY <1>1, <2>3, <2>4, <3>1, <3>2, <3>3, RunFacts, LocalStep
  <2>6. CASE ~(~Authority /\ p \notin BuyEntries /\ ledger[p] # "none")
    <3>1. run' = [run EXCEPT ![r] = y] /\ ledger' = IF Authority THEN ledger ELSE [ledger EXCEPT ![p] = "attempted"]
      BY <2>1, <2>6
    <3> HIDE DEF x, y
    <3>2. /\ ledger' \in [Payloads -> LedgerStatus]
          /\ \A q \in Payloads : ledger[q] # "none" => ledger'[q] # "none"
          /\ ~Authority => ledger'[p] # "none"
      BY <2>2, <3>1, RunFacts DEF LedgerStatus
    <3>3. Placed(y)
      BY <2>2, <2>3 DEF Placed, Busy, Sending
    <3>4. Acquires(r, y)
      <4> SUFFICES ASSUME NEW q \in Payloads, Owns(y, q) PROVE Known(q)' /\ (Owns(run[r], q) \/ ~Known(q))
        BY DEF Acquires
      <4>1. ~Authority /\ (q = p \/ (q \in run[r].todo /\ q \in BuyEntries))
        BY <2>3 DEF Owns
      <4>2. q \in run[r].todo /\ q \in BuyEntries => Owns(run[r], q)
        BY <1>1, <4>1 DEF Owns, Past
      <4>3. Owns(run[r], q) => Known(q)
        BY DEF Invariant, SendInvariant
      <4>4. Owns(run[r], q) \/ ~Known(q)
        BY <2>6, <4>1, <4>2 DEF Known
      <4>5. Known(q)'
        BY <1>1, <3>2, <4>1, <4>2, <4>3 DEF Known, Authority, pgVars
      <4> QED
        BY <4>4, <4>5
    <3> QED
      BY <1>1, <2>3, <2>4, <3>1, <3>2, <3>3, <3>4, RunFacts, LocalStep
  <2> QED
    BY <2>5, <2>6
<1> QED
  BY <1>2, <1>3

(* The stage of a process changes and nothing else of it. *)
LEMMA StageFacts ==
  ASSUME Invariant, NEW r \in Procs, NEW pc \in Stages, Step(r, pc)
  PROVE  LET y == [run[r] EXCEPT !.pc = pc] IN
         /\ run' = [run EXCEPT ![r] = y] /\ y \in Runs
         /\ y.pc = pc /\ y.todo = run[r].todo /\ y.cur = run[r].cur /\ y.ans = run[r].ans
<1>1. run[r] \in Runs
  BY RunFacts
<1> QED
  BY <1>1 DEF Step, Runs

(* A process with a current payload goes on to a stage in which it owns no  *)
(* more than before.                                                        *)
LEMMA MovesOn ==
  ASSUME Invariant, NEW r \in Procs, NEW y \in Runs, y.todo = run[r].todo, y.cur = run[r].cur,
         mode' = mode, \A p \in Payloads : Known(p) => Known(p)',
         \/ run[r].pc = "evidence" /\ y.pc = "authorize"
         \/ run[r].pc = "authorize" /\ y.pc = "post" /\ ~Authority
         \/ run[r].pc = "authorize" /\ y.pc = "next"
         \/ run[r].pc = "ledger" /\ y.pc = "record"
         \/ run[r].pc = "record" /\ y.pc = "next"
  PROVE  Placed(y) /\ Acquires(r, y)
<1>1. Placed(run[r])
  BY RunFacts
<1>2. Placed(y)
  BY <1>1 DEF Placed, Busy, Sending
<1>3. ASSUME NEW p \in Payloads, Owns(y, p) PROVE Owns(run[r], p)
  BY <1>3 DEF Owns, Past, Busy, Sending
<1>4. \A p \in Payloads : Owns(run[r], p) => Known(p)
  BY DEF Invariant, SendInvariant
<1> QED
  BY <1>2, <1>3, <1>4 DEF Acquires

LEMMA KnownStays ==
  ASSUME PgStep, ledger' = ledger
  PROVE  mode' = mode /\ \A p \in Payloads : Known(p) => Known(p)'
BY DEF PgStep, Known, Authority

LEMMA EvidenceInv ==
  ASSUME Invariant, NEW r \in Procs, Evidence(r)
  PROVE  Invariant'
<1> DEFINE W == StoreEvidence(run[r].cur) /\ UNCHANGED <<mode, intent, stored, resv, lapsed, reserved, snapshot>>
<1>1. /\ holder' = holder /\ ledger' = ledger
      /\ UNCHANGED <<latest, content, reviewed, broker, inflight, posts, late, torn, rec>>
      /\ run[r].pc = "evidence" /\ run[r].cur \in Payloads
  BY RunFacts DEF Evidence, Keep, Placed, Busy, Sending
<1>2. faults' \in 0 .. MaxFaults
  BY RunFacts, FaultsAreNatural DEF Evidence, Projected
<1>3. CASE Finish(r) /\ UNCHANGED pgVars
  BY <1>1, <1>2, <1>3, FinishInv DEF Keep
<1>4. CASE Step(r, "authorize") /\ (UNCHANGED pgVars \/ W)
  <2>1. /\ ProjectionTypeOK' /\ PgStep /\ CoverStep /\ lapsed' = lapsed /\ intent' = intent
        /\ listActiveReservations' = listActiveReservations
    BY <1>1, <1>4, RunFacts, PgSame, EvidenceFacts
  <2> DEFINE y == [run[r] EXCEPT !.pc = "authorize"]
  <2>2. /\ run' = [run EXCEPT ![r] = y] /\ y \in Runs
        /\ y.pc = "authorize" /\ y.todo = run[r].todo /\ y.cur = run[r].cur /\ y.ans = run[r].ans
    <3>1. "authorize" \in Stages
      BY DEF Stages
    <3> QED
      BY <1>4, <3>1, StageFacts
  <2> HIDE DEF y
  <2>3. Placed(y) /\ Acquires(r, y)
    BY <1>1, <2>1, <2>2, KnownStays, MovesOn
  <2> QED
    BY <1>1, <1>2, <2>1, <2>2, <2>3, RunFacts, RunStep DEF CoverStep
<1> HIDE DEF W
<1> QED
  BY <1>3, <1>4 DEF Evidence, Projected, W

LEMMA AuthorizeInv ==
  ASSUME Invariant, NEW r \in Procs, Authorize(r)
  PROVE  Invariant'
<1> DEFINE p == run[r].cur
           pc == IF BrokerAllowed(ReservationAnswer(p)) THEN "post" ELSE "next"
           y == [run[r] EXCEPT !.pc = pc]
<1>1. /\ holder' = holder /\ ledger' = ledger
      /\ UNCHANGED <<latest, content, reviewed, broker, inflight, posts, late, torn, rec>>
      /\ run[r].pc = "authorize" /\ p \in Payloads /\ p \notin run[r].todo
  BY RunFacts DEF Authorize, Keep, Placed, Busy, Sending
<1>2. faults' \in 0 .. MaxFaults
  BY RunFacts, FaultsAreNatural DEF Authorize, Projected
<1>3. CASE Finish(r) /\ UNCHANGED pgVars
  BY <1>1, <1>2, <1>3, FinishInv DEF Keep
<1>4. ASSUME Step(r, pc)
      PROVE  /\ run' = [run EXCEPT ![r] = y] /\ y \in Runs
             /\ y.pc = pc /\ y.todo = run[r].todo /\ y.cur = p /\ y.ans = run[r].ans
  <2>1. pc \in Stages
    BY DEF Stages
  <2> QED
    BY <1>4, <2>1, StageFacts
<1>5. CASE Step(r, pc) /\ ~Authority /\ UNCHANGED pgVars
  <2>1. PgStep /\ pc = "post"
    BY <1>5, RunFacts, PgSame DEF BrokerAllowed
  <2>2. Placed(y) /\ Acquires(r, y)
    BY <1>1, <1>4, <1>5, <2>1, KnownStays, MovesOn
  <2> HIDE DEF y, pc
  <2> QED
    BY <1>1, <1>2, <1>4, <1>5, <2>1, <2>2, RunFacts, LocalStep
<1>6. CASE Step(r, pc) /\ mode # "inactive" /\ ~Fenced(r) /\ reserveOrderIntent(p)
  <2>1. /\ ProjectionTypeOK' /\ PgStep /\ CoverStep /\ lapsed' = lapsed
        /\ \A q \in Payloads : intent'[q] = "cancelled" => intent[q] = "cancelled"
        /\ mode # "inactive" /\ ReservationAnswer(p) = "authorized" => intent[p] = "none" /\ intent'[p] # "none"
    BY <1>1, <1>6, RunFacts, CreateFacts
  <2>2. Authority => holder = r
    BY <1>6 DEF Fenced
  <2>3. Placed(y) /\ Acquires(r, y)
    <3>1. CASE ~Authority
      <4>1. pc = "post"
        BY <3>1 DEF BrokerAllowed
      <4> QED
        BY <1>1, <1>4, <1>6, <2>1, <3>1, <4>1, KnownStays, MovesOn
    <3>2. CASE Authority /\ ReservationAnswer(p) # "authorized"
      <4>1. pc = "next"
        BY <3>2 DEF BrokerAllowed
      <4> QED
        BY <1>1, <1>4, <1>6, <2>1, <4>1, KnownStays, MovesOn
    <3>3. CASE Authority /\ ReservationAnswer(p) = "authorized"
      <4>1. pc = "post" /\ intent[p] = "none" /\ intent'[p] # "none" /\ mode' = mode
        BY <1>6, <2>1, <3>3 DEF BrokerAllowed, PgStep
      <4>2. y \in Runs /\ y.pc = "post" /\ y.cur = p /\ y.todo = run[r].todo
        BY <1>4, <1>6, <4>1
      <4> HIDE DEF y, pc, p
      <4>3. Placed(y)
        BY <1>1, <4>2 DEF Placed, Busy, Sending
      <4>4. Acquires(r, y)
        BY <3>3, <4>1, <4>2 DEF Acquires, Owns, Known, Authority
      <4> QED
        BY <4>3, <4>4
    <3> QED
      BY <3>1, <3>2, <3>3
  <2>4. y.pc # "validate" /\ y.ans.st # "canceled"
    BY <1>4, <1>6, RunFacts
  <2>5. run' = [run EXCEPT ![r] = y] /\ y \in Runs
    BY <1>4, <1>6
  <2> HIDE DEF y, pc, p
  <2> QED
    BY <1>1, <1>2, <2>1, <2>2, <2>3, <2>4, <2>5, RunFacts, RunStep DEF CoverStep
<1> HIDE DEF y
<1> QED
  BY <1>3, <1>5, <1>6 DEF Authorize, Projected, Authority

(* The one step that sends: its payload was the sender's alone. *)
LEMMA PostInv ==
  ASSUME Invariant, NEW r \in Procs, Post(r)
  PROVE  Invariant'
<1> DEFINE p == run[r].cur
           stage == IF Authority THEN "record" ELSE "ledger"
           Y(ans) == [run[r] EXCEPT !.pc = stage, !.ans = ans]
           Sent == {[st |-> "accepted", f |-> 0], [st |-> "filled", f |-> 2], [st |-> "rejected", f |-> 0], NoOrder}
           Answers == {[st |-> "accepted", f |-> 0], [st |-> "filled", f |-> 2], [st |-> "rejected", f |-> 0],
                       [st |-> "ambiguous", f |-> 0], [st |-> "failed", f |-> 0]}
<1>1. /\ holder' = holder /\ ledger' = ledger /\ UNCHANGED pgVars
      /\ UNCHANGED <<latest, content, reviewed, late, rec>>
      /\ run[r].pc = "post" /\ posts' = [posts EXCEPT ![p] = @ + 1]
      /\ torn' = (torn \/ Capturing)
  BY DEF Post
<1>2. p \in Payloads /\ p \notin run[r].todo
  BY <1>1, RunFacts DEF Placed, Busy, Sending
<1>3. /\ faults' \in 0 .. MaxFaults
      /\ \E obs \in Sent, ans \in Answers :
            /\ broker' = [broker EXCEPT ![p] = obs]
            /\ run' = [run EXCEPT ![r].pc = stage, ![r].ans = ans]
            /\ inflight' = inflight \/ (inflight' = inflight \cup {p} /\ obs = NoOrder)
  <2> HIDE DEF stage
  <2>1. faults' \in 0 .. MaxFaults
    BY RunFacts, FaultsAreNatural DEF Post
  <2> QED
    BY <2>1 DEF Post, stage
<1>4. PICK obs \in Sent, ans \in Answers :
            /\ broker' = [broker EXCEPT ![p] = obs]
            /\ run' = [run EXCEPT ![r].pc = stage, ![r].ans = ans]
            /\ inflight' = inflight \/ (inflight' = inflight \cup {p} /\ obs = NoOrder)
  BY <1>3
<1>5. /\ obs \in Observations /\ obs.st # "canceled"
      /\ ans \in Observations /\ ans.st # "canceled"
  BY DEF Observations, OrderStatus, WorkingStatus, NoOrder
<1>6. /\ run' = [run EXCEPT ![r] = Y(ans)] /\ Y(ans) \in Runs
      /\ Y(ans).pc = stage /\ Y(ans).todo = run[r].todo /\ Y(ans).cur = p /\ Y(ans).ans = ans
  <2>1. run[r] \in Runs /\ stage \in Stages
    BY RunFacts DEF Stages
  <2> HIDE DEF stage, Answers, Sent
  <2> QED
    BY <1>4, <1>5, <2>1 DEF Runs
<1>7. stage \in {"record", "ledger"}
  OBVIOUS
<1> DEFINE y == Y(ans)
<1>8. /\ run' = [run EXCEPT ![r] = y] /\ y \in Runs
      /\ y.pc \in {"record", "ledger"} /\ y.todo = run[r].todo /\ y.cur = p /\ y.ans = ans
  BY <1>6, <1>7
<1> HIDE DEF y, Y, stage, Sent, Answers
<1>9. /\ run' \in [Procs -> Runs] /\ run'[r] = y
      /\ \A q \in Procs : q # r => run'[q] = run[q]
  BY <1>8, OneRun DEF Invariant, TypeOK
<1>10. Owns(run[r], p) /\ Known(p) /\ posts[p] = 0
  <2>1. Owns(run[r], p)
    BY <1>1 DEF Owns, Sending
  <2> HIDE DEF p
  <2> QED
    BY <1>2, <2>1 DEF Invariant, SendInvariant
<1> HIDE DEF p
<1>11. posts' \in [Payloads -> Nat] /\ posts'[p] = 1 /\ \A q \in Payloads : q # p => posts'[q] = posts[q]
  BY <1>1, <1>2, <1>10 DEF Invariant, TypeOK
<1>12. /\ broker' \in [Payloads -> Observations] /\ broker'[p] = obs
       /\ \A q \in Payloads : q # p => broker'[q] = broker[q]
  BY <1>2, <1>4, <1>5 DEF Invariant, TypeOK
<1>13. TypeOK'
  <2>1. ProjectionTypeOK'
    BY <1>1, RunFacts, PgSame
  <2>2. inflight' \subseteq Payloads /\ torn' \in BOOLEAN
    BY <1>1, <1>2, <1>4 DEF Invariant, TypeOK, Capturing
  <2> QED
    BY <1>1, <1>3, <1>9, <1>11, <1>12, <2>1, <2>2 DEF Invariant, TypeOK
<1>14. SendInvariant'
  <2>1. \A q \in Payloads : Known(q)' <=> Known(q)
    BY <1>1 DEF Known, Authority, pgVars
  <2>2. \A s \in Procs, q \in Payloads : Owns(run[s], q)' => Owns(run[s], q) /\ q # p
    <3> SUFFICES ASSUME NEW s \in Procs, NEW q \in Payloads, Owns(run[s], q)'
                 PROVE  Owns(run[s], q) /\ q # p
      OBVIOUS
    <3>1. Owns(run'[s], q)
      BY <1>1 DEF Owns, Authority, pgVars
    <3>2. CASE s # r
      <4>1. Owns(run[s], q)
        BY <1>9, <3>1, <3>2
      <4>2. q # p
        BY <1>2, <1>10, <3>2, <4>1 DEF Invariant, SendInvariant
      <4> QED
        BY <4>1, <4>2
    <3>3. CASE s = r
      <4>1. ~Authority /\ q \in run[r].todo /\ q \in BuyEntries
        BY <1>8, <1>9, <3>1, <3>3 DEF Owns, Sending
      <4> QED
        BY <1>1, <1>2, <3>3, <4>1 DEF Owns, Past, Busy, Sending
    <3> QED
      BY <3>2, <3>3
  <2>3. (\A s \in Procs : Placed(run[s]))'
    <3>1. Placed(y)
      BY <1>2, <1>8 DEF Placed, Sending
    <3> QED
      BY <1>9, <3>1 DEF Invariant, SendInvariant, Placed
  <2>4. (\A s \in Procs, q \in Payloads : Owns(run[s], q) => Known(q) /\ posts[q] = 0)'
    BY <1>11, <2>1, <2>2 DEF Invariant, SendInvariant
  <2>5. (\A s, t \in Procs, q \in Payloads : Owns(run[s], q) /\ Owns(run[t], q) => s = t)'
    BY <2>2 DEF Invariant, SendInvariant
  <2>6. (\A q \in Payloads : posts[q] <= 1 /\ (posts[q] > 0 => Known(q)))'
    BY <1>10, <1>11, <2>1 DEF Invariant, SendInvariant
  <2> QED
    BY <2>3, <2>4, <2>5, <2>6 DEF SendInvariant
<1>15. OrderInvariant'
  <2>1. broker[p] = NoOrder /\ p \notin inflight
    BY <1>2, <1>10 DEF Invariant, OrderInvariant
  <2>2. broker[p].st # "canceled"
    BY <2>1 DEF NoOrder
  <2>3. intent' = intent /\ resv' = resv /\ rec' = rec
    BY <1>1 DEF pgVars
  <2>4. ASSUME NEW q \in Payloads
        PROVE  /\ posts'[q] = 0 => broker'[q] = NoOrder /\ q \notin inflight'
               /\ q \in inflight' => broker'[q] = NoOrder
               /\ intent'[q] = "cancelled" => broker'[q].st = "canceled"
               /\ resv'[q] = "released" => intent'[q] \in {"failed", "cancelled"}
    <3>1. CASE q = p
      BY <1>4, <1>11, <1>12, <2>1, <2>2, <2>3, <3>1 DEF Invariant, OrderInvariant
    <3>2. CASE q # p
      BY <1>4, <1>11, <1>12, <2>3, <3>2 DEF Invariant, OrderInvariant
    <3> QED
      BY <3>1, <3>2
  <2>5. \A q \in Procs : run'[q].ans.st # "canceled"
    BY <1>5, <1>8, <1>9 DEF Invariant, OrderInvariant
  <2>6. rec'.obs.st = "canceled" => rec'.p \in Payloads /\ broker'[rec'.p].st = "canceled"
    BY <1>12, <2>2, <2>3 DEF Invariant, OrderInvariant
  <2> QED
    BY <2>3, <2>4, <2>5, <2>6 DEF Invariant, OrderInvariant
<1>16. CoverInvariant'
  <2>1. /\ PgStep /\ CoverStep /\ lapsed' = lapsed /\ listActiveReservations' = listActiveReservations
    BY <1>1, RunFacts, PgSame
  <2>2. ASSUME Authority, lapsed = {}, NEW q \in Procs, run'[q].pc = "validate", holder' = q
        PROVE  listActiveReservations' \subseteq run'[q].cap.res
    <3>1. q # r /\ run'[q] = run[q] /\ holder = q
      BY <1>1, <1>8, <1>9, <2>2
    <3> QED
      BY <2>1, <2>2, <3>1 DEF Invariant, CoverInvariant
  <2>3. CASE Authority /\ lapsed = {}
    BY <2>1, <2>2, <2>3, CoverageStep DEF Invariant, CoverStep
  <2>4. CASE ~(Authority /\ lapsed = {})
    BY <2>1, <2>4 DEF CoverInvariant, Authority, PgStep
  <2> QED
    BY <2>3, <2>4
<1> QED
  BY <1>13, <1>14, <1>15, <1>16 DEF Invariant

LEMMA RecordLedgerInv ==
  ASSUME Invariant, NEW r \in Procs, RecordLedger(r)
  PROVE  Invariant'
<1> DEFINE y == [run[r] EXCEPT !.pc = "record"]
<1>1. /\ UNCHANGED pgVars /\ holder' = holder /\ faults' = faults
      /\ UNCHANGED <<latest, content, reviewed, broker, inflight, posts, late, torn, rec>>
      /\ run[r].pc = "ledger" /\ Step(r, "record")
      /\ ledger' = [ledger EXCEPT ![run[r].cur] = LedgerAfter(run[r].ans.st)]
  BY DEF RecordLedger, Keep
<1>2. /\ run' = [run EXCEPT ![r] = y] /\ y \in Runs
      /\ y.pc = "record" /\ y.todo = run[r].todo /\ y.cur = run[r].cur /\ y.ans = run[r].ans
  <2>1. "record" \in Stages
    BY DEF Stages
  <2> QED
    BY <1>1, <2>1, StageFacts
<1> HIDE DEF y
<1>3. LedgerAfter(run[r].ans.st) \in LedgerStatus \ {"none"}
  BY DEF LedgerAfter, LedgerStatus
<1>4. /\ ledger' \in [Payloads -> LedgerStatus]
      /\ \A p \in Payloads : ledger[p] # "none" => ledger'[p] # "none"
  BY <1>1, <1>3, RunFacts
<1>5. mode' = mode /\ \A p \in Payloads : Known(p) => Known(p)'
  BY <1>1, <1>4 DEF Known, Authority, pgVars
<1>6. Placed(y) /\ Acquires(r, y)
  BY <1>1, <1>2, <1>5, MovesOn
<1> QED
  BY <1>1, <1>2, <1>4, <1>6, RunFacts, LocalStep

LEMMA RecordResultInv ==
  ASSUME Invariant, NEW r \in Procs, RecordResult(r)
  PROVE  Invariant'
<1> DEFINE y == [run[r] EXCEPT !.pc = "next"]
<1>1. /\ holder' = holder /\ ledger' = ledger
      /\ UNCHANGED <<latest, content, reviewed, broker, inflight, posts, late, torn, rec>>
      /\ run[r].pc = "record" /\ run[r].cur \in Payloads
  BY RunFacts DEF RecordResult, Keep, Placed, Busy, Sending
<1>2. faults' \in 0 .. MaxFaults
  BY RunFacts, FaultsAreNatural DEF RecordResult, Projected
<1>3. CASE Finish(r) /\ UNCHANGED pgVars
  BY <1>1, <1>2, <1>3, FinishInv DEF Keep
<1>4. CASE Step(r, "next") /\ (UNCHANGED pgVars \/ recordBrokerResult(run[r].cur, run[r].ans))
  <2>1. /\ ProjectionTypeOK' /\ PgStep /\ CoverStep /\ lapsed' = lapsed
        /\ \A q \in Payloads : intent'[q] = "cancelled" => intent[q] = "cancelled"
        /\ listActiveReservations' \subseteq listActiveReservations
    <3>1. CASE UNCHANGED pgVars
      BY <3>1, RunFacts, PgSame
    <3>2. CASE recordBrokerResult(run[r].cur, run[r].ans)
      BY <1>1, <3>2, RunFacts, RecordFacts
    <3> QED
      BY <1>4, <3>1, <3>2
  <2>2. /\ run' = [run EXCEPT ![r] = y] /\ y \in Runs
        /\ y.pc = "next" /\ y.todo = run[r].todo /\ y.cur = run[r].cur /\ y.ans = run[r].ans
    <3>1. "next" \in Stages
      BY DEF Stages
    <3> QED
      BY <1>4, <3>1, StageFacts
  <2> HIDE DEF y
  <2>3. Placed(y) /\ Acquires(r, y)
    BY <1>1, <2>1, <2>2, KnownStays, MovesOn
  <2> QED
    BY <1>1, <1>2, <2>1, <2>2, <2>3, RunFacts, RunStep DEF CoverStep
<1> QED
  BY <1>3, <1>4 DEF RecordResult, Projected

LEMMA CrashInv ==
  ASSUME Invariant, NEW r \in Procs, Crash(r)
  PROVE  Invariant'
BY RunFacts, FaultsAreNatural, FinishInv DEF Crash

LEMMA ProcStepInv ==
  ASSUME Invariant, NEW r \in Procs, ProcStep(r) \/ Crash(r)
  PROVE  Invariant'
BY StartInv, CaptureInv, ValidateInv, ReserveInv, NextPayloadInv, EvidenceInv, AuthorizeInv, PostInv,
   RecordLedgerInv, RecordResultInv, CrashInv DEF ProcStep

-----------------------------------------------------------------------------
(* Everyone else *)

(* Nothing that SendInvariant speaks of changes, except that rows may come. *)
LEMMA SendStays ==
  ASSUME SendInvariant, PgStep, UNCHANGED <<ledger, posts, run>>
  PROVE  SendInvariant'
<1>1. mode' = mode /\ \A p \in Payloads : Known(p) => Known(p)'
  BY KnownStays
<1>2. \A r \in Procs, p \in Payloads : Owns(run[r], p)' <=> Owns(run[r], p)
  BY <1>1 DEF Owns, Authority
<1>3. \A r \in Procs : Placed(run[r])' <=> Placed(run[r])
  BY DEF Placed
<1> QED
  BY <1>1, <1>2, <1>3 DEF SendInvariant

LEMMA CoverStays ==
  ASSUME CoverInvariant, PgStep, CoverStep, lapsed' = lapsed, UNCHANGED <<run, holder>>,
         listActiveReservations' \subseteq listActiveReservations
  PROVE  CoverInvariant'
<1>1. CASE Authority /\ lapsed = {}
  <2>1. \A q \in Procs : run'[q].pc = "validate" /\ holder' = q => listActiveReservations' \subseteq run'[q].cap.res
    BY <1>1 DEF CoverInvariant
  <2> QED
    BY <1>1, <2>1, CoverageStep DEF CoverStep
<1>2. CASE ~(Authority /\ lapsed = {})
  BY <1>2 DEF CoverInvariant, Authority, PgStep
<1> QED
  BY <1>1, <1>2

LEMMA ReviewInv ==
  ASSUME Invariant, NEW s \in SUBSET Symbols, Review(s)
  PROVE  Invariant'
<1>1. /\ UNCHANGED pgVars
      /\ UNCHANGED <<ledger, broker, inflight, posts, late, torn, holder, run, rec, faults>>
      /\ latest' \in Artifacts /\ content' = s /\ reviewed' = <<Positions, BrokerOpenOrders, Reservations>>
  BY DEF Review
<1>2. /\ ProjectionTypeOK' /\ PgStep /\ CoverStep /\ lapsed' = lapsed /\ intent' = intent
      /\ listActiveReservations' = listActiveReservations
  BY <1>1, PgSame DEF Invariant, TypeOK
<1>3. reviewed' \in Portfolios
  BY <1>1, PositionsAreTyped DEF Invariant, Portfolios
<1>4. TypeOK'
  BY <1>1, <1>2, <1>3 DEF Invariant, TypeOK
<1>5. SendInvariant'
  BY <1>1, <1>2, SendStays DEF Invariant
<1>6. OrderInvariant'
  BY <1>1, <1>2 DEF Invariant, OrderInvariant, pgVars
<1>7. CoverInvariant'
  BY <1>1, <1>2, CoverStays DEF Invariant
<1> QED
  BY <1>4, <1>5, <1>6, <1>7 DEF Invariant

LEMMA LookupInv ==
  ASSUME Invariant, Lookup
  PROVE  Invariant'
<1>1. PICK p \in ReconciliationTargets : broker[p] # NoOrder /\ rec' = [p |-> p, obs |-> broker[p]]
  BY DEF Lookup
<1>2. /\ UNCHANGED pgVars
      /\ UNCHANGED <<latest, content, reviewed, ledger, broker, inflight, posts, late, torn, holder, run, faults>>
  BY DEF Lookup
<1>3. /\ ProjectionTypeOK' /\ PgStep /\ CoverStep /\ lapsed' = lapsed /\ intent' = intent
      /\ listActiveReservations' = listActiveReservations
  BY <1>2, PgSame DEF Invariant, TypeOK
<1>4. p \in Payloads /\ broker[p] \in Observations /\ rec'.p = p /\ rec'.obs = broker[p]
  BY <1>1 DEF ReconciliationTargets, Invariant, TypeOK
<1>5. TypeOK'
  BY <1>1, <1>2, <1>3, <1>4 DEF Invariant, TypeOK
<1>6. SendInvariant'
  BY <1>2, <1>3, SendStays DEF Invariant
<1>7. OrderInvariant'
  BY <1>2, <1>4 DEF Invariant, OrderInvariant, pgVars
<1>8. CoverInvariant'
  BY <1>2, <1>3, CoverStays DEF Invariant
<1> QED
  BY <1>5, <1>6, <1>7, <1>8 DEF Invariant

LEMMA RecordInv ==
  ASSUME Invariant, Record
  PROVE  Invariant'
<1>1. /\ rec # NoRec /\ rec' = NoRec /\ recordBrokerResult(rec.p, rec.obs)
      /\ UNCHANGED <<latest, content, reviewed, ledger, broker, inflight, posts, late, torn, holder, run, faults>>
  BY DEF Record
<1>2. rec.obs \in Observations /\ NoRec \in [p : Payloads \cup {NoPayload}, obs : Observations] /\ NoRec.obs.st = "none"
  BY DEF Invariant, TypeOK, NoRec, NoOrder, Observations
<1>3. rec.p \in Payloads
  BY <1>1 DEF Invariant, OrderInvariant
<1>4. /\ ProjectionTypeOK' /\ PgStep /\ CoverStep /\ lapsed' = lapsed
      /\ \A q \in Payloads :
            intent'[q] = "cancelled" => intent[q] = "cancelled" \/ (q = rec.p /\ rec.obs.st = "canceled")
      /\ listActiveReservations' \subseteq listActiveReservations
  BY <1>1, <1>2, <1>3, RecordFacts DEF Invariant, TypeOK
<1>5. TypeOK'
  BY <1>1, <1>2, <1>4 DEF Invariant, TypeOK
<1>6. SendInvariant'
  BY <1>1, <1>4, SendStays DEF Invariant
<1>7. OrderInvariant'
  <2>1. \A q \in Payloads : intent'[q] = "cancelled" => intent[q] = "cancelled" \/ broker[q].st = "canceled"
    BY <1>4 DEF Invariant, OrderInvariant
  <2>2. \A q \in Procs : run'[q].ans.st # "canceled"
    BY <1>1 DEF Invariant, OrderInvariant
  <2>3. rec'.obs.st # "canceled"
    BY <1>1, <1>2
  <2> QED
    BY <1>1, <1>4, <2>1, <2>2, <2>3, OrderStep DEF Invariant
<1>8. CoverInvariant'
  BY <1>1, <1>4, CoverStays DEF Invariant
<1> QED
  BY <1>5, <1>6, <1>7, <1>8 DEF Invariant

(* The broker moves an order that is not canceled and was sent. *)
LEMMA BrokerInv ==
  ASSUME Invariant, NEW p \in Payloads, BrokerMoves(p) \/ Arrives(p)
  PROVE  Invariant'
<1>1. /\ UNCHANGED pgVars
      /\ UNCHANGED <<latest, content, reviewed, ledger, posts, holder, run, rec, faults>>
      /\ torn' = (torn \/ Capturing) /\ inflight' \subseteq inflight /\ late' \subseteq late \cup {p}
  BY DEF BrokerMoves, Arrives
<1>2. PICK obs \in Observations : broker' = [broker EXCEPT ![p] = obs]
  <2>1. broker[p].f \in 0 .. 2
    BY DEF Invariant, TypeOK, Observations, NoOrder
  <2>2. /\ [st |-> "partially_filled", f |-> 1] \in Observations
        /\ [st |-> "filled", f |-> 2] \in Observations
        /\ [st |-> "canceled", f |-> broker[p].f] \in Observations
        /\ [st |-> "accepted", f |-> 0] \in Observations
    BY <2>1 DEF Observations, OrderStatus, WorkingStatus
  <2> QED
    BY <2>2 DEF BrokerMoves, Arrives
<1>3. broker[p].st # "canceled" /\ posts[p] # 0 /\ p \notin inflight'
  <2>1. CASE BrokerMoves(p)
    BY <2>1 DEF BrokerMoves, Working, WorkingStatus, Invariant, OrderInvariant, NoOrder
  <2>2. CASE Arrives(p)
    BY <2>2 DEF Arrives, Invariant, OrderInvariant, NoOrder
  <2> QED
    BY <2>1, <2>2
<1>4. /\ broker' \in [Payloads -> Observations]
      /\ \A q \in Payloads : q # p => broker'[q] = broker[q]
  BY <1>2 DEF Invariant, TypeOK
<1>5. /\ ProjectionTypeOK' /\ PgStep /\ CoverStep /\ lapsed' = lapsed
      /\ listActiveReservations' = listActiveReservations
  BY <1>1, PgSame DEF Invariant, TypeOK
<1>6. TypeOK'
  BY <1>1, <1>4, <1>5 DEF Invariant, TypeOK, Capturing
<1>7. SendInvariant'
  BY <1>1, <1>5, SendStays DEF Invariant
<1>8. OrderInvariant'
  <2>1. ASSUME NEW q \in Payloads
        PROVE  /\ posts'[q] = 0 => broker'[q] = NoOrder /\ q \notin inflight'
               /\ q \in inflight' => broker'[q] = NoOrder
               /\ intent'[q] = "cancelled" => broker'[q].st = "canceled"
               /\ resv'[q] = "released" => intent'[q] \in {"failed", "cancelled"}
    <3>1. CASE q = p
      BY <1>1, <1>3, <3>1 DEF Invariant, OrderInvariant, pgVars
    <3>2. CASE q # p
      BY <1>1, <1>4, <3>2 DEF Invariant, OrderInvariant, pgVars
    <3> QED
      BY <3>1, <3>2
  <2>2. rec'.obs.st = "canceled" => rec'.p \in Payloads /\ broker'[rec'.p].st = "canceled"
    BY <1>1, <1>3, <1>4 DEF Invariant, OrderInvariant
  <2> QED
    BY <1>1, <2>1, <2>2 DEF Invariant, OrderInvariant
<1>9. CoverInvariant'
  BY <1>1, <1>5, CoverStays DEF Invariant
<1> QED
  BY <1>6, <1>7, <1>8, <1>9 DEF Invariant

LEMMA LapseInv ==
  ASSUME Invariant, NEW p \in Payloads, Lapse(p)
  PROVE  Invariant'
<1>1. /\ UNCHANGED <<mode, evidence, intent, stored, resv, reserved, snapshot>> /\ lapsed' = lapsed \cup {p}
      /\ UNCHANGED <<latest, content, reviewed, ledger, broker, inflight, posts, late, torn, holder, run, rec, faults>>
  BY DEF Lapse, ReservationLapses, execVars
<1>2. TypeOK'
  BY <1>1 DEF Invariant, TypeOK, ProjectionTypeOK
<1>3. PgStep
  <2>1. \A q \in Payloads : stored[q].f \in 0 .. 2
    BY DEF Invariant, TypeOK, ProjectionTypeOK, Observations, NoOrder
  <2> QED
    BY <1>1, <2>1 DEF PgStep
<1>4. SendInvariant'
  BY <1>1, <1>3, SendStays DEF Invariant
<1>5. OrderInvariant'
  BY <1>1 DEF Invariant, OrderInvariant
<1>6. CoverInvariant'
  <2>1. lapsed' # {}
    BY <1>1
  <2> QED
    BY <2>1 DEF CoverInvariant
<1> QED
  BY <1>2, <1>4, <1>5, <1>6 DEF Invariant

LEMMA InitInv == Init => Invariant
<1> SUFFICES ASSUME Init PROVE Invariant
  OBVIOUS
<1>1. TypeOK
  <2>1. ProjectionTypeOK
    BY PowerIsNatural DEF Init, ProjectionInit, ProjectionTypeOK, Observations
  <2>2. run \in [Procs -> Runs]
    BY IdleTyped DEF Init
  <2>3. rec \in [p : Payloads \cup {NoPayload}, obs : Observations]
    <3>1. NoOrder \in Observations
      BY DEF Observations
    <3>2. rec = [p |-> NoPayload, obs |-> NoOrder]
      BY DEF Init, NoRec
    <3> QED
      BY <3>1, <3>2
  <2>4. /\ ledger \in [Payloads -> LedgerStatus] /\ broker \in [Payloads -> Observations]
        /\ posts \in [Payloads -> Nat]
    BY DEF Init, LedgerStatus, Observations
  <2>5. torn \in BOOLEAN /\ reviewed \in {<<>>} \cup Portfolios
    BY DEF Init
  <2>6. /\ latest \in {0} \cup Artifacts /\ content \subseteq Symbols
        /\ inflight \subseteq Payloads /\ late \subseteq Payloads
        /\ holder \in Procs \cup {NoProc}
    BY DEF Init
  <2>7. faults \in 0 .. MaxFaults
    BY FaultsAreNatural DEF Init
  <2> QED
    BY <2>1, <2>2, <2>3, <2>4, <2>5, <2>6, <2>7 DEF TypeOK
<1>2. \A r \in Procs : run[r].pc = "idle" /\ run[r].ans.st = "none"
  BY DEF Init, IdleRun, NoOrder
<1>3. SendInvariant
  BY <1>2 DEF Init, SendInvariant, Placed, Owns, Past, Busy, Sending
<1>4. OrderInvariant
  BY <1>2 DEF Init, ProjectionInit, OrderInvariant, NoRec, NoOrder
<1>5. CoverInvariant
  <2>1. listActiveReservations = {}
    BY DEF Init, ProjectionInit, listActiveReservations
  <2>2. Cardinality(listActiveReservations) = 0
    BY <2>1, FS_EmptySet
  <2> QED
    BY <1>2, <2>1, <2>2 DEF Init, ProjectionInit, CoverInvariant
<1> QED
  BY <1>1, <1>3, <1>4, <1>5 DEF Invariant

LEMMA NextInv == Invariant /\ [Next]_vars => Invariant'
<1> SUFFICES ASSUME Invariant, [Next]_vars PROVE Invariant'
  OBVIOUS
<1>1. CASE UNCHANGED vars
  <2>1. UNCHANGED pgVars /\ UNCHANGED <<latest, content, reviewed, ledger, broker, inflight, posts, late, torn, holder, run, rec, faults>>
    BY <1>1 DEF vars, execVars
  <2>2. /\ ProjectionTypeOK' /\ PgStep /\ CoverStep /\ lapsed' = lapsed /\ intent' = intent
        /\ listActiveReservations' = listActiveReservations
    BY <2>1, PgSame DEF Invariant, TypeOK
  <2>3. TypeOK'
    BY <2>1, <2>2 DEF Invariant, TypeOK
  <2>4. SendInvariant'
    BY <2>1, <2>2, SendStays DEF Invariant
  <2>5. OrderInvariant'
    BY <2>1 DEF Invariant, OrderInvariant, pgVars
  <2>6. CoverInvariant'
    BY <2>1, <2>2, CoverStays DEF Invariant
  <2> QED
    BY <2>3, <2>4, <2>5, <2>6 DEF Invariant
<1>2. CASE Next
  BY <1>2, ReviewInv, ProcStepInv, LookupInv, RecordInv, BrokerInv, LapseInv DEF Next
<1> QED
  BY <1>1, <1>2


-----------------------------------------------------------------------------
(* Theorems *)

THEOREM InvariantHolds == Spec => []Invariant
BY InitInv, NextInv, PTL DEF Spec

(* The variables of the execution of reviewed payloads keep their types. *)
THEOREM ExecutionIsTyped == Spec => []TypeOK
<1>1. Invariant => TypeOK
  BY DEF Invariant
<1> QED
  BY <1>1, InvariantHolds, PTL

(* PostedOnce and PostIsKnown: submitPaperOrder is called at most once for  *)
(* a reviewed payload, and never before the store that decides knows of it, *)
(* in every mode, for any number of processes, artifacts and faults.        *)
THEOREM PayloadsAreSentOnce == Spec => [](PostedOnce /\ PostIsKnown)
<1>1. Invariant => PostedOnce /\ PostIsKnown
  BY DEF Invariant, SendInvariant, PostedOnce, PostIsKnown, Known
<1> QED
  BY <1>1, InvariantHolds, PTL

(* ReleasedMeansNoOrder: buying power is given back only for an order that  *)
(* was canceled at the broker or whose POST failed.                         *)
THEOREM ReleaseIsSafe == Spec => []ReleasedMeansNoOrder
<1>1. Invariant => ReleasedMeansNoOrder
  <2> SUFFICES ASSUME Invariant, NEW p \in BuyEntries, resv[p] = "released"
               PROVE  intent[p] = "failed" \/ (intent[p] = "cancelled" /\ ~Working(p))
    BY DEF ReleasedMeansNoOrder
  <2>1. p \in Payloads
    BY PayloadsAreFinite
  <2> QED
    BY <2>1 DEF Invariant, OrderInvariant, Working, WorkingStatus
<1> QED
  BY <1>1, InvariantHolds, PTL

(* ReservedCoversActive: the allocation accounts for every reservation in   *)
(* force although syncAccountState overwrites it with an earlier sum,       *)
(* because only the holder of the lease adds reservations.                  *)
THEOREM AllocationCoversReservations == Spec => []ReservedCoversActive
<1>1. Invariant => ReservedCoversActive
  BY DEF Invariant, CoverInvariant, ReservedCoversActive
<1> QED
  BY <1>1, InvariantHolds, PTL

(* The four together: a reviewed payload is sent at most once and accounted *)
(* for from the reservation before its POST to the end of its order.        *)
THEOREM ReviewedOrdersStaySound == Spec => []ReviewedOrdersAreSound
BY PayloadsAreSentOnce, ReleaseIsSafe, AllocationCoversReservations, PTL DEF ReviewedOrdersAreSound

(* A step is a transaction of PostgreSQL or leaves it alone. *)
LEMMA EveryStepIsPgStep == Invariant /\ [Next]_vars => PgStep
<1> SUFFICES ASSUME Invariant, [Next]_vars PROVE PgStep
  OBVIOUS
<1>1. ProjectionTypeOK
  BY DEF Invariant, TypeOK
<1>2. CASE UNCHANGED pgVars
  BY <1>1, <1>2, PgSame
<1>3. ASSUME NEW r \in Procs, Validate(r), ~UNCHANGED pgVars PROVE PgStep
  BY <1>1, <1>3, PgStutter DEF Validate, syncAccountState
<1>4. ASSUME NEW r \in Procs, Evidence(r), ~UNCHANGED pgVars PROVE PgStep
  BY <1>1, <1>4, PgStutter DEF Evidence, Projected
<1>5. ASSUME NEW r \in Procs, Authorize(r), ~UNCHANGED pgVars PROVE PgStep
  <2>1. run[r].cur \in Payloads
    BY <1>5, RunFacts DEF Authorize, Placed, Busy, Sending
  <2>2. reserveOrderIntent(run[r].cur)
    BY <1>5 DEF Authorize, Projected
  <2> QED
    BY <1>1, <2>1, <2>2, CreateFacts
<1>6. ASSUME NEW r \in Procs, RecordResult(r), ~UNCHANGED pgVars PROVE PgStep
  <2>1. run[r].cur \in Payloads /\ run[r].ans \in Observations
    BY <1>6, RunFacts DEF RecordResult, Placed, Busy, Sending
  <2>2. recordBrokerResult(run[r].cur, run[r].ans)
    BY <1>6 DEF RecordResult, Projected
  <2> QED
    BY <1>1, <2>1, <2>2, RecordFacts
<1>7. ASSUME Record PROVE PgStep
  <2>1. rec.p \in Payloads /\ rec.obs \in Observations
    BY <1>7 DEF Record, Invariant, TypeOK, OrderInvariant
  <2> QED
    BY <1>1, <1>7, <2>1, RecordFacts DEF Record
<1>8. ASSUME NEW p \in Payloads, Lapse(p) PROVE PgStep
  <2>1. \A q \in Payloads : stored[q].f \in 0 .. 2
    BY <1>1 DEF ProjectionTypeOK, Observations, NoOrder
  <2> QED
    BY <1>8, <2>1 DEF Lapse, ReservationLapses, PgStep
<1>9. ASSUME NEW r \in Procs, ProcStep(r) \/ Crash(r) PROVE PgStep
  <2>1. CASE Validate(r) \/ Evidence(r) \/ Authorize(r) \/ RecordResult(r)
    BY <1>2, <1>3, <1>4, <1>5, <1>6, <2>1
  <2>2. CASE \/ Start(r) \/ CapturePositions(r) \/ CaptureOrders(r) \/ ListReservations(r)
             \/ Reserve(r) \/ NextPayload(r) \/ Post(r) \/ RecordLedger(r) \/ Crash(r)
    BY <1>2, <2>2 DEF Start, CapturePositions, CaptureOrders, ListReservations, Reserve, NextPayload, Post, RecordLedger, Crash
  <2> QED
    BY <1>9, <2>1, <2>2 DEF ProcStep
<1>10. ASSUME (\E s \in SUBSET Symbols : Review(s)) \/ Lookup \/ (\E p \in Payloads : BrokerMoves(p) \/ Arrives(p))
       PROVE  PgStep
  BY <1>2, <1>10 DEF Review, Lookup, BrokerMoves, Arrives
<1>11. CASE UNCHANGED vars
  BY <1>2, <1>11 DEF vars
<1> QED
  BY <1>7, <1>8, <1>9, <1>10, <1>11 DEF Next

(* SettledIsFinal: no late answer of an executor or of the reconciliation   *)
(* reopens a finished intent or takes back a fill.                          *)
THEOREM SettledStaysSettled == Spec => SettledIsFinal
<1>1. Invariant /\ [Next]_vars => [SettledIsFinalStep]_vars
  BY EveryStepIsPgStep DEF PgStep, SettledIsFinalStep
<1> QED
  BY <1>1, InvariantHolds, PTL DEF Spec, SettledIsFinal
-----------------------------------------------------------------------------
(***************************************************************************)
(* No entry is bought twice.  What the broker has of an entry and what the *)
(* deciding store reserves for it are counted together (Held): an order    *)
(* that is posted, filled or recorded only moves an entry within Held, and *)
(* Held grows in two places, where SQLite reserves a batch and where       *)
(* PostgreSQL authorizes an intent.  There the account must have room, so  *)
(* EntryInvariant says of every run that what it has read covers Held or   *)
(* that it will notice the difference, and FlowInvariant where the rows of *)
(* its batch stand meanwhile.                                              *)
(***************************************************************************)

(* What stands for an entry: the order or the position at the broker, or   *)
(* the reservation of the store that decides.                              *)
Held == Bought \cup (BuyEntries \cap Reservations)

(* Entries that the account can carry: one per symbol, within the power. *)
Fits(S) ==
    /\ \A p, q \in S : Sym(p) = Sym(q) => p = q
    /\ Cardinality(S) <= Power

(* Everything that a capture shows. *)
Captured(cap) == cap.orders \cup cap.res \cup {x[1] : x \in cap.pos}

(* The entries that a run of the authority mode has still to authorize. *)
Pending(x) ==
    (x.todo \cup {p \in {x.cur} : x.pc \in {"evidence", "authorize"}}) \cap BuyEntries

(* A row of the ledger goes from none to reserved, attempted and a result, *)
(* and never back.                                                         *)
After(old, new) ==
    \/ old = new \/ old = "none"
    \/ old = "reserved" /\ new # "none"
    \/ old = "attempted" /\ new \notin {"none", "reserved"}

Posted == {"ledger", "record"}
Read == {"orders", "reservations", "validate", "account"}

(* Where a run stands in the ledger and in the PostgreSQL authority. *)
FlowOf(x) ==
    /\ \A p, q \in x.todo : p[1] = q[1]
    /\ x.pc \in Posted => posts[x.cur] > 0
    /\ ~Authority =>
         /\ x.pc \in Past => \A p \in x.todo \cap BuyEntries : ledger[p] = "reserved"
         /\ x.pc \in Sending \cup {"ledger"} /\ x.cur \in BuyEntries => ledger[x.cur] = "attempted"
         /\ x.pc \in Read /\ HasEntries(x.todo) =>
              /\ x.cap.base \in [BuyEntries -> LedgerStatus]
              /\ \A q \in BuyEntries : After(x.cap.base[q], ledger[q])
    /\ Authority =>
         /\ x.pc # "ledger"
         /\ x.pc = "post" /\ x.cur \in BuyEntries => x.cur \in listActiveReservations
         /\ x.pc = "record" /\ x.cur \in inflight => x.ans.st = "ambiguous"

RunsFlow ==
    /\ \A r \in Procs : FlowOf(run[r])
    /\ \A q, r \in Procs : run[q].pc \in Posted /\ run[r].pc \in Posted /\ run[q].cur = run[r].cur => q = r

RowsFlow ==
    /\ Authority => \A p \in inflight \cap BuyEntries : resv[p] = "active"
    /\ rec # NoRec => broker[rec.p] # NoOrder
    /\ \A p \in Payloads : resv[p] # "none" \/ p \in lapsed => intent[p] # "none"

FlowInvariant == RunsFlow /\ RowsFlow

(* The row of entry p is in the hands of run x. *)
Uses(x, p) ==
    \/ x.pc \in Past /\ p \in x.todo
    \/ x.pc \in Sending \cup {"ledger"} /\ x.cur = p

(* Since r captured the portfolio entry q has moved, and r will see that. *)
Moved(r, x, q) == IF Authority THEN holder # r ELSE ledger[q] # x.cap.base[q]

(* What a run has read is what there is, or it will notice; and the holder *)
(* of the lease has room for all that it has still to authorize.           *)
EntryOf(r, x) ==
    /\ x.pc \in {"orders", "reservations"} => x.cap.pos = Positions
    /\ x.pc = "reservations" => x.cap.orders = BrokerOpenOrders
    /\ x.pc \in {"validate", "account"} /\ HasEntries(x.todo) =>
         \A q \in Held : q \in Captured(x.cap) \/ Moved(r, x, q)
    /\ Authority /\ holder = r /\ x.pc \in Past \cup {"account"} => Fits(Held \cup Pending(x))

EntryInvariant == Excused \/ (Fits(Held) /\ \A r \in Procs : EntryOf(r, run[r]))

(* What the steps start from; the rest is known of them already. *)
StepFrom == Invariant /\ Invariant' /\ PgStep /\ FlowInvariant /\ EntryInvariant

-----------------------------------------------------------------------------
(* Entries and what the account can carry *)

LEMMA FitsSubset ==
  ASSUME NEW S \in SUBSET BuyEntries, NEW T \in SUBSET S, Fits(S)
  PROVE  Fits(T)
<1>1. IsFiniteSet(S) /\ Cardinality(S) \in Nat /\ Cardinality(T) \in Nat
  BY PayloadsAreFinite, SizeOf
<1>2. Cardinality(T) <= Cardinality(S)
  BY <1>1, FS_Subset
<1>3. Cardinality(T) <= Power
  BY <1>1, <1>2, PowerIsNatural DEF Fits
<1> QED
  BY <1>3 DEF Fits

(* Two finite sets together. *)
LEMMA SizeOfUnion ==
  ASSUME NEW S, NEW T, IsFiniteSet(S), IsFiniteSet(T)
  PROVE  /\ IsFiniteSet(S \cup T)
         /\ Cardinality(S) \in Nat /\ Cardinality(T) \in Nat /\ Cardinality(S \cup T) \in Nat
         /\ Cardinality(S \cup T) <= Cardinality(S) + Cardinality(T)
<1>1. IsFiniteSet(S \cup T) /\ Cardinality(S \cup T) = Cardinality(S) + Cardinality(T) - Cardinality(S \cap T)
  BY FS_Union
<1>2. Cardinality(S \cap T) \in Nat
  BY FS_Intersection, FS_CardinalityType
<1>3. Cardinality(S) \in Nat /\ Cardinality(T) \in Nat /\ Cardinality(S \cup T) \in Nat
  BY <1>1, FS_CardinalityType
<1> QED
  BY <1>1, <1>2, <1>3

(* The payloads of the captured positions are no more than the positions. *)
LEMMA PositionsCount ==
  ASSUME NEW pos \in SUBSET (Payloads \X (0 .. 2))
  PROVE  LET S == {x \in pos : x[1] \in BuyEntries}
             T == {x[1] : x \in S}
         IN  /\ IsFiniteSet(T) /\ Cardinality(T) <= Cardinality(S)
             /\ Cardinality(S) \in Nat /\ Cardinality(T) \in Nat
<1> DEFINE S == {x \in pos : x[1] \in BuyEntries}
           T == {x[1] : x \in S}
           f == [x \in S |-> x[1]]
<1>1. IsFiniteSet(0 .. 2)
  <2>1. 0 \in Int /\ 2 \in Int
    OBVIOUS
  <2> QED
    BY <2>1, FS_Interval
<1>2. IsFiniteSet(Payloads \X (0 .. 2))
  BY <1>1, PayloadsAreFinite, FS_Product
<1>3. IsFiniteSet(S)
  BY <1>2, FS_Subset
<1>4. f \in Surjection(S, T)
  BY DEF Surjection
<1> HIDE DEF S, T, f
<1>5. IsFiniteSet(T) /\ Cardinality(T) <= Cardinality(S)
  BY <1>3, <1>4, FS_Surjection
<1>6. Cardinality(S) \in Nat /\ Cardinality(T) \in Nat
  BY <1>3, <1>5, FS_CardinalityType
<1> QED
  BY <1>5, <1>6 DEF S, T

(* capBlockers: with headroom in the capture the account can carry the     *)
(* batch beside everything that the capture shows.                         *)
LEMMA RoomForBatch ==
  ASSUME NEW todo \in SUBSET Payloads, \A p, q \in todo : p[1] = q[1],
         NEW cap \in Captures, Headroom(todo \cap BuyEntries, cap, cap.res),
         NEW S \in SUBSET BuyEntries, Fits(S), S \subseteq Captured(cap)
  PROVE  Fits(S \cup (todo \cap BuyEntries))
<1> DEFINE E == todo \cap BuyEntries
           O == cap.orders \cap BuyEntries
           P == {x \in cap.pos : x[1] \in BuyEntries}
           T == {x[1] : x \in P}
<1>1. /\ cap.orders \in SUBSET Payloads /\ cap.res \in SUBSET Payloads
      /\ cap.pos \in SUBSET (Payloads \X (0 .. 2))
  BY DEF Captures
<1>2. IsFiniteSet(T) /\ Cardinality(T) <= Cardinality(P) /\ Cardinality(P) \in Nat /\ Cardinality(T) \in Nat
  BY <1>1, PositionsCount
<1>3. S \subseteq (O \cup cap.res) \cup T
  BY DEF Captured
<1>4. IsFiniteSet(E) /\ IsFiniteSet(O) /\ IsFiniteSet(cap.res)
  BY <1>1, SizeOf
<1>5. Cardinality(E) + Cardinality(cap.res) + Cardinality(O) + Cardinality(P) <= Power
  BY DEF Headroom
<1>6. \A p, q \in S \cup E : Sym(p) = Sym(q) => p = q
  <2> SUFFICES ASSUME NEW p \in S \cup E, NEW q \in S \cup E, Sym(p) = Sym(q) PROVE p = q
    OBVIOUS
  <2>1. CASE p \in S /\ q \in S
    BY <2>1 DEF Fits
  <2>2. CASE p \in E /\ q \in E
    <3>1. p[1] = q[1] /\ p[2] = q[2]
      BY <2>2 DEF Sym
    <3>2. p \in Artifacts \X Entries /\ q \in Artifacts \X Entries
      BY <2>2 DEF BuyEntries
    <3> QED
      BY <3>1, <3>2
  <2>3. ASSUME NEW s \in S, NEW e \in E, Sym(s) = Sym(e) PROVE FALSE
    <3>1. s \in cap.orders \cup cap.res \cup {x[1] : x \in cap.pos}
      BY DEF Captured
    <3>2. s \in BuyEntries
      OBVIOUS
    <3> QED
      BY <2>3, <3>1, <3>2 DEF Headroom
  <2> QED
    BY <2>1, <2>2, <2>3
<1> HIDE DEF E, O, P, T
<1> DEFINE R == cap.res
<1>7. IsFiniteSet(R)
  BY <1>4
<1>8. Cardinality(E) + Cardinality(R) + Cardinality(O) + Cardinality(P) <= Power
  BY <1>5
<1>9. S \subseteq (O \cup R) \cup T
  BY <1>3
<1> HIDE DEF R
<1>10. /\ IsFiniteSet(O \cup R) /\ Cardinality(O \cup R) \in Nat /\ Cardinality(O \cup R) <= Cardinality(O) + Cardinality(R)
       /\ Cardinality(O) \in Nat /\ Cardinality(R) \in Nat
  BY <1>4, <1>7, SizeOfUnion
<1>11. /\ IsFiniteSet((O \cup R) \cup T) /\ Cardinality((O \cup R) \cup T) \in Nat
       /\ Cardinality((O \cup R) \cup T) <= Cardinality(O \cup R) + Cardinality(T)
  BY <1>2, <1>10, SizeOfUnion
<1>12. IsFiniteSet(S) /\ Cardinality(S) <= Cardinality((O \cup R) \cup T)
  BY <1>9, <1>11, FS_Subset
<1>13. /\ Cardinality(S \cup E) \in Nat /\ Cardinality(S) \in Nat /\ Cardinality(E) \in Nat
       /\ Cardinality(S \cup E) <= Cardinality(S) + Cardinality(E)
  BY <1>4, <1>12, SizeOfUnion
<1>14. Cardinality(S \cup E) <= Power
  BY <1>2, <1>8, <1>10, <1>11, <1>12, <1>13, PowerIsNatural
<1> QED
  BY <1>6, <1>14 DEF Fits, E

(* What stands for an entry is an entry. *)
LEMMA HeldTyped == Held \in SUBSET BuyEntries
BY DEF Held, Bought

LEMMA HeldNow ==
  ASSUME NEW p \in BuyEntries
  PROVE  p \in Held <=> \/ broker[p].st \in WorkingStatus \/ broker[p].f > 0
                        \/ IF Authority THEN p \in listActiveReservations ELSE ledger[p] \in ActiveStatus
BY DEF Held, Bought, Reservations, listActivePaperNewRiskReservations

LEMMA HeldNext ==
  ASSUME NEW p \in BuyEntries
  PROVE  p \in Held' <=> \/ broker'[p].st \in WorkingStatus \/ broker'[p].f > 0
                         \/ IF Authority' THEN p \in listActiveReservations' ELSE ledger'[p] \in ActiveStatus
BY DEF Held, Bought, Reservations, listActivePaperNewRiskReservations

(* A process that read the portfolio while it stood still has seen all of it. *)
LEMMA CaptureIsWhole ==
  ASSUME TypeOK, NEW cap, cap.pos = Positions, cap.orders = BrokerOpenOrders, cap.res = Reservations
  PROVE  Held \subseteq Captured(cap)
<1> SUFFICES ASSUME NEW p \in Held PROVE p \in Captured(cap)
  OBVIOUS
<1>1. p \in Payloads /\ p \in BuyEntries
  BY HeldTyped, PayloadsAreFinite
<1>2. CASE p \in Reservations
  BY <1>2 DEF Captured
<1>3. CASE broker[p].st \in WorkingStatus
  BY <1>1, <1>3 DEF Captured, BrokerOpenOrders, Working
<1>4. CASE broker[p].f > 0
  <2>1. <<p, broker[p].f>> \in cap.pos
    BY <1>1, <1>4 DEF Positions
  <2>2. <<p, broker[p].f>>[1] = p
    OBVIOUS
  <2> QED
    BY <2>1, <2>2 DEF Captured
<1> QED
  BY <1>2, <1>3, <1>4 DEF Held, Bought

(* What excuses a second entry is never taken back. *)
LEMMA ExcusedStays ==
  ASSUME Invariant, PgStep, late \subseteq late', torn => torn', Excused
  PROVE  Excused'
<1>1. CASE torn
  BY <1>1 DEF Excused
<1>2. ASSUME NEW p \in late, ~Authority \/ p \in lapsed \/ intent[p] = "failed" PROVE Excused'
  <2>1. p \in Payloads /\ p \in late'
    BY DEF Invariant, TypeOK
  <2>2. ~Authority' \/ p \in lapsed' \/ intent'[p] = "failed"
    BY <1>2, <2>1 DEF PgStep, Authority, TerminalIntent
  <2> QED
    BY <2>1, <2>2 DEF Excused
<1> QED
  BY <1>1, <1>2 DEF Excused

-----------------------------------------------------------------------------
(* Where the runs stand *)

LEMMA AfterFacts ==
  ASSUME NEW a \in LedgerStatus, NEW b \in LedgerStatus, NEW c \in LedgerStatus, After(a, b)
  PROVE  /\ After(b, c) => After(a, c)
         /\ After(b, c) /\ a # b => a # c
         /\ b = "none" => a = "none"
BY DEF After, LedgerStatus

(* FlowOf after a step, for the run as the step leaves it. *)
LEMMA FlowNext ==
  ASSUME NEW r \in Procs, NEW y, run'[r] = y, mode' = mode
  PROVE  FlowOf(run[r])' <=>
           /\ \A p, q \in y.todo : p[1] = q[1]
           /\ y.pc \in Posted => posts'[y.cur] > 0
           /\ ~Authority =>
                /\ y.pc \in Past => \A p \in y.todo \cap BuyEntries : ledger'[p] = "reserved"
                /\ y.pc \in Sending \cup {"ledger"} /\ y.cur \in BuyEntries => ledger'[y.cur] = "attempted"
                /\ y.pc \in Read /\ HasEntries(y.todo) =>
                     /\ y.cap.base \in [BuyEntries -> LedgerStatus]
                     /\ \A p \in BuyEntries : After(y.cap.base[p], ledger'[p])
           /\ Authority =>
                /\ y.pc # "ledger"
                /\ y.pc = "post" /\ y.cur \in BuyEntries => y.cur \in listActiveReservations'
                /\ y.pc = "record" /\ y.cur \in inflight' => y.ans.st = "ambiguous"
<1>1. Authority' <=> Authority
  BY DEF Authority
<1> QED
  BY <1>1, Zenon DEF FlowOf

(* A run that does not move, while nobody touches its rows. *)
LEMMA FlowKept ==
  ASSUME Invariant, NEW q \in Procs, FlowOf(run[q]), run'[q] = run[q], mode' = mode,
         ledger' \in [Payloads -> LedgerStatus],
         \A p \in Payloads : posts[p] > 0 => posts'[p] > 0,
         ~Authority => \A p \in BuyEntries : /\ After(ledger[p], ledger'[p])
                                             /\ Uses(run[q], p) => ledger'[p] = ledger[p],
         Authority /\ run[q].pc = "post" /\ run[q].cur \in listActiveReservations =>
             run[q].cur \in listActiveReservations',
         Authority /\ run[q].pc = "record" /\ run[q].cur \in inflight' => run[q].cur \in inflight
  PROVE  FlowOf(run[q])'
<1> DEFINE x == run[q]
<1>1. /\ x \in Runs /\ Placed(x) /\ x.todo \in SUBSET Payloads
      /\ ledger \in [Payloads -> LedgerStatus] /\ BuyEntries \subseteq Payloads
      /\ run'[q] = x
  BY RunFacts, PayloadsAreFinite
<1>3. FlowOf(x)
  OBVIOUS
<1>4. /\ \A p, s \in x.todo : p[1] = s[1]
      /\ x.pc \in Posted => posts'[x.cur] > 0
  BY <1>1, <1>3 DEF FlowOf, Posted, Placed, Busy
<1>5. ASSUME ~Authority, x.pc \in Past, NEW p \in x.todo \cap BuyEntries PROVE ledger'[p] = "reserved"
  BY <1>3, <1>5 DEF FlowOf, Uses
<1>6. ASSUME ~Authority, x.pc \in Sending \cup {"ledger"}, x.cur \in BuyEntries PROVE ledger'[x.cur] = "attempted"
  BY <1>3, <1>6 DEF FlowOf, Uses
<1>7. ASSUME ~Authority, x.pc \in Read, HasEntries(x.todo)
      PROVE  /\ x.cap.base \in [BuyEntries -> LedgerStatus]
             /\ \A p \in BuyEntries : After(x.cap.base[p], ledger'[p])
  <2>1. /\ x.cap.base \in [BuyEntries -> LedgerStatus]
        /\ \A p \in BuyEntries : After(x.cap.base[p], ledger[p]) /\ After(ledger[p], ledger'[p])
    BY <1>3, <1>7 DEF FlowOf
  <2>2. ASSUME NEW p \in BuyEntries PROVE After(x.cap.base[p], ledger'[p])
    <3>1. x.cap.base[p] \in LedgerStatus /\ ledger[p] \in LedgerStatus /\ ledger'[p] \in LedgerStatus
      BY <1>1, <2>1
    <3> QED
      BY <2>1, <3>1, AfterFacts
  <2> QED
    BY <2>1, <2>2
<1>8. ASSUME Authority
      PROVE  /\ x.pc # "ledger"
             /\ x.pc = "post" /\ x.cur \in BuyEntries => x.cur \in listActiveReservations'
             /\ x.pc = "record" /\ x.cur \in inflight' => x.ans.st = "ambiguous"
  BY <1>3, <1>8 DEF FlowOf
<1> HIDE DEF x
<1> QED
  BY <1>1, <1>4, <1>5, <1>6, <1>7, <1>8, FlowNext

(* One run moves. *)
LEMMA FlowStep ==
  ASSUME Invariant, RunsFlow, NEW r \in Procs, \A q \in Procs : q # r => run'[q] = run[q],
         mode' = mode, ledger' \in [Payloads -> LedgerStatus],
         \A p \in Payloads : posts[p] > 0 => posts'[p] > 0,
         ~Authority => \A p \in BuyEntries :
             /\ After(ledger[p], ledger'[p])
             /\ \A q \in Procs : q # r /\ Uses(run[q], p) => ledger'[p] = ledger[p],
         Authority => \A q \in Procs : q # r =>
             /\ run[q].pc = "post" /\ run[q].cur \in listActiveReservations => run[q].cur \in listActiveReservations'
             /\ run[q].pc = "record" /\ run[q].cur \in inflight' => run[q].cur \in inflight,
         run'[r].pc \in Posted => \A q \in Procs : q # r /\ run[q].pc \in Posted => run[q].cur # run'[r].cur,
         FlowOf(run[r])'
  PROVE  RunsFlow'
<1>1. ASSUME NEW q \in Procs PROVE FlowOf(run[q])'
  <2>1. CASE q = r
    BY <2>1
  <2>2. CASE q # r
    <3>1. FlowOf(run[q]) /\ run'[q] = run[q]
      BY <2>2 DEF RunsFlow
    <3> QED
      BY <2>2, <3>1, FlowKept
  <2> QED
    BY <2>1, <2>2
<1>2. ASSUME NEW q \in Procs, NEW s \in Procs, run'[q].pc \in Posted, run'[s].pc \in Posted, run'[q].cur = run'[s].cur
      PROVE  q = s
  BY <1>2 DEF RunsFlow
<1> QED
  BY <1>1, <1>2 DEF RunsFlow

(* No run moves. *)
LEMMA FlowStays ==
  ASSUME Invariant, RunsFlow, run' = run, mode' = mode, ledger' = ledger, posts' = posts, inflight' \subseteq inflight,
         Authority => \A q \in Procs :
             run[q].pc = "post" /\ run[q].cur \in listActiveReservations => run[q].cur \in listActiveReservations'
  PROVE  RunsFlow'
<1>1. ASSUME NEW q \in Procs PROVE FlowOf(run[q])'
  <2>1. FlowOf(run[q])
    BY DEF RunsFlow
  <2>2. ledger \in [Payloads -> LedgerStatus]
    BY DEF Invariant, TypeOK
  <2>3. \A p \in BuyEntries : After(ledger[p], ledger'[p]) /\ ledger'[p] = ledger[p]
    BY DEF After
  <2>4. ledger' \in [Payloads -> LedgerStatus] /\ run'[q] = run[q]
    BY <2>2
  <2> QED
    BY <2>1, <2>3, <2>4, FlowKept
<1> QED
  BY <1>1 DEF RunsFlow

-----------------------------------------------------------------------------
(* What the runs have read, and the room that is left *)

(* EntryOf after a step, for the run as the step leaves it. *)
LEMMA EntryNext ==
  ASSUME NEW r \in Procs, NEW y, run'[r] = y, mode' = mode
  PROVE  EntryOf(r, run[r])' <=>
           /\ y.pc \in {"orders", "reservations"} => y.cap.pos = Positions'
           /\ y.pc = "reservations" => y.cap.orders = BrokerOpenOrders'
           /\ y.pc \in {"validate", "account"} /\ HasEntries(y.todo) =>
                \A q \in Held' : \/ q \in Captured(y.cap)
                                 \/ IF Authority THEN holder' # r ELSE ledger'[q] # y.cap.base[q]
           /\ Authority /\ holder' = r /\ y.pc \in Past \cup {"account"} => Fits(Held' \cup Pending(y))
<1>1. Authority' <=> Authority
  BY DEF Authority
<1>2. \A q : Moved(r, run[r], q)' <=> IF Authority THEN holder' # r ELSE ledger'[q] # y.cap.base[q]
  BY <1>1 DEF Moved
<1>3. Captured(run[r].cap)' = Captured(y.cap)
  BY DEF Captured
<1>4. Pending(run[r])' = Pending(y)
  BY DEF Pending
<1>5. Fits(Held \cup Pending(run[r]))' <=> Fits(Held' \cup Pending(y))
  BY <1>4 DEF Fits
<1>6. HasEntries(run[r].todo)' <=> HasEntries(y.todo)
  BY DEF HasEntries
<1> QED
  BY <1>1, <1>2, <1>3, <1>5, <1>6, Zenon DEF EntryOf

LEMMA BrokerReads ==
  ASSUME broker' = broker
  PROVE  Positions' = Positions /\ BrokerOpenOrders' = BrokerOpenOrders
BY DEF Positions, BrokerOpenOrders, Working

(* A run that does not move. *)
LEMMA EntryKept ==
  ASSUME Invariant, FlowInvariant, NEW q \in Procs, EntryOf(q, run[q]), run'[q] = run[q], mode' = mode,
         ledger' \in [Payloads -> LedgerStatus],
         ~Authority => \A p \in BuyEntries : After(ledger[p], ledger'[p]),
         Authority /\ holder' = q => holder = q,
         run[q].pc \in {"orders", "reservations"} => broker' = broker,
         \A p \in Held' : p \in Held \/ IF Authority THEN holder' # q ELSE ledger[p] = "none" /\ ledger'[p] # "none"
  PROVE  EntryOf(q, run[q])'
<1> DEFINE x == run[q]
<1>1. /\ run'[q] = x /\ EntryOf(q, x) /\ FlowOf(x) /\ x \in Runs
      /\ ledger \in [Payloads -> LedgerStatus] /\ BuyEntries \subseteq Payloads
  BY RunFacts, PayloadsAreFinite DEF FlowInvariant, RunsFlow
<1> HIDE DEF x
<1>2. x.pc \in {"orders", "reservations"} => x.cap.pos = Positions' /\ (x.pc = "reservations" => x.cap.orders = BrokerOpenOrders')
  BY <1>1, BrokerReads DEF EntryOf, x
<1>3. ASSUME x.pc \in {"validate", "account"}, HasEntries(x.todo), NEW p \in Held'
      PROVE  p \in Captured(x.cap) \/ IF Authority THEN holder' # q ELSE ledger'[p] # x.cap.base[p]
  <2>1. p \in BuyEntries /\ Held \subseteq BuyEntries
    BY HeldTyped DEF Held, Bought
  <2>2. CASE Authority
    <3>1. p \in Held => p \in Captured(x.cap) \/ holder # q
      BY <1>1, <1>3, <2>2 DEF EntryOf, Moved
    <3> QED
      BY <2>2, <3>1
  <2>3. CASE ~Authority
    <3>1. /\ x.cap.base \in [BuyEntries -> LedgerStatus]
          /\ After(x.cap.base[p], ledger[p]) /\ After(ledger[p], ledger'[p])
      BY <1>1, <1>3, <2>1, <2>3 DEF FlowOf, Read
    <3>2. x.cap.base[p] \in LedgerStatus /\ ledger[p] \in LedgerStatus /\ ledger'[p] \in LedgerStatus
      BY <1>1, <2>1, <3>1
    <3>3. CASE p \in Held
      <4>1. p \in Captured(x.cap) \/ ledger[p] # x.cap.base[p]
        BY <1>1, <1>3, <2>3, <3>3 DEF EntryOf, Moved
      <4> QED
        BY <2>3, <3>1, <3>2, <4>1, AfterFacts
    <3>4. CASE p \notin Held
      <4>1. ledger[p] = "none" /\ ledger'[p] # "none"
        BY <2>3, <3>4
      <4> QED
        BY <2>3, <3>1, <3>2, <4>1, AfterFacts
    <3> QED
      BY <3>3, <3>4
  <2> QED
    BY <2>2, <2>3
<1>4. ASSUME Authority, holder' = q, x.pc \in Past \cup {"account"} PROVE Fits(Held' \cup Pending(x))
  <2>1. Fits(Held \cup Pending(x))
    BY <1>1, <1>4 DEF EntryOf
  <2>2. Held \cup Pending(x) \in SUBSET BuyEntries
    BY HeldTyped DEF Pending
  <2>3. Held' \cup Pending(x) \in SUBSET (Held \cup Pending(x))
    BY <1>4
  <2> QED
    BY <2>1, <2>2, <2>3, FitsSubset
<1> QED
  BY <1>1, <1>2, <1>3, <1>4, EntryNext

(* One run moves. *)
LEMMA EntryStep ==
  ASSUME Invariant, FlowInvariant, EntryInvariant, PgStep, late \subseteq late', torn => torn',
         NEW r \in Procs, \A q \in Procs : q # r => run'[q] = run[q],
         ledger' \in [Payloads -> LedgerStatus],
         ~Authority => \A p \in BuyEntries : After(ledger[p], ledger'[p]),
         Authority => holder' \in {holder, r},
         ~Excused' => \A q \in Procs : q # r /\ run[q].pc \in {"orders", "reservations"} => broker' = broker,
         ~Excused' => \A p \in Held' :
             p \in Held \/ IF Authority THEN holder' = r ELSE ledger[p] = "none" /\ ledger'[p] # "none",
         ~Excused /\ ~Excused' /\ Fits(Held) /\ EntryOf(r, run[r]) => Fits(Held') /\ EntryOf(r, run[r])'
  PROVE  EntryInvariant'
<1> SUFFICES ASSUME ~Excused' PROVE Fits(Held') /\ \A q \in Procs : EntryOf(q, run[q])'
  BY DEF EntryInvariant, Fits
<1>1. ~Excused
  BY ExcusedStays
<1>2. Fits(Held) /\ \A q \in Procs : EntryOf(q, run[q])
  BY <1>1 DEF EntryInvariant
<1>3. mode' = mode
  BY DEF PgStep
<1>4. Fits(Held') /\ EntryOf(r, run[r])'
  BY <1>1, <1>2
<1>5. ASSUME NEW q \in Procs, q # r PROVE EntryOf(q, run[q])'
  <2>1. Authority /\ holder' = q => holder = q
    BY <1>5
  <2>2. \A p \in Held' : p \in Held \/ IF Authority THEN holder' # q ELSE ledger[p] = "none" /\ ledger'[p] # "none"
    BY <1>5
  <2>3. EntryOf(q, run[q]) /\ run'[q] = run[q] /\ (run[q].pc \in {"orders", "reservations"} => broker' = broker)
    BY <1>2, <1>5
  <2> QED
    BY <1>3, <2>1, <2>2, <2>3, EntryKept
<1> QED
  BY <1>4, <1>5

(* No run moves. *)
LEMMA EntryStays ==
  ASSUME Invariant, FlowInvariant, EntryInvariant, PgStep, late \subseteq late', torn => torn',
         UNCHANGED <<run, ledger, holder>>,
         ~Excused' => \A q \in Procs : run[q].pc \in {"orders", "reservations"} => broker' = broker,
         ~Excused' => Held' \subseteq Held
  PROVE  EntryInvariant'
<1> SUFFICES ASSUME ~Excused' PROVE Fits(Held') /\ \A q \in Procs : EntryOf(q, run[q])'
  BY DEF EntryInvariant, Fits
<1>1. ~Excused
  BY ExcusedStays
<1>2. Fits(Held) /\ \A q \in Procs : EntryOf(q, run[q])
  BY <1>1 DEF EntryInvariant
<1>3. mode' = mode
  BY DEF PgStep
<1>4. Fits(Held')
  BY <1>2, HeldTyped, FitsSubset
<1>5. ASSUME NEW q \in Procs PROVE EntryOf(q, run[q])'
  <2>1. ledger' \in [Payloads -> LedgerStatus] /\ run'[q] = run[q] /\ holder' = holder
    BY DEF Invariant, TypeOK
  <2>2. \A p \in BuyEntries : After(ledger[p], ledger'[p])
    BY DEF After
  <2>3. \A p \in Held' : p \in Held
    OBVIOUS
  <2> QED
    BY <1>2, <1>3, <2>1, <2>2, <2>3, EntryKept
<1> QED
  BY <1>4, <1>5

(* Nothing that stands for an entry changes. *)
LEMMA HeldSame ==
  ASSUME UNCHANGED <<mode, resv, lapsed, ledger, broker>>
  PROVE  Held' = Held /\ listActiveReservations' = listActiveReservations /\ Reservations' = Reservations
BY DEF Held, Bought, Reservations, listActiveReservations, listActivePaperNewRiskReservations, Authority

-----------------------------------------------------------------------------
(* The steps of a process *)

(* Rows, orders and history stay as they are. *)
QuietVars == <<intent, resv, lapsed, ledger, broker, inflight, posts, late, torn, rec>>

LEMMA QuietStep ==
  ASSUME StepFrom, NEW r \in Procs, NEW y \in Runs, run' = [run EXCEPT ![r] = y],
         UNCHANGED QuietVars, Authority => holder' \in {holder, r}, y.pc \notin Posted, FlowOf(run[r])',
         ~Excused /\ Fits(Held) /\ EntryOf(r, run[r]) => EntryOf(r, run[r])'
  PROVE  FlowInvariant' /\ EntryInvariant'
<1>1. /\ Invariant /\ PgStep /\ FlowInvariant /\ EntryInvariant /\ RunsFlow /\ RowsFlow
      /\ ledger \in [Payloads -> LedgerStatus]
  BY DEF StepFrom, FlowInvariant, Invariant, TypeOK
<1>2. UNCHANGED <<intent, resv, lapsed, ledger, broker, inflight, posts, late, torn, rec>>
  BY DEF QuietVars
<1>3. mode' = mode /\ ledger' \in [Payloads -> LedgerStatus] /\ \A p \in BuyEntries : After(ledger[p], ledger'[p]) /\ ledger'[p] = ledger[p]
  BY <1>1, <1>2 DEF PgStep, After
<1>4. run'[r] = y /\ \A q \in Procs : q # r => run'[q] = run[q]
  BY <1>1, OneRun DEF Invariant, TypeOK
<1>5. Held' = Held /\ listActiveReservations' = listActiveReservations
  BY <1>2, <1>3, HeldSame
<1>6. RunsFlow'
  <2>1. \A p \in Payloads : posts[p] > 0 => posts'[p] > 0
    BY <1>2
  <2>2. ~Authority => \A p \in BuyEntries :
             /\ After(ledger[p], ledger'[p])
             /\ \A q \in Procs : q # r /\ Uses(run[q], p) => ledger'[p] = ledger[p]
    BY <1>3
  <2>3. Authority => \A q \in Procs : q # r =>
             /\ run[q].pc = "post" /\ run[q].cur \in listActiveReservations => run[q].cur \in listActiveReservations'
             /\ run[q].pc = "record" /\ run[q].cur \in inflight' => run[q].cur \in inflight
    BY <1>2, <1>5
  <2>4. run'[r].pc \notin Posted
    BY <1>4
  <2> QED
    BY <1>1, <1>3, <1>4, <2>1, <2>2, <2>3, <2>4, FlowStep
<1>7. RowsFlow'
  BY <1>1, <1>2, <1>3 DEF RowsFlow, Authority
<1>8. EntryInvariant'
  <2>1. Fits(Held) => Fits(Held')
    BY <1>5
  <2>2. late \subseteq late' /\ (torn => torn') /\ broker' = broker /\ \A p \in Held' : p \in Held
    BY <1>2, <1>5
  <2> QED
    BY <1>1, <1>3, <1>4, <2>1, <2>2, EntryStep
<1> QED
  BY <1>6, <1>7, <1>8 DEF FlowInvariant

(* A process ends. *)
LEMMA FinishEntry ==
  ASSUME StepFrom, NEW r \in Procs, Finish(r), UNCHANGED QuietVars, UNCHANGED holder
  PROVE  FlowInvariant' /\ EntryInvariant'
<1>1. /\ IdleRun \in Runs /\ IdleRun.pc = "idle" /\ IdleRun.todo = {} /\ run' = [run EXCEPT ![r] = IdleRun]
      /\ run'[r] = IdleRun /\ mode' = mode /\ HasEntries({}) = FALSE
  <2>1. IdleRun \in Runs /\ IdleRun.pc = "idle" /\ IdleRun.todo = {}
    BY IdleTyped DEF IdleRun
  <2> QED
    BY <2>1, OneRun DEF Finish, StepFrom, Invariant, TypeOK, PgStep, HasEntries
<1>2. FlowOf(run[r])'
  BY <1>1, FlowNext DEF Posted, Past, Busy, Sending, Read
<1>3. EntryOf(r, run[r])'
  BY <1>1, EntryNext DEF Past, Busy, Sending
<1> QED
  BY <1>1, <1>2, <1>3, QuietStep DEF Posted

LEMMA StartEntry ==
  ASSUME StepFrom, NEW r \in Procs, Start(r)
  PROVE  FlowInvariant' /\ EntryInvariant'
<1> DEFINE Y(chosen) == [run[r] EXCEPT !.todo = chosen,
                            !.pc = IF HasEntries(chosen) THEN "positions" ELSE "account",
                            !.cap.rev = IF HasEntries(chosen) THEN reviewed ELSE <<>>]
<1>1. PICK chosen \in EligibleBatches :
         run' = [run EXCEPT ![r].todo = chosen,
                            ![r].pc = IF HasEntries(chosen) THEN "positions" ELSE "account",
                            ![r].cap.rev = IF HasEntries(chosen) THEN reviewed ELSE <<>>]
  BY DEF Start
<1> DEFINE y == Y(chosen)
<1>2. run[r] \in Runs /\ run \in [Procs -> Runs]
  BY RunFacts DEF StepFrom, Invariant, TypeOK
<1>3. run'[r] = y /\ run' = [run EXCEPT ![r] = y]
  BY <1>1, <1>2 DEF Runs, Captures
<1>4. /\ y.todo = chosen /\ y.pc \in {"positions", "account"} /\ (y.pc = "account" => ~HasEntries(y.todo))
  BY <1>2 DEF Runs
<1>5. y \in Runs
  BY <1>3 DEF StepFrom, Invariant, TypeOK
<1>6. \A p, q \in y.todo : p[1] = q[1]
  BY <1>4 DEF EligibleBatches
<1>7. /\ UNCHANGED QuietVars /\ mode' = mode /\ (Authority => holder' = r)
  BY DEF Start, Keep, QuietVars, pgVars
<1> HIDE DEF y, Y
<1>8. FlowOf(run[r])'
  BY <1>3, <1>4, <1>6, <1>7, FlowNext DEF Posted, Past, Busy, Sending, Read
<1>9. ASSUME Fits(Held) PROVE EntryOf(r, run[r])'
  <2>1. Held' = Held
    BY <1>7, HeldSame DEF QuietVars
  <2>2. y.pc = "account" => Held' \cup Pending(y) = Held
    BY <1>4, <2>1 DEF Pending, HasEntries
  <2>3. y.pc = "account" => Fits(Held' \cup Pending(y))
    BY <1>9, <2>2
  <2> QED
    BY <1>3, <1>4, <1>7, <2>3, EntryNext DEF Past, Busy, Sending
<1> QED
  BY <1>3, <1>4, <1>5, <1>7, <1>8, <1>9, QuietStep DEF Posted

(* A step of one process that leaves everything else alone. *)
LEMMA CaptureEntry ==
  ASSUME StepFrom, NEW r \in Procs, CapturePositions(r) \/ CaptureOrders(r) \/ ListReservations(r)
  PROVE  FlowInvariant' /\ EntryInvariant'
<1>1. /\ UNCHANGED QuietVars /\ mode' = mode /\ holder' = holder
  BY DEF CapturePositions, CaptureOrders, ListReservations, Keep, QuietVars, pgVars
<1>2. /\ Held' = Held /\ Positions' = Positions /\ BrokerOpenOrders' = BrokerOpenOrders
      /\ ledger' = ledger
  BY <1>1, HeldSame, BrokerReads DEF QuietVars
<1>3. /\ run[r] \in Runs /\ run \in [Procs -> Runs] /\ run' \in [Procs -> Runs] /\ TypeOK /\ FlowOf(run[r])
      /\ ledger \in [Payloads -> LedgerStatus]
  BY RunFacts DEF StepFrom, Invariant, TypeOK, FlowInvariant, RunsFlow
<1>4. CASE CapturePositions(r)
  <2> DEFINE y == [run[r] EXCEPT !.pc = "orders", !.cap.pos = Positions,
                                 !.cap.base = IF Authority THEN <<>> ELSE Fingerprint]
  <2>1. run' = [run EXCEPT ![r] = y] /\ run'[r] = y
    BY <1>3, <1>4, ZenonT(40) DEF CapturePositions
  <2>2. y \in Runs
    BY <1>3, <2>1
  <2>3. /\ y.pc = "orders" /\ y.todo = run[r].todo /\ y.cap.pos = Positions
        /\ y.cap.base = IF Authority THEN <<>> ELSE Fingerprint
    BY <1>3 DEF Runs, Captures
  <2> HIDE DEF y
  <2>4. ~Authority => /\ y.cap.base \in [BuyEntries -> LedgerStatus]
                      /\ \A p \in BuyEntries : After(y.cap.base[p], ledger'[p])
    BY <1>2, <1>3, <2>3, PositionsAreTyped DEF Fingerprint, After
  <2>5. FlowOf(run[r])'
    <3>1. \A p, q \in y.todo : p[1] = q[1]
      BY <1>3, <2>3 DEF FlowOf
    <3> QED
      BY <1>1, <2>1, <2>3, <2>4, <3>1, FlowNext DEF Posted, Past, Busy, Sending
  <2>6. EntryOf(r, run[r])'
    BY <1>1, <1>2, <2>1, <2>3, EntryNext DEF Past, Busy, Sending
  <2> QED
    BY <1>1, <2>1, <2>2, <2>3, <2>5, <2>6, QuietStep DEF Posted
<1>5. CASE CaptureOrders(r)
  <2> DEFINE y == [run[r] EXCEPT !.pc = "reservations", !.cap.orders = BrokerOpenOrders]
  <2>1. run' = [run EXCEPT ![r] = y] /\ run'[r] = y /\ run[r].pc = "orders"
    BY <1>3, <1>5 DEF CaptureOrders
  <2>2. y \in Runs
    BY <1>3, <2>1
  <2>3. /\ y.pc = "reservations" /\ y.todo = run[r].todo /\ y.cap.pos = run[r].cap.pos
        /\ y.cap.base = run[r].cap.base /\ y.cap.orders = BrokerOpenOrders
    BY <1>3 DEF Runs, Captures
  <2> HIDE DEF y
  <2>4. FlowOf(run[r])'
    <3>1. /\ \A p, q \in y.todo : p[1] = q[1]
          /\ ~Authority /\ HasEntries(y.todo) =>
               /\ y.cap.base \in [BuyEntries -> LedgerStatus]
               /\ \A p \in BuyEntries : After(y.cap.base[p], ledger'[p])
      BY <1>2, <1>3, <2>1, <2>3 DEF FlowOf, Read
    <3> QED
      BY <1>1, <2>1, <2>3, <3>1, FlowNext DEF Posted, Past, Busy, Sending
  <2>5. ASSUME EntryOf(r, run[r]) PROVE EntryOf(r, run[r])'
    <3>1. y.cap.pos = Positions
      BY <2>1, <2>3, <2>5 DEF EntryOf
    <3> QED
      BY <1>1, <1>2, <2>1, <2>3, <3>1, EntryNext DEF Past, Busy, Sending
  <2> QED
    BY <1>1, <2>1, <2>2, <2>3, <2>4, <2>5, QuietStep DEF Posted
<1>6. CASE ListReservations(r)
  <2> DEFINE y == [run[r] EXCEPT !.pc = "validate", !.cap.res = Reservations]
  <2>1. run' = [run EXCEPT ![r] = y] /\ run'[r] = y /\ run[r].pc = "reservations"
    BY <1>3, <1>6 DEF ListReservations
  <2>2. y \in Runs
    BY <1>3, <2>1
  <2>3. /\ y.pc = "validate" /\ y.todo = run[r].todo /\ y.cap.pos = run[r].cap.pos
        /\ y.cap.base = run[r].cap.base /\ y.cap.orders = run[r].cap.orders /\ y.cap.res = Reservations
    BY <1>3 DEF Runs, Captures
  <2> HIDE DEF y
  <2>4. FlowOf(run[r])'
    <3>1. /\ \A p, q \in y.todo : p[1] = q[1]
          /\ ~Authority /\ HasEntries(y.todo) =>
               /\ y.cap.base \in [BuyEntries -> LedgerStatus]
               /\ \A p \in BuyEntries : After(y.cap.base[p], ledger'[p])
      BY <1>2, <1>3, <2>1, <2>3 DEF FlowOf, Read
    <3> QED
      BY <1>1, <2>1, <2>3, <3>1, FlowNext DEF Posted, Past, Busy, Sending
  <2>5. ASSUME EntryOf(r, run[r]) PROVE EntryOf(r, run[r])'
    <3>1. y.cap.pos = Positions /\ y.cap.orders = BrokerOpenOrders
      BY <2>1, <2>3, <2>5 DEF EntryOf
    <3>2. Held' \subseteq Captured(y.cap)
      BY <1>2, <1>3, <2>3, <3>1, CaptureIsWhole
    <3> QED
      BY <1>1, <2>1, <2>3, <3>2, EntryNext DEF Past, Busy, Sending
  <2> QED
    BY <1>1, <2>1, <2>2, <2>3, <2>4, <2>5, QuietStep DEF Posted
<1> QED
  BY <1>4, <1>5, <1>6

LEMMA ValidateEntry ==
  ASSUME StepFrom, NEW r \in Procs, Validate(r)
  PROVE  FlowInvariant' /\ EntryInvariant'
<1> DEFINE x == run[r]
           Y(todo) == [x EXCEPT !.pc = "account", !.todo = todo, !.cap.rev = <<>>]
<1>1. /\ UNCHANGED QuietVars /\ mode' = mode /\ holder' = holder /\ x.pc = "validate"
  BY DEF Validate, syncAccountState, Keep, QuietVars, pgVars
<1>2. /\ Held' = Held /\ ledger' = ledger
  BY <1>1, HeldSame DEF QuietVars
<1>3. /\ x \in Runs /\ run \in [Procs -> Runs] /\ run' \in [Procs -> Runs] /\ FlowOf(x)
      /\ x.todo \in SUBSET Payloads /\ x.cap \in Captures
  BY RunFacts DEF StepFrom, Invariant, TypeOK, FlowInvariant, RunsFlow
<1>4. \/ run' = [run EXCEPT ![r] = IdleRun]
      \/ \E todo \in {x.todo, DropEntries(r)} :
            /\ run' = [run EXCEPT ![r] = Y(todo)]
            /\ todo = DropEntries(r) \/ (~Fenced(r) /\ StateValid(r, x.cap))
  BY DEF Validate, Verdicts
<1>5. CASE run' = [run EXCEPT ![r] = IdleRun]
  BY <1>1, <1>5, FinishEntry DEF Finish
<1>6. ASSUME NEW todo \in {x.todo, DropEntries(r)}, run' = [run EXCEPT ![r] = Y(todo)],
             todo = DropEntries(r) \/ (~Fenced(r) /\ StateValid(r, x.cap))
      PROVE  FlowInvariant' /\ EntryInvariant'
  <2> DEFINE y == Y(todo)
  <2>1. run' = [run EXCEPT ![r] = y] /\ run'[r] = y /\ y \in Runs
    BY <1>3, <1>6
  <2>2. /\ y.pc = "account" /\ y.todo = todo /\ y.cap.pos = x.cap.pos
        /\ y.cap.base = x.cap.base /\ y.cap.orders = x.cap.orders /\ y.cap.res = x.cap.res
    BY <1>3 DEF Runs, Captures
  <2>3. todo \subseteq x.todo /\ (todo = DropEntries(r) => ~HasEntries(todo))
    BY DEF DropEntries, HasEntries
  <2>4. HasEntries(todo) => HasEntries(x.todo)
    BY <2>3 DEF HasEntries
  <2>5. Captured(y.cap) = Captured(x.cap)
    BY <2>2 DEF Captured
  <2> HIDE DEF y, x, Y
  <2>6. FlowOf(run[r])'
    <3>1. /\ \A p, q \in y.todo : p[1] = q[1]
          /\ ~Authority /\ HasEntries(y.todo) =>
               /\ y.cap.base \in [BuyEntries -> LedgerStatus]
               /\ \A p \in BuyEntries : After(y.cap.base[p], ledger'[p])
      BY <1>1, <1>2, <1>3, <2>2, <2>3, <2>4 DEF FlowOf, Read
    <3> QED
      BY <1>1, <2>1, <2>2, <3>1, FlowNext DEF Posted, Past, Busy, Sending
  <2>7. ASSUME EntryOf(r, run[r]), Fits(Held) PROVE EntryOf(r, run[r])'
    <3>1. ASSUME HasEntries(todo), NEW q \in Held
          PROVE  q \in Captured(y.cap) \/ IF Authority THEN holder' # r ELSE ledger'[q] # y.cap.base[q]
      BY <1>1, <1>2, <2>2, <2>4, <2>5, <2>7, <3>1 DEF EntryOf, Moved, x
    <3>2. ASSUME Authority, holder' = r PROVE Fits(Held' \cup Pending(y))
      <4>1. Pending(y) = todo \cap BuyEntries
        BY <2>2 DEF Pending
      <4>2. CASE ~HasEntries(todo)
        <5>1. Held' \cup Pending(y) = Held
          BY <1>2, <4>1, <4>2 DEF HasEntries
        <5> QED
          BY <2>7, <5>1
      <4>3. CASE HasEntries(todo)
        <5>1. todo = x.todo /\ StateValid(r, x.cap)
          BY <1>6, <2>3, <4>3
        <5>2. Headroom(x.todo \cap BuyEntries, x.cap, x.cap.res)
          BY <5>1 DEF StateValid, x
        <5>3. Held \subseteq Captured(x.cap)
          BY <1>2, <2>5, <3>1, <3>2, <4>3
        <5>4. \A p, q \in x.todo : p[1] = q[1]
          BY <1>3 DEF FlowOf
        <5>5. Fits(Held \cup (x.todo \cap BuyEntries))
          BY <1>3, <2>7, <5>2, <5>3, <5>4, HeldTyped, RoomForBatch
        <5> QED
          BY <1>2, <4>1, <5>1, <5>5
      <4> QED
        BY <4>2, <4>3
    <3> QED
      BY <1>1, <1>2, <2>1, <2>2, <3>1, <3>2, EntryNext
  <2> QED
    BY <1>1, <2>1, <2>2, <2>6, <2>7, QuietStep DEF Posted
<1> HIDE DEF Y, x
<1> QED
  BY <1>4, <1>5, <1>6

(* A step that may change rows of the ledger, but not the PostgreSQL copy or *)
(* the orders.                                                               *)
LEMMA LedgerStep ==
  ASSUME StepFrom, NEW r \in Procs, NEW y \in Runs, run' = [run EXCEPT ![r] = y], holder' = holder,
         UNCHANGED <<intent, resv, lapsed, broker, inflight, posts, late, torn, rec>>,
         ~Authority => \A p \in BuyEntries :
             /\ After(ledger[p], ledger'[p])
             /\ ledger'[p] # ledger[p] => \A q \in Procs : q # r => ~Uses(run[q], p),
         y.pc \in Posted => run[r].pc \in Posted /\ run[r].cur = y.cur,
         FlowOf(run[r])',
         \A p \in Held' : p \in Held \/ (~Authority /\ ledger[p] = "none" /\ ledger'[p] # "none"),
         ~Excused /\ Fits(Held) /\ EntryOf(r, run[r]) => Fits(Held') /\ EntryOf(r, run[r])'
  PROVE  FlowInvariant' /\ EntryInvariant'
<1>1. /\ Invariant /\ PgStep /\ FlowInvariant /\ EntryInvariant /\ RunsFlow /\ RowsFlow
      /\ ledger' \in [Payloads -> LedgerStatus] /\ mode' = mode
  BY DEF StepFrom, FlowInvariant, Invariant, TypeOK, PgStep
<1>2. run'[r] = y /\ \A q \in Procs : q # r => run'[q] = run[q]
  BY <1>1, OneRun DEF Invariant, TypeOK
<1>3. listActiveReservations' = listActiveReservations
  BY DEF listActiveReservations
<1>4. RunsFlow'
  <2>1. \A p \in Payloads : posts[p] > 0 => posts'[p] > 0
    OBVIOUS
  <2>2. ~Authority => \A p \in BuyEntries :
             /\ After(ledger[p], ledger'[p])
             /\ \A q \in Procs : q # r /\ Uses(run[q], p) => ledger'[p] = ledger[p]
    OBVIOUS
  <2>3. Authority => \A q \in Procs : q # r =>
             /\ run[q].pc = "post" /\ run[q].cur \in listActiveReservations => run[q].cur \in listActiveReservations'
             /\ run[q].pc = "record" /\ run[q].cur \in inflight' => run[q].cur \in inflight
    BY <1>3
  <2>4. run'[r].pc \in Posted => \A q \in Procs : q # r /\ run[q].pc \in Posted => run[q].cur # run'[r].cur
    BY <1>1, <1>2 DEF RunsFlow
  <2> QED
    BY <1>1, <1>2, <2>1, <2>2, <2>3, <2>4, FlowStep
<1>5. RowsFlow'
  BY <1>1 DEF RowsFlow, Authority
<1>6. EntryInvariant'
  <2>1. \A p \in Held' : p \in Held \/ IF Authority THEN holder' = r ELSE ledger[p] = "none" /\ ledger'[p] # "none"
    OBVIOUS
  <2>2. late \subseteq late' /\ (torn => torn')
    OBVIOUS
  <2> QED
    BY <1>1, <1>2, <2>1, <2>2, EntryStep
<1> QED
  BY <1>4, <1>5, <1>6 DEF FlowInvariant

(* The row of an entry in the hands of a run says so. *)
LEMMA UsedRow ==
  ASSUME FlowInvariant, ~Authority, NEW q \in Procs, NEW p \in BuyEntries, Uses(run[q], p)
  PROVE  ledger[p] \in {"reserved", "attempted"}
<1>1. FlowOf(run[q])
  BY DEF FlowInvariant, RunsFlow
<1> QED
  BY <1>1 DEF FlowOf, Uses

LEMMA ReserveEntry ==
  ASSUME StepFrom, NEW r \in Procs, Reserve(r)
  PROVE  FlowInvariant' /\ EntryInvariant'
<1> DEFINE x == run[r]
           entries == x.todo \cap BuyEntries
           Y(todo) == [x EXCEPT !.pc = "next", !.cap = NoCapture, !.todo = todo]
<1>1. /\ UNCHANGED <<intent, resv, lapsed, broker, inflight, posts, late, torn, rec, holder>>
      /\ mode' = mode /\ x.pc = "account"
  BY DEF Reserve, Keep, pgVars
<1>2. /\ x \in Runs /\ run \in [Procs -> Runs] /\ run' \in [Procs -> Runs] /\ FlowOf(x)
      /\ x.todo \in SUBSET Payloads /\ x.cap \in Captures /\ FlowInvariant
      /\ ledger \in [Payloads -> LedgerStatus] /\ BuyEntries \subseteq Payloads
  BY RunFacts, PayloadsAreFinite DEF StepFrom, Invariant, TypeOK, FlowInvariant, RunsFlow
<1>3. ASSUME NEW todo \in {x.todo, DropEntries(r)}, run' = [run EXCEPT ![r] = Y(todo)]
      PROVE  /\ run'[r] = Y(todo) /\ Y(todo) \in Runs /\ Y(todo).pc = "next" /\ Y(todo).todo = todo
             /\ \A p, q \in todo : p[1] = q[1]
             /\ Pending(Y(todo)) = todo \cap BuyEntries /\ Pending(x) = entries
  <2>1. run'[r] = Y(todo) /\ Y(todo) \in Runs /\ Y(todo).pc = "next" /\ Y(todo).todo = todo
    BY <1>2, <1>3 DEF Runs
  <2>2. todo \subseteq x.todo
    BY DEF DropEntries
  <2> HIDE DEF Y, x
  <2>3. \A p, q \in todo : p[1] = q[1]
    BY <1>2, <2>2 DEF FlowOf
  <2> QED
    BY <1>1, <2>1, <2>3 DEF Pending
<1>4. ASSUME NEW todo \in {x.todo, DropEntries(r)}, run' = [run EXCEPT ![r] = Y(todo)], UNCHANGED ledger,
             ~Authority => todo \cap BuyEntries = {}
      PROVE  FlowInvariant' /\ EntryInvariant'
  <2>1. UNCHANGED QuietVars
    BY <1>1, <1>4 DEF QuietVars
  <2>2. Held' = Held
    BY <1>1, <1>4, HeldSame
  <2> DEFINE y == Y(todo)
  <2>3. /\ run' = [run EXCEPT ![r] = y] /\ run'[r] = y /\ y \in Runs /\ y.pc = "next" /\ y.todo = todo
        /\ \A p, q \in todo : p[1] = q[1]
        /\ Pending(y) = todo \cap BuyEntries /\ Pending(x) = entries
    BY <1>3, <1>4
  <2> HIDE DEF y, Y
  <2>4. FlowOf(run[r])'
    BY <1>1, <1>4, <2>3, FlowNext DEF Posted, Sending, Read
  <2>5. ASSUME EntryOf(r, run[r]) PROVE EntryOf(r, run[r])'
    <3>1. ASSUME Authority, holder' = r PROVE Fits(Held' \cup Pending(y))
      <4>1. Fits(Held \cup Pending(x))
        BY <1>1, <2>5, <3>1 DEF EntryOf
      <4>2. Held \cup Pending(x) \in SUBSET BuyEntries
        BY HeldTyped DEF Pending
      <4>3. Held' \cup Pending(y) \in SUBSET (Held \cup Pending(x))
        BY <2>2, <2>3 DEF DropEntries
      <4> QED
        BY <4>1, <4>2, <4>3, FitsSubset
    <3> QED
      BY <1>1, <2>3, <3>1, EntryNext
  <2> QED
    BY <1>1, <2>1, <2>3, <2>4, <2>5, QuietStep DEF Posted
<1>5. ASSUME ~Authority, BatchFree(r), run' = [run EXCEPT ![r] = Y(x.todo)],
             ledger' = [p \in Payloads |-> IF p \in entries THEN "reserved" ELSE ledger[p]]
      PROVE  FlowInvariant' /\ EntryInvariant'
  <2> DEFINE y == Y(x.todo)
  <2>1. /\ run' = [run EXCEPT ![r] = y] /\ run'[r] = y /\ y \in Runs /\ y.pc = "next" /\ y.todo = x.todo
        /\ \A p, q \in x.todo : p[1] = q[1]
    BY <1>3, <1>5
  <2>2. \A p \in entries : ledger[p] = "none"
    BY <1>5 DEF BatchFree
  <2>3. \A p \in BuyEntries : ledger'[p] = IF p \in entries THEN "reserved" ELSE ledger[p]
    BY <1>2, <1>5
  <2> HIDE DEF y, Y
  <2>4. \A p \in BuyEntries : /\ After(ledger[p], ledger'[p])
                              /\ ledger'[p] # ledger[p] => \A q \in Procs : q # r => ~Uses(run[q], p)
    <3> SUFFICES ASSUME NEW p \in BuyEntries
                 PROVE  /\ After(ledger[p], ledger'[p])
                        /\ ledger'[p] # ledger[p] => \A q \in Procs : q # r => ~Uses(run[q], p)
      OBVIOUS
    <3>1. CASE p \in entries
      <4>1. ledger[p] = "none"
        BY <2>2, <3>1
      <4> QED
        BY <1>2, <1>5, <4>1, UsedRow DEF After
    <3>2. CASE p \notin entries
      BY <2>3, <3>2 DEF After
    <3> QED
      BY <3>1, <3>2
  <2>5. FlowOf(run[r])'
    BY <1>1, <1>5, <2>1, <2>3, FlowNext DEF Posted, Sending, Read
  <2>6. \A p \in Held' : p \in Held \/ (p \in entries /\ ledger[p] = "none" /\ ledger'[p] # "none")
    <3> SUFFICES ASSUME NEW p \in Held', p \notin Held PROVE p \in entries /\ ledger[p] = "none" /\ ledger'[p] # "none"
      OBVIOUS
    <3>1. p \in BuyEntries
      BY DEF Held, Bought
    <3>2. ledger'[p] # ledger[p]
      BY <1>1, <1>5, <3>1, HeldNow, HeldNext DEF Authority
    <3> QED
      BY <2>2, <2>3, <3>1, <3>2
  <2>7. ASSUME Fits(Held), EntryOf(r, run[r]) PROVE Fits(Held') /\ EntryOf(r, run[r])'
    <3>1. EntryOf(r, run[r])'
      BY <1>1, <1>5, <2>1, EntryNext
    <3>2. CASE ~HasEntries(x.todo)
      <4>1. Held' \in SUBSET Held
        BY <2>6, <3>2 DEF HasEntries
      <4> QED
        BY <2>7, <3>1, <4>1, HeldTyped, FitsSubset
    <3>3. CASE HasEntries(x.todo)
      <4>1. /\ Fingerprint = x.cap.base /\ listActivePaperNewRiskReservations = x.cap.res
            /\ Headroom(entries, x.cap, x.cap.res)
        BY <1>5 DEF BatchFree
      <4>2. \A q \in Held : q \in BuyEntries /\ ledger[q] = x.cap.base[q]
        BY <4>1, HeldTyped DEF Fingerprint
      <4>3. Held \subseteq Captured(x.cap)
        BY <1>1, <1>5, <2>7, <3>3, <4>2 DEF EntryOf, Moved
      <4>4. Fits(Held \cup entries)
        BY <1>2, <2>1, <2>7, <4>1, <4>3, HeldTyped, RoomForBatch
      <4>5. Held \cup entries \in SUBSET BuyEntries /\ Held' \in SUBSET (Held \cup entries)
        BY <2>6, HeldTyped
      <4> QED
        BY <3>1, <4>4, <4>5, FitsSubset
    <3> QED
      BY <3>2, <3>3
  <2> QED
    BY <1>1, <1>5, <2>1, <2>4, <2>5, <2>6, <2>7, LedgerStep DEF Posted
<1>6. CASE Finish(r) /\ UNCHANGED ledger
  BY <1>1, <1>6, FinishEntry DEF QuietVars
<1>7. DropEntries(r) \cap BuyEntries = {}
  BY DEF DropEntries
<1> HIDE DEF Y
<1> QED
  BY <1>4, <1>5, <1>6, <1>7 DEF Reserve, Y

LEMMA NextPayloadEntry ==
  ASSUME StepFrom, NEW r \in Procs, NextPayload(r)
  PROVE  FlowInvariant' /\ EntryInvariant'
<1>1. /\ UNCHANGED <<intent, resv, lapsed, broker, inflight, posts, late, torn, rec, holder>>
      /\ mode' = mode /\ run[r].pc = "next"
  BY DEF NextPayload, Keep, pgVars
<1>2. CASE Finish(r) /\ UNCHANGED ledger
  BY <1>1, <1>2, FinishEntry DEF QuietVars
<1>3. CASE ~(Finish(r) /\ UNCHANGED ledger)
  <2>1. PICK p \in run[r].todo :
          LET duplicate == ~Authority /\ p \notin BuyEntries /\ ledger[p] # "none"
              next == [run[r] EXCEPT !.todo = @ \ {p}, !.ans = NoOrder]
          IN IF duplicate
             THEN run' = [run EXCEPT ![r] = next] /\ UNCHANGED ledger
             ELSE /\ run' = [run EXCEPT ![r] = [next EXCEPT !.pc = "evidence", !.cur = p]]
                  /\ ledger' = IF Authority THEN ledger ELSE [ledger EXCEPT ![p] = "attempted"]
    BY <1>3 DEF NextPayload
  <2> DEFINE x == run[r]
             z == [x EXCEPT !.todo = @ \ {p}, !.ans = NoOrder]
             y == [z EXCEPT !.pc = "evidence", !.cur = p]
  <2>2. /\ x \in Runs /\ run \in [Procs -> Runs] /\ run' \in [Procs -> Runs] /\ FlowOf(x)
        /\ x.todo \in SUBSET Payloads /\ FlowInvariant /\ SendInvariant
        /\ ledger \in [Payloads -> LedgerStatus] /\ BuyEntries \subseteq Payloads
    BY RunFacts, PayloadsAreFinite DEF StepFrom, Invariant, TypeOK, FlowInvariant, RunsFlow
  <2>3. /\ z.pc = "next" /\ z.todo = x.todo \ {p}
        /\ y.pc = "evidence" /\ y.todo = x.todo \ {p} /\ y.cur = p
    BY <1>1, <2>2 DEF Runs
  <2>4. p \in Payloads
    BY <2>2
  <2>5. CASE ~Authority /\ p \notin BuyEntries /\ ledger[p] # "none"
    <3>1. run' = [run EXCEPT ![r] = z] /\ ledger' = ledger
      BY <2>1, <2>5
    <3>2. run'[r] = z /\ z \in Runs
      BY <2>2, <3>1
    <3>3. /\ x.pc \in Past /\ \A q \in x.todo \cap BuyEntries : ledger'[q] = "reserved"
          /\ \A q, s \in z.todo : q[1] = s[1]
      BY <1>1, <2>2, <2>3, <2>5, <3>1 DEF FlowOf, Past
    <3> HIDE DEF x, y, z
    <3>4. FlowOf(run[r])'
      BY <1>1, <2>3, <2>5, <3>2, <3>3, FlowNext DEF Posted, Sending, Read
    <3>5. EntryOf(r, run[r])'
      BY <1>1, <2>3, <2>5, <3>2, EntryNext
    <3> QED
      BY <1>1, <2>3, <3>1, <3>2, <3>4, <3>5, QuietStep DEF Posted, QuietVars
  <2>6. CASE ~(~Authority /\ p \notin BuyEntries /\ ledger[p] # "none")
    <3>1. run' = [run EXCEPT ![r] = y] /\ ledger' = IF Authority THEN ledger ELSE [ledger EXCEPT ![p] = "attempted"]
      BY <2>1, <2>6
    <3>2. run'[r] = y /\ y \in Runs
      BY <2>2, <3>1
    <3>3. /\ ~Authority => x.pc \in Past /\ \A q \in x.todo \cap BuyEntries : ledger[q] = "reserved"
          /\ \A q, s \in y.todo : q[1] = s[1]
      BY <1>1, <2>2, <2>3 DEF FlowOf, Past
    <3>4. ~Authority => ledger'[p] = "attempted" /\ \A q \in Payloads : q # p => ledger'[q] = ledger[q]
      BY <2>2, <2>4, <3>1
    <3>5. \A q \in Procs : ~Authority /\ p \in BuyEntries /\ Uses(run[q], p) => q = r
      <4> SUFFICES ASSUME NEW q \in Procs, ~Authority, p \in BuyEntries, Uses(run[q], p) PROVE q = r
        OBVIOUS
      <4>1. ledger[p] = "reserved" /\ Owns(run[r], p)
        BY <1>1, <3>3 DEF Owns, Past
      <4>2. FlowOf(run[q])
        BY <2>2 DEF FlowInvariant, RunsFlow
      <4>3. Owns(run[q], p)
        BY <4>1, <4>2 DEF FlowOf, Uses, Owns
      <4> QED
        BY <2>2, <2>4, <4>1, <4>3 DEF SendInvariant
    <3> HIDE DEF x, y, z
    <3>6. ~Authority => \A q \in BuyEntries :
             /\ After(ledger[q], ledger'[q])
             /\ ledger'[q] # ledger[q] => \A s \in Procs : s # r => ~Uses(run[s], q)
      <4> SUFFICES ASSUME ~Authority, NEW q \in BuyEntries
                   PROVE  /\ After(ledger[q], ledger'[q])
                          /\ ledger'[q] # ledger[q] => \A s \in Procs : s # r => ~Uses(run[s], q)
        OBVIOUS
      <4>1. CASE q = p
        <5>1. ledger[q] = "reserved" /\ ledger'[q] = "attempted"
          BY <2>1, <3>3, <3>4, <4>1 DEF x
        <5> QED
          BY <3>5, <4>1, <5>1 DEF After
      <4>2. CASE q # p
        BY <2>2, <3>4, <4>2 DEF After
      <4> QED
        BY <4>1, <4>2
    <3>7. FlowOf(run[r])'
      <4>1. ~Authority => \A q \in y.todo \cap BuyEntries : ledger'[q] = "reserved"
        BY <2>2, <2>3, <3>3, <3>4
      <4> QED
        BY <1>1, <2>3, <3>2, <3>3, <3>4, <4>1, FlowNext DEF Posted, Read
    <3>8. \A q \in Held' : q \in Held
      <4> SUFFICES ASSUME NEW q \in Held' PROVE q \in Held
        OBVIOUS
      <4>1. q \in BuyEntries
        BY DEF Held, Bought
      <4>2. CASE Authority
        <5>1. Held' = Held
          BY <1>1, <3>1, <4>2, HeldSame
        <5> QED
          BY <5>1
      <4>3. CASE ~Authority /\ q = p
        <5>1. ledger[p] = "reserved"
          BY <2>1, <3>3, <4>1, <4>3 DEF x
        <5> QED
          BY <4>1, <4>3, <5>1, HeldNow DEF ActiveStatus
      <4>4. CASE ~Authority /\ q # p
        BY <1>1, <2>2, <3>4, <4>1, <4>4, HeldNow, HeldNext DEF Authority
      <4> QED
        BY <4>2, <4>3, <4>4
    <3>9. ASSUME Fits(Held), EntryOf(r, run[r]) PROVE Fits(Held') /\ EntryOf(r, run[r])'
      <4>1. Held' \in SUBSET Held /\ Held \in SUBSET BuyEntries
        BY <3>8, HeldTyped
      <4>2. Fits(Held')
        BY <3>9, <4>1, FitsSubset
      <4>3. ASSUME Authority, holder' = r PROVE Fits(Held' \cup Pending(y))
        <5>1. Fits(Held \cup Pending(x))
          BY <1>1, <3>9, <4>3 DEF EntryOf, Past, x
        <5>2. Pending(y) \subseteq Pending(x) /\ Held \cup Pending(x) \in SUBSET BuyEntries
          BY <2>1, <2>3, <4>1 DEF Pending, x
        <5>3. Held' \cup Pending(y) \in SUBSET (Held \cup Pending(x))
          BY <4>1, <5>2
        <5> QED
          BY <5>1, <5>2, <5>3, FitsSubset
      <4> QED
        BY <1>1, <2>3, <3>2, <4>2, <4>3, EntryNext
    <3> QED
      BY <1>1, <2>3, <3>1, <3>2, <3>6, <3>7, <3>8, <3>9, LedgerStep DEF Posted
  <2> QED
    BY <2>5, <2>6
<1> QED
  BY <1>2, <1>3

LEMMA EvidenceEntry ==
  ASSUME StepFrom, NEW r \in Procs, Evidence(r)
  PROVE  FlowInvariant' /\ EntryInvariant'
<1>1. /\ UNCHANGED QuietVars /\ mode' = mode /\ holder' = holder /\ run[r].pc = "evidence"
  BY DEF Evidence, Projected, Keep, QuietVars, pgVars
<1>2. CASE Finish(r)
  BY <1>1, <1>2, FinishEntry
<1>3. CASE Step(r, "authorize")
  <2> DEFINE x == run[r]
             y == [x EXCEPT !.pc = "authorize"]
  <2>1. /\ run' = [run EXCEPT ![r] = y] /\ y \in Runs /\ run'[r] = y
        /\ y.pc = "authorize" /\ y.todo = x.todo /\ y.cur = x.cur
    <3>1. "authorize" \in Stages /\ Invariant
      BY DEF Stages, StepFrom
    <3>2. /\ run' = [run EXCEPT ![r] = y] /\ y \in Runs
          /\ y.pc = "authorize" /\ y.todo = x.todo /\ y.cur = x.cur
      BY <1>3, <3>1, StageFacts
    <3> QED
      BY <3>1, <3>2, OneRun DEF Invariant, TypeOK
  <2>2. FlowOf(x) /\ ledger' = ledger
    BY <1>1 DEF StepFrom, FlowInvariant, RunsFlow, QuietVars
  <2>3. Held' = Held
    BY <1>1, HeldSame DEF QuietVars
  <2>4. Pending(y) = Pending(x)
    BY <1>1, <2>1 DEF Pending
  <2>5. /\ \A p, q \in y.todo : p[1] = q[1]
        /\ ~Authority => /\ \A p \in y.todo \cap BuyEntries : ledger'[p] = "reserved"
                         /\ y.cur \in BuyEntries => ledger'[y.cur] = "attempted"
    BY <1>1, <2>1, <2>2 DEF FlowOf, Past, Busy, Sending
  <2> HIDE DEF x, y
  <2>6. FlowOf(run[r])'
    BY <1>1, <2>1, <2>5, FlowNext DEF Posted, Read
  <2>7. ASSUME EntryOf(r, run[r]) PROVE EntryOf(r, run[r])'
    <3>1. Authority /\ holder' = r => Fits(Held' \cup Pending(y))
      BY <1>1, <2>3, <2>4, <2>7 DEF EntryOf, Past, Busy, Sending, x
    <3> QED
      BY <1>1, <2>1, <3>1, EntryNext
  <2> QED
    BY <1>1, <2>1, <2>6, <2>7, QuietStep DEF Posted
<1> QED
  BY <1>2, <1>3 DEF Evidence, Projected

(* reserveAndCreateOrderIntent, row by row. *)
LEMMA CreateRows ==
  ASSUME ProjectionTypeOK, RowsFlow, NEW p \in Payloads, CreateIntent(p), intent[p] = "none"
  PROVE  /\ listActiveReservations \subseteq listActiveReservations'
         /\ listActiveReservations' \subseteq listActiveReservations \cup {p}
         /\ p \in BuyEntries => p \in listActiveReservations'
         /\ \A q \in Payloads : resv[q] = "active" => resv'[q] = "active"
         /\ \A q \in Payloads : resv'[q] # "none" \/ q \in lapsed' => intent'[q] # "none"
<1>1. p \notin lapsed
  BY DEF RowsFlow
<1> QED
  BY <1>1 DEF CreateIntent, listActiveReservations, ProjectionTypeOK, RowsFlow

LEMMA AuthorizeEntry ==
  ASSUME StepFrom, NEW r \in Procs, Authorize(r)
  PROVE  FlowInvariant' /\ EntryInvariant'
<1> DEFINE x == run[r]
           p == x.cur
           pc == IF BrokerAllowed(ReservationAnswer(p)) THEN "post" ELSE "next"
           y == [x EXCEPT !.pc = pc]
<1>1. /\ UNCHANGED <<ledger, broker, inflight, posts, late, torn, rec, holder>>
      /\ x.pc = "authorize" /\ ((Finish(r) /\ UNCHANGED pgVars) \/ Step(r, pc))
  BY DEF Authorize, Projected, Keep
<1>2. /\ Invariant /\ PgStep /\ FlowInvariant /\ RunsFlow /\ RowsFlow /\ EntryInvariant /\ FlowOf(x) /\ mode' = mode
      /\ ProjectionTypeOK /\ ledger \in [Payloads -> LedgerStatus] /\ Placed(x)
  BY RunFacts DEF StepFrom, FlowInvariant, RunsFlow, PgStep
<1>3. p \in Payloads /\ p \notin x.todo
  BY <1>1, <1>2 DEF Placed, Busy, Sending
<1>4. CASE Finish(r) /\ UNCHANGED pgVars
  BY <1>1, <1>4, FinishEntry DEF QuietVars, pgVars
<1>5. ASSUME Step(r, pc)
      PROVE  /\ run' = [run EXCEPT ![r] = y] /\ y \in Runs /\ run'[r] = y
             /\ \A q \in Procs : q # r => run'[q] = run[q]
             /\ y.pc = pc /\ y.todo = x.todo /\ y.cur = p
  <2>1. pc \in Stages
    BY DEF Stages
  <2>2. /\ run' = [run EXCEPT ![r] = y] /\ y \in Runs
        /\ y.pc = pc /\ y.todo = x.todo /\ y.cur = p
    BY <1>2, <1>5, <2>1, StageFacts
  <2> QED
    BY <1>2, <2>2, OneRun DEF Invariant, TypeOK
<1>6. CASE Step(r, pc)
  <2>1. \/ UNCHANGED pgVars
        \/ CreateIntent(p) /\ intent[p] = "none" /\ ReservationAnswer(p) = "authorized" /\ (Authority => holder = r)
    BY <1>1, <1>4, <1>6 DEF Authorize, Projected, reserveOrderIntent, ReservationAnswer, Fenced
  <2>2. Authority /\ pc = "post" => CreateIntent(p) /\ intent[p] = "none" /\ holder = r
    <3> SUFFICES ASSUME Authority, pc = "post" PROVE CreateIntent(p) /\ intent[p] = "none" /\ holder = r
      OBVIOUS
    <3>1. ReservationAnswer(p) = "authorized" /\ mode = "authority"
      BY DEF BrokerAllowed, Authority
    <3>2. ~Finish(r)
      <4>1. IdleRun.pc = "idle" /\ y.pc = "post"
        BY <1>5, <1>6 DEF IdleRun
      <4> QED
        BY <1>2, <1>5, <1>6, <4>1 DEF Finish, Invariant, TypeOK
    <3>3. reserveOrderIntent(p) /\ ~Fenced(r)
      BY <3>1, <3>2 DEF Authorize, Projected
    <3> QED
      BY <3>1, <3>3 DEF reserveOrderIntent, ReservationAnswer, Fenced
  <2>3. /\ listActiveReservations \subseteq listActiveReservations'
        /\ listActiveReservations' \subseteq listActiveReservations \cup {p}
        /\ Authority /\ pc = "post" /\ p \in BuyEntries => p \in listActiveReservations'
        /\ Authority /\ pc # "post" => listActiveReservations' \subseteq listActiveReservations
        /\ Authority => \A q \in listActiveReservations' : q \in listActiveReservations \/ holder = r
    <3>1. CASE UNCHANGED pgVars
      <4>1. ~(Authority /\ pc = "post" /\ p \in BuyEntries) \/ p \in listActiveReservations'
        BY <1>2, <1>3, <2>2, CreateRows
      <4> QED
        BY <1>2, <3>1, <4>1, PgSame
    <3>2. CASE CreateIntent(p) /\ intent[p] = "none" /\ ReservationAnswer(p) = "authorized" /\ (Authority => holder = r)
      <4>1. pc = "post"
        BY <3>2 DEF BrokerAllowed
      <4> QED
        BY <1>2, <1>3, <3>2, <4>1, CreateRows
    <3> QED
      BY <2>1, <3>1, <3>2
  <2>4. RowsFlow'
    <3>1. CASE UNCHANGED pgVars
      BY <1>1, <1>2, <3>1 DEF RowsFlow, Authority, pgVars
    <3>2. CASE CreateIntent(p) /\ intent[p] = "none"
      <4>1. /\ \A q \in Payloads : resv[q] = "active" => resv'[q] = "active"
            /\ \A q \in Payloads : resv'[q] # "none" \/ q \in lapsed' => intent'[q] # "none"
        BY <1>2, <1>3, <3>2, CreateRows
      <4>2. BuyEntries \subseteq Payloads
        BY PayloadsAreFinite
      <4> HIDE DEF p
      <4> QED
        BY <1>1, <1>2, <4>1, <4>2 DEF RowsFlow, Authority
    <3> QED
      BY <2>1, <3>1, <3>2
  <2>5. /\ run' = [run EXCEPT ![r] = y] /\ y \in Runs /\ run'[r] = y
        /\ \A q \in Procs : q # r => run'[q] = run[q]
        /\ y.pc \in {"post", "next"} /\ y.pc = pc /\ y.todo = x.todo /\ y.cur = p
    BY <1>5, <1>6
  <2>6. ~Authority => pc = "post"
    BY DEF BrokerAllowed
  <2> HIDE DEF y, pc
  <2>7. /\ \A s, q \in y.todo : s[1] = q[1]
        /\ ~Authority => /\ \A q \in y.todo \cap BuyEntries : ledger'[q] = "reserved"
                         /\ y.cur \in BuyEntries => ledger'[y.cur] = "attempted"
    BY <1>1, <1>2, <2>5 DEF FlowOf, Past, Busy, Sending
  <2>8. FlowOf(run[r])'
    BY <1>2, <2>3, <2>5, <2>6, <2>7, FlowNext DEF Posted, Read
  <2>9. RunsFlow'
    <3>1. /\ ledger' \in [Payloads -> LedgerStatus]
          /\ \A q \in Payloads : posts[q] > 0 => posts'[q] > 0
          /\ \A q \in BuyEntries : After(ledger[q], ledger'[q]) /\ ledger'[q] = ledger[q]
      BY <1>1, <1>2 DEF After
    <3>2. \A q \in Procs : q # r =>
             /\ run[q].pc = "post" /\ run[q].cur \in listActiveReservations => run[q].cur \in listActiveReservations'
             /\ run[q].pc = "record" /\ run[q].cur \in inflight' => run[q].cur \in inflight
      BY <1>1, <2>3
    <3>3. run'[r].pc \notin Posted
      BY <2>5 DEF Posted
    <3> QED
      BY <1>2, <2>5, <2>8, <3>1, <3>2, <3>3, FlowStep
  <2>10. \A q \in Held' : \/ q \in Held
                          \/ Authority /\ pc = "post" /\ holder' = r /\ q = p
    <3> SUFFICES ASSUME NEW q \in Held', q \notin Held PROVE Authority /\ pc = "post" /\ holder' = r /\ q = p
      OBVIOUS
    <3>1. q \in BuyEntries
      BY DEF Held, Bought
    <3>2. Authority /\ q \in listActiveReservations' /\ q \notin listActiveReservations
      BY <1>1, <1>2, <3>1, HeldNow, HeldNext DEF Authority
    <3> QED
      BY <1>1, <2>3, <3>2
  <2>11. ASSUME Fits(Held), EntryOf(r, run[r]) PROVE Fits(Held') /\ EntryOf(r, run[r])'
    <3>1. Held \cup Pending(x) \in SUBSET BuyEntries /\ Held \in SUBSET BuyEntries
      BY HeldTyped DEF Pending
    <3>2. Pending(y) = x.todo \cap BuyEntries
      BY <2>5 DEF Pending
    <3>3. Pending(x) = (x.todo \cup {p}) \cap BuyEntries
      BY <1>1 DEF Pending
    <3>4. Authority /\ holder = r => Fits(Held \cup Pending(x))
      BY <1>1, <2>11 DEF EntryOf, Past, Busy, Sending
    <3>5. CASE Authority /\ holder = r
      <4>1. Held' \cup Pending(y) \in SUBSET (Held \cup Pending(x))
        <5>1. Held' \subseteq BuyEntries
          BY DEF Held, Bought
        <5>2. Held' \subseteq Held \cup Pending(x)
          BY <2>10, <3>3, <5>1
        <5> QED
          BY <3>2, <3>3, <5>2
      <4>2. Fits(Held' \cup Pending(y)) /\ Held' \cup Pending(y) \in SUBSET BuyEntries
        BY <3>1, <3>4, <3>5, <4>1, FitsSubset
      <4>3. Fits(Held')
        BY <4>2, FitsSubset
      <4> QED
        BY <1>2, <2>5, <4>2, <4>3, EntryNext
    <3>6. CASE ~(Authority /\ holder = r)
      <4>1. Held' \in SUBSET Held
        BY <1>1, <2>10, <3>6
      <4>2. Fits(Held')
        BY <2>11, <3>1, <4>1, FitsSubset
      <4> QED
        BY <1>1, <1>2, <2>5, <3>6, <4>2, EntryNext
    <3> QED
      BY <3>5, <3>6
  <2>12. EntryInvariant'
    <3>1. /\ ledger' \in [Payloads -> LedgerStatus] /\ late \subseteq late' /\ (torn => torn')
          /\ \A q \in BuyEntries : After(ledger[q], ledger'[q])
          /\ holder' = holder /\ broker' = broker
      BY <1>1, <1>2 DEF After
    <3>2. \A q \in Held' : q \in Held \/ IF Authority THEN holder' = r ELSE ledger[q] = "none" /\ ledger'[q] # "none"
      BY <2>10
    <3> QED
      BY <1>2, <2>5, <2>11, <3>1, <3>2, EntryStep
  <2> QED
    BY <2>4, <2>9, <2>12 DEF FlowInvariant
<1> QED
  BY <1>1, <1>4, <1>6

(* A process that reads the portfolio while an order moves tears the capture. *)
LEMMA NobodyReads ==
  ASSUME torn' = (torn \/ Capturing), ~Excused', NEW q \in Procs
  PROVE  run[q].pc \notin {"orders", "reservations"}
BY DEF Excused, Capturing

LEMMA PostEntry ==
  ASSUME StepFrom, NEW r \in Procs, Post(r)
  PROVE  FlowInvariant' /\ EntryInvariant'
<1> DEFINE x == run[r]
           p == x.cur
           stage == IF Authority THEN "record" ELSE "ledger"
           Y(ans) == [x EXCEPT !.pc = stage, !.ans = ans]
           Orders == {[st |-> "accepted", f |-> 0], [st |-> "filled", f |-> 2], [st |-> "rejected", f |-> 0], NoOrder}
           Answers == {[st |-> "accepted", f |-> 0], [st |-> "filled", f |-> 2], [st |-> "rejected", f |-> 0],
                       [st |-> "ambiguous", f |-> 0], [st |-> "failed", f |-> 0]}
<1>1. /\ UNCHANGED pgVars /\ UNCHANGED <<ledger, late, holder, rec>>
      /\ x.pc = "post" /\ posts' = [posts EXCEPT ![p] = @ + 1] /\ torn' = (torn \/ Capturing)
  BY DEF Post
<1>2. \E obs \in Orders, ans \in Answers :
        /\ broker' = [broker EXCEPT ![p] = obs]
        /\ run' = [run EXCEPT ![r].pc = stage, ![r].ans = ans]
        /\ inflight' = inflight \/ (inflight' = inflight \cup {p} /\ ans.st = "ambiguous")
  <2> HIDE DEF stage
  <2> QED
    BY DEF Post, stage
<1>3. PICK obs \in Orders, ans \in Answers :
        /\ broker' = [broker EXCEPT ![p] = obs]
        /\ run' = [run EXCEPT ![r].pc = stage, ![r].ans = ans]
        /\ inflight' = inflight \/ (inflight' = inflight \cup {p} /\ ans.st = "ambiguous")
  BY <1>2
<1> HIDE DEF Orders, Answers
<1>4. /\ Invariant /\ PgStep /\ FlowInvariant /\ RunsFlow /\ RowsFlow /\ EntryInvariant /\ FlowOf(x) /\ mode' = mode
      /\ ledger \in [Payloads -> LedgerStatus] /\ Placed(x) /\ x \in Runs
      /\ broker \in [Payloads -> Observations] /\ posts \in [Payloads -> Nat]
      /\ run \in [Procs -> Runs] /\ run' \in [Procs -> Runs] /\ SendInvariant /\ OrderInvariant
      /\ intent' = intent /\ resv' = resv /\ lapsed' = lapsed
  BY <1>1, RunFacts DEF StepFrom, FlowInvariant, RunsFlow, PgStep, Invariant, TypeOK, pgVars
<1> DEFINE y == Y(ans)
<1>5. /\ run' = [run EXCEPT ![r] = y] /\ run'[r] = y /\ \A q \in Procs : q # r => run'[q] = run[q]
  BY <1>3, <1>4 DEF Runs
<1>6. y.pc = stage /\ y.todo = x.todo /\ y.cur = p /\ y.ans = ans
  BY <1>4 DEF Runs
<1>7. p \in Payloads /\ posts[p] = 0 /\ broker[p] = NoOrder /\ p \notin inflight
  <2>1. p \in Payloads
    BY <1>1, <1>4 DEF Placed, Busy, Sending
  <2>2. Owns(run[r], p)
    BY <1>1 DEF Owns, Sending
  <2> HIDE DEF p
  <2> QED
    BY <1>4, <2>1, <2>2 DEF SendInvariant, OrderInvariant
<1>8. stage \in Posted /\ (Authority => stage = "record") /\ (~Authority => stage = "ledger")
  BY DEF Posted
<1> HIDE DEF y, Y, stage, p
<1>9. posts'[p] > 0 /\ \A q \in Payloads : posts[q] > 0 => posts'[q] > 0
  BY <1>1, <1>4, <1>7
<1>10. \A q \in Payloads : q # p => broker'[q] = broker[q]
  BY <1>3, <1>4
<1>11. \A q \in Procs : q # r /\ run[q].pc \in Posted => run[q].cur # p
  BY <1>4, <1>7 DEF RunsFlow, FlowOf
<1>12. listActiveReservations' = listActiveReservations
  BY <1>4 DEF listActiveReservations
<1>13. p \in BuyEntries => p \in Held
  <2>1. p \in BuyEntries /\ Authority => p \in listActiveReservations
    BY <1>1, <1>4 DEF FlowOf, p
  <2>2. p \in BuyEntries /\ ~Authority => ledger[p] = "attempted"
    BY <1>1, <1>4 DEF FlowOf, Sending, p
  <2> QED
    BY <2>1, <2>2, HeldNow DEF ActiveStatus
<1>14. FlowOf(run[r])'
  <2>1. \A s, q \in y.todo : s[1] = q[1]
    BY <1>4, <1>6 DEF FlowOf
  <2>2. ~Authority => /\ \A q \in y.todo \cap BuyEntries : ledger'[q] = "reserved"
                      /\ y.cur \in BuyEntries => ledger'[y.cur] = "attempted"
    BY <1>1, <1>4, <1>6 DEF FlowOf, Past, Busy, Sending, p
  <2>3. y.cur \in inflight' => y.ans.st = "ambiguous"
    BY <1>3, <1>6, <1>7
  <2> QED
    BY <1>4, <1>5, <1>6, <1>8, <1>9, <2>1, <2>2, <2>3, FlowNext DEF Posted, Read
<1>15. RunsFlow'
  <2>1. /\ ledger' \in [Payloads -> LedgerStatus]
        /\ \A q \in BuyEntries : After(ledger[q], ledger'[q]) /\ ledger'[q] = ledger[q]
    BY <1>1, <1>4 DEF After
  <2>2. \A q \in Procs : q # r =>
           /\ run[q].pc = "post" /\ run[q].cur \in listActiveReservations => run[q].cur \in listActiveReservations'
           /\ run[q].pc = "record" /\ run[q].cur \in inflight' => run[q].cur \in inflight
    BY <1>3, <1>11, <1>12 DEF Posted
  <2>3. run'[r].pc \in Posted => \A q \in Procs : q # r /\ run[q].pc \in Posted => run[q].cur # run'[r].cur
    BY <1>5, <1>6, <1>11
  <2> QED
    BY <1>4, <1>5, <1>9, <1>14, <2>1, <2>2, <2>3, FlowStep
<1>16. RowsFlow'
  <2>1. Authority /\ p \in BuyEntries => resv[p] = "active"
    BY <1>1, <1>4 DEF FlowOf, listActiveReservations, p
  <2>2. rec # NoRec => rec.p \in Payloads /\ rec.p # p
    BY <1>4, <1>7 DEF RowsFlow, OrderInvariant
  <2>3. rec' # NoRec => broker'[rec'.p] # NoOrder
    BY <1>1, <1>4, <1>10, <2>2 DEF RowsFlow
  <2>4. (Authority => \A q \in inflight \cap BuyEntries : resv[q] = "active")'
    BY <1>3, <1>4, <2>1 DEF RowsFlow, Authority
  <2> QED
    BY <1>4, <2>3, <2>4 DEF RowsFlow
<1>17. \A q \in Held' : q \in Held
  <2> SUFFICES ASSUME NEW q \in Held' PROVE q \in Held
    OBVIOUS
  <2>1. q \in BuyEntries /\ q \in Payloads
    BY PayloadsAreFinite DEF Held, Bought
  <2>2. CASE q = p
    BY <1>13, <2>1, <2>2
  <2>3. CASE q # p
    BY <1>1, <1>4, <1>10, <1>12, <2>1, <2>3, HeldNow, HeldNext DEF Authority
  <2> QED
    BY <2>2, <2>3
<1>18. ASSUME Fits(Held), EntryOf(r, run[r]) PROVE Fits(Held') /\ EntryOf(r, run[r])'
  <2>1. Held \cup Pending(x) \in SUBSET BuyEntries /\ Held \in SUBSET BuyEntries /\ Held' \in SUBSET Held
    BY <1>17, HeldTyped DEF Pending
  <2>2. Pending(y) = Pending(x)
    BY <1>1, <1>6, <1>8 DEF Pending, Posted
  <2>3. Fits(Held')
    BY <1>18, <2>1, FitsSubset
  <2>4. ASSUME Authority, holder' = r PROVE Fits(Held' \cup Pending(y))
    <3>1. Fits(Held \cup Pending(x))
      BY <1>1, <1>18, <2>4 DEF EntryOf, Past, Busy, Sending
    <3>2. Held' \cup Pending(y) \in SUBSET (Held \cup Pending(x))
      BY <2>1, <2>2
    <3> QED
      BY <2>1, <3>1, <3>2, FitsSubset
  <2> QED
    BY <1>4, <1>5, <1>6, <1>8, <2>3, <2>4, EntryNext DEF Posted
<1>19. EntryInvariant'
  <2>1. /\ ledger' \in [Payloads -> LedgerStatus] /\ late \subseteq late' /\ (torn => torn') /\ holder' = holder
        /\ \A q \in BuyEntries : After(ledger[q], ledger'[q])
    BY <1>1, <1>4 DEF After
  <2>2. ~Excused' => \A q \in Procs : q # r /\ run[q].pc \in {"orders", "reservations"} => broker' = broker
    BY <1>1, NobodyReads
  <2> QED
    BY <1>4, <1>5, <1>17, <1>18, <2>1, <2>2, EntryStep
<1> QED
  BY <1>15, <1>16, <1>19 DEF FlowInvariant

LEMMA RecordLedgerEntry ==
  ASSUME StepFrom, NEW r \in Procs, RecordLedger(r)
  PROVE  FlowInvariant' /\ EntryInvariant'
<1> DEFINE x == run[r]
           p == x.cur
           y == [x EXCEPT !.pc = "record"]
           st == LedgerAfter(x.ans.st)
<1>1. /\ UNCHANGED <<intent, resv, lapsed, broker, inflight, posts, late, torn, rec, holder>>
      /\ x.pc = "ledger" /\ Step(r, "record") /\ ledger' = [ledger EXCEPT ![p] = st]
  BY DEF RecordLedger, Keep, pgVars
<1>2. /\ Invariant /\ FlowInvariant /\ RunsFlow /\ FlowOf(x) /\ mode' = mode /\ SendInvariant
      /\ ledger \in [Payloads -> LedgerStatus] /\ Placed(x) /\ BuyEntries \subseteq Payloads
  BY RunFacts, PayloadsAreFinite DEF StepFrom, FlowInvariant, RunsFlow, PgStep, Invariant
<1>3. /\ run' = [run EXCEPT ![r] = y] /\ y \in Runs /\ run'[r] = y
      /\ y.pc = "record" /\ y.todo = x.todo /\ y.cur = p
  <2>1. "record" \in Stages
    BY DEF Stages
  <2>2. /\ run' = [run EXCEPT ![r] = y] /\ y \in Runs
        /\ y.pc = "record" /\ y.todo = x.todo /\ y.cur = p
    BY <1>1, <1>2, <2>1, StageFacts
  <2> QED
    BY <1>2, <2>2, OneRun DEF Invariant, TypeOK
<1>4. st \in {"failed", "accepted", "rejected", "submitted"}
  BY DEF LedgerAfter
<1>5. p \in Payloads /\ posts[p] > 0 /\ ~Authority
  BY <1>1, <1>2 DEF Placed, Busy, FlowOf, Posted
<1>6. /\ p \in BuyEntries => ledger[p] = "attempted"
      /\ \A q \in x.todo \cap BuyEntries : ledger[q] = "reserved"
  BY <1>1, <1>2, <1>5 DEF FlowOf, Past, Busy
<1> HIDE DEF st, y
<1>7. ledger'[p] = st /\ \A q \in Payloads : q # p => ledger'[q] = ledger[q]
  BY <1>1, <1>2, <1>5
<1>8. ASSUME p \in BuyEntries, NEW q \in Procs, q # r, Uses(run[q], p) PROVE FALSE
  <2>1. FlowOf(run[q]) /\ ledger[p] = "attempted"
    BY <1>2, <1>6, <1>8 DEF RunsFlow
  <2>2. CASE run[q].pc \in Past /\ p \in run[q].todo
    BY <1>5, <1>8, <2>1, <2>2 DEF FlowOf
  <2>3. CASE run[q].pc \in Sending /\ run[q].cur = p
    <3>1. Owns(run[q], p)
      BY <1>5, <2>3 DEF Owns
    <3> HIDE DEF p
    <3>2. posts[p] = 0
      BY <1>2, <1>5, <3>1 DEF SendInvariant
    <3> QED
      BY <1>5, <3>2
  <2>4. CASE run[q].pc = "ledger" /\ run[q].cur = p
    BY <1>1, <1>2, <1>8, <2>4 DEF RunsFlow, Posted
  <2> QED
    BY <1>8, <2>2, <2>3, <2>4 DEF Uses
<1>9. \A q \in BuyEntries :
         /\ After(ledger[q], ledger'[q])
         /\ ledger'[q] # ledger[q] => \A s \in Procs : s # r => ~Uses(run[s], q)
  BY <1>2, <1>4, <1>6, <1>7, <1>8 DEF After
<1>10. FlowOf(run[r])'
  <2>1. \A s, q \in y.todo : s[1] = q[1]
    BY <1>2, <1>3 DEF FlowOf
  <2>2. \A q \in y.todo \cap BuyEntries : ledger'[q] = "reserved"
    <3> SUFFICES ASSUME NEW q \in x.todo \cap BuyEntries PROVE ledger'[q] = "reserved"
      BY <1>3
    <3>1. ledger[q] = "reserved" /\ q # p
      BY <1>6
    <3> QED
      BY <1>2, <1>7, <3>1
  <2> QED
    BY <1>1, <1>2, <1>3, <1>5, <2>1, <2>2, FlowNext DEF Sending, Read
<1>11. \A q \in Held' : q \in Held
  <2> SUFFICES ASSUME NEW q \in Held' PROVE q \in Held
    OBVIOUS
  <2>1. q \in BuyEntries /\ q \in Payloads
    BY PayloadsAreFinite DEF Held, Bought
  <2>2. CASE q = p
    BY <1>5, <1>6, <2>1, <2>2, HeldNow DEF ActiveStatus
  <2>3. CASE q # p
    BY <1>1, <1>2, <1>5, <1>7, <2>1, <2>3, HeldNow, HeldNext DEF Authority
  <2> QED
    BY <2>2, <2>3
<1>12. ASSUME Fits(Held) PROVE Fits(Held') /\ EntryOf(r, run[r])'
  <2>1. Held \in SUBSET BuyEntries /\ Held' \in SUBSET Held
    BY <1>11, HeldTyped
  <2>2. Fits(Held')
    BY <1>12, <2>1, FitsSubset
  <2> QED
    BY <1>2, <1>3, <1>5, <2>2, EntryNext
<1>13. y.pc \in Posted => run[r].pc \in Posted /\ run[r].cur = y.cur
  BY <1>1, <1>3 DEF Posted
<1> QED
  BY <1>1, <1>3, <1>9, <1>10, <1>11, <1>12, <1>13, LedgerStep

(* recordBrokerResult, row by row. *)
LEMMA RecordRows ==
  ASSUME ProjectionTypeOK, NEW p \in Payloads, NEW obs \in Observations, recordBrokerResult(p, obs)
  PROVE  /\ \A q \in Payloads : q # p \/ obs.st = "ambiguous" => resv'[q] = resv[q]
         /\ \A q \in Payloads : resv'[q] # "none" => resv[q] # "none"
         /\ lapsed' = lapsed /\ mode' = mode
<1>1. CASE UNCHANGED pgVars
  BY <1>1 DEF pgVars
<1>2. CASE ~UNCHANGED pgVars
  <2> DEFINE after == ReservationAfter(p, orderIntentStatus(obs.st))
  <2>1. resv' = [resv EXCEPT ![p] = after] /\ UNCHANGED <<mode, lapsed>>
    BY <1>2 DEF recordBrokerResult
  <2>2. resv \in [Payloads -> {"none", "active", "committed", "released"}]
    BY DEF ProjectionTypeOK
  <2>3. obs.st = "ambiguous" => after = resv[p]
    BY DEF ReservationAfter, orderIntentStatus, WorkingStatus
  <2>4. resv[p] = "none" => after = "none"
    BY DEF ReservationAfter
  <2> HIDE DEF after
  <2> QED
    BY <2>1, <2>2, <2>3, <2>4
<1> QED
  BY <1>1, <1>2

(* An answer about a payload that was sent, of which no copy is under way  *)
(* unless the answer leaves it in doubt, settles nothing else.             *)
LEMMA AnswerRows ==
  ASSUME StepFrom, NEW p \in Payloads, NEW obs \in Observations, recordBrokerResult(p, obs),
         posts[p] > 0, p \in inflight => obs.st = "ambiguous",
         UNCHANGED <<ledger, broker, inflight>>, rec' = rec \/ rec' = NoRec
  PROVE  /\ RowsFlow' /\ \A q \in Held' : q \in Held
         /\ Authority => \A q \in Procs :
               run[q].pc = "post" /\ run[q].cur \in listActiveReservations => run[q].cur \in listActiveReservations'
<1>1. /\ Invariant /\ PgStep /\ RowsFlow /\ ProjectionTypeOK /\ SendInvariant /\ BuyEntries \subseteq Payloads
      /\ inflight \subseteq Payloads
  BY PayloadsAreFinite DEF StepFrom, FlowInvariant, Invariant, TypeOK
<1>2. /\ \A q \in Payloads : q # p \/ obs.st = "ambiguous" => resv'[q] = resv[q]
      /\ \A q \in Payloads : resv'[q] # "none" => resv[q] # "none"
      /\ lapsed' = lapsed /\ mode' = mode
  BY <1>1, RecordRows
<1>3. listActiveReservations' \subseteq listActiveReservations
  BY <1>1, RecordFacts
<1>4. RowsFlow'
  <2>1. \A q \in Payloads : resv'[q] # "none" \/ q \in lapsed' => intent'[q] # "none"
    BY <1>1, <1>2 DEF RowsFlow, PgStep
  <2>2. (Authority => \A q \in inflight \cap BuyEntries : resv[q] = "active")'
    BY <1>1, <1>2 DEF RowsFlow, Authority
  <2> QED
    BY <1>1, <2>1, <2>2 DEF RowsFlow
<1>5. \A q \in Held' : q \in Held
  <2> SUFFICES ASSUME NEW q \in Held' PROVE q \in Held
    OBVIOUS
  <2>1. q \in BuyEntries
    BY DEF Held, Bought
  <2> QED
    BY <1>2, <1>3, <2>1, HeldNow, HeldNext DEF Authority
<1>6. ASSUME Authority, NEW q \in Procs, run[q].pc = "post", run[q].cur \in listActiveReservations
      PROVE  run[q].cur \in listActiveReservations'
  <2>1. run[q].cur \in Payloads /\ Owns(run[q], run[q].cur)
    BY <1>6 DEF Owns, listActiveReservations
  <2>2. posts[run[q].cur] = 0
    BY <1>1, <2>1 DEF SendInvariant
  <2>3. run[q].cur # p
    BY <2>2
  <2> QED
    BY <1>2, <1>6, <2>1, <2>3 DEF listActiveReservations
<1> QED
  BY <1>4, <1>5, <1>6

LEMMA RecordResultEntry ==
  ASSUME StepFrom, NEW r \in Procs, RecordResult(r)
  PROVE  FlowInvariant' /\ EntryInvariant'
<1> DEFINE x == run[r]
           p == x.cur
           y == [x EXCEPT !.pc = "next"]
<1>1. /\ UNCHANGED <<ledger, broker, inflight, posts, late, torn, rec, holder>> /\ x.pc = "record"
      /\ \/ Finish(r) /\ UNCHANGED pgVars
         \/ Step(r, "next") /\ ~Authority /\ UNCHANGED pgVars
         \/ Step(r, "next") /\ recordBrokerResult(p, x.ans)
  BY DEF RecordResult, Projected, Keep, Authority
<1>2. /\ Invariant /\ PgStep /\ FlowInvariant /\ RunsFlow /\ RowsFlow /\ EntryInvariant /\ FlowOf(x) /\ mode' = mode
      /\ ledger \in [Payloads -> LedgerStatus] /\ Placed(x) /\ x.ans \in Observations
  BY RunFacts DEF StepFrom, FlowInvariant, RunsFlow, PgStep
<1>3. p \in Payloads /\ posts[p] > 0 /\ (Authority /\ p \in inflight => x.ans.st = "ambiguous")
  BY <1>1, <1>2 DEF Placed, Busy, FlowOf, Posted
<1>4. CASE Finish(r) /\ UNCHANGED pgVars
  BY <1>1, <1>4, FinishEntry DEF QuietVars, pgVars
<1>5. CASE Step(r, "next")
  <2>1. /\ run' = [run EXCEPT ![r] = y] /\ y \in Runs /\ run'[r] = y
        /\ \A q \in Procs : q # r => run'[q] = run[q]
        /\ y.pc = "next" /\ y.todo = x.todo
    <3>1. "next" \in Stages
      BY DEF Stages
    <3>2. run' = [run EXCEPT ![r] = y] /\ y \in Runs /\ y.pc = "next" /\ y.todo = x.todo
      BY <1>2, <1>5, <3>1, StageFacts
    <3> QED
      BY <1>2, <3>2, OneRun DEF Invariant, TypeOK
  <2>2. /\ RowsFlow' /\ \A q \in Held' : q \in Held
        /\ Authority => \A q \in Procs :
              run[q].pc = "post" /\ run[q].cur \in listActiveReservations => run[q].cur \in listActiveReservations'
    <3>1. CASE UNCHANGED pgVars
      <4>1. Held' = Held /\ listActiveReservations' = listActiveReservations
        BY <1>1, <3>1, HeldSame DEF pgVars
      <4>2. RowsFlow'
        BY <1>1, <1>2, <3>1 DEF RowsFlow, Authority, pgVars
      <4> QED
        BY <4>1, <4>2
    <3>2. CASE Authority /\ recordBrokerResult(p, x.ans)
      BY <1>1, <1>2, <1>3, <3>2, AnswerRows
    <3>3. CASE ~Authority /\ recordBrokerResult(p, x.ans)
      <4>1. /\ \A q \in Payloads : resv'[q] # "none" => resv[q] # "none"
            /\ lapsed' = lapsed
        BY <1>2, <1>3, <3>3, RecordRows DEF Invariant, TypeOK
      <4>2. RowsFlow'
        BY <1>1, <1>2, <3>3, <4>1 DEF RowsFlow, Authority, PgStep
      <4>3. Held' = Held
        BY <1>1, <1>2, <3>3 DEF Held, Bought, Reservations, listActivePaperNewRiskReservations, Authority
      <4> QED
        BY <3>3, <4>2, <4>3
    <3>4. UNCHANGED pgVars \/ recordBrokerResult(p, x.ans)
      BY <1>1
    <3> QED
      BY <3>1, <3>2, <3>3, <3>4
  <2> HIDE DEF y
  <2>3. FlowOf(run[r])'
    <3>1. /\ \A s, q \in y.todo : s[1] = q[1]
          /\ ~Authority => \A q \in y.todo \cap BuyEntries : ledger'[q] = "reserved"
      BY <1>1, <1>2, <2>1 DEF FlowOf, Past, Busy
    <3> QED
      BY <1>2, <2>1, <3>1, FlowNext DEF Posted, Sending, Read
  <2>4. RunsFlow'
    <3>1. /\ ledger' \in [Payloads -> LedgerStatus]
          /\ \A q \in Payloads : posts[q] > 0 => posts'[q] > 0
          /\ \A q \in BuyEntries : After(ledger[q], ledger'[q]) /\ ledger'[q] = ledger[q]
      BY <1>1, <1>2 DEF After
    <3>2. Authority => \A q \in Procs : q # r =>
             /\ run[q].pc = "post" /\ run[q].cur \in listActiveReservations => run[q].cur \in listActiveReservations'
             /\ run[q].pc = "record" /\ run[q].cur \in inflight' => run[q].cur \in inflight
      BY <1>1, <2>2
    <3>3. run'[r].pc \notin Posted
      BY <2>1 DEF Posted
    <3> QED
      BY <1>2, <2>1, <2>3, <3>1, <3>2, <3>3, FlowStep
  <2>5. ASSUME Fits(Held), EntryOf(r, run[r]) PROVE Fits(Held') /\ EntryOf(r, run[r])'
    <3>1. Held \cup Pending(x) \in SUBSET BuyEntries /\ Held \in SUBSET BuyEntries /\ Held' \in SUBSET Held
      BY <2>2, HeldTyped DEF Pending
    <3>2. Pending(y) = Pending(x)
      BY <1>1, <2>1 DEF Pending
    <3>3. Fits(Held')
      BY <2>5, <3>1, FitsSubset
    <3>4. ASSUME Authority, holder' = r PROVE Fits(Held' \cup Pending(y))
      <4>1. Fits(Held \cup Pending(x))
        BY <1>1, <2>5, <3>4 DEF EntryOf, Past, Busy
      <4>2. Held' \cup Pending(y) \in SUBSET (Held \cup Pending(x))
        BY <3>1, <3>2
      <4> QED
        BY <3>1, <4>1, <4>2, FitsSubset
    <3> QED
      BY <1>2, <2>1, <3>3, <3>4, EntryNext
  <2>6. EntryInvariant'
    <3>1. /\ ledger' \in [Payloads -> LedgerStatus] /\ late \subseteq late' /\ (torn => torn')
          /\ \A q \in BuyEntries : After(ledger[q], ledger'[q])
          /\ holder' = holder /\ broker' = broker
      BY <1>1, <1>2 DEF After
    <3> QED
      BY <1>2, <2>1, <2>2, <2>5, <3>1, EntryStep
  <2> QED
    BY <2>2, <2>4, <2>6 DEF FlowInvariant
<1> QED
  BY <1>1, <1>4, <1>5

LEMMA ProcStepEntry ==
  ASSUME StepFrom, NEW r \in Procs, ProcStep(r) \/ Crash(r)
  PROVE  FlowInvariant' /\ EntryInvariant'
<1>1. CASE Crash(r)
  BY <1>1, FinishEntry DEF Crash, Keep, QuietVars, pgVars
<1>2. CASE ProcStep(r)
  BY <1>2, StartEntry, CaptureEntry, ValidateEntry, ReserveEntry, NextPayloadEntry, EvidenceEntry,
     AuthorizeEntry, PostEntry, RecordLedgerEntry, RecordResultEntry DEF ProcStep
<1> QED
  BY <1>1, <1>2

-----------------------------------------------------------------------------
(* The steps of everyone else *)

LEMMA OthersEntry ==
  ASSUME StepFrom,
         \/ \E s \in SUBSET Symbols : Review(s)
         \/ Lookup \/ Record
         \/ \E p \in Payloads : BrokerMoves(p) \/ Arrives(p) \/ Lapse(p)
  PROVE  FlowInvariant' /\ EntryInvariant'
<1>1. /\ Invariant /\ PgStep /\ FlowInvariant /\ RunsFlow /\ RowsFlow /\ EntryInvariant /\ mode' = mode
      /\ OrderInvariant /\ ProjectionTypeOK /\ BuyEntries \subseteq Payloads
      /\ broker \in [Payloads -> Observations]
  BY PayloadsAreFinite DEF StepFrom, FlowInvariant, PgStep, Invariant, TypeOK
<1>2. UNCHANGED <<ledger, posts, holder, run>> /\ inflight' \subseteq inflight /\ late \subseteq late' /\ (torn => torn')
  <2> DEFINE Still == /\ UNCHANGED <<ledger, posts, holder, run>> /\ inflight' \subseteq inflight
                      /\ late \subseteq late' /\ (torn => torn')
  <2>1. \A s \in SUBSET Symbols : Review(s) => Still
    BY DEF Review
  <2>2. (Lookup => Still) /\ (Record => Still)
    BY DEF Lookup, Record
  <2>3. \A p \in Payloads : Lapse(p) => Still
    BY DEF Lapse, execVars
  <2>4. \A p \in Payloads : BrokerMoves(p) => Still
    BY DEF BrokerMoves
  <2>5. \A p \in Payloads : Arrives(p) => Still
    BY DEF Arrives
  <2>6. Still
    <3> HIDE DEF Still
    <3> QED
      BY <2>1, <2>2, <2>3, <2>4, <2>5
  <2> QED
    BY <2>6
<1>3. ASSUME RowsFlow',
             Authority => \A q \in Procs :
                run[q].pc = "post" /\ run[q].cur \in listActiveReservations => run[q].cur \in listActiveReservations',
             ~Excused' => \A q \in Procs : run[q].pc \in {"orders", "reservations"} => broker' = broker,
             ~Excused' => \A q \in Held' : q \in Held
      PROVE  FlowInvariant' /\ EntryInvariant'
  <2>1. RunsFlow'
    BY <1>1, <1>2, <1>3, FlowStays
  <2>2. EntryInvariant'
    BY <1>1, <1>2, <1>3, EntryStays
  <2> QED
    BY <1>3, <2>1, <2>2 DEF FlowInvariant
<1>4. ASSUME UNCHANGED pgVars, broker' = broker, rec' # NoRec => rec' = rec \/ broker[rec'.p] # NoOrder
      PROVE  FlowInvariant' /\ EntryInvariant'
  <2>1. Held' = Held /\ listActiveReservations' = listActiveReservations
    BY <1>2, <1>4, HeldSame DEF pgVars
  <2>2. RowsFlow'
    BY <1>1, <1>2, <1>4 DEF RowsFlow, Authority, pgVars
  <2> QED
    BY <1>3, <1>4, <2>1, <2>2
<1>5. ASSUME NEW s \in SUBSET Symbols, Review(s) PROVE FlowInvariant' /\ EntryInvariant'
  BY <1>4, <1>5 DEF Review
<1>6. ASSUME Lookup PROVE FlowInvariant' /\ EntryInvariant'
  BY <1>4, <1>6 DEF Lookup
<1>7. ASSUME Record PROVE FlowInvariant' /\ EntryInvariant'
  <2>1. /\ recordBrokerResult(rec.p, rec.obs) /\ rec # NoRec /\ rec' = NoRec
        /\ UNCHANGED <<ledger, broker, inflight>>
    BY <1>7 DEF Record
  <2>2. rec.p \in Payloads /\ rec.obs \in Observations /\ broker[rec.p] # NoOrder
    BY <1>1, <2>1 DEF RowsFlow, OrderInvariant, Invariant, TypeOK
  <2>3. posts[rec.p] > 0 /\ rec.p \notin inflight
    BY <1>1, <2>2 DEF OrderInvariant, Invariant, TypeOK
  <2>4. /\ RowsFlow' /\ \A q \in Held' : q \in Held
        /\ Authority => \A q \in Procs :
              run[q].pc = "post" /\ run[q].cur \in listActiveReservations => run[q].cur \in listActiveReservations'
    BY <2>1, <2>2, <2>3, AnswerRows
  <2> QED
    BY <1>3, <2>1, <2>4
<1>8. ASSUME NEW p \in Payloads, BrokerMoves(p) \/ Arrives(p) PROVE FlowInvariant' /\ EntryInvariant'
  <2>1. UNCHANGED pgVars /\ UNCHANGED <<resv, lapsed, intent, rec>> /\ torn' = (torn \/ Capturing)
    BY <1>8 DEF BrokerMoves, Arrives, pgVars
  <2>2. \A q \in Payloads : q # p => broker'[q] = broker[q]
    BY <1>1, <1>8 DEF BrokerMoves, Arrives
  <2>3. broker'[p] # NoOrder
    <3>1. broker'[p].st \in {"partially_filled", "filled", "canceled", "accepted"}
      BY <1>1, <1>8 DEF BrokerMoves, Arrives
    <3> QED
      BY <3>1 DEF NoOrder
  <2>4. RowsFlow'
    <3>1. rec' # NoRec => broker'[rec'.p] # NoOrder
      BY <1>1, <2>1, <2>2, <2>3 DEF RowsFlow, OrderInvariant
    <3> QED
      BY <1>1, <1>2, <2>1, <3>1 DEF RowsFlow, Authority
  <2>5. listActiveReservations' = listActiveReservations
    BY <2>1 DEF listActiveReservations
  <2>6. ASSUME ~Excused', p \in BuyEntries PROVE p \in Held
    <3>1. CASE BrokerMoves(p)
      BY <2>6, <3>1, HeldNow DEF BrokerMoves, Working
    <3>2. CASE Arrives(p)
      <4>1. p \in late' /\ p \in inflight
        BY <3>2 DEF Arrives
      <4>2. Authority' /\ p \notin lapsed'
        BY <2>6, <4>1 DEF Excused
      <4>3. Authority /\ p \in listActiveReservations
        BY <1>1, <2>1, <2>6, <4>1, <4>2 DEF RowsFlow, Authority, listActiveReservations
      <4> QED
        BY <2>6, <4>3, HeldNow
    <3> QED
      BY <1>8, <3>1, <3>2
  <2>7. ASSUME ~Excused', NEW q \in Held' PROVE q \in Held
    <3>1. q \in BuyEntries /\ q \in Payloads
      BY <1>1 DEF Held, Bought
    <3>2. CASE q = p
      BY <2>6, <2>7, <3>1, <3>2
    <3>3. CASE q # p
      BY <1>1, <1>2, <2>2, <2>5, <3>1, <3>3, HeldNow, HeldNext DEF Authority
    <3> QED
      BY <3>2, <3>3
  <2>8. ~Excused' => \A q \in Procs : run[q].pc \in {"orders", "reservations"} => broker' = broker
    BY <2>1, NobodyReads
  <2> QED
    BY <1>3, <2>4, <2>5, <2>7, <2>8
<1>9. ASSUME NEW p \in Payloads, Lapse(p) PROVE FlowInvariant' /\ EntryInvariant'
  <2>1. /\ UNCHANGED <<resv, intent, broker, rec, inflight>> /\ lapsed' = lapsed \cup {p} /\ resv[p] = "active"
        /\ \A q \in Procs : run[q].pc = "post" => run[q].cur # p
    BY <1>9 DEF Lapse, ReservationLapses, execVars
  <2>2. RowsFlow'
    BY <1>1, <2>1 DEF RowsFlow, Authority
  <2>3. listActiveReservations' = listActiveReservations \ {p}
    BY <2>1 DEF listActiveReservations
  <2>4. ASSUME NEW q \in Held' PROVE q \in Held
    <3>1. q \in BuyEntries
      BY DEF Held, Bought
    <3> QED
      BY <1>1, <1>2, <2>1, <2>3, <3>1, HeldNow, HeldNext DEF Authority
  <2> QED
    BY <1>3, <2>1, <2>2, <2>3, <2>4
<1> QED
  BY <1>5, <1>6, <1>7, <1>8, <1>9

LEMMA InitEntry == Init => FlowInvariant /\ EntryInvariant
<1> SUFFICES ASSUME Init PROVE FlowInvariant /\ EntryInvariant
  OBVIOUS
<1>1. /\ \A r \in Procs : run[r].pc = "idle" /\ run[r].todo = {}
      /\ inflight = {} /\ rec = NoRec /\ lapsed = {}
      /\ \A p \in Payloads : resv[p] = "none" /\ ledger[p] = "none" /\ broker[p].st = "none" /\ broker[p].f = 0
      /\ BuyEntries \subseteq Payloads
  BY PayloadsAreFinite DEF Init, ProjectionInit, IdleRun, NoOrder
<1>2. RunsFlow
  BY <1>1 DEF RunsFlow, FlowOf, Posted, Past, Busy, Sending, Read
<1>3. RowsFlow
  BY <1>1 DEF RowsFlow
<1>4. Held = {}
  <2>1. listActiveReservations = {}
    BY <1>1 DEF listActiveReservations
  <2>2. ASSUME NEW p \in Held PROVE FALSE
    <3>1. p \in BuyEntries
      BY HeldTyped
    <3> QED
      BY <1>1, <2>1, <3>1, HeldNow DEF WorkingStatus, ActiveStatus
  <2> QED
    BY <2>2
<1>5. Fits(Held)
  BY <1>4, FS_EmptySet, PowerIsNatural DEF Fits
<1>6. \A r \in Procs : EntryOf(r, run[r])
  BY <1>1 DEF EntryOf, Past, Busy, Sending
<1> QED
  BY <1>2, <1>3, <1>5, <1>6 DEF FlowInvariant, EntryInvariant

LEMMA NextEntry ==
  Invariant /\ FlowInvariant /\ EntryInvariant /\ [Next]_vars => FlowInvariant' /\ EntryInvariant'
<1> SUFFICES ASSUME Invariant, FlowInvariant, EntryInvariant, [Next]_vars PROVE FlowInvariant' /\ EntryInvariant'
  OBVIOUS
<1>1. StepFrom
  BY NextInv, EveryStepIsPgStep DEF StepFrom
<1>2. CASE Next
  BY <1>1, <1>2, ProcStepEntry, OthersEntry DEF Next
<1>3. CASE UNCHANGED vars
  <2>1. UNCHANGED pgVars /\ UNCHANGED <<ledger, broker, inflight, posts, late, torn, holder, run, rec>>
    BY <1>3 DEF vars, execVars
  <2>2. /\ RunsFlow /\ RowsFlow /\ PgStep /\ mode' = mode /\ lapsed' = lapsed /\ resv' = resv /\ intent' = intent
    BY <1>1, <2>1 DEF StepFrom, FlowInvariant, pgVars
  <2>3. Held' = Held /\ listActiveReservations' = listActiveReservations
    BY <2>1, <2>2, HeldSame
  <2>4. RunsFlow'
    BY <2>1, <2>2, <2>3, FlowStays
  <2>5. RowsFlow'
    BY <2>1, <2>2 DEF RowsFlow, Authority
  <2>6. EntryInvariant'
    BY <2>1, <2>2, <2>3, EntryStays
  <2> QED
    BY <2>4, <2>5, <2>6 DEF FlowInvariant
<1> QED
  BY <1>2, <1>3

(* NoSecondEntry: for any artifacts, symbols, processes, buying power and   *)
(* faults, and in SQLite, shadow and authority mode, two artifacts never    *)
(* buy a symbol twice nor more than the account can carry, unless an order  *)
(* moved while a process read the portfolio or reached the broker after it  *)
(* had been given up.  What the store holds and what the broker has are     *)
(* counted together; a batch is let in only beside all of it.               *)
THEOREM NoEntryIsBoughtTwice == Spec => []NoSecondEntry
<1>1. FlowInvariant /\ EntryInvariant => NoSecondEntry
  <2> SUFFICES ASSUME EntryInvariant, ~Excused
               PROVE  (\A p, q \in Bought : Sym(p) = Sym(q) => p = q) /\ Cardinality(Bought) <= Power
    BY DEF NoSecondEntry
  <2>1. Fits(Held) /\ Bought \in SUBSET Held
    BY DEF EntryInvariant, Held
  <2>2. Fits(Bought)
    BY <2>1, HeldTyped, FitsSubset
  <2> QED
    BY <2>2 DEF Fits
<1>2. Spec => [](FlowInvariant /\ EntryInvariant)
  BY InitEntry, NextEntry, InvariantHolds, PTL DEF Spec
<1> QED
  BY <1>1, <1>2, PTL
=============================================================================
