------------------------- MODULE PaperTrading_proofs -------------------------
(***************************************************************************)
(* Proofs about the order workers for any sets of intents and workers, any *)
(* quantities, any number of retries and any number of faults.             *)
(*                                                                         *)
(* SubmittedAtMostOnce and ReadyMeansNotSent rest on one inductive         *)
(* invariant about claims: an intent that an executor has claimed is not   *)
(* ready, has no second claimant, and is not sent before the attempt is    *)
(* persisted.  Only four actions touch what the invariant speaks of; all   *)
(* the others are "quiet", and one lemma covers them.                      *)
(*                                                                         *)
(* AtMostOneDelete rests on a second one: whoever is about to call         *)
(* cancelOrder has inserted the cancel-ambiguous transition, nobody else   *)
(* has, and no call was made before.  The keys of recorded transitions are *)
(* never removed, so all actions but the claim and the call are quiet.     *)
(***************************************************************************)
EXTENDS PaperTrading, FiniteSetTheorems, TLAPS

Fields == DOMAIN Idle

(* From its claim until the outcome is written an executor owns its intent. *)
Claiming == {"claimed", "attempt", "release", "submit", "post", "record",
             "markFailed", "markAmbiguous"}

(* Until it calls submitOrder the order has not been sent. *)
Unsent == {"claimed", "attempt", "release", "submit"}

Waiting == {"created", "ready_for_submission"}

Shape ==
    /\ DOMAIN proc = Workers
    /\ \A w \in Workers : DOMAIN proc[w] = Fields
    /\ DOMAIN intent = Intents
    /\ \A i \in Intents : DOMAIN intent[i] = {"status", "life"}
    /\ calls \in [Intents -> Nat]

ClaimInvariant ==
    /\ Shape
    /\ \A i \in Intents :
          /\ calls[i] <= 1
          /\ calls[i] > 0 => i \in attempted
          /\ intent[i].status \in Waiting => calls[i] = 0
    /\ \A w \in Workers :
          /\ proc[w].pc \in Claiming =>
                proc[w].i \in Intents /\ intent[proc[w].i].status \notin Waiting
          /\ proc[w].pc \in Unsent => calls[proc[w].i] = 0
          /\ proc[w].pc = "submit" => proc[w].i \in attempted
    /\ \A v, w \in Workers :
          proc[v].pc \in Claiming /\ proc[w].pc \in Claiming /\ v # w =>
              proc[v].i # proc[w].i

-----------------------------------------------------------------------------
(* Quiet steps *)

(* No claim is begun, and none gets back before its submitOrder. *)
QuietProc ==
    \A v \in Workers :
        proc'[v].pc \in Claiming =>
            /\ proc[v].pc \in Claiming /\ proc'[v].i = proc[v].i
            /\ proc'[v].pc \in Unsent => proc[v].pc \in Unsent
            /\ proc'[v].pc # "submit" \/ proc[v].pc = "submit"

(* No intent becomes ready again. *)
QuietIntent ==
    \A i \in Intents : intent'[i].status \in Waiting => intent[i].status \in Waiting

Quiet ==
    /\ Shape' /\ QuietProc /\ QuietIntent
    /\ UNCHANGED <<calls, attempted>>

LEMMA QuietKeepsClaims == ClaimInvariant /\ Quiet => ClaimInvariant'
<1> SUFFICES ASSUME ClaimInvariant, Quiet PROVE ClaimInvariant'
  OBVIOUS
<1> USE DEF Quiet
<1>1. \A i \in Intents :
          /\ calls'[i] <= 1
          /\ calls'[i] > 0 => i \in attempted'
          /\ intent'[i].status \in Waiting => calls'[i] = 0
  BY DEF ClaimInvariant, QuietIntent
<1>2. \A w \in Workers :
          /\ proc'[w].pc \in Claiming =>
                proc'[w].i \in Intents /\ intent'[proc'[w].i].status \notin Waiting
          /\ proc'[w].pc \in Unsent => calls'[proc'[w].i] = 0
          /\ proc'[w].pc = "submit" => proc'[w].i \in attempted'
  BY DEF ClaimInvariant, QuietProc, QuietIntent, Claiming, Unsent
<1>3. \A v, w \in Workers :
          proc'[v].pc \in Claiming /\ proc'[w].pc \in Claiming /\ v # w =>
              proc'[v].i # proc'[w].i
  BY DEF ClaimInvariant, QuietProc
<1> QED
  BY <1>1, <1>2, <1>3 DEF ClaimInvariant

(* What the process steps do to the record of w, and to no other. *)
LEMMA GotoStep ==
    ASSUME NEW w \in Workers, NEW p, DOMAIN proc = Workers, Goto(w, p),
           DOMAIN p = Fields
    PROVE  /\ DOMAIN proc' = Workers
           /\ DOMAIN proc'[w] = Fields
           /\ proc'[w].pc = p.pc /\ proc'[w].i = p.i
           /\ \A v \in Workers \ {w} : proc'[v] = proc[v]
<1>1. {"pc", "i", "fence"} \subseteq Fields
  BY DEF Fields, Idle
<1> QED
  BY <1>1 DEF Goto

LEMMA EndStep ==
    ASSUME NEW w \in Workers, DOMAIN proc = Workers, End(w)
    PROVE  /\ DOMAIN proc' = Workers
           /\ DOMAIN proc'[w] = Fields
           /\ proc'[w].pc = "idle"
           /\ \A v \in Workers \ {w} : proc'[v] = proc[v]
BY DEF End, Fields, Idle

(* Shorthand facts for the steps of one worker. *)
LEMMA FieldNames ==
    Fields = {"pc", "i", "cur", "fence", "seen", "todo", "snap", "resp", "got", "left", "err"}
BY DEF Fields, Idle

LEMMA QuietGoto ==
    ASSUME NEW w \in Workers, NEW p, Shape, Goto(w, p),
           DOMAIN p = Fields, p.pc \notin Claiming
    PROVE  /\ DOMAIN proc' = Workers
           /\ \A v \in Workers : DOMAIN proc'[v] = Fields
           /\ QuietProc
BY GotoStep DEF QuietProc, Shape

(* A claim goes on. *)
LEMMA QuietMove ==
    ASSUME NEW w \in Workers, NEW p, Shape, Goto(w, p),
           DOMAIN p = Fields, p.i = proc[w].i,
           proc[w].pc \in Claiming, p.pc # "submit",
           p.pc \in Unsent => proc[w].pc \in Unsent
    PROVE  /\ DOMAIN proc' = Workers
           /\ \A v \in Workers : DOMAIN proc'[v] = Fields
           /\ QuietProc
BY GotoStep DEF QuietProc, Shape

LEMMA QuietEnd ==
    ASSUME NEW w \in Workers, Shape, End(w)
    PROVE  /\ DOMAIN proc' = Workers
           /\ \A v \in Workers : DOMAIN proc'[v] = Fields
           /\ QuietProc
BY EndStep DEF QuietProc, Claiming, Shape

-----------------------------------------------------------------------------
(* Every action but four is quiet *)

LEMMA QuietEnvironment == Shape /\ Environment => Quiet
<1> SUFFICES ASSUME Shape, Environment PROVE Quiet
  OBVIOUS
<1> USE DEF Shape, Quiet, QuietProc, QuietIntent, ledger, history, clocks
<1>1. ASSUME NEW i \in Intents, Arrive(i) \/ Fill(i) \/ BrokerCancels(i) \/ Lapse(i) \/ Age(i)
      PROVE Quiet
  BY <1>1 DEF Arrive, Fill, BrokerCancels, Lapse, Age
<1>2. ASSUME NEW w \in Workers, Crash(w) PROVE Quiet
  BY <1>2, QuietEnd DEF Crash
<1>3. ASSUME NEW w \in Workers, LoseFence(w) PROVE Quiet
  BY <1>3, FieldNames DEF LoseFence
<1> QED
  BY <1>1, <1>2, <1>3 DEF Environment

(* The executor's own steps. *)
LEMMA QuietSubmission ==
    ASSUME NEW w \in Workers, Shape, Submission(w),
           ~Claim(w), ~ReleaseClaim(w), ~RecordAttempt(w), ~SubmitOrder(w)
    PROVE  Quiet
<1> USE FieldNames, QuietGoto, QuietEnd
        DEF Shape, Quiet, QuietIntent, Claiming, Waiting, To, ledger, history
<1>1. CASE StartExecution(w)
  BY <1>1 DEF StartExecution, Idle
<1>2. CASE Promote(w)
  <2>1. /\ DOMAIN intent' = Intents /\ QuietIntent
        /\ \A i \in Intents : DOMAIN intent'[i] = {"status", "life"}
    BY <1>2 DEF Promote, Confirmable
  <2>2. Goto(w, To(w, "claim")) \/ End(w)
    BY <1>2 DEF Promote
  <2>3. /\ DOMAIN proc' = Workers /\ QuietProc
        /\ \A v \in Workers : DOMAIN proc'[v] = Fields
    BY <2>2
  <2> QED
    BY <1>2, <2>1, <2>3 DEF Promote
<1>3. CASE PromoteNothing(w)
  BY <1>3 DEF PromoteNothing
<1>4. CASE ClaimNothing(w)
  BY <1>4 DEF ClaimNothing
<1>5. CASE Validate(w)
  BY <1>5, QuietMove DEF Validate, At, Unsent
<1>6. CASE ReleaseFails(w)
  BY <1>6 DEF ReleaseFails
<1>7. CASE AttemptFails(w)
  BY <1>7, QuietMove DEF AttemptFails, At, Unsent
<1>8. CASE PostAccepted(w)
  BY <1>8, QuietMove DEF PostAccepted, At, Unsent
<1>9. CASE PostRefused(w)
  BY <1>9, QuietMove DEF PostRefused, At, Unsent
<1>10. CASE PostUnanswered(w)
  BY <1>10, QuietMove DEF PostUnanswered, At, Unsent
<1>11. CASE RecordSubmission(w)
  <2>1. /\ DOMAIN intent' = Intents /\ QuietIntent
        /\ \A i \in Intents : DOMAIN intent'[i] = {"status", "life"}
    BY <1>11 DEF RecordSubmission
  <2>2. End(w) \/ Goto(w, To(w, "markAmbiguous"))
    BY <1>11 DEF RecordSubmission
  <2>3. /\ DOMAIN proc' = Workers /\ QuietProc
        /\ \A v \in Workers : DOMAIN proc'[v] = Fields
    BY <1>11, <2>2, QuietMove DEF RecordSubmission, At, Unsent
  <2> QED
    BY <1>11, <2>1, <2>3 DEF RecordSubmission
<1>12. CASE RecordFails(w)
  BY <1>12, QuietMove DEF RecordFails, At, Unsent
<1>13. CASE MarkFailed(w)
  BY <1>13 DEF MarkFailed
<1>14. CASE MarkAmbiguous(w)
  BY <1>14 DEF MarkAmbiguous
<1>15. CASE MarkFails(w)
  BY <1>15 DEF MarkFails
<1>16. CASE LookupFinds(w)
  BY <1>16 DEF LookupFinds
<1>17. CASE LookupFails(w)
  BY <1>17 DEF LookupFails
<1>18. CASE Receipt(w)
  BY <1>18 DEF Receipt
<1>19. CASE ReceiptFails(w)
  BY <1>19 DEF ReceiptFails
<1> QED
  BY <1>1, <1>2, <1>3, <1>4, <1>5, <1>6, <1>7, <1>8, <1>9, <1>10, <1>11, <1>12, <1>13, <1>14, <1>15, <1>16, <1>17, <1>18, <1>19 DEF Submission

(* A reconciliation never makes an intent ready and never claims one. *)
LEMMA QuietReconciliation ==
    ASSUME NEW w \in Workers, Shape, Reconciliation(w)
    PROVE  Quiet
<1> USE FieldNames, QuietGoto, QuietEnd
        DEF Shape, Quiet, QuietIntent, Claiming, Waiting, To, ledger, history
<1>1. CASE StartReconciliation(w)
  BY <1>1 DEF StartReconciliation, Listing, Idle
<1>2. CASE List(w)
  BY <1>2 DEF List, Listing
<1>3. CASE ListFails(w)
  BY <1>3 DEF ListFails
<1>4. CASE FetchFinds(w)
  BY <1>4 DEF FetchFinds
<1>5. CASE FetchAbsent(w)
  BY <1>5 DEF FetchAbsent
<1>6. CASE FetchFails(w)
  BY <1>6 DEF FetchFails, Processed
<1>7. CASE Observe(w)
  BY <1>7 DEF Observe, Processed
<1>8. CASE ObserveConflict(w)
  BY <1>8 DEF ObserveConflict, Processed
<1>9. CASE ObserveFails(w)
  BY <1>9 DEF ObserveFails, Processed
<1>10. CASE Settle(w)
  BY <1>10 DEF Settle, Processed
<1>11. CASE SettleNothing(w)
  BY <1>11 DEF SettleNothing, Processed
<1>12. CASE RecordAbsence(w)
  BY <1>12 DEF RecordAbsence, Processed
<1>13. CASE ConfirmAbsence(w)
  BY <1>13, ZenonT(40) DEF ConfirmAbsence, Processed
<1>14. CASE AbsenceFails(w)
  BY <1>14 DEF AbsenceFails, Processed
<1>15. CASE Sync(w)
  <2>1. /\ DOMAIN intent' = Intents /\ QuietIntent
        /\ \A i \in Intents : DOMAIN intent'[i] = {"status", "life"}
    BY <1>15 DEF Sync, ClosePositions
  <2>2. /\ DOMAIN proc' = Workers /\ QuietProc
        /\ \A v \in Workers : DOMAIN proc'[v] = Fields
    BY <1>15 DEF Sync
  <2> QED
    BY <1>15, <2>1, <2>2 DEF Sync, ClosePositions
<1>16. CASE SyncFails(w)
  BY <1>16 DEF SyncFails
<1>17. CASE Persist(w)
  <2>1. /\ DOMAIN intent' = Intents /\ QuietIntent
        /\ \A i \in Intents : DOMAIN intent'[i] = {"status", "life"}
    BY <1>17 DEF Persist, ClosePositions
  <2>2. /\ DOMAIN proc' = Workers /\ QuietProc
        /\ \A v \in Workers : DOMAIN proc'[v] = Fields
    BY <1>17 DEF Persist
  <2> QED
    BY <1>17, <2>1, <2>2 DEF Persist, ClosePositions
<1>18. CASE PersistFails(w)
  BY <1>18 DEF PersistFails
<1> QED
  BY <1>1, <1>2, <1>3, <1>4, <1>5, <1>6, <1>7, <1>8, <1>9, <1>10, <1>11, <1>12, <1>13, <1>14, <1>15, <1>16, <1>17, <1>18 DEF Reconciliation

(* Nor does a recovery. *)
LEMMA QuietRecovery ==
    ASSUME NEW w \in Workers, Shape, Recovery(w)
    PROVE  Quiet
<1> USE FieldNames, QuietGoto, QuietEnd
        DEF Shape, Quiet, QuietIntent, Claiming, Waiting, To, ledger, history
<1>1. CASE StartRecovery(w)
  BY <1>1 DEF StartRecovery, Idle
<1>2. CASE LookUpStale(w)
  BY <1>2 DEF LookUpStale
<1>3. CASE ResolveStale(w)
  <2>1. /\ DOMAIN intent' = Intents /\ QuietIntent
        /\ \A i \in Intents : DOMAIN intent'[i] = {"status", "life"}
    BY <1>3 DEF ResolveStale, CancelStale, PreserveStale
  <2>2. /\ DOMAIN proc' = Workers /\ QuietProc
        /\ \A v \in Workers : DOMAIN proc'[v] = Fields
    BY <1>3 DEF ResolveStale, NextStale
  <2> QED
    BY <1>3, <2>1, <2>2 DEF ResolveStale
<1>4. CASE SkipStale(w)
  BY <1>4 DEF SkipStale, NextStale
<1>5. CASE ExpireReservations(w)
  BY <1>5 DEF ExpireReservations
<1>6. CASE ExpireReviews(w)
  BY <1>6 DEF ExpireReviews
<1>7. CASE ExpireConfirmations(w)
  BY <1>7 DEF ExpireConfirmations
<1>8. CASE CancelCreated(w)
  BY <1>8 DEF CancelCreated
<1>9. CASE RecoveryWritesNothing(w)
  BY <1>9 DEF RecoveryWritesNothing
<1>10. CASE RecoveryFails(w)
  BY <1>10 DEF RecoveryFails
<1> QED
  BY <1>1, <1>2, <1>3, <1>4, <1>5, <1>6, <1>7, <1>8, <1>9, <1>10 DEF Recovery

(* Nor does a cancellation. *)
LEMMA QuietCancellation ==
    ASSUME NEW w \in Workers, Shape, Cancellation(w)
    PROVE  Quiet
<1> USE FieldNames, QuietGoto, QuietEnd
        DEF Shape, Quiet, QuietIntent, Claiming, Waiting, To, ledger, history
<1>1. CASE StartCancellation(w)
  BY <1>1 DEF StartCancellation, Idle
<1>2. CASE LookBefore(w)
  BY <1>2 DEF LookBefore
<1>3. CASE RequestCancel(w)
  BY <1>3 DEF RequestCancel
<1>4. CASE ClaimCancel(w)
  BY <1>4 DEF ClaimCancel
<1>5. CASE ClaimedBefore(w)
  BY <1>5 DEF ClaimedBefore
<1>6. CASE DeleteOrder(w)
  BY <1>6 DEF DeleteOrder
<1>7. CASE Poll(w)
  BY <1>7 DEF Poll
<1>8. CASE CancellationFails(w)
  BY <1>8 DEF CancellationFails
<1> QED
  BY <1>1, <1>2, <1>3, <1>4, <1>5, <1>6, <1>7, <1>8 DEF Cancellation

-----------------------------------------------------------------------------
(* The four actions that are not quiet *)

(* An intent is claimed while it is ready, so nobody else has it. *)
LEMMA ClaimKeepsClaims ==
    ASSUME NEW w \in Workers, ClaimInvariant, Claim(w)
    PROVE  ClaimInvariant'
<1>1. CASE End(w)
  <2>1. DOMAIN proc' = Workers /\ QuietProc /\ \A v \in Workers : DOMAIN proc'[v] = Fields
    BY <1>1, QuietEnd DEF ClaimInvariant
  <2>2. /\ DOMAIN intent' = Intents /\ QuietIntent
        /\ \A i \in Intents : DOMAIN intent'[i] = {"status", "life"}
    BY DEF Claim, ClaimInvariant, Shape, QuietIntent, Waiting
  <2> QED
    BY <2>1, <2>2, QuietKeepsClaims DEF Quiet, Claim, ClaimInvariant, Shape, history
<1>2. CASE ~End(w)
  <2>1. PICK i \in Scope(w) :
            /\ intent[i].status = "ready_for_submission"
            /\ intent' = [intent EXCEPT ![i].status = "submission_pending"]
            /\ Goto(w, [To(w, "claimed") EXCEPT !.i = i, !.todo = {}])
    BY <1>2 DEF Claim, Claimable
  <2>2. i \in Intents
    BY DEF Scope, Intents
  <2> DEFINE p == [To(w, "claimed") EXCEPT !.i = i, !.todo = {}]
  <2>3. DOMAIN p = Fields /\ p.pc = "claimed" /\ p.i = i
    BY FieldNames DEF To, ClaimInvariant, Shape
  <2>4. Goto(w, p)
    BY <2>1
  <2> HIDE DEF p
  <2>5. /\ DOMAIN proc' = Workers
        /\ DOMAIN proc'[w] = Fields
        /\ proc'[w].pc = "claimed" /\ proc'[w].i = i
        /\ \A v \in Workers \ {w} : proc'[v] = proc[v]
    BY <2>3, <2>4, GotoStep DEF ClaimInvariant, Shape
  <2>6. /\ DOMAIN intent' = Intents
        /\ \A k \in Intents : DOMAIN intent'[k] = {"status", "life"}
        /\ intent'[i].status = "submission_pending"
        /\ \A k \in Intents \ {i} : intent'[k] = intent[k]
    BY <2>1, <2>2 DEF ClaimInvariant, Shape
  <2>7. UNCHANGED <<calls, attempted>>
    BY DEF Claim, history
  <2>8. \A v \in Workers : proc[v].pc \in Claiming => proc[v].i # i
    BY <2>1 DEF ClaimInvariant, Waiting
  <2>9. calls[i] = 0
    BY <2>1, <2>2 DEF ClaimInvariant, Waiting
  <2> QED
    BY <2>2, <2>5, <2>6, <2>7, <2>8, <2>9
       DEF ClaimInvariant, Shape, Claiming, Unsent, Waiting
<1> QED
  BY <1>1, <1>2

(* A claim is given back by the only worker that has it, before it called   *)
(* submitOrder.                                                             *)
LEMMA ReleaseKeepsClaims ==
    ASSUME NEW w \in Workers, ClaimInvariant, ReleaseClaim(w)
    PROVE  ClaimInvariant'
<1> DEFINE i == proc[w].i
<1>1. proc[w].pc = "release" /\ UNCHANGED <<calls, attempted>> /\ End(w)
  BY DEF ReleaseClaim, At, history
<1>2. i \in Intents /\ calls[i] = 0
  BY <1>1 DEF ClaimInvariant, Claiming, Unsent
<1>3. /\ DOMAIN intent' = Intents
      /\ \A k \in Intents : DOMAIN intent'[k] = {"status", "life"}
      /\ \A k \in Intents \ {i} : intent'[k] = intent[k]
  BY <1>2 DEF ReleaseClaim, ClaimInvariant, Shape
<1>4. /\ DOMAIN proc' = Workers
      /\ DOMAIN proc'[w] = Fields
      /\ proc'[w].pc = "idle"
      /\ \A v \in Workers \ {w} : proc'[v] = proc[v]
  BY <1>1, EndStep DEF ClaimInvariant, Shape
<1>5. \A v \in Workers \ {w} : proc[v].pc \in Claiming => proc[v].i # i
  BY <1>1 DEF ClaimInvariant, Claiming
<1> HIDE DEF i
<1> QED
  BY <1>1, <1>2, <1>3, <1>4, <1>5 DEF ClaimInvariant, Shape, Claiming, Unsent

(* The attempt is persisted at most once, and whoever persisted it goes on. *)
LEMMA AttemptKeepsClaims ==
    ASSUME NEW w \in Workers, ClaimInvariant, RecordAttempt(w)
    PROVE  ClaimInvariant'
<1> DEFINE i == proc[w].i
<1>1. /\ proc[w].pc = "attempt" /\ attempted' = attempted \cup {i} /\ UNCHANGED calls
      /\ Goto(w, To(w, "submit")) \/ Goto(w, To(w, "release"))
  BY DEF RecordAttempt, At, history
<1>2. i \in Intents /\ calls[i] = 0
  BY <1>1 DEF ClaimInvariant, Claiming, Unsent
<1>3. /\ DOMAIN intent' = Intents
      /\ \A k \in Intents : DOMAIN intent'[k] = {"status", "life"}
      /\ \A k \in Intents : intent'[k].status = intent[k].status
  BY <1>2 DEF RecordAttempt, ClaimInvariant, Shape
<1>4. \A pc : /\ DOMAIN To(w, pc) = Fields
              /\ To(w, pc).pc = pc /\ To(w, pc).i = i
  BY FieldNames DEF To, ClaimInvariant, Shape
<1>5. /\ DOMAIN proc' = Workers
      /\ DOMAIN proc'[w] = Fields
      /\ proc'[w].pc \in {"submit", "release"} /\ proc'[w].i = i
      /\ \A v \in Workers \ {w} : proc'[v] = proc[v]
  BY <1>1, <1>4, GotoStep DEF ClaimInvariant, Shape
<1>6. \A v \in Workers \ {w} : proc[v].pc \in Claiming => proc[v].i # i
  BY <1>1 DEF ClaimInvariant, Claiming
<1>7. intent[i].status \notin Waiting
  BY <1>1 DEF ClaimInvariant, Claiming
<1> HIDE DEF i
<1> QED
  BY <1>1, <1>2, <1>3, <1>5, <1>6, <1>7 DEF ClaimInvariant, Shape, Claiming, Unsent

(* The one call of submitOrder. *)
LEMMA SubmitKeepsClaims ==
    ASSUME NEW w \in Workers, ClaimInvariant, SubmitOrder(w)
    PROVE  ClaimInvariant'
<1> DEFINE i == proc[w].i
           p == [To(w, "post") EXCEPT !.left = MaxRetries]
<1>1. /\ proc[w].pc = "submit" /\ UNCHANGED <<attempted, intent>> /\ Goto(w, p)
      /\ calls' = [calls EXCEPT ![i] = @ + 1]
  BY DEF SubmitOrder, At, ledger
<1>2. i \in Intents /\ calls[i] = 0 /\ i \in attempted /\ intent[i].status \notin Waiting
  BY <1>1 DEF ClaimInvariant, Claiming, Unsent
<1>3. calls' \in [Intents -> Nat] /\ calls'[i] = 1 /\ \A k \in Intents \ {i} : calls'[k] = calls[k]
  BY <1>1, <1>2 DEF ClaimInvariant, Shape
<1>4. DOMAIN p = Fields /\ p.pc = "post" /\ p.i = i
  BY FieldNames DEF To, ClaimInvariant, Shape
<1> HIDE DEF p
<1>5. /\ DOMAIN proc' = Workers
      /\ DOMAIN proc'[w] = Fields
      /\ proc'[w].pc = "post" /\ proc'[w].i = i
      /\ \A v \in Workers \ {w} : proc'[v] = proc[v]
  BY <1>1, <1>4, GotoStep DEF ClaimInvariant, Shape
<1>6. \A v \in Workers \ {w} : proc[v].pc \in Claiming => proc[v].i # i
  BY <1>1 DEF ClaimInvariant, Claiming
<1> HIDE DEF i
<1> QED
  BY <1>1, <1>2, <1>3, <1>5, <1>6 DEF ClaimInvariant, Shape, Claiming, Unsent

-----------------------------------------------------------------------------
(* Theorems about submission *)

LEMMA ClaimsHoldInitially == Init => ClaimInvariant
<1> SUFFICES ASSUME Init PROVE ClaimInvariant
  OBVIOUS
<1>1. Shape
  BY DEF Init, Shape, Fields
<1>2. \A w \in Workers : proc[w].pc = "idle"
  BY DEF Init, Idle
<1>3. \A i \in Intents : calls[i] = 0
  BY DEF Init
<1> QED
  BY <1>1, <1>2, <1>3 DEF ClaimInvariant, Claiming, Unsent

(* The claim invariant holds in every state of every run: a claimed intent  *)
(* is not ready, has one claimant, and was not sent before its attempt was  *)
(* persisted (claimIntent, recordSubmissionAttempt, releaseClaim).          *)
THEOREM ClaimsAreExclusive == Spec => []ClaimInvariant
<1>1. ClaimInvariant /\ [Next]_vars => ClaimInvariant'
  <2> SUFFICES ASSUME ClaimInvariant, [Next]_vars PROVE ClaimInvariant'
    OBVIOUS
  <2>1. Shape
    BY DEF ClaimInvariant
  <2>2. CASE UNCHANGED vars
    <3>1. Quiet
      BY <2>1, <2>2 DEF Quiet, QuietProc, QuietIntent, Shape, vars, ledger, history
    <3> QED
      BY <3>1, QuietKeepsClaims
  <2>3. CASE Environment
    BY <2>1, <2>3, QuietEnvironment, QuietKeepsClaims
  <2>4. ASSUME NEW w \in Workers, WorkerStep(w) PROVE ClaimInvariant'
    <3>1. CASE Reconciliation(w)
      BY <2>1, <3>1, QuietReconciliation, QuietKeepsClaims
    <3>2. CASE Recovery(w)
      BY <2>1, <3>2, QuietRecovery, QuietKeepsClaims
    <3>3. CASE Cancellation(w)
      BY <2>1, <3>3, QuietCancellation, QuietKeepsClaims
    <3>4. CASE Submission(w)
      <4>1. CASE ~Claim(w) /\ ~ReleaseClaim(w) /\ ~RecordAttempt(w) /\ ~SubmitOrder(w)
        BY <2>1, <3>4, <4>1, QuietSubmission, QuietKeepsClaims
      <4> QED
        BY <4>1, ClaimKeepsClaims, ReleaseKeepsClaims, AttemptKeepsClaims, SubmitKeepsClaims
    <3> QED
      BY <2>4, <3>1, <3>2, <3>3, <3>4 DEF WorkerStep
  <2> QED
    BY <2>2, <2>3, <2>4 DEF Next
<1> QED
  BY <1>1, ClaimsHoldInitially, PTL DEF Spec

(* submitOrder is called at most once per intent, whatever executors,       *)
(* recoveries and reconciliations do, crash and restart                     *)
(* (recordSubmissionAttempt).                                               *)
THEOREM SubmissionIsAtMostOnce == Spec => []SubmittedAtMostOnce
<1>1. ClaimInvariant => SubmittedAtMostOnce
  BY DEF ClaimInvariant, SubmittedAtMostOnce
<1> QED
  BY <1>1, ClaimsAreExclusive, PTL

(* A created or ready intent was never handed to the broker, so that the    *)
(* stale-ready recovery may cancel it (runAutonomousPostgresRecovery).      *)
THEOREM ReadyIntentsAreUnsent == Spec => []ReadyMeansNotSent
<1>1. ClaimInvariant => ReadyMeansNotSent
  BY DEF ClaimInvariant, ReadyMeansNotSent, Waiting
<1> QED
  BY <1>1, ClaimsAreExclusive, PTL

-----------------------------------------------------------------------------
(* The claim of the DELETE *)

RowShape ==
    /\ DOMAIN proc = Workers
    /\ \A w \in Workers : DOMAIN proc[w] = Fields
    /\ DOMAIN recorded = Intents
    /\ deletes \in [Intents -> Nat]

DeleteInvariant ==
    /\ RowShape
    /\ \A i \in Intents : deletes[i] <= 1 /\ (deletes[i] > 0 => ClaimKey \in recorded[i])
    /\ \A w \in Workers :
          proc[w].pc = "delete" /\ proc[w].i \in Intents =>
              ClaimKey \in recorded[proc[w].i] /\ deletes[proc[w].i] = 0
    /\ \A v, w \in Workers :
          proc[v].pc = "delete" /\ proc[w].pc = "delete" /\ proc[w].i \in Intents /\ v # w =>
              proc[v].i # proc[w].i

-----------------------------------------------------------------------------
(* Quiet steps *)

(* Nobody gets to the call of cancelOrder. *)
NoNewDelete ==
    \A v \in Workers : proc'[v].pc = "delete" => proc'[v] = proc[v] \/
                           (proc[v].pc = "delete" /\ proc'[v].i = proc[v].i)

(* No transition is forgotten. *)
KeysKept == \A i \in Intents : recorded[i] \subseteq recorded'[i]

Harmless == RowShape' /\ NoNewDelete /\ KeysKept /\ UNCHANGED deletes

LEMMA HarmlessKeepsClaim == DeleteInvariant /\ Harmless => DeleteInvariant'
BY DEF DeleteInvariant, Harmless, NoNewDelete, KeysKept

LEMMA HarmlessGoto ==
    ASSUME NEW w \in Workers, NEW p, RowShape, Goto(w, p),
           DOMAIN p = Fields, p.pc # "delete"
    PROVE  /\ DOMAIN proc' = Workers
           /\ \A v \in Workers : DOMAIN proc'[v] = Fields
           /\ NoNewDelete
BY GotoStep DEF NoNewDelete, RowShape

LEMMA HarmlessEnd ==
    ASSUME NEW w \in Workers, RowShape, End(w)
    PROVE  /\ DOMAIN proc' = Workers
           /\ \A v \in Workers : DOMAIN proc'[v] = Fields
           /\ NoNewDelete
BY EndStep DEF NoNewDelete, RowShape

LEMMA HarmlessEnvironment == RowShape /\ Environment => Harmless
<1> SUFFICES ASSUME RowShape, Environment PROVE Harmless
  OBVIOUS
<1> USE DEF RowShape, Harmless, NoNewDelete, KeysKept, ledger, history, clocks
<1>1. ASSUME NEW i \in Intents, Arrive(i) \/ Fill(i) \/ BrokerCancels(i) \/ Lapse(i) \/ Age(i)
      PROVE Harmless
  BY <1>1 DEF Arrive, Fill, BrokerCancels, Lapse, Age
<1>2. ASSUME NEW w \in Workers, Crash(w) PROVE Harmless
  BY <1>2, HarmlessEnd DEF Crash
<1>3. ASSUME NEW w \in Workers, LoseFence(w) PROVE Harmless
  BY <1>3, FieldNames DEF LoseFence
<1> QED
  BY <1>1, <1>2, <1>3 DEF Environment

(* Executors delete nothing. *)
LEMMA HarmlessSubmission ==
    ASSUME NEW w \in Workers, RowShape, Submission(w)
    PROVE  Harmless
<1> USE FieldNames, HarmlessGoto, HarmlessEnd
        DEF RowShape, Harmless, KeysKept, To, ledger, history
<1>1. CASE StartExecution(w)
  BY <1>1 DEF StartExecution, Idle
<1>2. CASE Promote(w)
  <2>1. DOMAIN proc' = Workers /\ NoNewDelete /\ \A v \in Workers : DOMAIN proc'[v] = Fields
    BY <1>2 DEF Promote
  <2>2. DOMAIN recorded' = Intents /\ KeysKept /\ UNCHANGED deletes
    BY <1>2 DEF Promote
  <2> QED
    BY <2>1, <2>2
<1>3. CASE PromoteNothing(w)
  BY <1>3 DEF PromoteNothing
<1>4. CASE Claim(w)
  <2>1. DOMAIN proc' = Workers /\ NoNewDelete /\ \A v \in Workers : DOMAIN proc'[v] = Fields
    BY <1>4 DEF Claim
  <2>2. DOMAIN recorded' = Intents /\ KeysKept /\ UNCHANGED deletes
    BY <1>4 DEF Claim
  <2> QED
    BY <2>1, <2>2
<1>5. CASE ClaimNothing(w)
  BY <1>5 DEF ClaimNothing
<1>6. CASE Validate(w)
  BY <1>6 DEF Validate
<1>7. CASE ReleaseClaim(w)
  BY <1>7 DEF ReleaseClaim
<1>8. CASE ReleaseFails(w)
  BY <1>8 DEF ReleaseFails
<1>9. CASE RecordAttempt(w)
  BY <1>9 DEF RecordAttempt
<1>10. CASE AttemptFails(w)
  BY <1>10 DEF AttemptFails
<1>11. CASE SubmitOrder(w)
  BY <1>11 DEF SubmitOrder
<1>12. CASE PostAccepted(w)
  <2>1. DOMAIN proc' = Workers /\ NoNewDelete /\ \A v \in Workers : DOMAIN proc'[v] = Fields
    BY <1>12 DEF PostAccepted
  <2>2. DOMAIN recorded' = Intents /\ KeysKept /\ UNCHANGED deletes
    BY <1>12 DEF PostAccepted
  <2> QED
    BY <2>1, <2>2
<1>13. CASE PostRefused(w)
  BY <1>13 DEF PostRefused
<1>14. CASE PostUnanswered(w)
  <2>1. DOMAIN proc' = Workers /\ NoNewDelete /\ \A v \in Workers : DOMAIN proc'[v] = Fields
    BY <1>14 DEF PostUnanswered, At
  <2>2. DOMAIN recorded' = Intents /\ KeysKept /\ UNCHANGED deletes
    BY <1>14 DEF PostUnanswered
  <2> QED
    BY <2>1, <2>2
<1>15. CASE RecordSubmission(w)
  <2>1. DOMAIN proc' = Workers /\ NoNewDelete /\ \A v \in Workers : DOMAIN proc'[v] = Fields
    BY <1>15 DEF RecordSubmission
  <2>2. DOMAIN recorded' = Intents /\ KeysKept /\ UNCHANGED deletes
    BY <1>15 DEF RecordSubmission
  <2> QED
    BY <2>1, <2>2
<1>16. CASE RecordFails(w)
  BY <1>16 DEF RecordFails
<1>17. CASE MarkFailed(w)
  BY <1>17 DEF MarkFailed
<1>18. CASE MarkAmbiguous(w)
  BY <1>18 DEF MarkAmbiguous
<1>19. CASE MarkFails(w)
  BY <1>19 DEF MarkFails
<1>20. CASE LookupFinds(w)
  BY <1>20 DEF LookupFinds
<1>21. CASE LookupFails(w)
  BY <1>21 DEF LookupFails
<1>22. CASE Receipt(w)
  BY <1>22 DEF Receipt
<1>23. CASE ReceiptFails(w)
  BY <1>23 DEF ReceiptFails
<1> QED
  BY <1>1, <1>2, <1>3, <1>4, <1>5, <1>6, <1>7, <1>8, <1>9, <1>10, <1>11, <1>12, <1>13, <1>14, <1>15, <1>16, <1>17, <1>18, <1>19, <1>20, <1>21, <1>22, <1>23 DEF Submission

(* Reconciliations only add transitions. *)
LEMMA HarmlessReconciliation ==
    ASSUME NEW w \in Workers, RowShape, Reconciliation(w)
    PROVE  Harmless
<1> USE FieldNames, HarmlessGoto, HarmlessEnd
        DEF RowShape, Harmless, KeysKept, To, ledger, history
<1>1. CASE StartReconciliation(w)
  BY <1>1 DEF StartReconciliation, Listing, Idle
<1>2. CASE List(w)
  BY <1>2 DEF List, Listing
<1>3. CASE ListFails(w)
  BY <1>3 DEF ListFails
<1>4. CASE FetchFinds(w)
  BY <1>4 DEF FetchFinds
<1>5. CASE FetchAbsent(w)
  BY <1>5 DEF FetchAbsent
<1>6. CASE FetchFails(w)
  BY <1>6 DEF FetchFails, Processed
<1>7. CASE Observe(w)
  <2>1. DOMAIN proc' = Workers /\ NoNewDelete /\ \A v \in Workers : DOMAIN proc'[v] = Fields
    BY <1>7 DEF Observe, Processed
  <2>2. DOMAIN recorded' = Intents /\ KeysKept /\ UNCHANGED deletes
    BY <1>7 DEF Observe
  <2> QED
    BY <2>1, <2>2
<1>8. CASE ObserveConflict(w)
  <2>1. DOMAIN proc' = Workers /\ NoNewDelete /\ \A v \in Workers : DOMAIN proc'[v] = Fields
    BY <1>8 DEF ObserveConflict, Processed
  <2>2. DOMAIN recorded' = Intents /\ KeysKept /\ UNCHANGED deletes
    BY <1>8 DEF ObserveConflict
  <2> QED
    BY <2>1, <2>2
<1>9. CASE ObserveFails(w)
  BY <1>9 DEF ObserveFails, Processed
<1>10. CASE Settle(w)
  BY <1>10 DEF Settle, Processed
<1>11. CASE SettleNothing(w)
  BY <1>11 DEF SettleNothing, Processed
<1>12. CASE RecordAbsence(w)
  BY <1>12 DEF RecordAbsence, Processed
<1>13. CASE ConfirmAbsence(w)
  BY <1>13 DEF ConfirmAbsence, Processed
<1>14. CASE AbsenceFails(w)
  BY <1>14 DEF AbsenceFails, Processed
<1>15. CASE Sync(w)
  <2>1. DOMAIN proc' = Workers /\ NoNewDelete /\ \A v \in Workers : DOMAIN proc'[v] = Fields
    BY <1>15 DEF Sync
  <2>2. DOMAIN recorded' = Intents /\ KeysKept /\ UNCHANGED deletes
    BY <1>15 DEF Sync, ClosePositions
  <2> QED
    BY <2>1, <2>2
<1>16. CASE SyncFails(w)
  BY <1>16 DEF SyncFails
<1>17. CASE Persist(w)
  <2>1. DOMAIN proc' = Workers /\ NoNewDelete /\ \A v \in Workers : DOMAIN proc'[v] = Fields
    BY <1>17 DEF Persist
  <2>2. DOMAIN recorded' = Intents /\ KeysKept /\ UNCHANGED deletes
    BY <1>17 DEF Persist, ClosePositions
  <2> QED
    BY <2>1, <2>2
<1>18. CASE PersistFails(w)
  BY <1>18 DEF PersistFails
<1> QED
  BY <1>1, <1>2, <1>3, <1>4, <1>5, <1>6, <1>7, <1>8, <1>9, <1>10, <1>11, <1>12, <1>13, <1>14, <1>15, <1>16, <1>17, <1>18 DEF Reconciliation

(* Recoveries record no transition of an order. *)
LEMMA HarmlessRecovery ==
    ASSUME NEW w \in Workers, RowShape, Recovery(w)
    PROVE  Harmless
<1> USE FieldNames, HarmlessGoto, HarmlessEnd
        DEF RowShape, Harmless, KeysKept, To, ledger, history
<1>1. CASE StartRecovery(w)
  BY <1>1 DEF StartRecovery, Idle
<1>2. CASE LookUpStale(w)
  BY <1>2 DEF LookUpStale
<1>3. CASE ResolveStale(w)
  <2>1. DOMAIN proc' = Workers /\ NoNewDelete /\ \A v \in Workers : DOMAIN proc'[v] = Fields
    BY <1>3 DEF ResolveStale, NextStale
  <2>2. DOMAIN recorded' = Intents /\ KeysKept /\ UNCHANGED deletes
    BY <1>3 DEF ResolveStale
  <2> QED
    BY <2>1, <2>2
<1>4. CASE SkipStale(w)
  BY <1>4 DEF SkipStale, NextStale
<1>5. CASE ExpireReservations(w)
  BY <1>5 DEF ExpireReservations
<1>6. CASE ExpireReviews(w)
  BY <1>6 DEF ExpireReviews
<1>7. CASE ExpireConfirmations(w)
  BY <1>7 DEF ExpireConfirmations
<1>8. CASE CancelCreated(w)
  BY <1>8 DEF CancelCreated
<1>9. CASE RecoveryWritesNothing(w)
  BY <1>9 DEF RecoveryWritesNothing
<1>10. CASE RecoveryFails(w)
  BY <1>10 DEF RecoveryFails
<1> QED
  BY <1>1, <1>2, <1>3, <1>4, <1>5, <1>6, <1>7, <1>8, <1>9, <1>10 DEF Recovery

(* Nor does a cancellation, before its claim or after its call. *)
LEMMA HarmlessCancellation ==
    ASSUME NEW w \in Workers, RowShape, Cancellation(w),
           ~ClaimCancel(w), ~DeleteOrder(w)
    PROVE  Harmless
<1> USE FieldNames, HarmlessGoto, HarmlessEnd
        DEF RowShape, Harmless, KeysKept, To, ledger, history
<1>1. CASE StartCancellation(w)
  BY <1>1 DEF StartCancellation, Idle
<1>2. CASE LookBefore(w)
  BY <1>2 DEF LookBefore
<1>3. CASE RequestCancel(w)
  BY <1>3 DEF RequestCancel
<1>4. CASE ClaimedBefore(w)
  BY <1>4 DEF ClaimedBefore
<1>5. CASE Poll(w)
  BY <1>5 DEF Poll
<1>6. CASE CancellationFails(w)
  BY <1>6 DEF CancellationFails
<1> QED
  BY <1>1, <1>2, <1>3, <1>4, <1>5, <1>6 DEF Cancellation

-----------------------------------------------------------------------------
(* The claim and the call *)

(* The claim is inserted once, so whoever is at the call has another order. *)
LEMMA ClaimKeepsDeletes ==
    ASSUME NEW w \in Workers, DeleteInvariant, ClaimCancel(w)
    PROVE  DeleteInvariant'
<1> DEFINE i == proc[w].i
<1>1. /\ ClaimKey \notin recorded[i] /\ UNCHANGED deletes
      /\ recorded' = [recorded EXCEPT ![i] = @ \cup {ClaimKey}]
      /\ Goto(w, To(w, "delete")) \/ End(w)
  BY DEF ClaimCancel, CanClaim, history
<1>2. /\ DOMAIN To(w, "delete") = Fields
      /\ To(w, "delete").pc = "delete" /\ To(w, "delete").i = i
  BY FieldNames DEF To, DeleteInvariant, RowShape
<1>3. /\ DOMAIN proc' = Workers
      /\ DOMAIN proc'[w] = Fields
      /\ proc'[w].pc = "idle" \/ (proc'[w].pc = "delete" /\ proc'[w].i = i)
      /\ \A v \in Workers \ {w} : proc'[v] = proc[v]
  BY <1>1, <1>2, GotoStep, EndStep DEF DeleteInvariant, RowShape
<1>4. /\ DOMAIN recorded' = Intents
      /\ \A k \in Intents : recorded[k] \subseteq recorded'[k]
      /\ i \in Intents => ClaimKey \in recorded'[i]
  BY <1>1 DEF DeleteInvariant, RowShape
<1>5. i \in Intents => deletes[i] = 0
  BY <1>1 DEF DeleteInvariant, RowShape
<1>6. \A v \in Workers : proc[v].pc = "delete" /\ i \in Intents => proc[v].i # i
  BY <1>1 DEF DeleteInvariant
<1>7. UNCHANGED deletes
  BY <1>1
<1> HIDE DEF i
<1> QED
  BY <1>3, <1>4, <1>5, <1>6, <1>7 DEF DeleteInvariant, RowShape

(* The one call of cancelOrder. *)
LEMMA DeleteKeepsDeletes ==
    ASSUME NEW w \in Workers, DeleteInvariant, DeleteOrder(w)
    PROVE  DeleteInvariant'
<1> DEFINE i == proc[w].i
<1>1. /\ proc[w].pc = "delete" /\ UNCHANGED recorded
      /\ deletes' = [deletes EXCEPT ![i] = @ + 1]
      /\ Goto(w, To(w, "poll"))
  BY DEF DeleteOrder, At, ledger
<1>2. /\ DOMAIN To(w, "poll") = Fields
      /\ To(w, "poll").pc = "poll" /\ To(w, "poll").i = i
  BY FieldNames DEF To, DeleteInvariant, RowShape
<1>3. /\ DOMAIN proc' = Workers
      /\ DOMAIN proc'[w] = Fields
      /\ proc'[w].pc = "poll"
      /\ \A v \in Workers \ {w} : proc'[v] = proc[v]
  BY <1>1, <1>2, GotoStep DEF DeleteInvariant, RowShape
<1>4. i \in Intents => deletes[i] = 0 /\ ClaimKey \in recorded[i]
  BY <1>1 DEF DeleteInvariant
<1>5. /\ deletes' \in [Intents -> Nat]
      /\ i \in Intents => deletes'[i] = 1
      /\ \A k \in Intents \ {i} : deletes'[k] = deletes[k]
  <2>1. deletes \in [Intents -> Nat] /\ deletes' = [deletes EXCEPT ![i] = @ + 1]
    BY <1>1 DEF DeleteInvariant, RowShape
  <2> HIDE DEF i
  <2>2. CASE i \in Intents
    BY <1>4, <2>1, <2>2
  <2>3. CASE i \notin Intents
    BY <2>1, <2>3
  <2> QED
    BY <2>2, <2>3
<1>6. \A v \in Workers \ {w} : proc[v].pc = "delete" /\ i \in Intents => proc[v].i # i
  BY <1>1 DEF DeleteInvariant
<1>7. UNCHANGED recorded
  BY <1>1
<1> HIDE DEF i
<1> QED
  BY <1>3, <1>4, <1>5, <1>6, <1>7 DEF DeleteInvariant, RowShape

-----------------------------------------------------------------------------

(* The claim of a DELETE has one owner in every state of every run, through *)
(* crashes, lost leases and lost commits (runPostgresPaperOrderCancellation). *)
THEOREM DeleteClaimHasOneOwner == Spec => []DeleteInvariant
<1>1. Init => DeleteInvariant
  <2> SUFFICES ASSUME Init PROVE DeleteInvariant
    OBVIOUS
  <2>1. RowShape
    BY DEF Init, RowShape, Fields
  <2>2. \A w \in Workers : proc[w].pc = "idle"
    BY DEF Init, Idle
  <2>3. \A i \in Intents : deletes[i] = 0
    BY DEF Init
  <2> QED
    BY <2>1, <2>2, <2>3 DEF DeleteInvariant
<1>2. DeleteInvariant /\ [Next]_vars => DeleteInvariant'
  <2> SUFFICES ASSUME DeleteInvariant, [Next]_vars PROVE DeleteInvariant'
    OBVIOUS
  <2>1. RowShape
    BY DEF DeleteInvariant
  <2>2. CASE UNCHANGED vars
    <3>1. Harmless
      BY <2>1, <2>2 DEF Harmless, NoNewDelete, KeysKept, RowShape, vars, ledger, history
    <3> QED
      BY <3>1, HarmlessKeepsClaim
  <2>3. CASE Environment
    BY <2>1, <2>3, HarmlessEnvironment, HarmlessKeepsClaim
  <2>4. ASSUME NEW w \in Workers, WorkerStep(w) PROVE DeleteInvariant'
    <3>1. CASE Submission(w)
      BY <2>1, <3>1, HarmlessSubmission, HarmlessKeepsClaim
    <3>2. CASE Reconciliation(w)
      BY <2>1, <3>2, HarmlessReconciliation, HarmlessKeepsClaim
    <3>3. CASE Recovery(w)
      BY <2>1, <3>3, HarmlessRecovery, HarmlessKeepsClaim
    <3>4. CASE Cancellation(w)
      <4>1. CASE ~ClaimCancel(w) /\ ~DeleteOrder(w)
        BY <2>1, <3>4, <4>1, HarmlessCancellation, HarmlessKeepsClaim
      <4> QED
        BY <4>1, ClaimKeepsDeletes, DeleteKeepsDeletes
    <3> QED
      BY <2>4, <3>1, <3>2, <3>3, <3>4 DEF WorkerStep
  <2> QED
    BY <2>2, <2>3, <2>4 DEF Next
<1> QED
  BY <1>1, <1>2, PTL DEF Spec

(* cancelOrder is called at most once per order (mutationClaimed in         *)
(* runPostgresPaperOrderCancellation).                                      *)
THEOREM DeletedAtMostOnce == Spec => []AtMostOneDelete
<1>1. DeleteInvariant => AtMostOneDelete
  BY DEF DeleteInvariant, AtMostOneDelete
<1> QED
  BY <1>1, DeleteClaimHasOneOwner, PTL

-----------------------------------------------------------------------------
(* The claim and its call *)

BeforeDelete == {"before", "request", "claimCancel", "delete"}

(* Unless something failed: the workers that have their lease keep it, and  *)
(* the one that has claimed a DELETE is about to send it.                   *)
CarryInvariant ==
    /\ faults \in 0..MaxFaults
    /\ \A w \in Workers : proc[w].pc \in BeforeDelete => w \in Cancellers
    /\ faults = MaxFaults => \A w \in Workers : proc[w].fence = "held"
    /\ ClaimedIsDeleted

FaultsFall == faults' = faults \/ (faults > 0 /\ faults' = faults - 1)

(* Nobody starts a cancellation but a canceller, and nobody leaves the call *)
(* of cancelOrder or loses the lease without a fault.                       *)
Carried ==
    \A v \in Workers :
        /\ proc'[v].pc \in BeforeDelete => proc[v].pc \in BeforeDelete \/ v \in Cancellers
        /\ faults' = faults /\ proc[v].fence = "held" =>
              /\ proc'[v].fence = "held"
              /\ proc[v].pc = "delete" => proc'[v].pc = "delete" /\ proc'[v].i = proc[v].i

NoNewClaim == \A i \in Intents : ClaimKey \in recorded'[i] => ClaimKey \in recorded[i]

LEMMA CarriedOn ==
    ASSUME CarryInvariant, FaultsFall, Carried, NoNewClaim, UNCHANGED deletes
    PROVE  CarryInvariant'
<1>1. faults' \in 0..MaxFaults /\ (faults' = MaxFaults => faults = MaxFaults /\ faults' = faults)
  BY QuantitiesAssumption DEF CarryInvariant, FaultsFall
<1>2. \A w \in Workers : proc'[w].pc \in BeforeDelete => w \in Cancellers
  BY DEF CarryInvariant, Carried
<1>3. faults' = MaxFaults => \A w \in Workers : proc'[w].fence = "held"
  BY <1>1 DEF CarryInvariant, Carried
<1>4. ClaimedIsDeleted'
  <2> SUFFICES ASSUME NEW i \in Intents, ClaimKey \in recorded'[i], faults' = MaxFaults
               PROVE  \/ deletes'[i] = 1
                      \/ \E w \in Cancellers : proc'[w].pc = "delete" /\ proc'[w].i = i
    BY <1>1, QuantitiesAssumption DEF ClaimedIsDeleted, At
  <2>1. \/ deletes[i] = 1
        \/ \E w \in Cancellers : proc[w].pc = "delete" /\ proc[w].i = i
    BY <1>1, QuantitiesAssumption DEF CarryInvariant, ClaimedIsDeleted, NoNewClaim, At
  <2>2. \A w \in Cancellers : w \in Workers
    BY DEF Workers
  <2> QED
    BY <1>1, <2>1, <2>2 DEF Carried, CarryInvariant
<1> QED
  BY <1>1, <1>2, <1>3, <1>4 DEF CarryInvariant

LEMMA CarriedGoto ==
    ASSUME NEW w \in Workers, NEW p, RowShape, Goto(w, p), DOMAIN p = Fields,
           p.fence \in {"held", proc[w].fence}, proc[w].pc # "delete",
           p.pc \in BeforeDelete => w \in Cancellers \/ proc[w].pc \in BeforeDelete
    PROVE  Carried
<1>1. "fence" \in Fields
  BY FieldNames
<1>2. proc'[w].fence = IF p.fence = "lapsed" THEN "lost" ELSE p.fence
  BY <1>1 DEF Goto, RowShape
<1>3. proc'[w].pc = p.pc /\ \A v \in Workers \ {w} : proc'[v] = proc[v]
  BY GotoStep DEF RowShape
<1> QED
  BY <1>2, <1>3 DEF Carried

LEMMA CarriedEnd ==
    ASSUME NEW w \in Workers, RowShape, End(w),
           proc[w].pc = "delete" => faults' # faults \/ proc[w].fence # "held"
    PROVE  Carried
<1>1. proc'[w].pc = "idle" /\ proc'[w].fence = "held" /\ \A v \in Workers \ {w} : proc'[v] = proc[v]
  BY DEF End, Idle, RowShape
<1> QED
  BY <1>1 DEF Carried, BeforeDelete

LEMMA CarriedEnvironment ==
    ASSUME RowShape, CarryInvariant, Environment
    PROVE  CarryInvariant'
<1> USE DEF ledger, clocks, history
<1>1. UNCHANGED <<recorded, deletes>> /\ FaultsFall
  BY DEF Environment, Arrive, Fill, BrokerCancels, Lapse, Age, Crash, LoseFence, FaultsFall
<1>2. Carried
  <2>1. ASSUME NEW i \in Intents, Arrive(i) \/ Fill(i) \/ BrokerCancels(i) \/ Lapse(i) \/ Age(i)
        PROVE  Carried
    BY <2>1 DEF Arrive, Fill, BrokerCancels, Lapse, Age, Carried
  <2>2. ASSUME NEW w \in Workers, Crash(w) PROVE Carried
    <3>1. faults' # faults
      BY <2>2, QuantitiesAssumption DEF Crash, CarryInvariant
    <3> QED
      BY <2>2, <3>1, CarriedEnd DEF Crash
  <2>3. ASSUME NEW w \in Workers, LoseFence(w) PROVE Carried
    <3>1. faults' # faults
      BY <2>3, QuantitiesAssumption DEF LoseFence, CarryInvariant
    <3>2. /\ proc'[w].pc = proc[w].pc /\ proc'[w].i = proc[w].i
          /\ \A v \in Workers \ {w} : proc'[v] = proc[v]
      BY <2>3, FieldNames DEF LoseFence, RowShape
    <3> QED
      BY <3>1, <3>2 DEF Carried
  <2> QED
    BY <2>1, <2>2, <2>3 DEF Environment
<1> QED
  BY <1>1, <1>2, CarriedOn DEF NoNewClaim

(* Executors claim no DELETE. *)
LEMMA CarriedSubmission ==
    ASSUME NEW w \in Workers, RowShape, CarryInvariant, Submission(w)
    PROVE  CarryInvariant'
<1> USE DEF ledger, clocks, history
<1>1. FaultsFall /\ UNCHANGED deletes
  BY DEF Submission, StartExecution, Promote, PromoteNothing, Claim, ClaimNothing, Validate,
         ReleaseClaim, ReleaseFails, RecordAttempt, AttemptFails, SubmitOrder, PostAccepted,
         PostRefused, PostUnanswered, RecordSubmission, RecordFails, MarkFailed, MarkAmbiguous,
         MarkFails, LookupFinds, LookupFails, Receipt, ReceiptFails, Commits, Fails, CommitLost,
         FenceHeld, FaultsFall
<1>2. NoNewClaim
  BY DEF Submission, StartExecution, Promote, PromoteNothing, Claim, ClaimNothing, Validate,
         ReleaseClaim, ReleaseFails, RecordAttempt, AttemptFails, SubmitOrder, PostAccepted,
         PostRefused, PostUnanswered, RecordSubmission, RecordFails, MarkFailed, MarkAmbiguous,
         MarkFails, LookupFinds, LookupFails, Receipt, ReceiptFails, NoNewClaim
<1>3. Carried
  <2> USE FieldNames, CarriedGoto, CarriedEnd DEF RowShape, To, At, BeforeDelete
  <2>1. CASE StartExecution(w)
    BY <2>1 DEF StartExecution, Free, Idle
  <2>2. CASE Promote(w)
    BY <2>2 DEF Promote
  <2>3. CASE PromoteNothing(w)
    BY <2>3 DEF PromoteNothing
  <2>4. CASE Claim(w)
    BY <2>4 DEF Claim
  <2>5. CASE ClaimNothing(w)
    BY <2>5 DEF ClaimNothing
  <2>6. CASE Validate(w)
    BY <2>6 DEF Validate
  <2>7. CASE ReleaseClaim(w)
    BY <2>7 DEF ReleaseClaim
  <2>8. CASE ReleaseFails(w)
    BY <2>8 DEF ReleaseFails
  <2>9. CASE RecordAttempt(w)
    BY <2>9 DEF RecordAttempt
  <2>10. CASE AttemptFails(w)
    BY <2>10 DEF AttemptFails
  <2>11. CASE SubmitOrder(w)
    BY <2>11 DEF SubmitOrder
  <2>12. CASE PostAccepted(w)
    BY <2>12 DEF PostAccepted
  <2>13. CASE PostRefused(w)
    BY <2>13 DEF PostRefused
  <2>14. CASE PostUnanswered(w)
    BY <2>14 DEF PostUnanswered
  <2>15. CASE RecordSubmission(w)
    BY <2>15 DEF RecordSubmission
  <2>16. CASE RecordFails(w)
    BY <2>16 DEF RecordFails
  <2>17. CASE MarkFailed(w)
    BY <2>17 DEF MarkFailed
  <2>18. CASE MarkAmbiguous(w)
    BY <2>18 DEF MarkAmbiguous
  <2>19. CASE MarkFails(w)
    BY <2>19 DEF MarkFails
  <2>20. CASE LookupFinds(w)
    BY <2>20 DEF LookupFinds
  <2>21. CASE LookupFails(w)
    BY <2>21 DEF LookupFails
  <2>22. CASE Receipt(w)
    BY <2>22 DEF Receipt
  <2>23. CASE ReceiptFails(w)
    BY <2>23 DEF ReceiptFails
  <2> QED
    BY <2>1, <2>2, <2>3, <2>4, <2>5, <2>6, <2>7, <2>8, <2>9, <2>10, <2>11, <2>12, <2>13, <2>14,
       <2>15, <2>16, <2>17, <2>18, <2>19, <2>20, <2>21, <2>22, <2>23 DEF Submission
<1> QED
  BY <1>1, <1>2, <1>3, CarriedOn

(* The transitions of a reconciliation are numbered from one. *)
LEMMA CarriedReconciliation ==
    ASSUME NEW w \in Workers, RowShape, CarryInvariant, Reconciliation(w)
    PROVE  CarryInvariant'
<1> USE DEF ledger, clocks, history
<1>1. FaultsFall /\ UNCHANGED deletes
  BY DEF Reconciliation, StartReconciliation, List, ListFails, FetchFinds, FetchAbsent,
         FetchFails, Observe, ObserveConflict, ObserveFails, Settle, SettleNothing,
         RecordAbsence, ConfirmAbsence, AbsenceFails, Sync, SyncFails, Persist, PersistFails,
         Commits, Fails, CommitLost, FenceHeld, FaultsFall
<1>2. NoNewClaim
  <2>1. CASE Observe(w) \/ ObserveConflict(w)
    <3>1. recorded' = [recorded EXCEPT ![proc[w].cur] = @ \cup Keys(proc[w])]
      BY <2>1 DEF Observe, ObserveConflict
    <3>2. ClaimKey \notin Keys(proc[w])
      BY DEF ClaimKey, Keys
    <3> QED
      BY <3>1, <3>2 DEF NoNewClaim, RowShape
  <2>2. CASE ~(Observe(w) \/ ObserveConflict(w))
    BY <2>2 DEF Reconciliation, StartReconciliation, List, ListFails, FetchFinds, FetchAbsent,
                FetchFails, ObserveFails, Settle, SettleNothing, RecordAbsence, ConfirmAbsence,
                AbsenceFails, Sync, SyncFails, Persist, PersistFails, ClosePositions, NoNewClaim
  <2> QED
    BY <2>1, <2>2
<1>3. Carried
  <2> USE FieldNames, CarriedGoto, CarriedEnd DEF RowShape, To, At, BeforeDelete
  <2>1. CASE StartReconciliation(w)
    BY <2>1 DEF StartReconciliation, Free, Listing, Idle
  <2>2. CASE List(w)
    BY <2>2 DEF List, Listing
  <2>3. CASE ListFails(w)
    BY <2>3 DEF ListFails
  <2>4. CASE FetchFinds(w)
    BY <2>4 DEF FetchFinds
  <2>5. CASE FetchAbsent(w)
    BY <2>5 DEF FetchAbsent
  <2>6. CASE FetchFails(w)
    BY <2>6 DEF FetchFails, Processed
  <2>7. CASE Observe(w)
    BY <2>7 DEF Observe, Processed
  <2>8. CASE ObserveConflict(w)
    BY <2>8 DEF ObserveConflict, Processed
  <2>9. CASE ObserveFails(w)
    BY <2>9 DEF ObserveFails, Processed
  <2>10. CASE Settle(w)
    BY <2>10 DEF Settle, Processed
  <2>11. CASE SettleNothing(w)
    BY <2>11 DEF SettleNothing, Processed
  <2>12. CASE RecordAbsence(w)
    BY <2>12 DEF RecordAbsence, Processed
  <2>13. CASE ConfirmAbsence(w)
    BY <2>13 DEF ConfirmAbsence, Processed
  <2>14. CASE AbsenceFails(w)
    BY <2>14 DEF AbsenceFails, Processed
  <2>15. CASE Sync(w)
    BY <2>15 DEF Sync
  <2>16. CASE SyncFails(w)
    BY <2>16 DEF SyncFails
  <2>17. CASE Persist(w)
    BY <2>17 DEF Persist
  <2>18. CASE PersistFails(w)
    BY <2>18 DEF PersistFails
  <2> QED
    BY <2>1, <2>2, <2>3, <2>4, <2>5, <2>6, <2>7, <2>8, <2>9, <2>10, <2>11, <2>12, <2>13, <2>14,
       <2>15, <2>16, <2>17, <2>18 DEF Reconciliation
<1> QED
  BY <1>1, <1>2, <1>3, CarriedOn

LEMMA CarriedRecovery ==
    ASSUME NEW w \in Workers, RowShape, CarryInvariant, Recovery(w)
    PROVE  CarryInvariant'
<1> USE DEF ledger, clocks, history
<1>1. FaultsFall /\ UNCHANGED deletes
  BY DEF Recovery, StartRecovery, LookUpStale, ResolveStale, SkipStale, ExpireReservations,
         ExpireReviews, ExpireConfirmations, CancelCreated, RecoveryWritesNothing,
         RecoveryFails, Commits, Fails, CommitLost, FenceHeld, FaultsFall
<1>2. NoNewClaim
  BY DEF Recovery, StartRecovery, LookUpStale, ResolveStale, SkipStale, ExpireReservations,
         ExpireReviews, ExpireConfirmations, CancelCreated, RecoveryWritesNothing,
         RecoveryFails, NoNewClaim
<1>3. Carried
  <2> USE FieldNames, CarriedGoto, CarriedEnd DEF RowShape, To, At, BeforeDelete
  <2>1. CASE StartRecovery(w)
    BY <2>1 DEF StartRecovery, Free, Idle
  <2>2. CASE LookUpStale(w)
    BY <2>2 DEF LookUpStale
  <2>3. CASE ResolveStale(w)
    BY <2>3 DEF ResolveStale, NextStale
  <2>4. CASE SkipStale(w)
    BY <2>4 DEF SkipStale, NextStale
  <2>5. CASE ExpireReservations(w)
    BY <2>5 DEF ExpireReservations
  <2>6. CASE ExpireReviews(w)
    BY <2>6 DEF ExpireReviews
  <2>7. CASE ExpireConfirmations(w)
    BY <2>7 DEF ExpireConfirmations
  <2>8. CASE CancelCreated(w)
    BY <2>8 DEF CancelCreated
  <2>9. CASE RecoveryWritesNothing(w)
    BY <2>9 DEF RecoveryWritesNothing
  <2>10. CASE RecoveryFails(w)
    BY <2>10 DEF RecoveryFails
  <2> QED
    BY <2>1, <2>2, <2>3, <2>4, <2>5, <2>6, <2>7, <2>8, <2>9, <2>10 DEF Recovery
<1> QED
  BY <1>1, <1>2, <1>3, CarriedOn

LEMMA CarriedCancellation ==
    ASSUME NEW w \in Workers, DeleteInvariant, CarryInvariant, Cancellation(w)
    PROVE  CarryInvariant'
<1> USE DEF ledger, clocks, history
<1>1. RowShape /\ FaultsFall
  BY DEF DeleteInvariant, Cancellation, StartCancellation, LookBefore, RequestCancel, ClaimCancel,
         ClaimedBefore, DeleteOrder, Poll, CancellationFails, Commits, Fails, CommitLost,
         FenceHeld, FaultsFall
<1>2. CASE ClaimCancel(w)
  <2> DEFINE i == proc[w].i
  <2>1. /\ proc[w].pc = "claimCancel" /\ UNCHANGED deletes
        /\ recorded' = [recorded EXCEPT ![i] = @ \cup {ClaimKey}]
        /\ \/ UNCHANGED faults /\ Goto(w, To(w, "delete"))
           \/ faults > 0 /\ faults' = faults - 1 /\ End(w)
    BY <1>2 DEF ClaimCancel, At, Commits, CommitLost
  <2>2. w \in Cancellers
    BY <2>1 DEF CarryInvariant, BeforeDelete
  <2>3. Carried
    BY <1>1, <2>1, <2>2, FieldNames, CarriedGoto, CarriedEnd DEF RowShape, To
  <2>4. faults' = MaxFaults => /\ proc'[w].pc = "delete" /\ proc'[w].i = i
                               /\ faults = MaxFaults /\ faults' = faults
    <3>1. ASSUME Goto(w, To(w, "delete")) PROVE proc'[w].pc = "delete" /\ proc'[w].i = i
      BY <1>1, <3>1, GotoStep, FieldNames DEF RowShape, To
    <3> QED
      BY <2>1, <3>1, QuantitiesAssumption DEF CarryInvariant
  <2>5. \A k \in Intents \ {i} : recorded'[k] = recorded[k]
    BY <1>1, <2>1 DEF RowShape
  <2> HIDE DEF i
  <2>6. faults' \in 0..MaxFaults
    BY <2>1, QuantitiesAssumption DEF CarryInvariant
  <2>7. ClaimedIsDeleted'
    <3> SUFFICES ASSUME NEW k \in Intents, ClaimKey \in recorded'[k], faults' = MaxFaults
                 PROVE  \/ deletes'[k] = 1
                        \/ \E v \in Cancellers : proc'[v].pc = "delete" /\ proc'[v].i = k
      BY <2>6, QuantitiesAssumption DEF ClaimedIsDeleted, At
    <3>1. CASE k = i
      BY <2>2, <2>4, <3>1
    <3>2. CASE k # i
      <4>1. \/ deletes[k] = 1
            \/ \E v \in Cancellers : proc[v].pc = "delete" /\ proc[v].i = k
        BY <2>4, <2>5, <3>2, QuantitiesAssumption DEF CarryInvariant, ClaimedIsDeleted, At
      <4>2. \A v \in Cancellers : v \in Workers
        BY DEF Workers
      <4> QED
        BY <2>1, <2>3, <2>4, <4>1, <4>2 DEF Carried, CarryInvariant
    <3> QED
      BY <3>1, <3>2
  <2>8. \A v \in Workers : proc'[v].pc \in BeforeDelete => v \in Cancellers
    BY <2>3 DEF Carried, CarryInvariant
  <2>9. faults' = MaxFaults => \A v \in Workers : proc'[v].fence = "held"
    BY <2>3, <2>4 DEF Carried, CarryInvariant
  <2> QED
    BY <2>6, <2>7, <2>8, <2>9 DEF CarryInvariant
<1>3. CASE DeleteOrder(w)
  <2> DEFINE i == proc[w].i
  <2>1. /\ proc[w].pc = "delete" /\ proc[w].fence = "held" /\ UNCHANGED <<recorded, faults>>
        /\ deletes' = [deletes EXCEPT ![i] = @ + 1]
        /\ Goto(w, To(w, "poll"))
    BY <1>3 DEF DeleteOrder, At, FenceHeld
  <2>2. /\ DOMAIN To(w, "poll") = Fields /\ To(w, "poll").pc = "poll"
        /\ To(w, "poll").fence = proc[w].fence
    BY <1>1, FieldNames DEF RowShape, To
  <2>3. /\ proc'[w].pc = "poll" /\ proc'[w].fence = "held"
        /\ \A v \in Workers \ {w} : proc'[v] = proc[v]
    <3>1. proc'[w].fence = IF To(w, "poll").fence = "lapsed" THEN "lost" ELSE To(w, "poll").fence
      BY <1>1, <2>1, <2>2, FieldNames DEF Goto, RowShape
    <3> QED
      BY <1>1, <2>1, <2>2, <3>1, GotoStep DEF RowShape
  <2> HIDE DEF i
  <2>4. /\ i \in Intents => deletes'[i] = 1
        /\ \A k \in Intents \ {i} : deletes'[k] = deletes[k]
    <3>1. i \in Intents => deletes[i] = 0
      BY <2>1 DEF DeleteInvariant, i
    <3> QED
      BY <1>1, <2>1, <3>1 DEF RowShape
  <2>5. ClaimedIsDeleted'
    <3> SUFFICES ASSUME NEW k \in Intents, ClaimKey \in recorded'[k], ~(faults' < MaxFaults)
                 PROVE  \/ deletes'[k] = 1
                        \/ \E v \in Cancellers : proc'[v].pc = "delete" /\ proc'[v].i = k
      BY DEF ClaimedIsDeleted, At
    <3>1. CASE k = i
      BY <2>4, <3>1
    <3>2. CASE k # i
      <4>1. \/ deletes[k] = 1
            \/ \E v \in Cancellers : proc[v].pc = "delete" /\ proc[v].i = k
        BY <2>1 DEF CarryInvariant, ClaimedIsDeleted, At
      <4> QED
        BY <2>3, <2>4, <3>2, <4>1 DEF Workers, i
    <3> QED
      BY <3>1, <3>2
  <2> QED
    BY <2>1, <2>3, <2>5 DEF CarryInvariant, BeforeDelete
<1>4. CASE ~ClaimCancel(w) /\ ~DeleteOrder(w)
  <2>1. NoNewClaim /\ UNCHANGED deletes
    <3>1. CASE RequestCancel(w)
      <4>1. /\ recorded' = [recorded EXCEPT ![proc[w].i] = @ \cup {RequestKey}]
            /\ UNCHANGED deletes
        BY <3>1 DEF RequestCancel
      <4>2. RequestKey # ClaimKey
        BY DEF RequestKey, ClaimKey
      <4> QED
        BY <1>1, <4>1, <4>2 DEF NoNewClaim, RowShape
    <3>2. CASE ~RequestCancel(w)
      BY <1>4, <3>2 DEF Cancellation, StartCancellation, LookBefore, ClaimedBefore, Poll,
                        CancellationFails, NoNewClaim
    <3> QED
      BY <3>1, <3>2
  <2>2. Carried
    <3> USE <1>1, FieldNames, CarriedGoto, CarriedEnd DEF RowShape, To, At, BeforeDelete
    <3>1. CASE StartCancellation(w)
      BY <3>1 DEF StartCancellation, Free, Idle
    <3>2. CASE LookBefore(w)
      BY <3>2 DEF LookBefore
    <3>3. CASE RequestCancel(w)
      BY <3>3 DEF RequestCancel
    <3>4. CASE ClaimedBefore(w)
      BY <3>4 DEF ClaimedBefore
    <3>5. CASE Poll(w)
      BY <3>5 DEF Poll
    <3>6. CASE CancellationFails(w)
      <4>1. End(w) /\ (proc[w].pc = "delete" => Fails(w))
        BY <3>6 DEF CancellationFails
      <4>2. Fails(w) => faults' # faults \/ proc[w].fence # "held"
        BY QuantitiesAssumption DEF Fails, CarryInvariant
      <4> QED
        BY <4>1, <4>2
    <3> QED
      BY <1>4, <3>1, <3>2, <3>3, <3>4, <3>5, <3>6 DEF Cancellation
  <2> QED
    BY <1>1, <2>1, <2>2, CarriedOn
<1> QED
  BY <1>2, <1>3, <1>4

(* Whoever claims the DELETE of an order also sends it: no interleaving of  *)
(* cancellations, and nothing but a crash, a lost lease or a failed call,   *)
(* leaves an order that is recorded as being cancelled and never is         *)
(* (runPostgresPaperOrderCancellation).                                     *)
THEOREM ClaimsAreCarriedOut == Spec => []ClaimedIsDeleted
<1>1. Init => CarryInvariant
  <2> SUFFICES ASSUME Init PROVE CarryInvariant
    OBVIOUS
  <2>1. \A w \in Workers : proc[w].pc = "idle" /\ proc[w].fence = "held"
    BY DEF Init, Idle
  <2>2. faults \in 0..MaxFaults
    BY QuantitiesAssumption DEF Init
  <2>3. ClaimedIsDeleted
    BY DEF Init, ClaimedIsDeleted
  <2> QED
    BY <2>1, <2>2, <2>3 DEF CarryInvariant, BeforeDelete
<1>2. DeleteInvariant /\ CarryInvariant /\ [Next]_vars => CarryInvariant'
  <2> SUFFICES ASSUME DeleteInvariant, CarryInvariant, [Next]_vars PROVE CarryInvariant'
    OBVIOUS
  <2>1. RowShape
    BY DEF DeleteInvariant
  <2>2. CASE UNCHANGED vars
    BY <2>2, CarriedOn DEF vars, ledger, history, FaultsFall, Carried, NoNewClaim
  <2>3. CASE Environment
    BY <2>1, <2>3, CarriedEnvironment
  <2>4. ASSUME NEW w \in Workers, WorkerStep(w) PROVE CarryInvariant'
    BY <2>1, <2>4, CarriedSubmission, CarriedReconciliation, CarriedRecovery, CarriedCancellation
       DEF WorkerStep
  <2> QED
    BY <2>2, <2>3, <2>4 DEF Next
<1>3. CarryInvariant => ClaimedIsDeleted
  BY DEF CarryInvariant
<1> QED
  BY <1>1, <1>2, <1>3, DeleteClaimHasOneOwner, PTL DEF Spec

-----------------------------------------------------------------------------
(* What the ledger says of an order and what becomes of it *)

Known == {"new", "partially_filled", "filled", "canceled"}

(* A report r of an order agrees with the order b at the broker: the broker *)
(* has the order, and an end that was reported is its end.                  *)
Agrees(r, b) ==
    /\ r.status \in Known /\ b.status \in Known /\ r.filled \in 0..Qty
    /\ r.status \in TerminalBrokerStatuses => b.status = r.status

(* The broker forgets no order and revives none. *)
Later(b, c) ==
    /\ b.status \in Known => c.status \in Known
    /\ b.status \in TerminalBrokerStatuses => c.status = b.status

LEMMA AgreesStays ==
    ASSUME NEW r, NEW b, NEW c, Agrees(r, b), Later(b, c)
    PROVE  Agrees(r, c)
BY DEF Agrees, Later

CancelPcs == {"before", "request", "claimCancel", "delete", "poll"}
Listed == {"next", "observe", "settle", "absence"}
Stales == {"stale", "staleWrite"}

(* The reports in the hands of a worker with record p agree with the orders *)
(* b of the broker.                                                         *)
HoldsTrueReports(p, b) ==
    /\ p.resp # NoOrder => p.i \in Intents /\ Agrees(p.resp, b[p.i])
    /\ p.pc = "observe" => p.cur \in Intents /\ Agrees(p.got, b[p.cur])
    /\ p.pc \in CancelPcs => p.i \in Intents /\ b[p.i].status \in Known
    /\ p.pc \in Listed \cup Stales => p.todo \subseteq Intents
    /\ p.pc \in {"settle", "absence", "staleWrite"} => p.cur \in Intents
    /\ p.pc \in {"post", "lookup", "list"} => p.i \in Intents
    /\ p.pc \in {"persist", "promote", "claim"} => p.resp = NoOrder
    /\ p.pc = "record" => p.resp # NoOrder

BrokerShape ==
    /\ DOMAIN broker = Intents
    /\ \A i \in Intents :
          /\ DOMAIN broker[i] = {"status", "filled"}
          /\ broker[i].status \in Known \cup {"none", "inflight"}
          /\ broker[i].filled \in 0..Qty

ReportInvariant ==
    /\ BrokerShape /\ DOMAIN order = Intents
    /\ \A i \in Intents : order[i] # NoOrder => Agrees(order[i], broker[i])
    /\ \A w \in Workers : HoldsTrueReports(proc[w], broker)

-----------------------------------------------------------------------------
(* Steps that keep the reports true *)

LEMMA TrueReportsStay ==
    ASSUME NEW p, HoldsTrueReports(p, broker),
           \A i \in Intents : Later(broker[i], broker'[i])
    PROVE  HoldsTrueReports(p, broker')
BY AgreesStays DEF HoldsTrueReports, Later

LEMMA TrueStep ==
    ASSUME ReportInvariant, BrokerShape', DOMAIN order' = Intents,
           \A i \in Intents : Later(broker[i], broker'[i]),
           \A i \in Intents : order'[i] \in {NoOrder, order[i]} \/ Agrees(order'[i], broker'[i]),
           \A v \in Workers : proc'[v] = proc[v] \/ HoldsTrueReports(proc'[v], broker')
    PROVE  ReportInvariant'
<1>1. \A i \in Intents : order'[i] # NoOrder => Agrees(order'[i], broker'[i])
  BY AgreesStays DEF ReportInvariant
<1>2. \A v \in Workers : HoldsTrueReports(proc'[v], broker')
  BY TrueReportsStay DEF ReportInvariant
<1> QED
  BY <1>1, <1>2 DEF ReportInvariant

LEMMA TrueStepAtRest ==
    ASSUME ReportInvariant, UNCHANGED <<broker, order>>,
           \A v \in Workers : proc'[v] = proc[v] \/ HoldsTrueReports(proc'[v], broker)
    PROVE  ReportInvariant'
BY TrueStep DEF ReportInvariant, BrokerShape, Later

(* All fields of the record of w but its fence. *)
LEMMA MoveStep ==
    ASSUME NEW w \in Workers, NEW p, DOMAIN proc = Workers, Goto(w, p),
           DOMAIN p = Fields
    PROVE  /\ proc'[w].pc = p.pc /\ proc'[w].i = p.i /\ proc'[w].cur = p.cur
           /\ proc'[w].seen = p.seen /\ proc'[w].todo = p.todo /\ proc'[w].snap = p.snap
           /\ proc'[w].resp = p.resp /\ proc'[w].got = p.got /\ proc'[w].left = p.left
           /\ \A v \in Workers \ {w} : proc'[v] = proc[v]
<1>1. {"pc", "i", "cur", "seen", "todo", "snap", "resp", "got", "left", "fence"} \subseteq Fields
  BY FieldNames
<1> QED
  BY <1>1 DEF Goto

LEMMA ToRecord ==
    ASSUME NEW w \in Workers, NEW pc, DOMAIN proc[w] = Fields
    PROVE  LET p == To(w, pc) IN
           /\ DOMAIN p = Fields
           /\ p.pc = pc /\ p.i = proc[w].i /\ p.cur = proc[w].cur
           /\ p.seen = proc[w].seen /\ p.todo = proc[w].todo /\ p.snap = proc[w].snap
           /\ p.resp = proc[w].resp /\ p.got = proc[w].got /\ p.left = proc[w].left
BY FieldNames DEF To

LEMMA TrueGoto ==
    ASSUME NEW w \in Workers, NEW p, Shape, Goto(w, p), DOMAIN p = Fields,
           NEW b, HoldsTrueReports(p, b)
    PROVE  \A v \in Workers : proc'[v] = proc[v] \/ HoldsTrueReports(proc'[v], b)
BY MoveStep DEF HoldsTrueReports, Shape

LEMMA TrueEnd ==
    ASSUME NEW w \in Workers, Shape, End(w), NEW b
    PROVE  \A v \in Workers : proc'[v] = proc[v] \/ HoldsTrueReports(proc'[v], b)
<1>1. proc'[w] = Idle /\ \A v \in Workers \ {w} : proc'[v] = proc[v]
  BY DEF End, Shape
<1>2. HoldsTrueReports(Idle, b)
  BY DEF HoldsTrueReports, Idle, CancelPcs, Listed, Stales
<1> QED
  BY <1>1, <1>2

(* Steps of one worker that leave the orders alone. *)
LEMMA ReportGoto ==
    ASSUME NEW w \in Workers, NEW p, Shape, ReportInvariant, Goto(w, p), DOMAIN p = Fields,
           HoldsTrueReports(p, broker), UNCHANGED <<broker, order>>
    PROVE  ReportInvariant'
BY TrueGoto, TrueStepAtRest

LEMMA ReportEnd ==
    ASSUME NEW w \in Workers, Shape, ReportInvariant, End(w), UNCHANGED <<broker, order>>
    PROVE  ReportInvariant'
BY TrueEnd, TrueStepAtRest

(* A worker that moves on to a point where it keeps no more reports. *)
Plain == {"claimed", "attempt", "release", "submit", "markFailed", "markAmbiguous",
          "receipt", "sync", "reservations", "reviews", "confirmations", "createdIntents"}

LEMMA ReportTo ==
    ASSUME NEW w \in Workers, NEW pc \in Plain, Shape, ReportInvariant, Goto(w, To(w, pc)),
           UNCHANGED <<broker, order>>
    PROVE  ReportInvariant'
<1>1. DOMAIN To(w, pc) = Fields /\ HoldsTrueReports(To(w, pc), broker)
  BY ToRecord DEF Shape, ReportInvariant, HoldsTrueReports, Plain, CancelPcs, Listed, Stales
<1> QED
  BY <1>1, ReportGoto

-----------------------------------------------------------------------------
(* The reports stay true *)

LEMMA ReportEnvironment ==
    ASSUME ClaimInvariant, ReportInvariant, Environment
    PROVE  ReportInvariant'
<1> USE DEF ledger, clocks, history
<1>1. ASSUME NEW i \in Intents, Arrive(i) \/ Fill(i) \/ BrokerCancels(i) PROVE ReportInvariant'
  <2>1. UNCHANGED <<order, proc>>
    BY <1>1 DEF Arrive, Fill, BrokerCancels
  <2>2. BrokerShape' /\ \A j \in Intents : Later(broker[j], broker'[j])
    BY <1>1 DEF Arrive, Fill, BrokerCancels, ReportInvariant, BrokerShape, Later, Known,
                Working, TerminalBrokerStatuses
  <2> QED
    BY <2>1, <2>2, TrueStep DEF ReportInvariant
<1>2. ASSUME NEW i \in Intents, Lapse(i) \/ Age(i) PROVE ReportInvariant'
  BY <1>2, TrueStepAtRest DEF Lapse, Age
<1>3. ASSUME NEW w \in Workers, Crash(w) PROVE ReportInvariant'
  BY <1>3, ReportEnd DEF Crash, ClaimInvariant
<1>4. ASSUME NEW w \in Workers, LoseFence(w) PROVE ReportInvariant'
  <2>1. /\ proc'[w].pc = proc[w].pc /\ proc'[w].i = proc[w].i /\ proc'[w].cur = proc[w].cur
        /\ proc'[w].todo = proc[w].todo /\ proc'[w].resp = proc[w].resp
        /\ proc'[w].got = proc[w].got
        /\ \A v \in Workers \ {w} : proc'[v] = proc[v]
    BY <1>4, FieldNames DEF LoseFence, ClaimInvariant, Shape
  <2>2. HoldsTrueReports(proc'[w], broker)
    BY <2>1 DEF HoldsTrueReports, ReportInvariant
  <2> QED
    BY <1>4, <2>1, <2>2, TrueStepAtRest DEF LoseFence
<1> QED
  BY <1>1, <1>2, <1>3, <1>4 DEF Environment

(* The answers to a POST are the only reports an executor gets while it has *)
(* a claim.                                                                 *)
LEMMA ReportPost ==
    ASSUME NEW w \in Workers, ClaimInvariant, ReportInvariant,
           PostAccepted(w) \/ PostUnanswered(w)
    PROVE  ReportInvariant'
<1> DEFINE i == proc[w].i
<1>1. proc[w].pc = "post" /\ i \in Intents /\ UNCHANGED order
  BY DEF PostAccepted, PostUnanswered, At, ClaimInvariant, Claiming, ledger
<1>2. BrokerShape' /\ DOMAIN order' = Intents /\ \A j \in Intents : Later(broker[j], broker'[j])
  BY <1>1, QuantitiesAssumption
     DEF PostAccepted, PostUnanswered, Visible, ReportInvariant, BrokerShape, Later, Known,
         TerminalBrokerStatuses
<1>3. CASE PostAccepted(w)
  <2>1. PICK r \in {[status |-> "new", filled |-> 0], [status |-> "filled", filled |-> Qty],
                    [status |-> "canceled", filled |-> 0]} :
            /\ broker' = [broker EXCEPT ![i] = r]
            /\ Goto(w, [To(w, "record") EXCEPT !.resp = r, !.left = 0])
    BY <1>3 DEF PostAccepted
  <2> DEFINE p == [To(w, "record") EXCEPT !.resp = r, !.left = 0]
  <2>2. DOMAIN p = Fields /\ p.pc = "record" /\ p.i = i /\ p.resp = r
    BY FieldNames DEF To, ClaimInvariant, Shape
  <2>3. Agrees(r, broker'[i])
    BY <1>1, <2>1, QuantitiesAssumption DEF Agrees, Known, ReportInvariant, BrokerShape
  <2>4. Goto(w, p)
    BY <2>1
  <2> HIDE DEF p
  <2>5. HoldsTrueReports(p, broker')
    BY <1>1, <2>2, <2>3 DEF HoldsTrueReports, CancelPcs, Listed, Stales, NoOrder
  <2> QED
    BY <1>1, <1>2, <2>2, <2>4, <2>5, TrueGoto, TrueStep DEF ClaimInvariant
<1>4. CASE PostUnanswered(w)
  <2>1. PICK p : /\ p \in {[proc[w] EXCEPT !.left = @ - 1],
                           [To(w, "markAmbiguous") EXCEPT !.left = 0]}
                 /\ Goto(w, p)
    BY <1>4 DEF PostUnanswered
  <2>2. DOMAIN p = Fields /\ p.pc \in {"post", "markAmbiguous"} /\ p.i = i /\ p.resp = proc[w].resp
    BY <1>1, <2>1, FieldNames DEF To, ClaimInvariant, Shape
  <2>3. HoldsTrueReports(p, broker)
    BY <1>1, <2>2 DEF HoldsTrueReports, ReportInvariant, CancelPcs, Listed, Stales
  <2>4. HoldsTrueReports(p, broker')
    BY <1>2, <2>3, TrueReportsStay
  <2> QED
    BY <1>1, <1>2, <2>1, <2>2, <2>4, TrueGoto, TrueStep DEF ClaimInvariant
<1> QED
  BY <1>3, <1>4

LEMMA ReportSubmission ==
    ASSUME NEW w \in Workers, ClaimInvariant, ReportInvariant, Submission(w)
    PROVE  ReportInvariant'
<1> USE DEF ledger, clocks, history
<1>1. Shape /\ DOMAIN proc[w] = Fields /\ HoldsTrueReports(proc[w], broker)
  BY DEF ClaimInvariant, Shape, ReportInvariant
<1>2. ASSUME End(w), UNCHANGED <<broker, order>> PROVE ReportInvariant'
  BY <1>1, <1>2, ReportEnd
<1>3. ASSUME NEW pc \in Plain, Goto(w, To(w, pc)), UNCHANGED <<broker, order>> PROVE ReportInvariant'
  BY <1>1, <1>3, ReportTo
<1>4. CASE StartExecution(w)
  <2>1. PICK fresh, ready : Goto(w, [Idle EXCEPT !.pc = "persist", !.seen = fresh, !.todo = ready])
    BY <1>4 DEF StartExecution
  <2> DEFINE p == [Idle EXCEPT !.pc = "persist", !.seen = fresh, !.todo = ready]
  <2>2. DOMAIN p = Fields /\ HoldsTrueReports(p, broker)
    BY FieldNames DEF HoldsTrueReports, Idle, CancelPcs, Listed, Stales
  <2>3. Goto(w, p)
    BY <2>1
  <2> HIDE DEF p
  <2> QED
    BY <1>1, <1>4, <2>2, <2>3, ReportGoto DEF StartExecution
<1>5. CASE Promote(w)
  <2>1. UNCHANGED <<broker, order>> /\ (End(w) \/ Goto(w, To(w, "claim"))) /\ proc[w].pc = "promote"
    BY <1>5 DEF Promote, At
  <2>2. DOMAIN To(w, "claim") = Fields /\ HoldsTrueReports(To(w, "claim"), broker)
    BY <1>1, <2>1, ToRecord DEF HoldsTrueReports, CancelPcs, Listed, Stales
  <2> QED
    BY <1>1, <1>2, <2>1, <2>2, ReportGoto
<1>6. CASE Claim(w)
  <2>1. PICK i \in Scope(w) : Goto(w, [To(w, "claimed") EXCEPT !.i = i, !.todo = {}]) \/ End(w)
    BY <1>6 DEF Claim
  <2> DEFINE p == [To(w, "claimed") EXCEPT !.i = i, !.todo = {}]
  <2>2. DOMAIN p = Fields /\ p.pc = "claimed" /\ p.resp = proc[w].resp
    BY <1>1, FieldNames DEF To
  <2>3. proc[w].pc = "claim" /\ UNCHANGED <<broker, order>>
    BY <1>6 DEF Claim, At
  <2>4. Goto(w, p) \/ End(w)
    BY <2>1
  <2> HIDE DEF p
  <2>5. HoldsTrueReports(p, broker)
    BY <1>1, <2>2, <2>3 DEF HoldsTrueReports, CancelPcs, Listed, Stales
  <2> QED
    BY <1>1, <1>2, <2>2, <2>3, <2>4, <2>5, ReportGoto
<1>7. CASE SubmitOrder(w)
  <2> DEFINE p == [To(w, "post") EXCEPT !.left = MaxRetries]
  <2>1. DOMAIN p = Fields /\ p.pc = "post" /\ p.i = proc[w].i /\ p.resp = proc[w].resp
    BY <1>1, FieldNames DEF To
  <2>2. Goto(w, p) /\ UNCHANGED <<broker, order>> /\ proc[w].i \in Intents
    BY <1>7 DEF SubmitOrder, At, ClaimInvariant, Claiming
  <2> HIDE DEF p
  <2>3. HoldsTrueReports(p, broker)
    BY <1>1, <2>1, <2>2 DEF HoldsTrueReports, CancelPcs, Listed, Stales
  <2> QED
    BY <1>1, <2>1, <2>2, <2>3, ReportGoto
<1>8. CASE PostRefused(w)
  <2> DEFINE p == [To(w, "markFailed") EXCEPT !.left = 0]
  <2>1. DOMAIN p = Fields /\ p.pc = "markFailed" /\ p.i = proc[w].i /\ p.resp = proc[w].resp
    BY <1>1, FieldNames DEF To
  <2>2. Goto(w, p) /\ UNCHANGED <<broker, order>>
    BY <1>8 DEF PostRefused
  <2> HIDE DEF p
  <2>3. HoldsTrueReports(p, broker)
    BY <1>1, <2>1 DEF HoldsTrueReports, CancelPcs, Listed, Stales
  <2> QED
    BY <1>1, <2>1, <2>2, <2>3, ReportGoto
<1>9. CASE RecordSubmission(w)
  <2> DEFINE i == proc[w].i
             r == proc[w].resp
  <2>1. /\ i \in Intents /\ order' = [order EXCEPT ![i] = r] /\ UNCHANGED broker
        /\ End(w) \/ Goto(w, To(w, "markAmbiguous"))
    BY <1>9 DEF RecordSubmission, At, ClaimInvariant, Claiming
  <2>2. \A v \in Workers : proc'[v] = proc[v] \/ HoldsTrueReports(proc'[v], broker)
    <3>1. DOMAIN To(w, "markAmbiguous") = Fields /\ HoldsTrueReports(To(w, "markAmbiguous"), broker)
      BY <1>1, ToRecord DEF HoldsTrueReports, CancelPcs, Listed, Stales
    <3> QED
      BY <1>1, <2>1, <3>1, TrueGoto, TrueEnd
  <2>3. \A j \in Intents : order'[j] \in {NoOrder, order[j]} \/ Agrees(order'[j], broker'[j])
    BY <1>1, <2>1 DEF ReportInvariant, HoldsTrueReports
  <2> QED
    BY <2>1, <2>2, <2>3, TrueStep DEF ReportInvariant, BrokerShape, Later
<1>10. CASE MarkAmbiguous(w)
  <2> DEFINE p == [To(w, "lookup") EXCEPT !.resp = NoOrder]
  <2>1. DOMAIN p = Fields /\ p.pc = "lookup" /\ p.i = proc[w].i /\ p.resp = NoOrder
    BY <1>1, FieldNames DEF To
  <2>2. (Goto(w, p) \/ End(w)) /\ UNCHANGED <<broker, order>> /\ proc[w].i \in Intents
    BY <1>10 DEF MarkAmbiguous, At, ClaimInvariant, Claiming
  <2> HIDE DEF p
  <2>3. HoldsTrueReports(p, broker)
    BY <1>1, <2>1, <2>2 DEF HoldsTrueReports, CancelPcs, Listed, Stales
  <2> QED
    BY <1>1, <1>2, <2>1, <2>2, <2>3, ReportGoto
<1>11. CASE LookupFinds(w)
  <2> DEFINE i == proc[w].i
             p == [To(w, "list") EXCEPT !.resp = broker[i]]
  <2>1. DOMAIN p = Fields /\ p.pc = "list" /\ p.i = i /\ p.resp = broker[i]
    BY <1>1, FieldNames DEF To
  <2>2. /\ Goto(w, p) /\ UNCHANGED <<broker, order>> /\ i \in Intents
        /\ broker[i].status \in Known
    BY <1>1, <1>11 DEF LookupFinds, At, HoldsTrueReports, Visible, ReportInvariant, BrokerShape
  <2> HIDE DEF p
  <2>3. HoldsTrueReports(p, broker)
    BY <2>1, <2>2 DEF HoldsTrueReports, CancelPcs, Listed, Stales, Agrees, ReportInvariant, BrokerShape
  <2> QED
    BY <1>1, <2>1, <2>2, <2>3, ReportGoto
<1>12. CASE PromoteNothing(w) \/ ClaimNothing(w) \/ ReleaseClaim(w) \/ ReleaseFails(w)
            \/ MarkFailed(w) \/ MarkFails(w) \/ LookupFails(w) \/ Receipt(w) \/ ReceiptFails(w)
  BY <1>2, <1>12 DEF PromoteNothing, ClaimNothing, ReleaseClaim, ReleaseFails, MarkFailed,
                     MarkFails, LookupFails, Receipt, ReceiptFails
<1>13. CASE Validate(w) \/ RecordAttempt(w) \/ AttemptFails(w) \/ RecordFails(w)
  BY <1>3, <1>13 DEF Validate, RecordAttempt, AttemptFails, RecordFails, Plain
<1> QED
  BY <1>4, <1>5, <1>6, <1>7, <1>8, <1>9, <1>10, <1>11, <1>12, <1>13, ReportPost DEF Submission

(* The record of a worker that has done with a target. *)
LEMMA ProcessedRecord ==
    ASSUME NEW w \in Workers, NEW j, NEW failed, DOMAIN proc[w] = Fields
    PROVE  LET p == Processed(w, j, failed) IN
           /\ DOMAIN p = Fields
           /\ p.pc \in {"sync", "next"} /\ p.i = proc[w].i /\ p.cur = NoIntent
           /\ p.seen = proc[w].seen /\ p.todo = proc[w].todo \ {j}
           /\ p.resp = proc[w].resp /\ p.got = NoOrder
BY FieldNames DEF Processed

LEMMA ReportProcessed ==
    ASSUME NEW w \in Workers, NEW j, NEW failed, Shape, ReportInvariant, proc[w].pc \in Listed
    PROVE  /\ DOMAIN Processed(w, j, failed) = Fields
           /\ HoldsTrueReports(Processed(w, j, failed), broker)
BY ProcessedRecord DEF Shape, ReportInvariant, HoldsTrueReports, Listed, CancelPcs

LEMMA ReportDone ==
    ASSUME NEW w \in Workers, NEW j, NEW failed, Shape, ReportInvariant, proc[w].pc \in Listed,
           Goto(w, Processed(w, j, failed)), UNCHANGED <<broker, order>>
    PROVE  ReportInvariant'
BY ReportProcessed, ReportGoto

LEMMA ListingRecord ==
    ASSUME NEW p, NEW scope, DOMAIN p = Fields
    PROVE  LET q == Listing(p, scope) IN
           /\ DOMAIN q = Fields
           /\ q.pc \in {"sync", "next"} /\ q.i = p.i /\ q.cur = p.cur
           /\ q.seen = aged /\ q.todo \subseteq scope /\ q.resp = p.resp /\ q.got = p.got
BY FieldNames DEF Listing

LEMMA ReportReconciliation ==
    ASSUME NEW w \in Workers, ClaimInvariant, ReportInvariant, Reconciliation(w)
    PROVE  ReportInvariant'
<1> USE DEF ledger, clocks, history
<1>1. Shape /\ DOMAIN proc[w] = Fields /\ HoldsTrueReports(proc[w], broker)
  BY DEF ClaimInvariant, Shape, ReportInvariant
<1>2. ASSUME End(w), UNCHANGED <<broker, order>> PROVE ReportInvariant'
  BY <1>1, <1>2, ReportEnd
<1>3. ASSUME NEW j, NEW failed, proc[w].pc \in Listed, Goto(w, Processed(w, j, failed)),
             UNCHANGED <<broker, order>>
      PROVE  ReportInvariant'
  BY <1>1, <1>3, ReportDone
<1>4. CASE StartReconciliation(w)
  <2> DEFINE p == Listing(Idle, Intents)
  <2>1. Goto(w, p) /\ UNCHANGED <<broker, order>>
    BY <1>4 DEF StartReconciliation
  <2>2. /\ DOMAIN p = Fields /\ p.pc \in {"sync", "next"} /\ p.todo \subseteq Intents
        /\ p.resp = NoOrder
    BY ListingRecord DEF Fields, Idle
  <2> HIDE DEF p
  <2>3. HoldsTrueReports(p, broker)
    BY <2>2 DEF HoldsTrueReports, Listed, CancelPcs
  <2> QED
    BY <1>1, <2>1, <2>2, <2>3, ReportGoto
<1>5. CASE List(w)
  <2>1. proc[w].pc = "list" /\ proc[w].i \in Intents /\ UNCHANGED <<broker, order>>
    BY <1>1, <1>5 DEF List, At, HoldsTrueReports
  <2>2. PICK p : /\ Goto(w, p)
                 /\ \/ p = Listing(proc[w], Intents)
                    \/ p = [Listing(proc[w], {proc[w].i}) EXCEPT !.err = ~Target(proc[w].i)]
    BY <1>5 DEF List
  <2>3. /\ DOMAIN p = Fields /\ p.pc \in {"sync", "next"} /\ p.todo \subseteq Intents
        /\ p.resp = proc[w].resp /\ p.i = proc[w].i
    <3>1. CASE p = Listing(proc[w], Intents)
      BY <1>1, <3>1, ListingRecord
    <3>2. CASE p = [Listing(proc[w], {proc[w].i}) EXCEPT !.err = ~Target(proc[w].i)]
      <4> DEFINE q == Listing(proc[w], {proc[w].i})
      <4>1. /\ DOMAIN q = Fields /\ q.pc \in {"sync", "next"} /\ q.todo \subseteq {proc[w].i}
            /\ q.resp = proc[w].resp /\ q.i = proc[w].i
        BY <1>1, ListingRecord
      <4>2. p = [q EXCEPT !.err = ~Target(proc[w].i)]
        BY <3>2
      <4> HIDE DEF q
      <4> QED
        BY <2>1, <4>1, <4>2, FieldNames
    <3> QED
      BY <2>2, <3>1, <3>2
  <2>4. HoldsTrueReports(p, broker)
    BY <1>1, <2>3 DEF HoldsTrueReports, Listed, CancelPcs
  <2> QED
    BY <1>1, <2>1, <2>2, <2>3, <2>4, ReportGoto
<1>6. CASE FetchFinds(w)
  <2>1. PICK j \in proc[w].todo :
            /\ Own(w, j) \/ Visible(j)
            /\ Goto(w, [To(w, "observe") EXCEPT !.cur = j,
                           !.got = IF Own(w, j) THEN proc[w].resp ELSE broker[j]])
    BY <1>6 DEF FetchFinds
  <2> DEFINE g == IF Own(w, j) THEN proc[w].resp ELSE broker[j]
             p == [To(w, "observe") EXCEPT !.cur = j, !.got = g]
  <2>2. proc[w].pc = "next" /\ UNCHANGED <<broker, order>> /\ proc[w].todo \subseteq Intents
    BY <1>1, <1>6 DEF FetchFinds, At, HoldsTrueReports, Listed
  <2>3. Agrees(g, broker[j])
    <3>1. CASE Own(w, j)
      BY <1>1, <3>1 DEF Own, HoldsTrueReports
    <3>2. CASE ~Own(w, j)
      BY <2>1, <2>2, <3>2 DEF Visible, Agrees, ReportInvariant, BrokerShape
    <3> QED
      BY <3>1, <3>2
  <2>4. Goto(w, p)
    BY <2>1
  <2> HIDE DEF g
  <2>5. /\ DOMAIN p = Fields /\ p.pc = "observe" /\ p.i = proc[w].i /\ p.cur = j /\ p.got = g
        /\ p.resp = proc[w].resp /\ p.todo = proc[w].todo
    BY <1>1, FieldNames DEF To
  <2> HIDE DEF p
  <2>6. HoldsTrueReports(p, broker)
    BY <1>1, <2>2, <2>3, <2>5 DEF HoldsTrueReports, CancelPcs
  <2> QED
    BY <1>1, <2>2, <2>4, <2>5, <2>6, ReportGoto
<1>7. CASE FetchAbsent(w)
  <2>1. PICK j, l, s :
            j \in proc[w].todo /\ Goto(w, [To(w, "absence") EXCEPT !.cur = j, !.left = l, !.seen = s])
    BY <1>7 DEF FetchAbsent
  <2> DEFINE p == [To(w, "absence") EXCEPT !.cur = j, !.left = l, !.seen = s]
  <2>2. proc[w].pc = "next" /\ UNCHANGED <<broker, order>> /\ proc[w].todo \subseteq Intents
    BY <1>1, <1>7 DEF FetchAbsent, At, HoldsTrueReports, Listed
  <2>3. Goto(w, p)
    BY <2>1
  <2>4. /\ DOMAIN p = Fields /\ p.pc = "absence" /\ p.i = proc[w].i /\ p.cur = j
        /\ p.resp = proc[w].resp /\ p.todo = proc[w].todo
    BY <1>1, FieldNames DEF To
  <2> HIDE DEF p
  <2>5. HoldsTrueReports(p, broker)
    BY <1>1, <2>1, <2>2, <2>4 DEF HoldsTrueReports, CancelPcs
  <2> QED
    BY <1>1, <2>2, <2>3, <2>4, <2>5, ReportGoto
<1>8. CASE Observe(w) \/ ObserveConflict(w)
  <2> DEFINE j == proc[w].cur
  <2>1. /\ proc[w].pc = "observe" /\ order' = [order EXCEPT ![j] = proc[w].got] /\ UNCHANGED broker
        /\ Goto(w, To(w, "settle")) \/ \E failed : Goto(w, Processed(w, j, failed))
    BY <1>8 DEF Observe, ObserveConflict, At
  <2>2. j \in Intents /\ Agrees(proc[w].got, broker[j])
    BY <1>1, <2>1 DEF HoldsTrueReports
  <2>3. \A v \in Workers : proc'[v] = proc[v] \/ HoldsTrueReports(proc'[v], broker)
    <3>1. CASE Goto(w, To(w, "settle"))
      <4>1. DOMAIN To(w, "settle") = Fields /\ HoldsTrueReports(To(w, "settle"), broker)
        BY <1>1, <2>1, ToRecord DEF HoldsTrueReports, CancelPcs, Listed, Stales
      <4> QED
        BY <1>1, <3>1, <4>1, TrueGoto
    <3>2. ASSUME NEW failed, Goto(w, Processed(w, j, failed))
          PROVE  \A v \in Workers : proc'[v] = proc[v] \/ HoldsTrueReports(proc'[v], broker)
      <4>1. /\ DOMAIN Processed(w, j, failed) = Fields
            /\ HoldsTrueReports(Processed(w, j, failed), broker)
        BY <1>1, <2>1, ReportProcessed DEF Listed
      <4> QED
        BY <1>1, <3>2, <4>1, TrueGoto
    <3> QED
      BY <2>1, <3>1, <3>2
  <2>4. \A k \in Intents : order'[k] \in {NoOrder, order[k]} \/ Agrees(order'[k], broker'[k])
    BY <2>1, <2>2 DEF ReportInvariant
  <2> QED
    BY <2>1, <2>3, <2>4, TrueStep DEF ReportInvariant, BrokerShape, Later
<1>9. CASE FetchFails(w) \/ ObserveFails(w) \/ Settle(w) \/ SettleNothing(w)
           \/ RecordAbsence(w) \/ ConfirmAbsence(w) \/ AbsenceFails(w)
  <2>1. /\ proc[w].pc \in Listed /\ UNCHANGED <<broker, order>>
        /\ \E j, failed : Goto(w, Processed(w, j, failed))
    BY <1>9 DEF FetchFails, ObserveFails, Settle, SettleNothing, RecordAbsence, ConfirmAbsence,
                AbsenceFails, At, Listed
  <2> QED
    BY <1>3, <2>1
<1>10. CASE Sync(w)
  <2>1. PICK s : End(w) \/ Goto(w, [To(w, "receipt") EXCEPT !.seen = s])
    BY <1>10 DEF Sync
  <2> DEFINE p == [To(w, "receipt") EXCEPT !.seen = s]
  <2>2. DOMAIN p = Fields /\ p.pc = "receipt" /\ p.i = proc[w].i /\ p.resp = proc[w].resp
    BY <1>1, FieldNames DEF To
  <2>3. (End(w) \/ Goto(w, p)) /\ UNCHANGED <<broker, order>>
    BY <1>10, <2>1 DEF Sync, ClosePositions
  <2> HIDE DEF p
  <2>4. HoldsTrueReports(p, broker)
    BY <1>1, <2>2 DEF HoldsTrueReports, CancelPcs, Listed, Stales
  <2> QED
    BY <1>1, <1>2, <2>2, <2>3, <2>4, ReportGoto
<1>11. CASE Persist(w)
  <2>1. PICK pc \in {"promote", "claim"} : Goto(w, To(w, pc))
    BY <1>11 DEF Persist
  <2>2. proc[w].pc = "persist" /\ UNCHANGED <<broker, order>>
    BY <1>11 DEF Persist, At, ClosePositions
  <2>3. DOMAIN To(w, pc) = Fields /\ HoldsTrueReports(To(w, pc), broker)
    BY <1>1, <2>2, ToRecord DEF HoldsTrueReports, CancelPcs, Listed, Stales
  <2> QED
    BY <1>1, <2>1, <2>2, <2>3, ReportGoto
<1>12. CASE ListFails(w) \/ SyncFails(w) \/ PersistFails(w)
  BY <1>2, <1>12 DEF ListFails, SyncFails, PersistFails
<1> QED
  BY <1>4, <1>5, <1>6, <1>7, <1>8, <1>9, <1>10, <1>11, <1>12 DEF Reconciliation

LEMMA ReportRecovery ==
    ASSUME NEW w \in Workers, ClaimInvariant, ReportInvariant, Recovery(w)
    PROVE  ReportInvariant'
<1> USE DEF ledger, clocks, history
<1>1. Shape /\ DOMAIN proc[w] = Fields /\ HoldsTrueReports(proc[w], broker)
  BY DEF ClaimInvariant, Shape, ReportInvariant
<1>2. ASSUME End(w), UNCHANGED <<broker, order>> PROVE ReportInvariant'
  BY <1>1, <1>2, ReportEnd
<1>3. ASSUME NEW pc \in Plain, Goto(w, To(w, pc)), UNCHANGED <<broker, order>> PROVE ReportInvariant'
  BY <1>1, <1>3, ReportTo
<1>4. CASE StartRecovery(w)
  <2>0. PICK pc \in {"reservations", "stale"} :
            \E s, l : l \subseteq Intents /\ Goto(w, [Idle EXCEPT !.pc = pc, !.seen = s, !.todo = l])
    BY <1>4 DEF StartRecovery
  <2>1. PICK s, l : l \subseteq Intents /\ Goto(w, [Idle EXCEPT !.pc = pc, !.seen = s, !.todo = l])
    BY <2>0
  <2> DEFINE p == [Idle EXCEPT !.pc = pc, !.seen = s, !.todo = l]
  <2>2. DOMAIN p = Fields /\ HoldsTrueReports(p, broker)
    BY <2>1, FieldNames DEF HoldsTrueReports, Idle, CancelPcs, Listed, Stales
  <2>3. Goto(w, p)
    BY <2>1
  <2> HIDE DEF p
  <2> QED
    BY <1>1, <1>4, <2>2, <2>3, ReportGoto DEF StartRecovery
<1>5. CASE LookUpStale(w)
  <2>1. PICK j, l, g : /\ j \in proc[w].todo /\ l \subseteq proc[w].todo
                       /\ Goto(w, [To(w, "staleWrite") EXCEPT !.cur = j, !.todo = l, !.got = g])
    <3>1. PICK j \in proc[w].todo :
              Goto(w, [To(w, "staleWrite") EXCEPT !.cur = j, !.todo = @ \ {j},
                          !.got = IF Visible(j) THEN broker[j] ELSE NoOrder])
      BY <1>5 DEF LookUpStale
    <3>2. To(w, "staleWrite").todo = proc[w].todo
      BY <1>1, FieldNames DEF To
    <3> QED
      BY <3>1, <3>2
  <2> DEFINE p == [To(w, "staleWrite") EXCEPT !.cur = j, !.todo = l, !.got = g]
  <2>2. /\ DOMAIN p = Fields /\ p.pc = "staleWrite" /\ p.i = proc[w].i /\ p.resp = proc[w].resp
        /\ p.cur = j /\ p.todo = l
    BY <1>1, FieldNames DEF To
  <2>3. Goto(w, p) /\ UNCHANGED <<broker, order>> /\ proc[w].todo \subseteq Intents
    BY <1>1, <1>5, <2>1 DEF LookUpStale, At, HoldsTrueReports, Stales
  <2> HIDE DEF p
  <2>4. HoldsTrueReports(p, broker)
    BY <1>1, <2>1, <2>2, <2>3 DEF HoldsTrueReports, CancelPcs, Listed, Stales
  <2> QED
    BY <1>1, <2>2, <2>3, <2>4, ReportGoto
<1>6. CASE ResolveStale(w) \/ SkipStale(w)
  <2>1. UNCHANGED <<broker, order>> /\ (End(w) \/ NextStale(w)) /\ proc[w].todo \subseteq Intents
    BY <1>1, <1>6 DEF ResolveStale, SkipStale, At, HoldsTrueReports, Stales
  <2>2. ASSUME NextStale(w) PROVE ReportInvariant'
    <3>1. PICK pc \in {"reservations", "stale"} :
              Goto(w, [To(w, pc) EXCEPT !.cur = NoIntent, !.got = NoOrder])
      BY <2>2 DEF NextStale
    <3> DEFINE p == [To(w, pc) EXCEPT !.cur = NoIntent, !.got = NoOrder]
    <3>2. /\ DOMAIN p = Fields /\ p.pc = pc /\ p.i = proc[w].i /\ p.resp = proc[w].resp
          /\ p.todo = proc[w].todo
      BY <1>1, FieldNames DEF To
    <3>3. Goto(w, p)
      BY <3>1
    <3> HIDE DEF p
    <3>4. HoldsTrueReports(p, broker)
      BY <1>1, <2>1, <3>2 DEF HoldsTrueReports, CancelPcs, Listed, Stales
    <3> QED
      BY <1>1, <2>1, <3>2, <3>3, <3>4, ReportGoto
  <2> QED
    BY <1>2, <2>1, <2>2
<1>7. CASE ExpireReservations(w) \/ ExpireReviews(w) \/ ExpireConfirmations(w) \/ CancelCreated(w)
           \/ RecoveryWritesNothing(w) \/ RecoveryFails(w)
  BY <1>2, <1>3, <1>7 DEF ExpireReservations, ExpireReviews, ExpireConfirmations, CancelCreated,
                          RecoveryWritesNothing, RecoveryFails, Plain
<1> QED
  BY <1>4, <1>5, <1>6, <1>7 DEF Recovery

LEMMA ReportCancellation ==
    ASSUME NEW w \in Workers, ClaimInvariant, ReportInvariant, Cancellation(w)
    PROVE  ReportInvariant'
<1> USE DEF ledger, clocks, history
<1>1. Shape /\ DOMAIN proc[w] = Fields /\ HoldsTrueReports(proc[w], broker)
  BY DEF ClaimInvariant, Shape, ReportInvariant
<1>2. ASSUME End(w), UNCHANGED <<broker, order>> PROVE ReportInvariant'
  BY <1>1, <1>2, ReportEnd
<1>3. ASSUME NEW pc \in CancelPcs, proc[w].pc \in CancelPcs, Goto(w, To(w, pc)),
             NEW b, HoldsTrueReports(proc[w], b)
      PROVE  \A v \in Workers : proc'[v] = proc[v] \/ HoldsTrueReports(proc'[v], b)
  <2>1. DOMAIN To(w, pc) = Fields /\ HoldsTrueReports(To(w, pc), b)
    BY <1>1, <1>3, ToRecord DEF HoldsTrueReports, CancelPcs, Listed, Stales
  <2> QED
    BY <1>1, <1>3, <2>1, TrueGoto
<1>4. CASE StartCancellation(w)
  <2>1. PICK i \in Intents :
            /\ order[i] # NoOrder
            /\ Goto(w, [Idle EXCEPT !.pc = "before", !.i = i, !.snap[i].life = intent[i].life])
    BY <1>4 DEF StartCancellation
  <2> DEFINE p == [Idle EXCEPT !.pc = "before", !.i = i, !.snap[i].life = intent[i].life]
  <2>2. DOMAIN p = Fields /\ p.pc = "before" /\ p.i = i /\ p.resp = NoOrder
    BY DEF Fields, Idle
  <2>3. Goto(w, p) /\ broker[i].status \in Known
    BY <2>1 DEF ReportInvariant, Agrees
  <2> HIDE DEF p
  <2>4. HoldsTrueReports(p, broker)
    BY <2>2, <2>3 DEF HoldsTrueReports, CancelPcs, Listed, Stales
  <2> QED
    BY <1>1, <1>4, <2>2, <2>3, <2>4, ReportGoto DEF StartCancellation
<1>5. CASE LookBefore(w) \/ Poll(w)
  <2> DEFINE i == proc[w].i
  <2>1. PICK pc \in {"list", "poll", "claimCancel", "request"} :
            Goto(w, [To(w, pc) EXCEPT !.resp = broker[i]])
    BY <1>5 DEF LookBefore, Poll
  <2> DEFINE p == [To(w, pc) EXCEPT !.resp = broker[i]]
  <2>2. DOMAIN p = Fields /\ p.pc = pc /\ p.i = i /\ p.resp = broker[i]
    BY <1>1, FieldNames DEF To
  <2>3. Goto(w, p) /\ UNCHANGED <<broker, order>>
    BY <1>5, <2>1 DEF LookBefore, Poll
  <2>4. i \in Intents /\ broker[i].status \in Known
    BY <1>1, <1>5 DEF LookBefore, Poll, At, HoldsTrueReports, CancelPcs
  <2> HIDE DEF p
  <2>5. HoldsTrueReports(p, broker)
    BY <2>2, <2>4 DEF HoldsTrueReports, CancelPcs, Listed, Stales, Agrees, ReportInvariant, BrokerShape
  <2> QED
    BY <1>1, <2>2, <2>3, <2>5, ReportGoto
<1>6. CASE RequestCancel(w) \/ ClaimCancel(w) \/ ClaimedBefore(w)
  <2>1. /\ proc[w].pc \in CancelPcs /\ UNCHANGED <<broker, order>>
        /\ End(w) \/ \E pc \in CancelPcs : Goto(w, To(w, pc))
    BY <1>6 DEF RequestCancel, ClaimCancel, ClaimedBefore, At, CancelPcs
  <2> QED
    BY <1>1, <1>2, <1>3, <2>1, TrueStepAtRest
<1>7. CASE DeleteOrder(w)
  <2> DEFINE i == proc[w].i
  <2>1. /\ proc[w].pc = "delete" /\ UNCHANGED order /\ Goto(w, To(w, "poll"))
        /\ \/ UNCHANGED broker
           \/ broker[i].status \in Working /\ broker' = [broker EXCEPT ![i].status = "canceled"]
    BY <1>7 DEF DeleteOrder, At
  <2>2. i \in Intents
    BY <1>1, <2>1 DEF HoldsTrueReports, CancelPcs
  <2>3. BrokerShape' /\ DOMAIN order' = Intents /\ \A j \in Intents : Later(broker[j], broker'[j])
    BY <2>1, <2>2 DEF ReportInvariant, BrokerShape, Later, Known, Working, TerminalBrokerStatuses
  <2>4. HoldsTrueReports(proc[w], broker')
    BY <1>1, <2>3, TrueReportsStay
  <2>5. \A v \in Workers : proc'[v] = proc[v] \/ HoldsTrueReports(proc'[v], broker')
    BY <1>3, <2>1, <2>4 DEF CancelPcs
  <2> QED
    BY <2>1, <2>3, <2>5, TrueStep
<1>8. CASE CancellationFails(w)
  BY <1>2, <1>8 DEF CancellationFails
<1> QED
  BY <1>4, <1>5, <1>6, <1>7, <1>8 DEF Cancellation

LEMMA ReportsHoldInitially == Init => ReportInvariant
<1> SUFFICES ASSUME Init PROVE ReportInvariant
  OBVIOUS
<1>1. BrokerShape /\ DOMAIN order = Intents /\ \A i \in Intents : order[i] = NoOrder
  BY QuantitiesAssumption DEF Init, BrokerShape, NoOrder
<1>2. \A w \in Workers : proc[w] = Idle
  BY DEF Init
<1>3. HoldsTrueReports(Idle, broker)
  BY DEF HoldsTrueReports, Idle, CancelPcs, Listed, Stales
<1> QED
  BY <1>1, <1>2, <1>3 DEF ReportInvariant

(* What the ledger records of an order, and what a worker was told of it    *)
(* and may write much later, never contradicts the broker: the order        *)
(* exists, and an end that is recorded is the end it had                    *)
(* (reconcilePostgresPaperOrders, recordSubmission).                        *)
THEOREM ReportsAreTrue == Spec => []ReportInvariant
<1>1. ClaimInvariant /\ ReportInvariant /\ [Next]_vars => ReportInvariant'
  <2> SUFFICES ASSUME ClaimInvariant, ReportInvariant, [Next]_vars PROVE ReportInvariant'
    OBVIOUS
  <2>1. CASE UNCHANGED vars
    BY <2>1, TrueStepAtRest DEF vars, ledger
  <2>2. CASE Environment
    BY <2>2, ReportEnvironment
  <2>3. ASSUME NEW w \in Workers, WorkerStep(w) PROVE ReportInvariant'
    BY <2>3, ReportSubmission, ReportReconciliation, ReportRecovery, ReportCancellation DEF WorkerStep
  <2> QED
    BY <2>1, <2>2, <2>3 DEF Next
<1> QED
  BY <1>1, ClaimsAreExclusive, ReportsHoldInitially, PTL DEF Spec

-----------------------------------------------------------------------------
(* What is settled *)

Discovered == {"exit_broker_order_discovered", "exit_partially_filled"}
Acknowledged == {"submitted", "reconciled"}
Decided == {"filled", "cancelled"}

(* The columns of a reservation. *)
Row(r) == r = [column \in {"status", "amount", "terminal"} |-> r[column]]

(* The rows of one intent fit together: n is its intent, r its reservation, *)
(* o its order and b the order at the broker.                               *)
Consistent(i, n, r, o, b) ==
    /\ Row(r)
    /\ n.life \in States
    /\ n.status = "created" => r.status = "none"
    /\ n.life = "closed" => b.status = "filled"
    /\ i \in Exits => n.status # "created" /\ r.status = "none"
    /\ r.status = "committed" => n.status \in Acknowledged
    /\ n.life \in Discovered => n.status \in Acknowledged
    /\ i \in Entries /\ n.status = "reconciled" =>
          n.life \in Decided /\ o.status \in TerminalBrokerStatuses

(* Every list of targets that a worker holds names lifecycle states and     *)
(* quantities.                                                              *)
Snapped(p) ==
    /\ DOMAIN p.snap = Intents
    /\ \A j \in Intents : /\ DOMAIN p.snap[j] = {"status", "life", "prior"}
                          /\ p.snap[j].life \in States /\ p.snap[j].prior \in 0..Qty

SettledInvariant ==
    /\ DOMAIN res = Intents
    /\ \A i \in Intents : Consistent(i, intent[i], res[i], order[i], broker[i])
    /\ \A w \in Workers : Snapped(proc[w])

(* One intent of a step that takes nothing back. *)
Lawful(i, n, r, o, m, q) ==
    /\ r.status \in {"released", "expired"} => q = r
    /\ n.status \in {"failed", "cancelled"} \/ (n.status = "reconciled" /\ i \in Entries) =>
          m.status = n.status
    /\ r.status = "committed" /\ q.status # "committed" => o.status \in TerminalBrokerStatuses

(* The rows of intent i are left alone, or change lawfully. *)
LawfulChange(i) ==
    \/ intent'[i] = intent[i] /\ res'[i] = res[i] /\ order'[i] = order[i]
    \/ /\ Consistent(i, intent'[i], res'[i], order'[i], broker[i])
       /\ Lawful(i, intent[i], res[i], order[i], intent'[i], res'[i])

LawfulStep == DOMAIN res' = Intents /\ \A i \in Intents : LawfulChange(i)

LEMMA TypeOfIntent == \A i \in Intents : TypeOf(i) = "entry" <=> i \in Entries
BY DEF TypeOf

LEMMA LifeOfStatus ==
    ASSUME NEW t \in ReviewTypes, NEW s \in Known
    PROVE  LET l == lifecycleStateForBrokerStatus(t, s) IN
           /\ l \in States /\ l # "closed"
           /\ t = "entry" => l \notin Discovered
           /\ s = "canceled" => l = "cancelled"
           /\ t = "entry" /\ s = "filled" => l = "filled"
BY DEF ReviewTypes, Known, lifecycleStateForBrokerStatus, States, Cancelling, TerminalLife, Discovered

(* The rows that the statements below change belong to one intent. *)
LEMMA OneIntent ==
    ASSUME Shape, ReportInvariant, SettledInvariant, NEW j \in Intents,
           DOMAIN res' = Intents,
           \A i \in Intents \ {j} :
               intent'[i] = intent[i] /\ res'[i] = res[i] /\ order'[i] = order[i],
           LawfulChange(j)
    PROVE  LawfulStep
BY DEF LawfulStep, LawfulChange

(* What the statements do to a reservation. *)
LEMMA StatusRow ==
    ASSUME NEW r, Row(r), NEW as, NEW q, q = [r EXCEPT !.status = as]
    PROVE  Row(q) /\ q.status = as /\ (as = r.status => q = r)
BY DEF Row

LEMMA AmountRow ==
    ASSUME NEW r, Row(r), NEW n, NEW q, q = [r EXCEPT !.amount = n]
    PROVE  Row(q) /\ q.status = r.status
BY DEF Row

LEMMA ReleasedRow ==
    ASSUME NEW r, Row(r), NEW as, NEW terminal, NEW q, q = Release(r, as, terminal)
    PROVE  Row(q) /\ q.status = as
<1>1. Row(q)
  BY Zenon DEF Row, Release
<1>2. q.status = as
  BY DEF Row, Release
<1> QED
  BY <1>1, <1>2

LEMMA LawfulSubmission ==
    ASSUME NEW w \in Workers, ClaimInvariant, ReportInvariant, SettledInvariant, Submission(w)
    PROVE  LawfulStep
<1> USE DEF ledger, clocks, history
<1>1. ASSUME UNCHANGED <<intent, res, order>> PROVE LawfulStep
  BY <1>1 DEF LawfulStep, LawfulChange, SettledInvariant
<1>2. /\ DOMAIN intent = Intents /\ \A i \in Intents : DOMAIN intent[i] = {"status", "life"}
      /\ DOMAIN res = Intents /\ DOMAIN order = Intents
      /\ \A i \in Intents : Consistent(i, intent[i], res[i], order[i], broker[i])
      /\ proc[w].pc \in Claiming => proc[w].i \in Intents
  BY DEF ClaimInvariant, Shape, ReportInvariant, SettledInvariant
<1>3. CASE Promote(w)
  <2>1. PICK i \in Scope(w) :
            /\ intent[i].status = "created"
            /\ res' = [res EXCEPT ![i] = [status |-> "active", amount |-> Amount, terminal |-> "none"]]
            /\ intent' = [intent EXCEPT ![i].status = "ready_for_submission"]
    BY <1>3 DEF Promote, Confirmable
  <2>2. i \in Intents /\ UNCHANGED order
    BY <1>3 DEF Promote, Scope, Intents
  <2> QED
    BY <1>2, <2>1, <2>2 DEF LawfulStep, LawfulChange, Lawful, Consistent, Acknowledged, Row
<1>4. CASE Claim(w)
  <2>1. PICK i \in Scope(w) :
            /\ intent[i].status = "ready_for_submission"
            /\ intent' = [intent EXCEPT ![i].status = "submission_pending"]
    BY <1>4 DEF Claim, Claimable
  <2>2. i \in Intents /\ UNCHANGED <<res, order>>
    BY <1>4 DEF Claim, Scope, Intents
  <2> QED
    BY <1>2, <2>1, <2>2 DEF LawfulStep, LawfulChange, Lawful, Consistent, Acknowledged
<1>5. CASE ReleaseClaim(w)
  <2>1. proc[w].i \in Intents
    BY <1>2, <1>5 DEF ReleaseClaim, At, Claiming
  <2> QED
    BY <1>2, <1>5, <2>1 DEF ReleaseClaim, LawfulStep, LawfulChange, Lawful, Consistent, Acknowledged
<1>6. CASE RecordAttempt(w)
  <2>1. proc[w].i \in Intents
    BY <1>2, <1>6 DEF RecordAttempt, At, Claiming
  <2> QED
    BY <1>2, <1>6, <2>1 DEF RecordAttempt, CanAttempt, LawfulStep, LawfulChange, Lawful, Consistent,
                            Acknowledged, Discovered, States
<1>7. CASE RecordSubmission(w)
  <2> DEFINE i == proc[w].i
             r == proc[w].resp
             l == lifecycleStateForBrokerStatus(TypeOf(i), r.status)
  <2>1. i \in Intents /\ r.status \in Known
    BY <1>2, <1>7 DEF RecordSubmission, At, Claiming, ReportInvariant, HoldsTrueReports, Agrees
  <2>2. l \in States /\ l # "closed" /\ (r.status = "canceled" => l = "cancelled")
    BY <2>1, LifeOfStatus DEF TypeOf, ReviewTypes
  <2>3. /\ intent[i].status = "submission_pending"
        /\ order' = [order EXCEPT ![i] = r]
        /\ intent' = [intent EXCEPT ![i] =
                         [status |-> IF r.status = "canceled" THEN "cancelled" ELSE "submitted",
                          life |-> l]]
        /\ \/ res[i].status = "none" /\ UNCHANGED res
           \/ r.status = "canceled" /\ Live(res[i]) /\ res' = [res EXCEPT ![i] = Release(@, "released", "cancelled")]
           \/ r.status # "canceled" /\ res[i].status = "active" /\ res' = [res EXCEPT ![i].status = "committed"]
    BY <1>7 DEF RecordSubmission, CanRecord, Live
  <2> HIDE DEF i, r, l
  <2>4. \A k \in Intents \ {i} : intent'[k] = intent[k] /\ res'[k] = res[k] /\ order'[k] = order[k]
    BY <1>2, <2>3
  <2>5. DOMAIN res' = Intents
    BY <1>2, <2>3
  <2>6. /\ intent'[i].status = IF r.status = "canceled" THEN "cancelled" ELSE "submitted"
        /\ intent'[i].life = l
    BY <1>2, <2>1, <2>3
  <2>7. Consistent(i, intent[i], res[i], order[i], broker[i])
    BY <1>2, <2>1
  <2>8. \/ r.status = "canceled" /\ intent'[i].status = "cancelled" /\ l = "cancelled"
        \/ r.status # "canceled" /\ intent'[i].status = "submitted"
    BY <2>2, <2>6
  <2>9. /\ Row(res'[i])
        /\ \/ res'[i] = res[i] /\ res[i].status = "none"
           \/ res'[i].status = "released" /\ Live(res[i]) /\ r.status = "canceled"
           \/ res'[i].status = "committed" /\ res[i].status = "active" /\ r.status # "canceled"
    <3>1. Row(res[i])
      BY <2>7 DEF Consistent
    <3>2. \/ res[i].status = "none" /\ res'[i] = res[i]
          \/ r.status = "canceled" /\ Live(res[i]) /\ res'[i] = Release(res[i], "released", "cancelled")
          \/ r.status # "canceled" /\ res[i].status = "active" /\ res'[i] = [res[i] EXCEPT !.status = "committed"]
      BY <1>2, <2>1, <2>3
    <3>3. ASSUME res'[i] = Release(res[i], "released", "cancelled")
          PROVE  Row(res'[i]) /\ res'[i].status = "released"
      BY <3>1, <3>3, ReleasedRow
    <3>4. ASSUME res'[i] = [res[i] EXCEPT !.status = "committed"]
          PROVE  Row(res'[i]) /\ res'[i].status = "committed"
      BY <3>1, <3>4, StatusRow
    <3> QED
      BY <3>1, <3>2, <3>3, <3>4
  <2>10. Consistent(i, intent'[i], res'[i], order'[i], broker[i])
    BY <2>2, <2>3, <2>6, <2>7, <2>8, <2>9 DEF Consistent, Acknowledged, Discovered, Live
  <2>11. Lawful(i, intent[i], res[i], order[i], intent'[i], res'[i])
    BY <2>3, <2>7, <2>9 DEF Lawful, Consistent, Live, Acknowledged
  <2> QED
    BY <2>1, <2>4, <2>5, <2>10, <2>11, OneIntent DEF LawfulChange, ClaimInvariant
<1>8. CASE MarkFailed(w) \/ MarkAmbiguous(w)
  <2>1. proc[w].i \in Intents /\ UNCHANGED <<res, order>>
    BY <1>2, <1>8 DEF MarkFailed, MarkAmbiguous, At, Claiming
  <2>2. PICK s \in {"failed", "ambiguous"},
             l \in {"failed_terminal", "exit_submission_ambiguous", "submission_ambiguous"} :
            /\ intent[proc[w].i].status = "submission_pending"
            /\ intent' = [intent EXCEPT ![proc[w].i] = [status |-> s, life |-> l]]
    BY <1>8 DEF MarkFailed, MarkAmbiguous
  <2>3. l \in States /\ l # "closed" /\ l \notin Discovered
    BY DEF States, TerminalLife, Discovered
  <2> QED
    BY <1>2, <2>1, <2>2, <2>3 DEF LawfulStep, LawfulChange, Lawful, Consistent, Acknowledged
<1>9. CASE StartExecution(w) \/ PromoteNothing(w) \/ ClaimNothing(w) \/ Validate(w) \/ ReleaseFails(w)
           \/ AttemptFails(w) \/ SubmitOrder(w) \/ PostAccepted(w) \/ PostRefused(w)
           \/ PostUnanswered(w) \/ RecordFails(w) \/ MarkFails(w) \/ LookupFinds(w)
           \/ LookupFails(w) \/ Receipt(w) \/ ReceiptFails(w)
  BY <1>1, <1>9 DEF StartExecution, PromoteNothing, ClaimNothing, Validate, ReleaseFails,
                    AttemptFails, SubmitOrder, PostAccepted, PostRefused, PostUnanswered,
                    RecordFails, MarkFails, LookupFinds, LookupFails, Receipt, ReceiptFails
<1> QED
  BY <1>3, <1>4, <1>5, <1>6, <1>7, <1>8, <1>9 DEF Submission

(* What a worker knows that writes an observation: the intent is where it   *)
(* was listed, and the path that was found leads on from there.             *)
LEMMA ObservationFacts ==
    ASSUME NEW w \in Workers, ClaimInvariant, ReportInvariant, SettledInvariant,
           At(w, "observe"), ~Refused(proc[w])
    PROVE  LET p == proc[w]
               j == p.cur
               l == Last(Path(p))
           IN  /\ j \in Intents /\ p.got.status \in Known
               /\ intent[j].status \in {"submission_pending", "submitted", "ambiguous", "reconciled"}
               /\ l \in States /\ l # "closed"
               /\ j \in Entries /\ p.got.status \in TerminalBrokerStatuses => l \in Decided
               /\ j \in Entries /\ intent[j].status = "reconciled" =>
                     p.got.status \in TerminalBrokerStatuses
               /\ Resizes(p) => Live(res[j])
<1> DEFINE p == proc[w]
           j == p.cur
           s == p.snap[j].life
           t == TypeOf(j)
           r == p.got.status
           l == Last(Path(p))
<1>1. j \in Intents /\ r \in Known
  BY DEF At, ReportInvariant, HoldsTrueReports, Agrees
<1>2. s \in States /\ t \in ReviewTypes /\ (t = "entry" <=> j \in Entries)
  BY <1>1 DEF SettledInvariant, Snapped, TypeOf, ReviewTypes
<1>3. /\ intent[j].status \in {"submission_pending", "submitted", "ambiguous", "reconciled"}
      /\ intent[j].life = Head(Path(p)) /\ Path(p) # <<>>
      /\ Resizes(p) => Live(res[j])
  BY DEF Refused, Invalid, ObservationAllowed, Resizable
<1>4. /\ Head(Path(p)) = s
      /\ l = IF StaysPut(s, t, r) THEN s ELSE lifecycleStateForBrokerStatus(t, r)
      /\ t = "entry" /\ s \in {"filled", "cancelled"} => r \in TerminalBrokerStatuses
  BY <1>1, <1>2, <1>3, PathTableFacts DEF PathFact, Path, Known, OrderStatuses
<1>5. j \in Entries /\ intent[j].status = "reconciled" => intent[j].life \in Decided
  BY <1>1 DEF SettledInvariant, Consistent
<1> HIDE DEF p, j, s, t, r, l
<1>6. CASE StaysPut(s, t, r)
  <2>1. l = s /\ s # "closed" /\ (t = "entry" => r \notin TerminalBrokerStatuses)
    BY <1>4, <1>6 DEF StaysPut, Cancelling
  <2> QED
    BY <1>1, <1>2, <1>3, <1>4, <1>5, <2>1 DEF Decided, p, j, r, l
<1>7. CASE ~StaysPut(s, t, r)
  <2>1. /\ l \in States /\ l # "closed"
        /\ t = "entry" /\ r \in TerminalBrokerStatuses => l \in Decided
    BY <1>1, <1>2, <1>4, <1>7, LifeOfStatus DEF Known, TerminalBrokerStatuses, Decided
  <2> QED
    BY <1>1, <1>2, <1>3, <1>4, <1>5, <2>1 DEF Decided, p, j, r, l
<1> QED
  BY <1>6, <1>7

(* A partial fill takes an amount from a live reservation and nothing else. *)
LEMMA ResizeStep ==
    ASSUME NEW p, SettledInvariant, p.cur \in Intents, Resizes(p) => Live(res[p.cur]), Resize(p)
    PROVE  LET j == p.cur IN
           /\ DOMAIN res' = Intents /\ Row(res'[j])
           /\ res'[j].status = res[j].status
           /\ res'[j] = res[j] \/ Live(res[j])
           /\ \A i \in Intents \ {j} : res'[i] = res[i]
<1>1. DOMAIN res = Intents /\ Row(res[p.cur])
  BY DEF SettledInvariant, Consistent
<1>2. CASE Resizes(p)
  <2>1. res' = [res EXCEPT ![p.cur].amount = Remaining(p)]
    BY <1>2 DEF Resize
  <2>2. res'[p.cur] = [res[p.cur] EXCEPT !.amount = Remaining(p)]
    BY <1>1, <2>1
  <2>3. Row(res'[p.cur]) /\ res'[p.cur].status = res[p.cur].status
    BY <1>1, <2>2, AmountRow
  <2> QED
    BY <1>1, <1>2, <2>1, <2>3
<1>3. CASE ~Resizes(p)
  BY <1>1, <1>3 DEF Resize
<1> QED
  BY <1>2, <1>3

LEMMA LawfulReconciliation ==
    ASSUME NEW w \in Workers, ClaimInvariant, ReportInvariant, SettledInvariant, Reconciliation(w)
    PROVE  LawfulStep
<1> USE DEF ledger, clocks, history
<1>1. ASSUME UNCHANGED <<intent, res, order>> PROVE LawfulStep
  BY <1>1 DEF LawfulStep, LawfulChange, SettledInvariant
<1>2. /\ DOMAIN intent = Intents /\ \A i \in Intents : DOMAIN intent[i] = {"status", "life"}
      /\ DOMAIN res = Intents /\ DOMAIN order = Intents
      /\ \A i \in Intents : Consistent(i, intent[i], res[i], order[i], broker[i])
  BY DEF ClaimInvariant, Shape, ReportInvariant, SettledInvariant
<1> DEFINE p == proc[w]
           j == p.cur
           l == Last(Path(p))
<1>3. CASE Observe(w)
  <2>1. /\ At(w, "observe") /\ ~Refused(p) /\ Resize(p)
        /\ order' = [order EXCEPT ![j] = p.got]
        /\ intent' = [intent EXCEPT ![j] =
                         [status |-> IF Terminal(p.got) THEN "reconciled" ELSE "submitted",
                          life |-> l]]
    BY <1>3 DEF Observe
  <2>2. /\ j \in Intents
        /\ intent[j].status \in {"submission_pending", "submitted", "ambiguous", "reconciled"}
        /\ l \in States /\ l # "closed"
        /\ j \in Entries /\ Terminal(p.got) => l \in Decided
        /\ j \in Entries /\ intent[j].status = "reconciled" => Terminal(p.got)
        /\ Resizes(p) => Live(res[j])
    BY <2>1, ObservationFacts DEF Terminal
  <2>3. /\ DOMAIN res' = Intents /\ Row(res'[j])
        /\ res'[j].status = res[j].status
        /\ res'[j] = res[j] \/ Live(res[j])
        /\ \A i \in Intents \ {j} : res'[i] = res[i]
    BY <2>1, <2>2, ResizeStep
  <2>4. Consistent(j, intent[j], res[j], order[j], broker[j])
    BY <1>2, <2>2
  <2> HIDE DEF p, j, l
  <2>5. \A k \in Intents \ {j} : intent'[k] = intent[k] /\ order'[k] = order[k]
    BY <1>2, <2>1
  <2>6. /\ intent'[j].life = l /\ order'[j] = p.got
        /\ \/ Terminal(p.got) /\ intent'[j].status = "reconciled"
           \/ ~Terminal(p.got) /\ intent'[j].status = "submitted"
    BY <1>2, <2>1, <2>2
  <2>7. Consistent(j, intent'[j], res'[j], order'[j], broker[j])
    BY <2>2, <2>3, <2>4, <2>6 DEF Consistent, Acknowledged, Terminal
  <2>8. Lawful(j, intent[j], res[j], order[j], intent'[j], res'[j])
    BY <2>2, <2>3, <2>6 DEF Lawful, Live
  <2> QED
    BY <2>2, <2>3, <2>5, <2>7, <2>8, OneIntent DEF LawfulChange, ClaimInvariant
<1>4. CASE ObserveConflict(w)
  <2>1. /\ At(w, "observe") /\ ~Refused(p) /\ Resize(p)
        /\ order' = [order EXCEPT ![j] = p.got] /\ intent' = intent
    BY <1>4 DEF ObserveConflict
  <2>2. /\ j \in Intents
        /\ j \in Entries /\ intent[j].status = "reconciled" => Terminal(p.got)
        /\ Resizes(p) => Live(res[j])
    BY <2>1, ObservationFacts DEF Terminal
  <2>3. /\ DOMAIN res' = Intents /\ Row(res'[j])
        /\ res'[j].status = res[j].status
        /\ res'[j] = res[j] \/ Live(res[j])
        /\ \A i \in Intents \ {j} : res'[i] = res[i]
    BY <2>1, <2>2, ResizeStep
  <2>4. Consistent(j, intent[j], res[j], order[j], broker[j])
    BY <1>2, <2>2
  <2> HIDE DEF p, j, l
  <2>5. /\ \A k \in Intents \ {j} : intent'[k] = intent[k] /\ order'[k] = order[k]
        /\ intent'[j] = intent[j] /\ order'[j] = p.got
    BY <1>2, <2>1, <2>2
  <2>6. Consistent(j, intent'[j], res'[j], order'[j], broker[j])
    BY <2>2, <2>3, <2>4, <2>5 DEF Consistent, Terminal
  <2>7. Lawful(j, intent[j], res[j], order[j], intent'[j], res'[j])
    BY <2>2, <2>3, <2>5 DEF Lawful, Live
  <2> QED
    BY <2>2, <2>3, <2>5, <2>6, <2>7, OneIntent DEF LawfulChange, ClaimInvariant
<1>5. CASE Settle(w)
  <2>1. /\ intent[j].status = "reconciled" /\ Live(res[j]) /\ UNCHANGED <<intent, order>>
        /\ res' = [res EXCEPT ![j] = Release(@, "released", TerminalState(p.got))]
    BY <1>5 DEF Settle, CanSettle
  <2> HIDE DEF j, p
  <2>2. CASE j \notin Intents
    BY <1>2, <2>1, <2>2 DEF LawfulStep, LawfulChange
  <2>3. CASE j \in Intents
    <3>1. /\ DOMAIN res' = Intents /\ Row(res'[j])
          /\ res'[j].status = "released"
          /\ \A i \in Intents \ {j} : res'[i] = res[i]
      <4>1. res'[j] = Release(res[j], "released", TerminalState(p.got)) /\ Row(res[j])
        BY <1>2, <2>1, <2>3 DEF Consistent
      <4>2. Row(res'[j]) /\ res'[j].status = "released"
        BY <4>1, ReleasedRow
      <4> QED
        BY <1>2, <2>1, <2>3, <4>2
    <3>2. Consistent(j, intent[j], res[j], order[j], broker[j])
      BY <1>2, <2>3
    <3>3. j \in Entries /\ order[j].status \in TerminalBrokerStatuses
      BY <2>1, <2>3, <3>2 DEF Consistent, Live, Intents
    <3>4. Consistent(j, intent'[j], res'[j], order'[j], broker[j])
      BY <2>1, <3>1, <3>2, <3>3, SetsAssumption DEF Consistent
    <3>5. Lawful(j, intent[j], res[j], order[j], intent'[j], res'[j])
      BY <2>1, <3>1, <3>3 DEF Lawful, Live
    <3> QED
      BY <2>1, <2>3, <3>1, <3>4, <3>5, OneIntent DEF LawfulChange, ClaimInvariant
  <2> QED
    BY <2>2, <2>3
<1>6. CASE ConfirmAbsence(w)
  <2> DEFINE fails == NewObservation(p) /\ intent[j].status \in Undecided
             frees == fails /\ ReleasedByAbsence(j)
  <2>1. /\ intent' = [intent EXCEPT ![j].status = IF fails THEN "failed" ELSE @]
        /\ res' = [res EXCEPT ![j].status = IF frees THEN "released" ELSE @]
        /\ order' = order
    BY <1>6 DEF ConfirmAbsence
  <2>2. fails => intent[j].status \in Undecided
    OBVIOUS
  <2>3. frees <=> fails /\ Live(res[j])
    BY DEF ReleasedByAbsence
  <2> HIDE DEF j, p, fails, frees
  <2>4. CASE j \notin Intents
    BY <1>2, <2>1, <2>4 DEF LawfulStep, LawfulChange
  <2>5. CASE j \in Intents
    <3>1. /\ DOMAIN res' = Intents /\ Row(res'[j])
          /\ res'[j].status = (IF frees THEN "released" ELSE res[j].status)
          /\ ~frees => res'[j] = res[j]
          /\ intent'[j].status = (IF fails THEN "failed" ELSE intent[j].status)
          /\ intent'[j].life = intent[j].life
          /\ \A i \in Intents \ {j} : res'[i] = res[i] /\ intent'[i] = intent[i]
      <4>1. /\ res'[j] = [res[j] EXCEPT !.status = IF frees THEN "released" ELSE res[j].status]
            /\ Row(res[j])
        BY <1>2, <2>1, <2>5 DEF Consistent
      <4>2. /\ Row(res'[j]) /\ res'[j].status = (IF frees THEN "released" ELSE res[j].status)
            /\ ~frees => res'[j] = res[j]
        BY <4>1, StatusRow
      <4> QED
        BY <1>2, <2>1, <2>5, <4>2
    <3>2. Consistent(j, intent[j], res[j], order[j], broker[j])
      BY <1>2, <2>5
    <3>3. Consistent(j, intent'[j], res'[j], order'[j], broker[j])
      BY <2>1, <2>2, <2>3, <3>1, <3>2 DEF Consistent, Undecided, Acknowledged, Live
    <3>4. Lawful(j, intent[j], res[j], order[j], intent'[j], res'[j])
      BY <2>2, <2>3, <3>1, <3>2 DEF Lawful, Consistent, Undecided, Acknowledged, Live
    <3> QED
      BY <2>1, <2>5, <3>1, <3>3, <3>4, OneIntent DEF LawfulChange, ClaimInvariant
  <2> QED
    BY <2>4, <2>5
<1>7. CASE Sync(w) \/ Persist(w)
  <2>1. PICK closed \in SUBSET Closable :
            intent' = [i \in Intents |->
                          IF i \in closed THEN [status |-> "reconciled", life |-> "closed"]
                          ELSE intent[i]]
    BY <1>7 DEF Sync, Persist, ClosePositions
  <2>2. UNCHANGED <<res, order>>
    BY <1>7 DEF Sync, Persist, ClosePositions
  <2>3. ASSUME NEW i \in Intents, i \in closed PROVE LawfulChange(i)
    <3>1. /\ i \in Exits /\ i \notin Entries
          /\ intent[i].life \in Discovered /\ order[i].status = "filled"
      BY <2>1, <2>3, SetsAssumption DEF Closable, Discovered
    <3>2. Consistent(i, intent[i], res[i], order[i], broker[i])
      BY <1>2
    <3>3. broker[i].status = "filled"
      BY <3>1 DEF ReportInvariant, Agrees, NoOrder, TerminalBrokerStatuses
    <3>4. Consistent(i, intent'[i], res'[i], order'[i], broker[i])
      BY <2>1, <2>2, <2>3, <3>1, <3>2, <3>3
         DEF Consistent, Acknowledged, Discovered, States, TerminalLife
    <3>5. Lawful(i, intent[i], res[i], order[i], intent'[i], res'[i])
      BY <2>2, <3>1, <3>2 DEF Lawful, Consistent, Acknowledged
    <3> QED
      BY <3>4, <3>5 DEF LawfulChange
  <2>4. ASSUME NEW i \in Intents, i \notin closed PROVE LawfulChange(i)
    BY <2>1, <2>2, <2>4 DEF LawfulChange
  <2> QED
    BY <1>2, <2>2, <2>3, <2>4 DEF LawfulStep
<1>8. CASE StartReconciliation(w) \/ List(w) \/ ListFails(w) \/ FetchFinds(w) \/ FetchAbsent(w)
           \/ FetchFails(w) \/ ObserveFails(w) \/ SettleNothing(w) \/ RecordAbsence(w)
           \/ AbsenceFails(w) \/ SyncFails(w) \/ PersistFails(w)
  BY <1>1, <1>8 DEF StartReconciliation, List, ListFails, FetchFinds, FetchAbsent, FetchFails,
                    ObserveFails, SettleNothing, RecordAbsence, AbsenceFails, SyncFails, PersistFails
<1> QED
  BY <1>3, <1>4, <1>5, <1>6, <1>7, <1>8 DEF Reconciliation

LEMMA LawfulRecovery ==
    ASSUME NEW w \in Workers, ClaimInvariant, ReportInvariant, SettledInvariant, Recovery(w)
    PROVE  LawfulStep
<1> USE DEF ledger, clocks, history
<1>1. ASSUME UNCHANGED <<intent, res, order>> PROVE LawfulStep
  BY <1>1 DEF LawfulStep, LawfulChange, SettledInvariant
<1>2. /\ DOMAIN intent = Intents /\ \A i \in Intents : DOMAIN intent[i] = {"status", "life"}
      /\ DOMAIN res = Intents /\ DOMAIN order = Intents
      /\ \A i \in Intents : Consistent(i, intent[i], res[i], order[i], broker[i])
  BY DEF ClaimInvariant, Shape, ReportInvariant, SettledInvariant
<1> DEFINE j == proc[w].cur
<1>3. CASE ResolveStale(w)
  <2>1. PICK s \in {"cancelled", "ambiguous"} :
            /\ intent[j].status = "ready_for_submission"
            /\ intent' = [intent EXCEPT ![j].status = s]
            /\ \/ UNCHANGED res
               \/ Live(res[j]) /\ res' = [res EXCEPT ![j] = Release(@, "released", "stale")]
    BY <1>3 DEF ResolveStale, CancelStale, CancelsStale, Ready, PreserveStale
  <2>2. UNCHANGED order
    BY <1>3 DEF ResolveStale
  <2> HIDE DEF j
  <2>3. CASE j \notin Intents
    BY <1>2, <2>1, <2>2, <2>3 DEF LawfulStep, LawfulChange
  <2>4. CASE j \in Intents
    <3>1. Consistent(j, intent[j], res[j], order[j], broker[j])
      BY <1>2, <2>4
    <3>2. /\ DOMAIN res' = Intents
          /\ intent'[j].status = s /\ intent'[j].life = intent[j].life
          /\ \A i \in Intents \ {j} : res'[i] = res[i] /\ intent'[i] = intent[i]
          /\ res'[j] = res[j] \/ (Live(res[j]) /\ res'[j] = Release(res[j], "released", "stale"))
      BY <1>2, <2>1, <2>4
    <3>3. /\ Row(res'[j])
          /\ res'[j] = res[j] \/ (Live(res[j]) /\ res'[j].status = "released")
      BY <3>1, <3>2, ReleasedRow DEF Consistent
    <3>4. Consistent(j, intent'[j], res'[j], order'[j], broker[j])
      BY <2>1, <2>2, <3>1, <3>2, <3>3 DEF Consistent, Acknowledged, Live
    <3>5. Lawful(j, intent[j], res[j], order[j], intent'[j], res'[j])
      BY <2>1, <3>1, <3>3 DEF Lawful, Consistent, Acknowledged, Live
    <3> QED
      BY <2>2, <2>4, <3>2, <3>4, <3>5, OneIntent DEF LawfulChange, ClaimInvariant
  <2> QED
    BY <2>3, <2>4
<1>4. CASE ExpireReservations(w)
  <2>1. /\ res' = [i \in Intents |->
                      IF i \in Expired(w) THEN Release(res[i], "expired", "stale") ELSE res[i]]
        /\ UNCHANGED <<intent, order>>
    BY <1>4 DEF ExpireReservations
  <2>2. ASSUME NEW i \in Intents, i \in Expired(w) PROVE LawfulChange(i)
    <3>1. res[i].status = "active" /\ res'[i] = Release(res[i], "expired", "stale")
      BY <2>1, <2>2 DEF Expired
    <3>2. Consistent(i, intent[i], res[i], order[i], broker[i])
      BY <1>2
    <3>3. Row(res'[i]) /\ res'[i].status = "expired"
      BY <3>1, <3>2, ReleasedRow DEF Consistent
    <3>4. Consistent(i, intent'[i], res'[i], order'[i], broker[i])
      BY <2>1, <3>1, <3>2, <3>3 DEF Consistent
    <3>5. Lawful(i, intent[i], res[i], order[i], intent'[i], res'[i])
      BY <2>1, <3>1 DEF Lawful
    <3> QED
      BY <3>4, <3>5 DEF LawfulChange
  <2>3. ASSUME NEW i \in Intents, i \notin Expired(w) PROVE LawfulChange(i)
    BY <2>1, <2>3 DEF LawfulChange
  <2> QED
    BY <2>1, <2>2, <2>3 DEF LawfulStep
<1>5. CASE CancelCreated(w)
  <2>1. \A i \in Intents :
            \/ intent'[i] = intent[i]
            \/ intent[i].status = "created" /\ intent'[i] = [intent[i] EXCEPT !.status = "cancelled"]
    BY <1>5 DEF CancelCreated
  <2>2. UNCHANGED <<res, order>>
    BY <1>5 DEF CancelCreated
  <2>3. ASSUME NEW i \in Intents, intent[i].status = "created",
               intent'[i] = [intent[i] EXCEPT !.status = "cancelled"]
        PROVE  LawfulChange(i)
    <3>1. Consistent(i, intent[i], res[i], order[i], broker[i])
      BY <1>2
    <3>2. intent'[i].status = "cancelled" /\ intent'[i].life = intent[i].life
      BY <1>2, <2>3
    <3>3. Consistent(i, intent'[i], res'[i], order'[i], broker[i])
      BY <2>2, <2>3, <3>1, <3>2 DEF Consistent, Acknowledged
    <3>4. Lawful(i, intent[i], res[i], order[i], intent'[i], res'[i])
      BY <2>2, <2>3 DEF Lawful
    <3> QED
      BY <3>3, <3>4 DEF LawfulChange
  <2> QED
    BY <1>2, <2>1, <2>2, <2>3 DEF LawfulStep, LawfulChange
<1>6. CASE StartRecovery(w) \/ LookUpStale(w) \/ SkipStale(w) \/ ExpireReviews(w)
           \/ ExpireConfirmations(w) \/ RecoveryWritesNothing(w) \/ RecoveryFails(w)
  BY <1>1, <1>6 DEF StartRecovery, LookUpStale, SkipStale, ExpireReviews, ExpireConfirmations,
                    RecoveryWritesNothing, RecoveryFails
<1> QED
  BY <1>3, <1>4, <1>5, <1>6 DEF Recovery

LEMMA LawfulCancellation ==
    ASSUME NEW w \in Workers, ClaimInvariant, ReportInvariant, SettledInvariant, Cancellation(w)
    PROVE  LawfulStep
<1> USE DEF ledger, clocks, history
<1>1. ASSUME UNCHANGED <<intent, res, order>> PROVE LawfulStep
  BY <1>1 DEF LawfulStep, LawfulChange, SettledInvariant
<1>2. /\ DOMAIN intent = Intents /\ \A i \in Intents : DOMAIN intent[i] = {"status", "life"}
      /\ DOMAIN res = Intents /\ DOMAIN order = Intents
      /\ \A i \in Intents : Consistent(i, intent[i], res[i], order[i], broker[i])
  BY DEF ClaimInvariant, Shape, ReportInvariant, SettledInvariant
<1>3. CASE RequestCancel(w) \/ ClaimCancel(w)
  <2> DEFINE i == proc[w].i
  <2>1. PICK l \in {"cancel_requested", "cancel_ambiguous"} :
            /\ intent' = [intent EXCEPT ![i].life = l]
            /\ TriggerAccepts(intent[i].life, "cancel_requested") \/ intent[i].life = "cancel_requested"
    BY <1>3 DEF RequestCancel, CanRequest, ClaimCancel, CanClaim
  <2>2. i \in Intents /\ UNCHANGED <<res, order>>
    BY <1>3 DEF RequestCancel, ClaimCancel, At, ReportInvariant, HoldsTrueReports, CancelPcs
  <2>3. intent[i].life \notin Decided
    BY <2>1 DEF TriggerAccepts, AdditionalEdges, OriginalEdges, Cancelling, Decided
  <2> HIDE DEF i
  <2>4. Consistent(i, intent[i], res[i], order[i], broker[i])
    BY <1>2, <2>2
  <2>5. /\ intent'[i].status = intent[i].status /\ intent'[i].life = l
        /\ \A k \in Intents \ {i} : intent'[k] = intent[k]
    BY <1>2, <2>1, <2>2
  <2>6. Consistent(i, intent'[i], res'[i], order'[i], broker[i])
    BY <2>2, <2>3, <2>4, <2>5 DEF Consistent, States, Cancelling, Discovered
  <2>7. Lawful(i, intent[i], res[i], order[i], intent'[i], res'[i])
    BY <2>2, <2>5 DEF Lawful
  <2> QED
    BY <1>2, <2>2, <2>5, <2>6, <2>7, OneIntent DEF LawfulChange, ClaimInvariant
<1>4. CASE StartCancellation(w) \/ LookBefore(w) \/ ClaimedBefore(w) \/ DeleteOrder(w) \/ Poll(w)
           \/ CancellationFails(w)
  BY <1>1, <1>4 DEF StartCancellation, LookBefore, ClaimedBefore, DeleteOrder, Poll, CancellationFails
<1> QED
  BY <1>3, <1>4 DEF Cancellation

LEMMA LawfulEnvironment ==
    ASSUME SettledInvariant, Environment
    PROVE  LawfulStep
<1>1. UNCHANGED <<intent, res, order>>
  BY DEF Environment, Arrive, Fill, BrokerCancels, Lapse, Age, Crash, LoseFence, ledger
<1> QED
  BY <1>1 DEF LawfulStep, LawfulChange, SettledInvariant

-----------------------------------------------------------------------------
(* What the workers listed *)

AllSnapped == \A v \in Workers : Snapped(proc[v])

LEMMA SnapGoto ==
    ASSUME NEW w \in Workers, NEW p, Shape, AllSnapped, Goto(w, p), DOMAIN p = Fields, Snapped(p)
    PROVE  AllSnapped'
BY MoveStep DEF AllSnapped, Snapped, Shape

LEMMA SnapKept ==
    ASSUME NEW w \in Workers, NEW p, Shape, AllSnapped, Goto(w, p), DOMAIN p = Fields,
           p.snap = proc[w].snap
    PROVE  AllSnapped'
BY SnapGoto DEF AllSnapped, Snapped

LEMMA SnapTo ==
    ASSUME NEW w \in Workers, NEW pc, Shape, AllSnapped, Goto(w, To(w, pc))
    PROVE  AllSnapped'
BY SnapKept, ToRecord DEF Shape

LEMMA IdleSnapped == Snapped(Idle)
<1>1. Idle.snap = NoSnapshot
  BY DEF Idle
<1>2. "candidate_created" \in States /\ 0 \in 0..Qty
  BY QuantitiesAssumption DEF States
<1>3. /\ DOMAIN NoSnapshot = Intents
      /\ \A j \in Intents : NoSnapshot[j] = [status |-> "created", life |-> "candidate_created", prior |-> 0]
  BY DEF NoSnapshot
<1> QED
  BY <1>1, <1>2, <1>3 DEF Snapped

LEMMA SnapEnd ==
    ASSUME NEW w \in Workers, Shape, AllSnapped, End(w)
    PROVE  AllSnapped'
<1>1. proc'[w] = Idle /\ \A v \in Workers \ {w} : proc'[v] = proc[v]
  BY DEF End, Shape
<1> QED
  BY <1>1, IdleSnapped DEF AllSnapped

LEMMA SnapFresh ==
    ASSUME NEW w \in Workers, NEW p, Shape, AllSnapped, Goto(w, p), DOMAIN p = Fields,
           p.snap = Idle.snap
    PROVE  AllSnapped'
BY SnapGoto, IdleSnapped DEF Snapped

LEMMA SnapSubmission ==
    ASSUME NEW w \in Workers, Shape, AllSnapped, Submission(w)
    PROVE  AllSnapped'
<1>1. DOMAIN proc[w] = Fields
  BY DEF Shape
<1>2. CASE StartExecution(w)
  <2>1. PICK fresh, ready, p : /\ Goto(w, p)
                               /\ p = [Idle EXCEPT !.pc = "persist", !.seen = fresh, !.todo = ready]
    BY <1>2 DEF StartExecution
  <2>2. DOMAIN p = Fields /\ p.snap = Idle.snap
    BY <2>1, FieldNames DEF Idle
  <2> QED
    BY <2>1, <2>2, SnapFresh
<1>3. CASE Claim(w)
  <2>1. PICK i, p :
            End(w) \/ (Goto(w, p) /\ p = [To(w, "claimed") EXCEPT !.i = i, !.todo = {}])
    BY <1>3 DEF Claim
  <2>2. ASSUME p = [To(w, "claimed") EXCEPT !.i = i, !.todo = {}]
        PROVE  DOMAIN p = Fields /\ p.snap = proc[w].snap
    BY <1>1, <2>2, FieldNames DEF To
  <2> QED
    BY <2>1, <2>2, SnapKept, SnapEnd
<1>4. CASE SubmitOrder(w) \/ PostRefused(w) \/ PostUnanswered(w)
  <2>1. PICK p : /\ Goto(w, p)
                 /\ \/ p = [To(w, "post") EXCEPT !.left = MaxRetries]
                    \/ p = [To(w, "markFailed") EXCEPT !.left = 0]
                    \/ p = [To(w, "markAmbiguous") EXCEPT !.left = 0]
                    \/ p = [proc[w] EXCEPT !.left = @ - 1]
    BY <1>4 DEF SubmitOrder, PostRefused, PostUnanswered
  <2>2. DOMAIN p = Fields /\ p.snap = proc[w].snap
    BY <1>1, <2>1, FieldNames DEF To
  <2> QED
    BY <2>1, <2>2, SnapKept
<1>5. CASE PostAccepted(w)
  <2>1. PICK r, p : Goto(w, p) /\ p = [To(w, "record") EXCEPT !.resp = r, !.left = 0]
    BY <1>5 DEF PostAccepted
  <2>2. DOMAIN p = Fields /\ p.snap = proc[w].snap
    BY <1>1, <2>1, FieldNames DEF To
  <2> QED
    BY <2>1, <2>2, SnapKept
<1>6. CASE MarkAmbiguous(w) \/ LookupFinds(w)
  <2>1. PICK p : \/ End(w)
                 \/ /\ Goto(w, p)
                    /\ \/ p = [To(w, "lookup") EXCEPT !.resp = NoOrder]
                       \/ p = [To(w, "list") EXCEPT !.resp = broker[proc[w].i]]
    BY <1>6 DEF MarkAmbiguous, LookupFinds
  <2>2. ASSUME \/ p = [To(w, "lookup") EXCEPT !.resp = NoOrder]
               \/ p = [To(w, "list") EXCEPT !.resp = broker[proc[w].i]]
        PROVE  DOMAIN p = Fields /\ p.snap = proc[w].snap
    BY <1>1, <2>2, FieldNames DEF To
  <2> QED
    BY <2>1, <2>2, SnapKept, SnapEnd
<1>7. CASE Promote(w) \/ PromoteNothing(w) \/ ClaimNothing(w) \/ Validate(w) \/ ReleaseClaim(w)
           \/ ReleaseFails(w) \/ RecordAttempt(w) \/ AttemptFails(w) \/ RecordSubmission(w)
           \/ RecordFails(w) \/ MarkFailed(w) \/ MarkFails(w) \/ LookupFails(w) \/ Receipt(w)
           \/ ReceiptFails(w)
  <2>1. \/ End(w) \/ Goto(w, To(w, "claim")) \/ Goto(w, To(w, "attempt")) \/ Goto(w, To(w, "release"))
        \/ Goto(w, To(w, "submit")) \/ Goto(w, To(w, "markAmbiguous"))
    BY <1>7 DEF Promote, PromoteNothing, ClaimNothing, Validate, ReleaseClaim, ReleaseFails,
                RecordAttempt, AttemptFails, RecordSubmission, RecordFails, MarkFailed, MarkFails,
                LookupFails, Receipt, ReceiptFails
  <2> QED
    BY <2>1, SnapTo, SnapEnd
<1> QED
  BY <1>2, <1>3, <1>4, <1>5, <1>6, <1>7 DEF Submission

LEMMA ProcessedSnapped ==
    ASSUME NEW w \in Workers, Shape, AllSnapped, NEW j, NEW failed
    PROVE  Snapped(Processed(w, j, failed))
<1> DEFINE p == Processed(w, j, failed)
           s == proc[w].snap
<1>1. DOMAIN proc[w] = Fields /\ Snapped(proc[w])
  BY DEF Shape, AllSnapped
<1>2. p.snap = [s EXCEPT ![j] = NoSnapshot[j]]
  BY <1>1, FieldNames DEF Processed
<1>3. /\ DOMAIN NoSnapshot = Intents
      /\ \A k \in Intents : /\ DOMAIN NoSnapshot[k] = {"status", "life", "prior"}
                            /\ NoSnapshot[k].life \in States /\ NoSnapshot[k].prior \in 0..Qty
  BY IdleSnapped DEF Snapped, Idle
<1>4. /\ DOMAIN s = Intents
      /\ \A k \in Intents : /\ DOMAIN s[k] = {"status", "life", "prior"}
                            /\ s[k].life \in States /\ s[k].prior \in 0..Qty
  BY <1>1 DEF Snapped
<1> HIDE DEF p, s
<1>5. DOMAIN p.snap = Intents /\ \A k \in Intents : p.snap[k] \in {s[k], NoSnapshot[k]}
  BY <1>2, <1>4
<1> QED
  BY <1>3, <1>4, <1>5 DEF Snapped, p

LEMMA ListingSnapped ==
    ASSUME NEW p, NEW scope, DOMAIN p = Fields, ReportInvariant, SettledInvariant
    PROVE  Snapped(Listing(p, scope))
<1> DEFINE q == Listing(p, scope)
           targets == {i \in scope : Target(i)}
<1>1. q.snap = [i \in Intents |->
                   IF i \in targets
                   THEN [status |-> intent[i].status, life |-> intent[i].life,
                         prior |-> order[i].filled]
                   ELSE NoSnapshot[i]]
  BY FieldNames DEF Listing
<1>2. /\ DOMAIN NoSnapshot = Intents
      /\ \A k \in Intents : /\ DOMAIN NoSnapshot[k] = {"status", "life", "prior"}
                            /\ NoSnapshot[k].life \in States /\ NoSnapshot[k].prior \in 0..Qty
  BY IdleSnapped DEF Snapped, Idle
<1>3. \A i \in Intents : intent[i].life \in States /\ order[i].filled \in 0..Qty
  BY QuantitiesAssumption DEF SettledInvariant, Consistent, ReportInvariant, Agrees, NoOrder
<1> HIDE DEF q, targets
<1> QED
  BY <1>1, <1>2, <1>3 DEF Snapped, q

LEMMA SnapReconciliation ==
    ASSUME NEW w \in Workers, Shape, ReportInvariant, SettledInvariant, Reconciliation(w)
    PROVE  AllSnapped'
<1>1. DOMAIN proc[w] = Fields /\ AllSnapped
  BY DEF Shape, SettledInvariant, AllSnapped
<1>2. ASSUME NEW j, NEW failed, Goto(w, Processed(w, j, failed)) PROVE AllSnapped'
  BY <1>1, <1>2, ProcessedRecord, ProcessedSnapped, SnapGoto
<1>3. CASE StartReconciliation(w)
  <2>1. Goto(w, Listing(Idle, Intents))
    BY <1>3 DEF StartReconciliation
  <2>2. DOMAIN Listing(Idle, Intents) = Fields /\ Snapped(Listing(Idle, Intents))
    BY ListingRecord, ListingSnapped DEF Fields
  <2> QED
    BY <1>1, <2>1, <2>2, SnapGoto
<1>4. CASE List(w)
  <2> DEFINE q == Listing(proc[w], Intents)
             r == Listing(proc[w], {proc[w].i})
  <2>1. PICK p : Goto(w, p) /\ (p = q \/ p = [r EXCEPT !.err = ~Target(proc[w].i)])
    BY <1>4 DEF List
  <2>2. DOMAIN q = Fields /\ Snapped(q) /\ DOMAIN r = Fields /\ Snapped(r)
    BY <1>1, ListingRecord, ListingSnapped
  <2> HIDE DEF q, r
  <2>3. DOMAIN p = Fields /\ (p.snap = q.snap \/ p.snap = r.snap)
    BY <2>1, <2>2, FieldNames
  <2>4. Snapped(p)
    BY <2>2, <2>3 DEF Snapped
  <2> QED
    BY <1>1, <2>1, <2>3, <2>4, SnapGoto
<1>5. CASE FetchFinds(w)
  <2>1. PICK j, r, p : Goto(w, p) /\ p = [To(w, "observe") EXCEPT !.cur = j, !.got = r]
    BY <1>5 DEF FetchFinds
  <2>2. DOMAIN p = Fields /\ p.snap = proc[w].snap
    BY <1>1, <2>1, FieldNames DEF To
  <2> QED
    BY <1>1, <2>1, <2>2, SnapKept
<1>6. CASE FetchAbsent(w)
  <2>1. PICK j, p :
            /\ Goto(w, p)
            /\ p = [To(w, "absence") EXCEPT !.cur = j, !.left = absences[j],
                       !.seen = IF j \in attempted THEN @ \cap aged ELSE @]
    BY <1>6 DEF FetchAbsent
  <2>2. DOMAIN p = Fields /\ p.snap = proc[w].snap
    BY <1>1, <2>1, FieldNames DEF To
  <2> QED
    BY <1>1, <2>1, <2>2, SnapKept
<1>7. CASE Observe(w)
  <2>1. \/ Goto(w, To(w, "settle")) \/ Goto(w, Processed(w, proc[w].cur, FALSE))
        \/ Goto(w, Processed(w, proc[w].cur, TRUE))
    BY <1>7 DEF Observe
  <2> QED
    BY <1>1, <1>2, <2>1, SnapTo
<1>8. CASE FetchFails(w)
  <2>1. PICK j : Goto(w, Processed(w, j, TRUE))
    BY <1>8 DEF FetchFails
  <2> QED
    BY <1>2, <2>1
<1>9. CASE ObserveConflict(w) \/ ObserveFails(w) \/ Settle(w) \/ SettleNothing(w)
           \/ RecordAbsence(w) \/ ConfirmAbsence(w) \/ AbsenceFails(w)
  <2>1. PICK failed : Goto(w, Processed(w, proc[w].cur, failed))
    BY <1>9 DEF ObserveConflict, ObserveFails, Settle, SettleNothing, RecordAbsence,
                ConfirmAbsence, AbsenceFails
  <2> QED
    BY <1>2, <2>1
<1>10. CASE Sync(w)
  <2>1. PICK p : End(w) \/ (Goto(w, p) /\ p = [To(w, "receipt") EXCEPT !.seen = {}])
    BY <1>10 DEF Sync
  <2>2. ASSUME p = [To(w, "receipt") EXCEPT !.seen = {}]
        PROVE  DOMAIN p = Fields /\ p.snap = proc[w].snap
    BY <1>1, <2>2, FieldNames DEF To
  <2> QED
    BY <1>1, <2>1, <2>2, SnapKept, SnapEnd
<1>11. CASE ListFails(w) \/ SyncFails(w) \/ Persist(w) \/ PersistFails(w)
  <2>1. End(w) \/ Goto(w, To(w, "promote")) \/ Goto(w, To(w, "claim"))
    BY <1>11 DEF ListFails, SyncFails, Persist, PersistFails
  <2> QED
    BY <1>1, <2>1, SnapTo, SnapEnd
<1> QED
  BY <1>3, <1>4, <1>5, <1>6, <1>7, <1>8, <1>9, <1>10, <1>11 DEF Reconciliation

LEMMA SnapRecovery ==
    ASSUME NEW w \in Workers, Shape, AllSnapped, Recovery(w)
    PROVE  AllSnapped'
<1>1. DOMAIN proc[w] = Fields
  BY DEF Shape
<1>2. CASE StartRecovery(w)
  <2>1. PICK pc, seen, todo, p :
            Goto(w, p) /\ p = [Idle EXCEPT !.pc = pc, !.seen = seen, !.todo = todo]
    BY <1>2 DEF StartRecovery
  <2>2. DOMAIN p = Fields /\ p.snap = Idle.snap
    BY <2>1, FieldNames DEF Idle
  <2> QED
    BY <2>1, <2>2, SnapFresh
<1>3. CASE LookUpStale(w)
  <2>1. PICK j, r, p : Goto(w, p) /\ p = [To(w, "staleWrite") EXCEPT !.cur = j, !.todo = @ \ {j}, !.got = r]
    BY <1>3 DEF LookUpStale
  <2>2. DOMAIN p = Fields /\ p.snap = proc[w].snap
    BY <1>1, <2>1, FieldNames DEF To
  <2> QED
    BY <2>1, <2>2, SnapKept
<1>4. CASE ResolveStale(w) \/ SkipStale(w)
  <2>1. PICK pc, p : End(w) \/ (Goto(w, p) /\ p = [To(w, pc) EXCEPT !.cur = NoIntent, !.got = NoOrder])
    BY <1>4 DEF ResolveStale, SkipStale, NextStale
  <2>2. ASSUME p = [To(w, pc) EXCEPT !.cur = NoIntent, !.got = NoOrder]
        PROVE  DOMAIN p = Fields /\ p.snap = proc[w].snap
    BY <1>1, <2>2, FieldNames DEF To
  <2> QED
    BY <2>1, <2>2, SnapKept, SnapEnd
<1>5. CASE ExpireReservations(w) \/ ExpireReviews(w) \/ ExpireConfirmations(w) \/ CancelCreated(w)
           \/ RecoveryWritesNothing(w) \/ RecoveryFails(w)
  <2>1. \/ End(w) \/ Goto(w, To(w, "reviews")) \/ Goto(w, To(w, "confirmations"))
        \/ Goto(w, To(w, "createdIntents"))
    BY <1>5 DEF ExpireReservations, ExpireReviews, ExpireConfirmations, CancelCreated,
                RecoveryWritesNothing, RecoveryFails
  <2> QED
    BY <2>1, SnapTo, SnapEnd
<1> QED
  BY <1>2, <1>3, <1>4, <1>5 DEF Recovery

LEMMA SnapCancellation ==
    ASSUME NEW w \in Workers, Shape, SettledInvariant, Cancellation(w)
    PROVE  AllSnapped'
<1>1. DOMAIN proc[w] = Fields /\ AllSnapped
  BY DEF Shape, SettledInvariant, AllSnapped
<1>2. CASE StartCancellation(w)
  <2>1. PICK i, p :
            /\ i \in Intents
            /\ Goto(w, p) /\ p = [Idle EXCEPT !.pc = "before", !.i = i, !.snap[i].life = intent[i].life]
    BY <1>2 DEF StartCancellation
  <2>2. DOMAIN p = Fields /\ p.snap = [Idle.snap EXCEPT ![i].life = intent[i].life]
    BY <2>1, FieldNames DEF Idle
  <2>3. intent[i].life \in States
    BY <2>1 DEF SettledInvariant, Consistent
  <2> DEFINE s == Idle.snap
  <2>4. /\ DOMAIN s = Intents
        /\ \A k \in Intents : /\ DOMAIN s[k] = {"status", "life", "prior"}
                              /\ s[k].life \in States /\ s[k].prior \in 0..Qty
    BY IdleSnapped DEF Snapped
  <2>5. p.snap = [s EXCEPT ![i].life = intent[i].life]
    BY <2>2
  <2> HIDE DEF s
  <2>6. Snapped(p)
    BY <2>3, <2>4, <2>5 DEF Snapped
  <2> QED
    BY <1>1, <2>1, <2>2, <2>6, SnapGoto
<1>3. CASE LookBefore(w) \/ Poll(w)
  <2>1. PICK pc, r, p : Goto(w, p) /\ p = [To(w, pc) EXCEPT !.resp = r]
    BY <1>3 DEF LookBefore, Poll
  <2>2. DOMAIN p = Fields /\ p.snap = proc[w].snap
    BY <1>1, <2>1, FieldNames DEF To
  <2> QED
    BY <1>1, <2>1, <2>2, SnapKept
<1>4. CASE RequestCancel(w) \/ ClaimCancel(w) \/ ClaimedBefore(w) \/ DeleteOrder(w) \/ CancellationFails(w)
  <2>1. \/ End(w) \/ Goto(w, To(w, "claimCancel")) \/ Goto(w, To(w, "delete")) \/ Goto(w, To(w, "poll"))
    BY <1>4 DEF RequestCancel, ClaimCancel, ClaimedBefore, DeleteOrder, CancellationFails
  <2> QED
    BY <1>1, <2>1, SnapTo, SnapEnd
<1> QED
  BY <1>2, <1>3, <1>4 DEF Cancellation

LEMMA SnapEnvironment ==
    ASSUME Shape, AllSnapped, Environment
    PROVE  AllSnapped'
<1>1. CASE \E w \in Workers : Crash(w)
  BY <1>1, SnapEnd DEF Crash
<1>2. CASE \E w \in Workers : LoseFence(w)
  <2>1. PICK w, f : w \in Workers /\ proc' = [proc EXCEPT ![w].fence = f]
    BY <1>2 DEF LoseFence
  <2>2. \A v \in Workers : proc'[v].snap = proc[v].snap
    BY <2>1, FieldNames DEF Shape
  <2> QED
    BY <2>2 DEF AllSnapped, Snapped
<1>3. CASE UNCHANGED proc
  BY <1>3 DEF AllSnapped
<1> QED
  BY <1>1, <1>2, <1>3 DEF Environment, Arrive, Fill, BrokerCancels, Lapse, Age

-----------------------------------------------------------------------------
(* The invariant and what follows from it *)

LEMMA BrokerStep ==
    ASSUME ClaimInvariant, ReportInvariant, Next
    PROVE  \A i \in Intents : Later(broker[i], broker'[i])
<1> USE DEF ledger, clocks, history
<1>1. ASSUME UNCHANGED broker PROVE \A i \in Intents : Later(broker[i], broker'[i])
  BY <1>1 DEF Later
<1>2. DOMAIN broker = Intents /\ \A i \in Intents : DOMAIN broker[i] = {"status", "filled"}
  BY DEF ReportInvariant, BrokerShape
<1>3. CASE Environment
  BY <1>1, <1>2, <1>3 DEF Environment, Arrive, Fill, BrokerCancels, Lapse, Age, Crash, LoseFence,
                          Later, Known, Working, TerminalBrokerStatuses
<1>4. ASSUME NEW w \in Workers, PostAccepted(w) \/ PostUnanswered(w)
      PROVE  \A i \in Intents : Later(broker[i], broker'[i])
  BY <1>2, <1>4 DEF PostAccepted, PostUnanswered, Visible, Later, Known, TerminalBrokerStatuses,
                    ReportInvariant, BrokerShape
<1>5. ASSUME NEW w \in Workers, Submission(w)
      PROVE  UNCHANGED broker \/ PostAccepted(w) \/ PostUnanswered(w)
  BY <1>5 DEF Submission, StartExecution, Promote, PromoteNothing, Claim, ClaimNothing, Validate,
              ReleaseClaim, ReleaseFails, RecordAttempt, AttemptFails, SubmitOrder, PostRefused,
              RecordSubmission, RecordFails, MarkFailed, MarkAmbiguous, MarkFails, LookupFinds,
              LookupFails, Receipt, ReceiptFails
<1>6. ASSUME NEW w \in Workers, Reconciliation(w) PROVE UNCHANGED broker
  BY <1>6 DEF Reconciliation, StartReconciliation, List, ListFails, FetchFinds, FetchAbsent,
              FetchFails, Observe, ObserveConflict, ObserveFails, Settle, SettleNothing,
              RecordAbsence, ConfirmAbsence, AbsenceFails, Sync, SyncFails, Persist, PersistFails
<1>7. ASSUME NEW w \in Workers, Recovery(w) PROVE UNCHANGED broker
  BY <1>7 DEF Recovery, StartRecovery, LookUpStale, ResolveStale, SkipStale, ExpireReservations,
              ExpireReviews, ExpireConfirmations, CancelCreated, RecoveryWritesNothing, RecoveryFails
<1>8. ASSUME NEW w \in Workers, DeleteOrder(w)
      PROVE  \A i \in Intents : Later(broker[i], broker'[i])
  BY <1>2, <1>8 DEF DeleteOrder, Later, Known, Working, TerminalBrokerStatuses
<1>9. ASSUME NEW w \in Workers, Cancellation(w) PROVE UNCHANGED broker \/ DeleteOrder(w)
  BY <1>9 DEF Cancellation, StartCancellation, LookBefore, RequestCancel, ClaimCancel,
              ClaimedBefore, Poll, CancellationFails
<1> QED
  BY <1>1, <1>3, <1>4, <1>5, <1>6, <1>7, <1>8, <1>9 DEF Next, WorkerStep

LEMMA EveryStepIsLawful ==
    ASSUME ClaimInvariant, ReportInvariant, SettledInvariant, Next
    PROVE  LawfulStep
BY LawfulEnvironment, LawfulSubmission, LawfulReconciliation, LawfulRecovery, LawfulCancellation
   DEF Next, WorkerStep

LEMMA SettledStep ==
    ASSUME ClaimInvariant, ReportInvariant, SettledInvariant, Next
    PROVE  SettledInvariant'
<1>1. LawfulStep
  BY EveryStepIsLawful
<1>2. \A i \in Intents : Consistent(i, intent'[i], res'[i], order'[i], broker[i])
  BY <1>1 DEF LawfulStep, LawfulChange, SettledInvariant
<1>3. \A i \in Intents : broker[i].status = "filled" => broker'[i].status = "filled"
  BY BrokerStep DEF Later, TerminalBrokerStatuses
<1>4. \A i \in Intents : Consistent(i, intent'[i], res'[i], order'[i], broker'[i])
  BY <1>2, <1>3 DEF Consistent
<1>5. AllSnapped'
  BY SnapEnvironment, SnapSubmission, SnapReconciliation, SnapRecovery, SnapCancellation
     DEF Next, WorkerStep, ClaimInvariant, SettledInvariant, AllSnapped
<1> QED
  BY <1>1, <1>4, <1>5 DEF SettledInvariant, LawfulStep, AllSnapped

LEMMA NothingIsSettledInitially == Init => SettledInvariant
<1> SUFFICES ASSUME Init PROVE SettledInvariant
  OBVIOUS
<1>1. ASSUME NEW i \in Intents PROVE Consistent(i, intent[i], res[i], order[i], broker[i])
  <2>1. \/ intent[i] = [status |-> "created", life |-> "review_created"] /\ i \in Entries
        \/ intent[i] = [status |-> "ready_for_submission", life |-> "exit_ready_for_submission"]
    BY DEF Init
  <2>2. res[i] = [status |-> "none", amount |-> 0, terminal |-> "none"]
    BY DEF Init
  <2>3. Row(res[i])
    BY <2>2 DEF Row
  <2> QED
    BY <2>1, <2>2, <2>3, SetsAssumption DEF Consistent, States, Discovered
<1>2. \A w \in Workers : Snapped(proc[w])
  BY IdleSnapped DEF Init
<1>3. DOMAIN res = Intents
  BY DEF Init
<1> QED
  BY <1>1, <1>2, <1>3 DEF SettledInvariant

(* The rows of an intent fit together in every state: a committed           *)
(* reservation belongs to an acknowledged order, a reconciled entry has     *)
(* ended at the broker and in the ledger, an exit holds no reservation, and *)
(* a closed position was sold (the statements of recordSubmission,          *)
(* reconcilePostgresPaperOrders, runAutonomousPostgresRecovery and          *)
(* runPostgresPaperOrderCancellation in any order).                         *)
THEOREM RowsFitTogether == Spec => []SettledInvariant
<1>1. ClaimInvariant /\ ReportInvariant /\ SettledInvariant /\ [Next]_vars => SettledInvariant'
  <2>1. CASE Next
    BY <2>1, SettledStep
  <2>2. CASE UNCHANGED vars
    BY <2>2 DEF vars, ledger, SettledInvariant, Snapped
  <2> QED
    BY <2>1, <2>2
<1> QED
  BY <1>1, NothingIsSettledInitially, ClaimsAreExclusive, ReportsAreTrue, PTL DEF Spec

(* What was settled is final, whatever stale answer a slower worker still   *)
(* has in its hands: no step changes a released or expired reservation, or  *)
(* takes an intent out of failed or cancelled, or an entry out of           *)
(* reconciled (lifecycle_path_guard and the status guards of every          *)
(* statement).                                                              *)
THEOREM WhatIsSettledIsFinal == Spec => TerminalIsFinal
<1>1. ClaimInvariant /\ ReportInvariant /\ SettledInvariant /\ [Next]_vars => [TerminalIsFinalStep]_vars
  <2>1. ASSUME LawfulStep PROVE TerminalIsFinalStep
    BY <2>1 DEF LawfulStep, LawfulChange, Lawful, TerminalIsFinalStep
  <2> QED
    BY <2>1, EveryStepIsLawful
<1> QED
  BY <1>1, RowsFitTogether, ClaimsAreExclusive, ReportsAreTrue, PTL DEF Spec, TerminalIsFinal

(* The reservation of an acknowledged order is not given back before the    *)
(* order is recorded as over: no expiry, stale cancellation or absence      *)
(* takes it away.                                                           *)
THEOREM CommittedReservationsStay == Spec => CommittedIsKept
<1>1. ClaimInvariant /\ ReportInvariant /\ SettledInvariant /\ [Next]_vars => [CommittedIsKeptStep]_vars
  <2>1. ASSUME LawfulStep PROVE CommittedIsKeptStep
    BY <2>1 DEF LawfulStep, LawfulChange, Lawful, CommittedIsKeptStep
  <2> QED
    BY <2>1, EveryStepIsLawful
<1> QED
  BY <1>1, RowsFitTogether, ClaimsAreExclusive, ReportsAreTrue, PTL DEF Spec, CommittedIsKept

(* A position is closed only when the broker filled its exit order, also    *)
(* when the snapshot of the positions is older than the order               *)
(* (syncBrokerAccountAndPositions).                                         *)
THEOREM ClosedPositionsWereSold == Spec => []ClosedMeansFilled
<1>1. SettledInvariant => ClosedMeansFilled
  BY DEF SettledInvariant, Consistent, ClosedMeansFilled, Intents
<1> QED
  BY <1>1, RowsFitTogether, PTL

-----------------------------------------------------------------------------
(***************************************************************************)
(* No order is given up while the broker has it, provided that the client  *)
(* does not repeat a POST (MaxRetries = 0): with retries a refused         *)
(* duplicate is taken for a refused order, which is what the run           *)
(* duplicate_refused shows.  The theorem says that there is no other way.  *)
(***************************************************************************)

InHandPcs == {"claimed", "attempt", "release", "submit", "post"}
Given == {"failed", "cancelled"}

(* The order of i neither works nor is on its way, and nobody is about to send it. *)
Over(i) == broker[i].status \notin Working \cup {"inflight"} /\ ~InHand(i)

(* What a worker with record p relies on: an order that it is about to send *)
(* or saw refused is not at the broker, and an order whose absence it would *)
(* confirm is not at the broker either, because its attempt is old.         *)
Knows(p, b, a, c) ==
    /\ p.pc = "post" => p.left = 0 /\ b[p.i].status = "none" /\ c[p.i] > 0
    /\ p.pc = "markFailed" => b[p.i].status = "none"
    /\ p.pc \in Listed => p.seen \subseteq a
    /\ p.pc = "absence" /\ p.cur \in p.seen => b[p.cur].status = "none"

SentInvariant ==
    /\ aged \subseteq Intents
    /\ \A i \in Intents : broker[i].status # "none" => calls[i] > 0
    /\ \A i \in aged :
          intent[i].status \notin Waiting /\ broker[i].status # "inflight" /\ ~InHand(i)
    /\ \A i \in Intents : intent[i].status \in Given => Over(i)
    /\ \A w \in Workers : Knows(proc[w], broker, aged, calls)

-----------------------------------------------------------------------------
(* Steps that send nothing *)

LEMMA HandsOn == \A i : InHand(i) <=> \E w \in Workers : proc[w].i = i /\ proc[w].pc \in InHandPcs
BY DEF InHand, InHandPcs

(* Nobody has a waiting order in his hands, and it was not sent. *)
LEMMA WaitingIsOver ==
    ASSUME ClaimInvariant, ReportInvariant, SentInvariant, NEW i \in Intents, intent[i].status \in Waiting
    PROVE  Over(i)
<1>1. broker[i].status = "none"
  BY DEF ClaimInvariant, SentInvariant, Shape
<1>2. ~InHand(i)
  BY HandsOn DEF ClaimInvariant, InHandPcs, Claiming
<1> QED
  BY <1>1, <1>2 DEF Over, Working

(* An executor that has claimed i has it alone. *)
LEMMA ClaimantIsAlone ==
    ASSUME ClaimInvariant, NEW w \in Workers, proc[w].pc \in Claiming \ InHandPcs
    PROVE  ~InHand(proc[w].i)
<1>1. InHandPcs \subseteq Claiming
  BY DEF InHandPcs, Claiming
<1> QED
  BY <1>1, HandsOn DEF ClaimInvariant

(* No old intent becomes ready again, and only orders that are over are given up. *)
QuietStatus ==
    \A i \in Intents :
        /\ intent'[i].status \in Waiting => intent[i].status \in Waiting \/ i \notin aged
        /\ intent'[i].status \in Given => intent[i].status \in Given \/ Over(i)

LEMMA SentStep ==
    ASSUME SentInvariant, UNCHANGED <<broker, aged>>, QuietStatus,
           \A i \in Intents : calls[i] > 0 => calls'[i] > 0,
           \A i \in Intents : InHand(i)' => InHand(i),
           \A v \in Workers : Knows(proc'[v], broker, aged, calls')
    PROVE  SentInvariant'
<1>1. \A i \in aged : intent'[i].status \notin Waiting /\ broker'[i].status # "inflight" /\ ~InHand(i)'
  BY DEF SentInvariant, QuietStatus
<1>2. \A i \in Intents : intent'[i].status \in Given => Over(i)'
  BY DEF SentInvariant, QuietStatus, Over
<1> QED
  BY <1>1, <1>2 DEF SentInvariant

LEMMA SentGoto ==
    ASSUME NEW w \in Workers, NEW p, Shape, SentInvariant, Goto(w, p), DOMAIN p = Fields,
           UNCHANGED <<broker, aged, calls>>, QuietStatus,
           p.pc \in InHandPcs => proc[w].pc \in InHandPcs /\ p.i = proc[w].i,
           Knows(p, broker, aged, calls)
    PROVE  SentInvariant'
<1>1. /\ proc'[w].pc = p.pc /\ proc'[w].i = p.i /\ proc'[w].cur = p.cur
      /\ proc'[w].seen = p.seen /\ proc'[w].left = p.left
      /\ \A v \in Workers \ {w} : proc'[v] = proc[v]
  BY MoveStep DEF Shape
<1>2. \A v \in Workers : Knows(proc'[v], broker, aged, calls')
  BY <1>1 DEF Knows, SentInvariant
<1>3. \A i \in Intents : InHand(i)' => InHand(i)
  BY <1>1 DEF InHand, InHandPcs
<1> QED
  BY <1>2, <1>3, SentStep

LEMMA SentEnd ==
    ASSUME NEW w \in Workers, Shape, SentInvariant, End(w), UNCHANGED <<broker, aged, calls>>, QuietStatus
    PROVE  SentInvariant'
<1>1. proc'[w] = Idle /\ \A v \in Workers \ {w} : proc'[v] = proc[v]
  BY DEF End, Shape
<1>2. \A v \in Workers : Knows(proc'[v], broker, aged, calls')
  BY <1>1 DEF Knows, SentInvariant, Idle, Listed
<1>3. \A i \in Intents : InHand(i)' => InHand(i)
  BY <1>1 DEF InHand, Idle
<1> QED
  BY <1>2, <1>3, SentStep

(* Points at which a worker relies on nothing. *)
Dull == ProgramCounters \ (InHandPcs \cup Listed \cup {"markFailed"})

LEMMA SentDull ==
    ASSUME NEW w \in Workers, NEW p, Shape, SentInvariant, Goto(w, p), DOMAIN p = Fields, p.pc \in Dull,
           UNCHANGED <<broker, aged, calls>>, QuietStatus
    PROVE  SentInvariant'
<1>1. p.pc \notin InHandPcs /\ Knows(p, broker, aged, calls)
  BY DEF Dull, Knows, InHandPcs, Listed
<1> QED
  BY <1>1, SentGoto

LEMMA SentTo ==
    ASSUME NEW w \in Workers, NEW pc, pc \in Dull \/ (pc \in InHandPcs \ {"post"} /\ proc[w].pc \in InHandPcs),
           Shape, SentInvariant, Goto(w, To(w, pc)), UNCHANGED <<broker, aged, calls>>, QuietStatus
    PROVE  SentInvariant'
<1>1. DOMAIN To(w, pc) = Fields /\ To(w, pc).pc = pc /\ To(w, pc).i = proc[w].i
  BY ToRecord DEF Shape
<1>2. CASE pc \in Dull
  BY <1>1, <1>2, SentDull
<1>3. CASE pc \in InHandPcs \ {"post"} /\ proc[w].pc \in InHandPcs
  <2>1. Knows(To(w, pc), broker, aged, calls)
    BY <1>1, <1>3 DEF Knows, InHandPcs, Listed
  <2> QED
    BY <1>1, <1>3, <2>1, SentGoto
<1> QED
  BY <1>2, <1>3

LEMMA SameIntents ==
    ASSUME UNCHANGED intent
    PROVE  QuietStatus
BY DEF QuietStatus

(* One intent changes, and is neither made ready nor given up. *)
LEMMA OtherIntents ==
    ASSUME NEW i, \A k \in Intents : k # i => intent'[k] = intent[k],
           intent'[i].status \notin Waiting \cup Given
    PROVE  QuietStatus
BY DEF QuietStatus

(* The broker goes on with an order that it has or that was on its way. *)
LEMMA SentBroker ==
    ASSUME NEW i \in Intents, ReportInvariant, SentInvariant, UNCHANGED <<intent, aged, calls>>,
           broker[i].status \in Working \cup {"inflight"}, broker'[i].status # "inflight",
           \A k \in Intents : k # i => broker'[k] = broker[k],
           \A k \in Intents : InHand(k)' => InHand(k),
           \A v \in Workers : Knows(proc'[v], broker, aged, calls),
           \A v \in Workers : proc'[v].pc \in {"post", "markFailed"} => proc'[v].i \in Intents
    PROVE  SentInvariant'
<1>1. \A v \in Workers : Knows(proc'[v], broker', aged', calls')
  BY DEF Knows, SentInvariant, Working, Listed
<1>2. \A k \in Intents : broker'[k].status # "none" => calls'[k] > 0
  BY DEF SentInvariant, Working
<1>3. \A k \in aged : intent'[k].status \notin Waiting /\ broker'[k].status # "inflight" /\ ~InHand(k)'
  BY DEF SentInvariant
<1>4. \A k \in Intents : intent'[k].status \in Given => Over(k)'
  BY DEF SentInvariant, Over
<1> QED
  BY <1>1, <1>2, <1>3, <1>4 DEF SentInvariant

-----------------------------------------------------------------------------
(* The steps of the executors *)

(* The POST: the order gets to the broker while its executor has it in his  *)
(* hands, so nobody confirms its absence and nobody has given it up.        *)
LEMMA SentPost ==
    ASSUME NEW w \in Workers, ClaimInvariant, ReportInvariant, SentInvariant,
           PostAccepted(w) \/ PostUnanswered(w)
    PROVE  SentInvariant'
<1> DEFINE i == proc[w].i
<1>1. proc[w].pc = "post" /\ i \in Intents /\ UNCHANGED <<intent, aged, calls>>
  BY DEF PostAccepted, PostUnanswered, At, ClaimInvariant, Claiming, ledger, clocks, history
<1>2. proc[w].left = 0 /\ calls[i] > 0
  BY <1>1 DEF SentInvariant, Knows
<1>3. \A k \in Intents : k # i => broker'[k] = broker[k]
  BY <1>1 DEF PostAccepted, PostUnanswered, ReportInvariant, BrokerShape
<1>4. InHand(i) /\ i \notin aged /\ intent[i].status \notin Given
  BY <1>1 DEF InHand, SentInvariant, Over
<1>5. PICK p : Goto(w, p) /\ DOMAIN p = Fields /\ p.pc \in {"record", "markAmbiguous"}
  <2>1. CASE PostAccepted(w)
    <3>1. PICK r, p : Goto(w, p) /\ p = [To(w, "record") EXCEPT !.resp = r, !.left = 0]
      BY <2>1 DEF PostAccepted
    <3>2. DOMAIN p = Fields /\ p.pc = "record"
      BY <3>1, FieldNames DEF To, ClaimInvariant, Shape
    <3> QED
      BY <3>1, <3>2
  <2>2. CASE PostUnanswered(w)
    <3>1. PICK p : Goto(w, p) /\ p = [To(w, "markAmbiguous") EXCEPT !.left = 0]
      BY <1>2, <2>2 DEF PostUnanswered
    <3>2. DOMAIN p = Fields /\ p.pc = "markAmbiguous"
      BY <3>1, FieldNames DEF To, ClaimInvariant, Shape
    <3> QED
      BY <3>1, <3>2
  <2> QED
    BY <2>1, <2>2
<1>6. proc'[w].pc \in {"record", "markAmbiguous"} /\ \A v \in Workers \ {w} : proc'[v] = proc[v]
  BY <1>5, MoveStep DEF ClaimInvariant, Shape
<1>7. \A k \in Intents : InHand(k)' => InHand(k)
  BY <1>6 DEF InHand
<1>8. ASSUME NEW v \in Workers PROVE Knows(proc'[v], broker', aged, calls)
  <2>1. CASE v = w
    BY <1>6, <2>1 DEF Knows, Listed
  <2>2. CASE v # w
    <3>1. Knows(proc[v], broker, aged, calls) /\ proc'[v] = proc[v]
      BY <1>6, <2>2 DEF SentInvariant
    <3>2. proc[v].pc \in {"post", "markFailed"} => proc[v].i \in Intents /\ proc[v].i # i
      BY <1>1, <2>2 DEF ClaimInvariant, Claiming
    <3>3. (proc[v].pc = "absence" /\ proc[v].cur \in proc[v].seen) =>
              proc[v].cur \in Intents /\ proc[v].cur # i
      BY <1>4, <3>1 DEF Knows, Listed, SentInvariant
    <3> QED
      BY <1>3, <3>1, <3>2, <3>3 DEF Knows
  <2> QED
    BY <2>1, <2>2
<1>9. \A k \in Intents : broker'[k].status # "none" => calls'[k] > 0
  BY <1>1, <1>2, <1>3 DEF SentInvariant
<1>10. \A k \in aged : intent'[k].status \notin Waiting /\ broker'[k].status # "inflight" /\ ~InHand(k)'
  BY <1>1, <1>3, <1>4, <1>7 DEF SentInvariant
<1>11. \A k \in Intents : intent'[k].status \in Given => Over(k)'
  BY <1>1, <1>3, <1>4, <1>7 DEF SentInvariant, Over
<1> QED
  BY <1>1, <1>8, <1>9, <1>10, <1>11 DEF SentInvariant

(* A claim: the intent was ready, so it is not old. *)
LEMMA SentClaim ==
    ASSUME NEW w \in Workers, ClaimInvariant, ReportInvariant, SentInvariant, Claim(w)
    PROVE  SentInvariant'
<1>1. PICK i \in Scope(w) :
          /\ Claimable(i, proc[w].seen)
          /\ intent' = [intent EXCEPT ![i].status = "submission_pending"]
          /\ aged' = IF i \in attempted THEN aged ELSE aged \ {i}
          /\ Goto(w, [To(w, "claimed") EXCEPT !.i = i, !.todo = {}]) \/ End(w)
  BY DEF Claim
<1>2. UNCHANGED <<broker, calls>>
  BY DEF Claim, history
<1>3. i \in Intents /\ intent[i].status \in Waiting
  BY <1>1 DEF Scope, Claimable, Waiting, Intents
<1>4. i \notin aged /\ aged' = aged
  <2>1. i \notin aged
    BY <1>3 DEF SentInvariant
  <2> QED
    BY <1>1, <2>1
<1>5. /\ intent'[i].status = "submission_pending"
      /\ \A k \in Intents : k # i => intent'[k] = intent[k]
  BY <1>1, <1>3 DEF ClaimInvariant, Shape
<1>6. CASE End(w)
  <2>1. QuietStatus
    BY <1>5, OtherIntents DEF Waiting, Given
  <2> QED
    BY <1>2, <1>4, <1>6, <2>1, SentEnd DEF ClaimInvariant
<1>7. CASE Goto(w, [To(w, "claimed") EXCEPT !.i = i, !.todo = {}])
  <2>1. PICK p : Goto(w, p) /\ p = [To(w, "claimed") EXCEPT !.i = i, !.todo = {}]
    BY <1>7
  <2>2. DOMAIN p = Fields /\ p.pc = "claimed" /\ p.i = i
    BY <2>1, FieldNames DEF To, ClaimInvariant, Shape
  <2>3. /\ proc'[w].pc = "claimed" /\ proc'[w].i = i
        /\ \A v \in Workers \ {w} : proc'[v] = proc[v]
    <3>1. Goto(w, p) /\ DOMAIN proc = Workers
      BY <2>1 DEF ClaimInvariant, Shape
    <3> QED
      BY <2>2, <3>1, MoveStep
  <2>4. \A v \in Workers : Knows(proc'[v], broker', aged', calls')
    BY <1>2, <1>4, <2>3 DEF Knows, SentInvariant, Listed
  <2>5. \A k \in Intents : k # i => (InHand(k)' => InHand(k))
    BY <2>3 DEF InHand
  <2>6. \A k \in aged : intent'[k].status \notin Waiting /\ broker'[k].status # "inflight" /\ ~InHand(k)'
    BY <1>2, <1>4, <1>5, <2>5 DEF SentInvariant
  <2>7. \A k \in Intents : intent'[k].status \in Given => Over(k)'
    BY <1>2, <1>5, <2>5 DEF SentInvariant, Over, Given
  <2> QED
    BY <1>2, <1>4, <2>4, <2>6, <2>7 DEF SentInvariant
<1> QED
  BY <1>1, <1>6, <1>7

LEMMA SentSubmission ==
    ASSUME NEW w \in Workers, MaxRetries = 0, ClaimInvariant, ReportInvariant, SentInvariant,
           Submission(w)
    PROVE  SentInvariant'
<1> DEFINE i == proc[w].i
<1> USE DEF ledger, clocks, history
<1>1. /\ Shape /\ DOMAIN proc[w] = Fields
      /\ DOMAIN intent = Intents /\ \A k \in Intents : DOMAIN intent[k] = {"status", "life"}
  BY DEF ClaimInvariant, Shape
<1>2. ASSUME End(w), UNCHANGED <<broker, aged, calls>>, QuietStatus PROVE SentInvariant'
  BY <1>1, <1>2, SentEnd
<1>3. ASSUME NEW pc, pc \in Dull \/ (pc \in InHandPcs \ {"post"} /\ proc[w].pc \in InHandPcs),
             Goto(w, To(w, pc)), UNCHANGED <<broker, aged, calls>>, QuietStatus
      PROVE  SentInvariant'
  BY <1>1, <1>3, SentTo
<1>4. ASSUME proc[w].pc \in Claiming PROVE i \in Intents
  BY <1>4 DEF ClaimInvariant
<1>5. CASE StartExecution(w)
  <2>1. PICK fresh, ready, p :
            Goto(w, p) /\ p = [Idle EXCEPT !.pc = "persist", !.seen = fresh, !.todo = ready]
    BY <1>5 DEF StartExecution
  <2>2. DOMAIN p = Fields /\ p.pc \in Dull
    BY <2>1, FieldNames DEF Idle, Dull, ProgramCounters, InHandPcs, Listed
  <2>3. Goto(w, p) /\ UNCHANGED <<broker, aged, calls>> /\ QuietStatus
    BY <1>5, <2>1, SameIntents DEF StartExecution
  <2> QED
    BY <1>1, <2>2, <2>3, SentDull
<1>6. CASE Promote(w)
  <2>1. PICK k \in Scope(w) : /\ Confirmable(k, proc[w].seen)
                              /\ intent' = [intent EXCEPT ![k].status = "ready_for_submission"]
    BY <1>6 DEF Promote
  <2>2. QuietStatus
    BY <1>1, <2>1 DEF QuietStatus, Confirmable, Waiting, Given
  <2>3. (End(w) \/ Goto(w, To(w, "claim"))) /\ UNCHANGED <<broker, aged, calls>>
    BY <1>6 DEF Promote
  <2> QED
    BY <1>2, <1>3, <2>2, <2>3 DEF Dull, ProgramCounters, InHandPcs, Listed
<1>7. CASE Validate(w) \/ AttemptFails(w)
  <2>1. QuietStatus /\ UNCHANGED <<broker, aged, calls>> /\ proc[w].pc \in InHandPcs
    BY <1>7, SameIntents DEF Validate, AttemptFails, At, InHandPcs
  <2>2. Goto(w, To(w, "attempt")) \/ Goto(w, To(w, "release"))
    BY <1>7 DEF Validate, AttemptFails
  <2> QED
    BY <1>3, <2>1, <2>2 DEF InHandPcs
<1>8. CASE RecordAttempt(w)
  <2>1. /\ UNCHANGED <<broker, aged, calls>> /\ proc[w].pc \in InHandPcs
        /\ Goto(w, To(w, "submit")) \/ Goto(w, To(w, "release"))
    BY <1>8 DEF RecordAttempt, At, InHandPcs
  <2>2. PICK l : intent' = [intent EXCEPT ![i].life = l]
    BY <1>8 DEF RecordAttempt
  <2>3. QuietStatus
    BY <1>1, <2>2 DEF QuietStatus
  <2> QED
    BY <1>3, <2>1, <2>3 DEF InHandPcs
<1>9. CASE ReleaseClaim(w)
  <2>1. /\ intent' = [intent EXCEPT ![i].status = "ready_for_submission"] /\ proc[w].pc = "release"
        /\ End(w) /\ UNCHANGED <<broker, aged, calls>>
    BY <1>9 DEF ReleaseClaim, At
  <2>2. i \in Intents /\ i \notin aged
    BY <1>4, <2>1 DEF SentInvariant, InHand, Claiming
  <2>3. QuietStatus
    BY <1>1, <2>1, <2>2 DEF QuietStatus, Given
  <2> QED
    BY <1>2, <2>1, <2>3
<1>10. CASE SubmitOrder(w)
  <2>1. /\ proc[w].pc = "submit" /\ calls' = [calls EXCEPT ![i] = @ + 1]
        /\ UNCHANGED <<intent, broker, aged>>
    BY <1>10 DEF SubmitOrder, At
  <2>2. PICK p : Goto(w, p) /\ p = [To(w, "post") EXCEPT !.left = MaxRetries]
    BY <1>10 DEF SubmitOrder
  <2>3. DOMAIN p = Fields /\ p.pc = "post" /\ p.i = i /\ p.left = 0
    BY <1>1, <2>2, FieldNames DEF To
  <2>4. /\ proc'[w].pc = "post" /\ proc'[w].i = i /\ proc'[w].left = 0
        /\ \A v \in Workers \ {w} : proc'[v] = proc[v]
    <3>1. Goto(w, p) /\ DOMAIN proc = Workers
      BY <1>1, <2>2 DEF Shape
    <3> QED
      BY <2>3, <3>1, MoveStep
  <2>5. i \in Intents /\ calls[i] = 0 /\ calls \in [Intents -> Nat]
    BY <2>1 DEF ClaimInvariant, Claiming, Unsent, Shape
  <2>6. broker[i].status = "none"
    BY <2>5 DEF SentInvariant
  <2>7. calls'[i] > 0 /\ \A k \in Intents : calls[k] > 0 => calls'[k] > 0
    BY <2>1, <2>5
  <2>8. \A k \in Intents : InHand(k)' => InHand(k)
    BY <2>1, <2>4 DEF InHand
  <2>9. ASSUME NEW v \in Workers PROVE Knows(proc'[v], broker, aged, calls')
    <3>1. CASE v = w
      BY <2>4, <2>6, <2>7, <3>1 DEF Knows, Listed
    <3>2. CASE v # w
      <4>1. Knows(proc[v], broker, aged, calls) /\ proc'[v] = proc[v]
        BY <2>4, <3>2 DEF SentInvariant
      <4>2. proc[v].pc = "post" => proc[v].i \in Intents
        BY DEF ClaimInvariant, Claiming
      <4> QED
        BY <2>7, <4>1, <4>2 DEF Knows
    <3> QED
      BY <3>1, <3>2
  <2> QED
    BY <2>1, <2>7, <2>8, <2>9, SameIntents, SentStep
<1>11. CASE PostRefused(w)
  <2>1. PICK p : Goto(w, p) /\ p = [To(w, "markFailed") EXCEPT !.left = 0]
    BY <1>11 DEF PostRefused
  <2>2. DOMAIN p = Fields /\ p.pc = "markFailed" /\ p.i = i
    BY <1>1, <2>1, FieldNames DEF To
  <2>3. proc[w].pc = "post" /\ UNCHANGED <<broker, aged, calls>> /\ QuietStatus
    BY <1>11, SameIntents DEF PostRefused, At
  <2>4. Knows(p, broker, aged, calls)
    BY <2>2, <2>3 DEF Knows, SentInvariant, Listed
  <2>5. Goto(w, p)
    BY <2>1
  <2> QED
    BY <1>1, <2>2, <2>3, <2>4, <2>5, SentGoto DEF InHandPcs
<1>12. CASE RecordSubmission(w)
  <2>1. PICK s, l : /\ intent' = [intent EXCEPT ![i] = [status |-> s, life |-> l]]
                    /\ s = IF proc[w].resp.status = "canceled" THEN "cancelled" ELSE "submitted"
    BY <1>12 DEF RecordSubmission
  <2>2. /\ proc[w].pc = "record" /\ UNCHANGED <<broker, aged, calls>>
        /\ End(w) \/ Goto(w, To(w, "markAmbiguous"))
    BY <1>12 DEF RecordSubmission, At
  <2>3. i \in Intents /\ ~InHand(i)
    BY <1>4, <2>2, ClaimantIsAlone DEF Claiming, InHandPcs
  <2>4. proc[w].resp.status = "canceled" => broker[i].status = "canceled"
    BY <2>2 DEF ReportInvariant, HoldsTrueReports, Agrees, TerminalBrokerStatuses
  <2>5. s \in Given => Over(i)
    BY <2>1, <2>3, <2>4 DEF Over, Given, Working
  <2>6. QuietStatus
    BY <1>1, <2>1, <2>3, <2>5 DEF QuietStatus, Waiting
  <2> QED
    BY <1>2, <1>3, <2>2, <2>6 DEF Dull, ProgramCounters, InHandPcs, Listed
<1>13. CASE MarkFailed(w)
  <2>1. /\ proc[w].pc = "markFailed" /\ UNCHANGED <<broker, aged, calls>> /\ End(w)
        /\ intent' = [intent EXCEPT ![i] = [status |-> "failed", life |-> "failed_terminal"]]
    BY <1>13 DEF MarkFailed, At
  <2>2. i \in Intents /\ ~InHand(i)
    BY <1>4, <2>1, ClaimantIsAlone DEF Claiming, InHandPcs
  <2>3. Over(i)
    BY <2>1, <2>2 DEF Over, SentInvariant, Knows, Working
  <2>4. QuietStatus
    BY <1>1, <2>1, <2>2, <2>3 DEF QuietStatus, Waiting
  <2> QED
    BY <1>2, <2>1, <2>4
<1>14. CASE MarkAmbiguous(w)
  <2>1. PICK l, p : /\ intent' = [intent EXCEPT ![i] = [status |-> "ambiguous", life |-> l]]
                    /\ p = [To(w, "lookup") EXCEPT !.resp = NoOrder]
                    /\ Goto(w, p) \/ End(w)
    BY <1>14 DEF MarkAmbiguous
  <2>2. UNCHANGED <<broker, aged, calls>> /\ i \in Intents
    BY <1>4, <1>14 DEF MarkAmbiguous, At, Claiming
  <2>3. QuietStatus
    BY <1>1, <2>1, <2>2 DEF QuietStatus, Waiting, Given
  <2>4. DOMAIN p = Fields /\ p.pc \in Dull
    BY <1>1, <2>1, FieldNames DEF To, Dull, ProgramCounters, InHandPcs, Listed
  <2>5. Goto(w, p) \/ End(w)
    BY <2>1
  <2> QED
    BY <1>1, <1>2, <2>2, <2>3, <2>4, <2>5, SentDull
<1>15. CASE LookupFinds(w)
  <2>1. PICK r, p : Goto(w, p) /\ p = [To(w, "list") EXCEPT !.resp = r]
    BY <1>15 DEF LookupFinds
  <2>2. DOMAIN p = Fields /\ p.pc \in Dull
    BY <1>1, <2>1, FieldNames DEF To, Dull, ProgramCounters, InHandPcs, Listed
  <2>3. Goto(w, p) /\ UNCHANGED <<broker, aged, calls>> /\ QuietStatus
    BY <1>15, <2>1, SameIntents DEF LookupFinds
  <2> QED
    BY <1>1, <2>2, <2>3, SentDull
<1>16. CASE PromoteNothing(w) \/ ClaimNothing(w) \/ ReleaseFails(w) \/ RecordFails(w) \/ MarkFails(w)
            \/ LookupFails(w) \/ Receipt(w) \/ ReceiptFails(w)
  <2>1. UNCHANGED <<broker, aged, calls>> /\ QuietStatus
    BY <1>16, SameIntents DEF PromoteNothing, ClaimNothing, ReleaseFails, RecordFails, MarkFails,
                              LookupFails, Receipt, ReceiptFails
  <2>2. End(w) \/ Goto(w, To(w, "markAmbiguous"))
    BY <1>16 DEF PromoteNothing, ClaimNothing, ReleaseFails, RecordFails, MarkFails,
                 LookupFails, Receipt, ReceiptFails
  <2> QED
    BY <1>2, <1>3, <2>1, <2>2 DEF Dull, ProgramCounters, InHandPcs, Listed
<1> QED
  BY <1>5, <1>6, <1>7, <1>8, <1>9, <1>10, <1>11, <1>12, <1>13, <1>14, <1>15, <1>16,
     SentClaim, SentPost DEF Submission

-----------------------------------------------------------------------------
(* The steps of the others *)

(* A reconciliation goes on with the old attempts that it saw. *)
LEMMA SentNext ==
    ASSUME NEW w \in Workers, NEW p, Shape, SentInvariant, Goto(w, p), DOMAIN p = Fields,
           UNCHANGED <<broker, aged, calls>>, QuietStatus,
           p.pc \in {"sync", "next", "observe", "settle"},
           p.seen = aged \/ (proc[w].pc \in Listed /\ p.seen = proc[w].seen)
    PROVE  SentInvariant'
<1>1. Knows(p, broker, aged, calls)
  BY DEF Knows, Listed, SentInvariant
<1> QED
  BY <1>1, SentGoto DEF InHandPcs

LEMMA SentProcessed ==
    ASSUME NEW w \in Workers, NEW j, NEW failed, Shape, SentInvariant, proc[w].pc \in Listed,
           Goto(w, Processed(w, j, failed)), UNCHANGED <<broker, aged, calls>>, QuietStatus
    PROVE  SentInvariant'
<1>1. PICK p : Goto(w, p) /\ p = Processed(w, j, failed)
  OBVIOUS
<1>2. DOMAIN p = Fields /\ p.pc \in {"sync", "next"} /\ p.seen = proc[w].seen
  BY <1>1, FieldNames DEF Processed, Shape
<1> QED
  BY <1>1, <1>2, SentNext

LEMMA SentListing ==
    ASSUME NEW w \in Workers, NEW q, NEW scope, NEW p, Shape, SentInvariant, DOMAIN q = Fields,
           NEW e, p = Listing(q, scope) \/ p = [Listing(q, scope) EXCEPT !.err = e],
           Goto(w, p), UNCHANGED <<broker, aged, calls, intent>>
    PROVE  SentInvariant'
<1>1. DOMAIN p = Fields /\ p.pc \in {"sync", "next"} /\ p.seen = aged
  BY FieldNames DEF Listing
<1> QED
  BY <1>1, SentNext, SameIntents

LEMMA SentReconciliation ==
    ASSUME NEW w \in Workers, ClaimInvariant, ReportInvariant, SentInvariant, Reconciliation(w)
    PROVE  SentInvariant'
<1> DEFINE j == proc[w].cur
<1> USE DEF ledger, clocks, history
<1>1. /\ Shape /\ DOMAIN proc[w] = Fields
      /\ DOMAIN intent = Intents /\ \A k \in Intents : DOMAIN intent[k] = {"status", "life"}
  BY DEF ClaimInvariant, Shape
<1>2. ASSUME NEW failed, proc[w].pc \in Listed, Goto(w, Processed(w, j, failed)),
             UNCHANGED <<broker, aged, calls>>, QuietStatus
      PROVE  SentInvariant'
  BY <1>1, <1>2, SentProcessed
<1>3. CASE StartReconciliation(w)
  <2>1. PICK p : Goto(w, p) /\ p = Listing(Idle, Intents)
    BY <1>3 DEF StartReconciliation
  <2>2. DOMAIN Idle = Fields /\ UNCHANGED <<broker, aged, calls, intent>>
    BY <1>3 DEF Fields, StartReconciliation
  <2> QED
    BY <1>1, <2>1, <2>2, SentListing
<1>4. CASE List(w)
  <2>1. PICK p, scope : /\ Goto(w, p)
                        /\ \/ p = Listing(proc[w], scope)
                           \/ p = [Listing(proc[w], scope) EXCEPT !.err = ~Target(proc[w].i)]
    BY <1>4 DEF List
  <2>2. UNCHANGED <<broker, aged, calls, intent>>
    BY <1>4 DEF List
  <2> QED
    BY <1>1, <2>1, <2>2, SentListing
<1>5. CASE FetchFinds(w)
  <2>1. PICK k, r, p : Goto(w, p) /\ p = [To(w, "observe") EXCEPT !.cur = k, !.got = r]
    BY <1>5 DEF FetchFinds
  <2>2. DOMAIN p = Fields /\ p.pc = "observe" /\ p.seen = proc[w].seen
    BY <1>1, <2>1, FieldNames DEF To
  <2>3. Goto(w, p) /\ UNCHANGED <<broker, aged, calls>> /\ QuietStatus /\ proc[w].pc \in Listed
    BY <1>5, <2>1, SameIntents DEF FetchFinds, At, Listed
  <2> QED
    BY <1>1, <2>2, <2>3, SentNext
<1>6. CASE FetchAbsent(w)
  <2>1. PICK k, p : /\ ~Visible(k) /\ Goto(w, p)
                    /\ p = [To(w, "absence") EXCEPT !.cur = k, !.left = absences[k],
                               !.seen = IF k \in attempted THEN @ \cap aged ELSE @]
    BY <1>6 DEF FetchAbsent
  <2>2. DOMAIN p = Fields /\ p.pc = "absence" /\ p.seen \subseteq proc[w].seen /\ p.cur = k
    BY <1>1, <2>1, FieldNames DEF To
  <2>3. /\ Goto(w, p) /\ UNCHANGED <<broker, aged, calls>> /\ QuietStatus /\ proc[w].pc = "next"
    BY <1>6, <2>1, SameIntents DEF FetchAbsent, At
  <2>4. p.seen \subseteq aged
    BY <2>2, <2>3 DEF SentInvariant, Knows, Listed
  <2>5. k \in p.seen => broker[k].status = "none"
    BY <2>1, <2>4 DEF SentInvariant, Visible
  <2>6. Knows(p, broker, aged, calls)
    BY <2>2, <2>4, <2>5 DEF Knows
  <2> QED
    BY <1>1, <2>2, <2>3, <2>6, SentGoto DEF InHandPcs
<1>7. CASE FetchFails(w)
  <2>1. PICK k : Goto(w, Processed(w, k, TRUE))
    BY <1>7 DEF FetchFails
  <2>2. UNCHANGED <<broker, aged, calls>> /\ QuietStatus /\ proc[w].pc \in Listed
    BY <1>7, SameIntents DEF FetchFails, At, Listed
  <2> QED
    BY <1>1, <2>1, <2>2, SentProcessed
<1>8. CASE Observe(w)
  <2>1. PICK s, l : /\ intent' = [intent EXCEPT ![j] = [status |-> s, life |-> l]]
                    /\ s = IF Terminal(proc[w].got) THEN "reconciled" ELSE "submitted"
    BY <1>8 DEF Observe
  <2>2. QuietStatus
    BY <1>1, <2>1 DEF QuietStatus, Waiting, Given
  <2>3. UNCHANGED <<broker, aged, calls>> /\ proc[w].pc \in Listed
    BY <1>8 DEF Observe, At, Listed
  <2>4. CASE Goto(w, To(w, "settle"))
    <3>1. PICK p : Goto(w, p) /\ p = To(w, "settle")
      BY <2>4
    <3>2. DOMAIN p = Fields /\ p.pc = "settle" /\ p.seen = proc[w].seen
      BY <1>1, <3>1, ToRecord
    <3> QED
      BY <1>1, <2>2, <2>3, <3>1, <3>2, SentNext
  <2>5. Goto(w, To(w, "settle")) \/ Goto(w, Processed(w, j, FALSE)) \/ Goto(w, Processed(w, j, TRUE))
    BY <1>8 DEF Observe
  <2> QED
    BY <1>2, <2>2, <2>3, <2>4, <2>5
<1>9. CASE ObserveConflict(w) \/ ObserveFails(w) \/ Settle(w) \/ SettleNothing(w)
           \/ RecordAbsence(w) \/ AbsenceFails(w)
  <2>1. PICK failed : Goto(w, Processed(w, j, failed))
    BY <1>9 DEF ObserveConflict, ObserveFails, Settle, SettleNothing, RecordAbsence, AbsenceFails
  <2>2. UNCHANGED <<broker, aged, calls>> /\ QuietStatus /\ proc[w].pc \in Listed
    BY <1>9, SameIntents DEF ObserveConflict, ObserveFails, Settle, SettleNothing, RecordAbsence,
                             AbsenceFails, At, Listed
  <2> QED
    BY <1>2, <2>1, <2>2
<1>10. CASE ConfirmAbsence(w)
  <2>1. PICK failed : Goto(w, Processed(w, j, failed))
    BY <1>10 DEF ConfirmAbsence
  <2>2. /\ UNCHANGED <<broker, aged, calls>> /\ proc[w].pc = "absence" /\ j \in proc[w].seen
    BY <1>10 DEF ConfirmAbsence, At, AbsenceConfirmed
  <2>3. PICK s : /\ intent' = [intent EXCEPT ![j].status = s]
                 /\ s \in {"failed", intent[j].status}
    BY <1>10 DEF ConfirmAbsence
  <2>4. j \in aged /\ broker[j].status = "none"
    BY <2>2 DEF SentInvariant, Knows, Listed
  <2>5. j \in Intents /\ Over(j)
    BY <2>4 DEF SentInvariant, Over, Working
  <2>6. QuietStatus
    BY <1>1, <2>3, <2>5 DEF QuietStatus, Waiting
  <2> QED
    BY <1>2, <2>1, <2>2, <2>6 DEF Listed
<1>11. ASSUME ClosePositions PROVE QuietStatus
  BY <1>11 DEF ClosePositions, QuietStatus, Waiting, Given
<1>12. CASE Sync(w)
  <2>1. PICK p : p = [To(w, "receipt") EXCEPT !.seen = {}] /\ (End(w) \/ Goto(w, p))
    BY <1>12 DEF Sync
  <2>2. DOMAIN p = Fields /\ p.pc \in Dull
    BY <1>1, <2>1, FieldNames DEF To, Dull, ProgramCounters, InHandPcs, Listed
  <2>3. UNCHANGED <<broker, aged, calls>> /\ QuietStatus /\ (End(w) \/ Goto(w, p))
    BY <1>11, <1>12, <2>1 DEF Sync
  <2> QED
    BY <1>1, <2>2, <2>3, SentDull, SentEnd
<1>13. CASE Persist(w)
  <2>1. UNCHANGED <<broker, aged, calls>> /\ QuietStatus
    BY <1>11, <1>13 DEF Persist
  <2>2. Goto(w, To(w, "promote")) \/ Goto(w, To(w, "claim"))
    BY <1>13 DEF Persist
  <2> QED
    BY <1>1, <2>1, <2>2, SentTo DEF Dull, ProgramCounters, InHandPcs, Listed
<1>14. CASE ListFails(w) \/ SyncFails(w) \/ PersistFails(w)
  <2>1. End(w) /\ UNCHANGED <<broker, aged, calls>> /\ QuietStatus
    BY <1>14, SameIntents DEF ListFails, SyncFails, PersistFails
  <2> QED
    BY <1>1, <2>1, SentEnd
<1> QED
  BY <1>3, <1>4, <1>5, <1>6, <1>7, <1>8, <1>9, <1>10, <1>12, <1>13, <1>14 DEF Reconciliation

(* A stale intent is cancelled while it is ready, so it was never sent. *)
LEMMA SentRecovery ==
    ASSUME NEW w \in Workers, ClaimInvariant, ReportInvariant, SentInvariant, Recovery(w)
    PROVE  SentInvariant'
<1> USE DEF ledger, clocks, history
<1>1. /\ Shape /\ DOMAIN proc[w] = Fields
      /\ DOMAIN intent = Intents /\ \A k \in Intents : DOMAIN intent[k] = {"status", "life"}
  BY DEF ClaimInvariant, Shape
<1>2. \A k \in Intents : intent[k].status \in Waiting => Over(k)
  BY WaitingIsOver
<1>3. CASE StartRecovery(w)
  <2>1. PICK pc \in {"reservations", "stale"} :
            \E seen, todo : Goto(w, [Idle EXCEPT !.pc = pc, !.seen = seen, !.todo = todo])
    BY <1>3 DEF StartRecovery
  <2>2. PICK seen, todo, p :
            Goto(w, p) /\ p = [Idle EXCEPT !.pc = pc, !.seen = seen, !.todo = todo]
    BY <2>1
  <2>3. DOMAIN p = Fields /\ p.pc = pc
    BY <2>2, FieldNames DEF Idle
  <2>4. p.pc \in Dull
    BY <2>3 DEF Dull, ProgramCounters, InHandPcs, Listed
  <2>5. Goto(w, p) /\ UNCHANGED <<broker, aged, calls>> /\ QuietStatus
    BY <1>3, <2>2, SameIntents DEF StartRecovery
  <2> QED
    BY <1>1, <2>3, <2>4, <2>5, SentDull
<1>4. CASE LookUpStale(w)
  <2>1. PICK j, r, p :
            Goto(w, p) /\ p = [To(w, "staleWrite") EXCEPT !.cur = j, !.todo = @ \ {j}, !.got = r]
    BY <1>4 DEF LookUpStale
  <2>2. DOMAIN p = Fields /\ p.pc \in Dull
    BY <1>1, <2>1, FieldNames DEF To, Dull, ProgramCounters, InHandPcs, Listed
  <2>3. Goto(w, p) /\ UNCHANGED <<broker, aged, calls>> /\ QuietStatus
    BY <1>4, <2>1, SameIntents DEF LookUpStale
  <2> QED
    BY <1>1, <2>2, <2>3, SentDull
<1>5. CASE ResolveStale(w) \/ SkipStale(w)
  <2>1. PICK pc \in {"reservations", "stale"} :
            \/ End(w)
            \/ Goto(w, [To(w, pc) EXCEPT !.cur = NoIntent, !.got = NoOrder])
    BY <1>5 DEF ResolveStale, SkipStale, NextStale
  <2>2. PICK p : p = [To(w, pc) EXCEPT !.cur = NoIntent, !.got = NoOrder] /\ (End(w) \/ Goto(w, p))
    BY <2>1
  <2>3. DOMAIN p = Fields /\ p.pc = pc
    BY <1>1, <2>2, FieldNames DEF To
  <2>4. p.pc \in Dull
    BY <2>3 DEF Dull, ProgramCounters, InHandPcs, Listed
  <2>5. UNCHANGED <<broker, aged, calls>> /\ (End(w) \/ Goto(w, p))
    BY <1>5, <2>2 DEF ResolveStale, SkipStale
  <2>6. QuietStatus
    <3>1. CASE UNCHANGED intent
      BY <3>1, SameIntents
    <3>2. ASSUME NEW j, NEW s \in {"cancelled", "ambiguous"}, intent[j].status = "ready_for_submission",
                 intent' = [intent EXCEPT ![j].status = s]
          PROVE  QuietStatus
      BY <1>1, <1>2, <3>2 DEF QuietStatus, Waiting, Given
    <3> QED
      BY <1>5, <3>1, <3>2 DEF ResolveStale, SkipStale, CancelStale, CancelsStale, Ready, PreserveStale
  <2> QED
    BY <1>1, <2>3, <2>4, <2>5, <2>6, SentDull, SentEnd
<1>6. CASE CancelCreated(w)
  <2>1. End(w) /\ UNCHANGED <<broker, aged, calls>>
    BY <1>6 DEF CancelCreated
  <2>2. QuietStatus
    BY <1>1, <1>2, <1>6 DEF CancelCreated, QuietStatus, Waiting, Given
  <2> QED
    BY <1>1, <2>1, <2>2, SentEnd
<1>7. CASE ExpireReservations(w) \/ ExpireReviews(w) \/ ExpireConfirmations(w)
           \/ RecoveryWritesNothing(w) \/ RecoveryFails(w)
  <2>1. PICK pc \in {"reviews", "confirmations", "createdIntents"} : End(w) \/ Goto(w, To(w, pc))
    BY <1>7 DEF ExpireReservations, ExpireReviews, ExpireConfirmations, RecoveryWritesNothing,
                RecoveryFails
  <2>2. UNCHANGED <<broker, aged, calls>> /\ QuietStatus
    BY <1>7, SameIntents DEF ExpireReservations, ExpireReviews, ExpireConfirmations,
                             RecoveryWritesNothing, RecoveryFails
  <2> QED
    BY <1>1, <2>1, <2>2, SentTo, SentEnd DEF Dull, ProgramCounters, InHandPcs, Listed
<1> QED
  BY <1>3, <1>4, <1>5, <1>6, <1>7 DEF Recovery

LEMMA SentCancellation ==
    ASSUME NEW w \in Workers, ClaimInvariant, ReportInvariant, SentInvariant, Cancellation(w)
    PROVE  SentInvariant'
<1> USE DEF ledger, clocks, history
<1>1. /\ Shape /\ DOMAIN proc[w] = Fields
      /\ DOMAIN intent = Intents /\ \A k \in Intents : DOMAIN intent[k] = {"status", "life"}
  BY DEF ClaimInvariant, Shape
<1>2. CASE StartCancellation(w)
  <2>1. PICK i, p : Goto(w, p) /\ p = [Idle EXCEPT !.pc = "before", !.i = i,
                                                    !.snap[i].life = intent[i].life]
    BY <1>2 DEF StartCancellation
  <2>2. DOMAIN p = Fields /\ p.pc = "before"
    BY <2>1, FieldNames DEF Idle
  <2>3. Goto(w, p) /\ UNCHANGED <<broker, aged, calls>> /\ QuietStatus
    BY <1>2, <2>1, SameIntents DEF StartCancellation
  <2> QED
    BY <1>1, <2>2, <2>3, SentDull DEF Dull, ProgramCounters, InHandPcs, Listed
<1>3. CASE LookBefore(w) \/ Poll(w)
  <2>1. PICK pc \in {"list", "poll", "claimCancel", "request"} :
            \E r : Goto(w, [To(w, pc) EXCEPT !.resp = r])
    BY <1>3 DEF LookBefore, Poll
  <2>2. PICK r, p : Goto(w, p) /\ p = [To(w, pc) EXCEPT !.resp = r]
    BY <2>1
  <2>3. DOMAIN p = Fields /\ p.pc = pc
    BY <1>1, <2>2, FieldNames DEF To
  <2>4. p.pc \in Dull
    BY <2>3 DEF Dull, ProgramCounters, InHandPcs, Listed
  <2>5. Goto(w, p) /\ UNCHANGED <<broker, aged, calls>> /\ QuietStatus
    BY <1>3, <2>2, SameIntents DEF LookBefore, Poll
  <2> QED
    BY <1>1, <2>3, <2>4, <2>5, SentDull
<1>4. CASE RequestCancel(w) \/ ClaimCancel(w)
  <2>1. PICK l : intent' = [intent EXCEPT ![proc[w].i].life = l]
    BY <1>4 DEF RequestCancel, ClaimCancel
  <2>2. QuietStatus
    BY <1>1, <2>1 DEF QuietStatus
  <2>3. /\ UNCHANGED <<broker, aged, calls>>
        /\ End(w) \/ Goto(w, To(w, "claimCancel")) \/ Goto(w, To(w, "delete"))
    BY <1>4 DEF RequestCancel, ClaimCancel
  <2> QED
    BY <1>1, <2>2, <2>3, SentTo, SentEnd DEF Dull, ProgramCounters, InHandPcs, Listed
<1>5. CASE ClaimedBefore(w) \/ CancellationFails(w)
  <2>1. UNCHANGED <<broker, aged, calls>> /\ QuietStatus /\ (End(w) \/ Goto(w, To(w, "poll")))
    BY <1>5, SameIntents DEF ClaimedBefore, CancellationFails
  <2> QED
    BY <1>1, <2>1, SentTo, SentEnd DEF Dull, ProgramCounters, InHandPcs, Listed
<1>6. CASE DeleteOrder(w)
  <2> DEFINE i == proc[w].i
  <2>1. Goto(w, To(w, "poll")) /\ UNCHANGED <<intent, aged, calls>>
    BY <1>6 DEF DeleteOrder
  <2>2. CASE UNCHANGED broker
    BY <1>1, <2>1, <2>2, SentTo, SameIntents DEF Dull, ProgramCounters, InHandPcs, Listed
  <2>3. CASE broker[i].status \in Working /\ broker' = [broker EXCEPT ![i].status = "canceled"]
    <3>1. i \in Intents
      BY <1>6 DEF DeleteOrder, At, ReportInvariant, HoldsTrueReports, CancelPcs
    <3>2. broker'[i].status # "inflight" /\ \A k \in Intents : k # i => broker'[k] = broker[k]
      BY <2>3, <3>1 DEF ReportInvariant, BrokerShape
    <3>3. DOMAIN To(w, "poll") = Fields /\ To(w, "poll").pc = "poll"
      BY <1>1, ToRecord
    <3>4. proc'[w].pc = "poll" /\ \A v \in Workers \ {w} : proc'[v] = proc[v]
      BY <1>1, <2>1, <3>3, MoveStep DEF Shape
    <3>5. \A k \in Intents : InHand(k)' => InHand(k)
      BY <3>4 DEF InHand
    <3>6. \A v \in Workers : Knows(proc'[v], broker, aged, calls)
      BY <3>4 DEF Knows, SentInvariant, Listed
    <3>7. \A v \in Workers : proc'[v].pc \in {"post", "markFailed"} => proc'[v].i \in Intents
      BY <3>4 DEF ClaimInvariant, Claiming
    <3> QED
      BY <2>1, <2>3, <3>1, <3>2, <3>5, <3>6, <3>7, SentBroker
  <2> QED
    BY <1>6, <2>2, <2>3 DEF DeleteOrder
<1> QED
  BY <1>2, <1>3, <1>4, <1>5, <1>6 DEF Cancellation

LEMMA SentEnvironment ==
    ASSUME ClaimInvariant, ReportInvariant, SentInvariant, Environment
    PROVE  SentInvariant'
<1> USE DEF ledger, clocks, history
<1>1. ASSUME NEW i \in Intents, Arrive(i) \/ Fill(i) \/ BrokerCancels(i) PROVE SentInvariant'
  <2>1. UNCHANGED <<intent, aged, calls, proc>> /\ broker[i].status \in Working \cup {"inflight"}
    BY <1>1 DEF Arrive, Fill, BrokerCancels
  <2>2. broker'[i].status # "inflight" /\ \A k \in Intents : k # i => broker'[k] = broker[k]
    BY <1>1 DEF Arrive, Fill, BrokerCancels, ReportInvariant, BrokerShape
  <2>3. \A k \in Intents : InHand(k)' => InHand(k)
    BY <2>1 DEF InHand
  <2>4. \A v \in Workers : /\ Knows(proc'[v], broker, aged, calls)
                           /\ proc'[v].pc \in {"post", "markFailed"} => proc'[v].i \in Intents
    BY <2>1 DEF SentInvariant, ClaimInvariant, Claiming
  <2> QED
    BY <2>1, <2>2, <2>3, <2>4, SentBroker
<1>2. ASSUME NEW i \in Intents, Lapse(i) PROVE SentInvariant'
  <2>1. UNCHANGED <<intent, aged, calls, proc, broker>>
    BY <1>2 DEF Lapse
  <2> QED
    BY <2>1 DEF SentInvariant, Over, InHand
<1>3. ASSUME NEW i \in Intents, Age(i) PROVE SentInvariant'
  <2>1. /\ UNCHANGED <<intent, calls, proc, broker>> /\ aged' = aged \cup {i}
        /\ intent[i].status \notin Waiting /\ ~InHand(i) /\ broker[i].status # "inflight"
    BY <1>3 DEF Age, Waiting
  <2>2. \A k : InHand(k)' <=> InHand(k)
    BY <2>1 DEF InHand
  <2>3. \A v \in Workers : Knows(proc'[v], broker', aged', calls')
    BY <2>1 DEF Knows, SentInvariant
  <2>4. \A k \in aged' : intent'[k].status \notin Waiting /\ broker'[k].status # "inflight" /\ ~InHand(k)'
    BY <2>1, <2>2 DEF SentInvariant
  <2>5. \A k \in Intents : intent'[k].status \in Given => Over(k)'
    BY <2>1, <2>2 DEF SentInvariant, Over
  <2>6. aged' \subseteq Intents /\ \A k \in Intents : broker'[k].status # "none" => calls'[k] > 0
    BY <2>1 DEF SentInvariant
  <2> QED
    BY <2>3, <2>4, <2>5, <2>6 DEF SentInvariant
<1>4. ASSUME NEW w \in Workers, Crash(w) PROVE SentInvariant'
  <2>1. End(w) /\ UNCHANGED <<broker, aged, calls>> /\ QuietStatus
    BY <1>4, SameIntents DEF Crash
  <2> QED
    BY <2>1, SentEnd DEF ClaimInvariant
<1>5. ASSUME NEW w \in Workers, LoseFence(w) PROVE SentInvariant'
  <2>1. UNCHANGED <<intent, aged, calls, broker>>
    BY <1>5 DEF LoseFence
  <2>2. /\ proc'[w].pc = proc[w].pc /\ proc'[w].i = proc[w].i /\ proc'[w].cur = proc[w].cur
        /\ proc'[w].seen = proc[w].seen /\ proc'[w].left = proc[w].left
        /\ \A v \in Workers \ {w} : proc'[v] = proc[v]
    BY <1>5, FieldNames DEF LoseFence, ClaimInvariant, Shape
  <2>3. \A v \in Workers : Knows(proc'[v], broker, aged, calls')
    BY <2>1, <2>2 DEF Knows, SentInvariant
  <2>4. \A k \in Intents : InHand(k)' => InHand(k)
    BY <2>2 DEF InHand
  <2> QED
    BY <2>1, <2>3, <2>4, SentStep, SameIntents
<1> QED
  BY <1>1, <1>2, <1>3, <1>4, <1>5 DEF Environment

-----------------------------------------------------------------------------
(* The invariant and what follows from it *)

LEMMA NothingIsSentInitially == Init => SentInvariant
<1> SUFFICES ASSUME Init PROVE SentInvariant
  OBVIOUS
<1>1. \A w \in Workers : Knows(proc[w], broker, aged, calls) /\ proc[w].pc = "idle"
  BY DEF Init, Idle, Knows, Listed
<1>2. aged = {} /\ \A i \in Intents : broker[i].status = "none"
  BY DEF Init, NoOrder
<1>3. \A i \in Intents : intent[i].status \notin Given
  BY DEF Init, Given
<1> QED
  BY <1>1, <1>2, <1>3 DEF SentInvariant

(* An attempt that has become old is out of the hands of its executor and   *)
(* not on its way to the broker, and an intent that was given up has no     *)
(* order that works or might still arrive (the age of a submission attempt  *)
(* in recordBrokerOrderAbsence, the guards of runAutonomousPostgresRecovery *)
(* and of the outcomes of submitPaperOrder), when the client sends every    *)
(* POST once (ALPACA_MAX_RETRIES = 0).                                      *)
THEOREM OldAttemptsAreOver ==
    ASSUME MaxRetries = 0
    PROVE  Spec => []SentInvariant
<1>1. ClaimInvariant /\ ReportInvariant /\ SentInvariant /\ [Next]_vars => SentInvariant'
  <2>1. ASSUME ClaimInvariant, ReportInvariant, SentInvariant, Next PROVE SentInvariant'
    BY <2>1, SentSubmission, SentReconciliation, SentRecovery, SentCancellation, SentEnvironment
       DEF Next, WorkerStep
  <2>2. ASSUME SentInvariant, UNCHANGED vars PROVE SentInvariant'
    BY <2>2 DEF vars, ledger, clocks, history, SentInvariant, Over, InHand
  <2> QED
    BY <2>1, <2>2
<1> QED
  BY <1>1, NothingIsSentInitially, ClaimsAreExclusive, ReportsAreTrue, PTL DEF Spec

(* No order is given up while the broker has it: an intent that failed or   *)
(* was cancelled has no working order at the broker, nor one on its way, if *)
(* no POST is repeated.  With retries the invariant fails (a refused        *)
(* duplicate is recorded as a refused order), which run duplicate_refused   *)
(* shows; the theorem says that every such failure needs a repeated POST.   *)
THEOREM NothingIsAbandoned ==
    ASSUME MaxRetries = 0
    PROVE  Spec => []NoAbandonedOrder
<1>1. SentInvariant => NoAbandonedOrder
  BY DEF SentInvariant, NoAbandonedOrder, Over, Given
<1> QED
  BY <1>1, OldAttemptsAreOver, PTL

-----------------------------------------------------------------------------
(* Sums of amounts *)

LEMMA AmountIsFinite ==
    ASSUME NEW i, NEW n \in Nat
    PROVE  IsFiniteSet({i} \X (1..n)) /\ Cardinality({i} \X (1..n)) = n
<1>1. IsFiniteSet({i}) /\ Cardinality({i}) = 1
  BY FS_Singleton
<1>2. n \in Int /\ 1 \in Int
  OBVIOUS
<1>3. IsFiniteSet(1..n) /\ Cardinality(1..n) = IF 1 > n THEN 0 ELSE n - 1 + 1
  BY <1>2, FS_Interval
<1>4. Cardinality(1..n) = n
  BY <1>3
<1>5. /\ IsFiniteSet({i} \X (1..n))
      /\ Cardinality({i} \X (1..n)) = Cardinality({i}) * Cardinality(1..n)
  BY <1>1, <1>3, FS_Product
<1> QED
  BY <1>1, <1>4, <1>5

LEMMA UnitsAreFinite ==
    ASSUME NEW S, IsFiniteSet(S), NEW a, \A i \in S : a[i] \in Nat
    PROVE  IsFiniteSet(Units(a, S)) /\ SumOver(a, S) \in Nat
<1> DEFINE T == {{i} \X (1..a[i]) : i \in S}
           f == [i \in S |-> {i} \X (1..a[i])]
<1>1. f \in Surjection(S, T)
  BY DEF Surjection
<1>2. IsFiniteSet(T)
  <2> HIDE DEF f, T
  <2> QED
    BY <1>1, FS_Surjection
<1>3. ASSUME NEW t \in T PROVE IsFiniteSet(t)
  <2>1. PICK i \in S : t = {i} \X (1..a[i])
    OBVIOUS
  <2> QED
    BY <2>1, AmountIsFinite
<1>4. IsFiniteSet(UNION T)
  <2> HIDE DEF T
  <2> QED
    BY <1>2, <1>3, FS_UNION
<1>5. Units(a, S) = UNION T
  BY DEF Units
<1> QED
  BY <1>4, <1>5, FS_CardinalityType DEF SumOver

(* The units of two disjoint sets are counted apart. *)
LEMMA SumOfTwo ==
    ASSUME NEW S, IsFiniteSet(S), NEW T, IsFiniteSet(T), S \cap T = {},
           NEW a, \A i \in S \cup T : a[i] \in Nat
    PROVE  SumOver(a, S \cup T) = SumOver(a, S) + SumOver(a, T)
<1>1. /\ IsFiniteSet(Units(a, S)) /\ SumOver(a, S) \in Nat
      /\ IsFiniteSet(Units(a, T)) /\ SumOver(a, T) \in Nat
  BY UnitsAreFinite
<1>2. Units(a, S \cup T) = Units(a, S) \cup Units(a, T)
  BY DEF Units
<1>3. Units(a, S) \cap Units(a, T) = {}
  <2> SUFFICES ASSUME NEW x \in Units(a, S), x \in Units(a, T) PROVE FALSE
    OBVIOUS
  <2>1. PICK i \in S : x \in {i} \X (1..a[i])
    BY DEF Units
  <2>2. PICK j \in T : x \in {j} \X (1..a[j])
    BY DEF Units
  <2> QED
    BY <2>1, <2>2
<1>4. Cardinality(Units(a, S) \cup Units(a, T)) =
          Cardinality(Units(a, S)) + Cardinality(Units(a, T)) - Cardinality({})
  BY <1>1, <1>3, FS_Union
<1>5. Cardinality({}) = 0
  BY FS_EmptySet
<1>6. SumOver(a, S \cup T) = Cardinality(Units(a, S) \cup Units(a, T))
  BY <1>2 DEF SumOver
<1>7. SumOver(a, S \cup T) = SumOver(a, S) + SumOver(a, T) - 0
  BY <1>4, <1>5, <1>6 DEF SumOver
<1> QED
  BY <1>1, <1>7

LEMMA SumOfOne ==
    ASSUME NEW i, NEW a, a[i] \in Nat
    PROVE  SumOver(a, {i}) = a[i]
<1>1. Units(a, {i}) = {i} \X (1..a[i])
  <2>1. {{k} \X (1..a[k]) : k \in {i}} = {{i} \X (1..a[i])}
    OBVIOUS
  <2>2. UNION {{i} \X (1..a[i])} = {i} \X (1..a[i])
    OBVIOUS
  <2> QED
    BY <2>1, <2>2 DEF Units
<1> QED
  BY <1>1, AmountIsFinite DEF SumOver

LEMMA SumOfSame ==
    ASSUME NEW S, NEW a, NEW b, \A i \in S : a[i] = b[i]
    PROVE  SumOver(a, S) = SumOver(b, S)
<1>1. {{i} \X (1..a[i]) : i \in S} = {{i} \X (1..b[i]) : i \in S}
  OBVIOUS
<1> QED
  BY <1>1 DEF SumOver, Units

(* One amount changes. *)
LEMMA SumOfChanged ==
    ASSUME NEW S, IsFiniteSet(S), NEW j \in S, NEW a, NEW b,
           \A i \in S : a[i] \in Nat /\ b[i] \in Nat,
           \A i \in S \ {j} : a[i] = b[i]
    PROVE  /\ SumOver(a, S) \in Nat /\ SumOver(a, S) >= a[j]
           /\ SumOver(b, S) = SumOver(a, S) - a[j] + b[j]
<1> DEFINE R == S \ {j}
<1>1. IsFiniteSet(R) /\ IsFiniteSet({j}) /\ R \cap {j} = {} /\ R \cup {j} = S
  <2>1. IsFiniteSet(R)
    BY FS_RemoveElement
  <2>2. IsFiniteSet({j})
    BY FS_Singleton
  <2> QED
    BY <2>1, <2>2
<1>2. \A i \in R \cup {j} : a[i] \in Nat /\ b[i] \in Nat
  OBVIOUS
<1>3. \A i \in R : a[i] = b[i]
  OBVIOUS
<1> HIDE DEF R
<1>4. SumOver(a, R) \in Nat
  BY <1>1, <1>2, UnitsAreFinite
<1>5. SumOver(a, R) = SumOver(b, R)
  BY <1>3, SumOfSame
<1>6. SumOver(a, {j}) = a[j] /\ SumOver(b, {j}) = b[j]
  BY SumOfOne
<1>7. SumOver(a, R \cup {j}) = SumOver(a, R) + SumOver(a, {j})
  BY <1>1, <1>2, SumOfTwo
<1>8. SumOver(b, R \cup {j}) = SumOver(b, R) + SumOver(b, {j})
  BY <1>1, <1>2, SumOfTwo
<1>9. R \cup {j} = S /\ a[j] \in Nat /\ b[j] \in Nat
  BY <1>1
<1>10. /\ SumOver(a, S) = SumOver(a, R) + a[j]
       /\ SumOver(b, S) = SumOver(a, R) + b[j]
  BY <1>5, <1>6, <1>7, <1>8, <1>9
<1> QED
  BY <1>4, <1>9, <1>10

(* What is nothing need not be counted. *)
LEMMA SumOfSome ==
    ASSUME NEW S, NEW T, T \subseteq S, NEW a, NEW b,
           \A i \in T : a[i] = b[i], \A i \in S \ T : b[i] = 0
    PROVE  SumOver(a, T) = SumOver(b, S)
<1>1. Units(a, T) = Units(b, S)
  <2>1. \A i \in S \ T : {i} \X (1..b[i]) = {}
    OBVIOUS
  <2>2. \A i \in T : {i} \X (1..a[i]) = {i} \X (1..b[i])
    OBVIOUS
  <2> QED
    BY <2>1, <2>2 DEF Units
<1> QED
  BY <1>1 DEF SumOver

-----------------------------------------------------------------------------
(* Rounding *)

LEMMA Quotient ==
    ASSUME NEW n \in Nat, NEW d \in Nat \ {0}
    PROVE  LET q == n \div d IN q \in Nat /\ d * q <= n /\ n < d * q + d
OBVIOUS

(* Rounded(n, d) is the nearest number to n / d. *)
LEMMA RoundedRange ==
    ASSUME NEW n \in Nat, NEW d \in Nat \ {0}
    PROVE  LET q == Rounded(n, d) IN
           /\ q \in Nat /\ 2 * (d * q) <= 2 * n + d /\ 2 * n < 2 * (d * q) + d
<1> DEFINE q == Rounded(n, d)
           m == 2 * n + d
           e == 2 * d
<1>1. m \in Nat /\ e \in Nat \ {0} /\ q = m \div e
  BY DEF Rounded
<1> HIDE DEF m, e, q
<1>2. q \in Nat /\ e * q <= m /\ m < e * q + e
  BY <1>1, Quotient
<1>3. e * q = 2 * (d * q)
  BY <1>2 DEF e
<1>4. d * q \in Nat
  BY <1>2
<1>5. 2 * (d * q) <= m /\ m < 2 * (d * q) + e
  BY <1>2, <1>3
<1> HIDE DEF m
<1> QED
  BY <1>2, <1>4, <1>5 DEF m, e, q

(* Multiples of u are ordered as the factors are. *)
LEMMA Factors ==
    ASSUME NEW a \in Int, NEW b \in Int, NEW u \in Nat \ {0}
    PROVE  /\ u * a < u * b => a < b
           /\ u * a = a * u
           /\ u * (a + b) = u * a + u * b
OBVIOUS

(* An amount a is split at x of its u parts: the two shares together are    *)
(* not less than the amount, and neither is more.                           *)
LEMMA RoundedShares ==
    ASSUME NEW a \in Nat, NEW u \in Nat \ {0}, NEW x \in 0..u
    PROVE  LET s == Rounded(a * x, u)
               r == Rounded(a * (u - x), u)
           IN  s \in Nat /\ r \in 0..a /\ s + r >= a
<1> DEFINE s == Rounded(a * x, u)
           r == Rounded(a * (u - x), u)
           A == a * x
           B == a * (u - x)
<1>1. A \in Nat /\ B \in Nat /\ A + B = u * a
  OBVIOUS
<1>2. s = Rounded(A, u) /\ r = Rounded(B, u)
  OBVIOUS
<1> HIDE DEF s, r, A, B
<1>3. /\ s \in Nat /\ 2 * A < 2 * (u * s) + u
      /\ r \in Nat /\ 2 * (u * r) <= 2 * B + u /\ 2 * B < 2 * (u * r) + u
  BY <1>1, <1>2, RoundedRange
<1>4. u * r \in Nat /\ u * s \in Nat /\ u * a \in Nat
  BY <1>3
<1>5. u * a < u * s + u * r + u
  BY <1>1, <1>3, <1>4
<1>6. u * s + u * r + u = u * (s + r + 1)
  BY <1>3
<1>7. a < s + r + 1
  BY <1>3, <1>5, <1>6, Factors
<1>8. u * r < u * a + u
  BY <1>1, <1>3, <1>4
<1>9. u * a + u = u * (a + 1)
  OBVIOUS
<1>10. r < a + 1
  BY <1>3, <1>8, <1>9, Factors
<1> QED
  BY <1>3, <1>7, <1>10 DEF s, r

-----------------------------------------------------------------------------
(* The amounts *)

(* What a reservation r still holds, and what the fills took from it. *)
HeldBy(r) == IF Live(r) THEN r.amount ELSE 0
GoneBy(r) ==
    IF r.status = "none" THEN 0 ELSE IF r.terminal = "filled" THEN Amount ELSE Amount - r.amount

Held == [i \in Intents |-> HeldBy(res[i])]
Gone == [i \in Intents |-> GoneBy(res[i])]

AmountRange == \A i \in Intents : /\ res[i].amount \in 0..Amount
                                  /\ Live(res[i]) => res[i].terminal = "none"

(* reserved_amount is what the live reservations hold, deployed_amount at   *)
(* least what the fills took.  An order of one unit is filled all at once,  *)
(* nothing is rounded, and both are exact.                                  *)
AmountInvariant ==
    /\ AmountRange
    /\ alloc \in [reserved : Nat, deployed : Nat]
    /\ alloc.reserved = SumOver(Held, Intents)
    /\ alloc.deployed >= SumOver(Gone, Intents)
    /\ Qty = 1 => /\ alloc.deployed = SumOver(Gone, Intents)
                  /\ alloc.deployed + alloc.reserved <= Allocation

LEMMA FiniteIntents == IsFiniteSet(Intents)
BY SetsAssumption, FS_Union DEF Intents

LEMMA AmountsAreNatural ==
    ASSUME AmountRange
    PROVE  /\ \A i \in Intents : Held[i] \in Nat /\ Gone[i] \in Nat
           /\ SumOver(Held, Intents) \in Nat /\ SumOver(Gone, Intents) \in Nat
<1>1. \A i \in Intents : Held[i] \in Nat /\ Gone[i] \in Nat
  BY QuantitiesAssumption DEF AmountRange, Held, Gone, HeldBy, GoneBy
<1> QED
  BY <1>1, FiniteIntents, UnitsAreFinite

(* The columns of strategy_allocations. *)
LEMMA AllocationRow ==
    ASSUME AmountInvariant
    PROVE  /\ alloc.reserved \in Nat /\ alloc.deployed \in Nat
           /\ \A n : [alloc EXCEPT !.reserved = n] = [reserved |-> n, deployed |-> alloc.deployed]
BY DEF AmountInvariant

LEMMA Difference ==
    ASSUME NEW a \in Nat, NEW b \in Nat, NEW c \in Nat, NEW s \in Nat, NEW d \in Nat
    PROVE  /\ a >= b => a - b + c \in Nat
           /\ a + d \in Nat
           /\ a >= s /\ d >= c - b => a + d >= s - b + c
           /\ a = s /\ d = c - b => a + d = s - b + c
           /\ a + d + (s - b + c) = a + d + s - b + c
OBVIOUS

(* A statement changes the reservation of intent j and moves d units to     *)
(* deployed_amount.                                                         *)
LEMMA OneReservation ==
    ASSUME AmountInvariant, NEW j \in Intents, NEW d \in Nat,
           \A i \in Intents \ {j} : res'[i] = res[i],
           res'[j].amount \in 0..Amount, Live(res'[j]) => res'[j].terminal = "none",
           alloc' = [reserved |-> alloc.reserved - HeldBy(res[j]) + HeldBy(res'[j]),
                     deployed |-> alloc.deployed + d],
           d >= GoneBy(res'[j]) - GoneBy(res[j]),
           Qty = 1 => /\ d = GoneBy(res'[j]) - GoneBy(res[j])
                      /\ alloc.deployed + d + alloc.reserved - HeldBy(res[j]) + HeldBy(res'[j])
                            <= Allocation
    PROVE  AmountInvariant'
<1>1. AmountRange'
  BY DEF AmountInvariant, AmountRange
<1>2. /\ \A i \in Intents : Held[i] \in Nat /\ Gone[i] \in Nat
      /\ SumOver(Held, Intents) \in Nat /\ SumOver(Gone, Intents) \in Nat
  BY AmountsAreNatural DEF AmountInvariant
<1>3. \A i \in Intents : Held'[i] \in Nat /\ Gone'[i] \in Nat
  BY <1>1, QuantitiesAssumption DEF AmountRange, Held, Gone, HeldBy, GoneBy
<1>4. \A i \in Intents \ {j} : Held[i] = Held'[i] /\ Gone[i] = Gone'[i]
  BY DEF Held, Gone, HeldBy, GoneBy
<1>5. /\ SumOver(Held, Intents) >= Held[j]
      /\ SumOver(Held', Intents) = SumOver(Held, Intents) - Held[j] + Held'[j]
  BY <1>2, <1>3, <1>4, FiniteIntents, SumOfChanged
<1>6. SumOver(Gone', Intents) = SumOver(Gone, Intents) - Gone[j] + Gone'[j]
  BY <1>2, <1>3, <1>4, FiniteIntents, SumOfChanged
<1>7. /\ Held[j] = HeldBy(res[j]) /\ Held'[j] = HeldBy(res'[j])
      /\ Gone[j] = GoneBy(res[j]) /\ Gone'[j] = GoneBy(res'[j])
  BY DEF Held, Gone, HeldBy, GoneBy
<1>8. /\ HeldBy(res[j]) \in Nat /\ HeldBy(res'[j]) \in Nat
      /\ GoneBy(res[j]) \in Nat /\ GoneBy(res'[j]) \in Nat
  BY <1>2, <1>3, <1>7
<1>9. /\ alloc.reserved = SumOver(Held, Intents) /\ alloc.deployed \in Nat
      /\ alloc.deployed >= SumOver(Gone, Intents)
      /\ Qty = 1 => alloc.deployed = SumOver(Gone, Intents)
  BY DEF AmountInvariant
<1>10. /\ alloc'.reserved = alloc.reserved - HeldBy(res[j]) + HeldBy(res'[j])
       /\ alloc'.deployed = alloc.deployed + d
  OBVIOUS
<1>11. /\ alloc'.reserved = SumOver(Held', Intents) /\ alloc'.reserved \in Nat
  <2>1. SumOver(Held, Intents) >= HeldBy(res[j])
    BY <1>5, <1>7
  <2>2. SumOver(Held', Intents) = SumOver(Held, Intents) - HeldBy(res[j]) + HeldBy(res'[j])
    BY <1>5, <1>7
  <2>3. SumOver(Held', Intents) \in Nat
    BY <1>2, <1>8, <2>1, <2>2, Difference
  <2> QED
    BY <1>9, <1>10, <2>2, <2>3
<1>12. /\ alloc'.deployed \in Nat /\ alloc'.deployed >= SumOver(Gone', Intents)
       /\ Qty = 1 => alloc'.deployed = SumOver(Gone', Intents)
  <2>1. SumOver(Gone', Intents) = SumOver(Gone, Intents) - GoneBy(res[j]) + GoneBy(res'[j])
    BY <1>6, <1>7
  <2>2. /\ alloc.deployed + d \in Nat
        /\ alloc.deployed + d >= SumOver(Gone', Intents)
        /\ d = GoneBy(res'[j]) - GoneBy(res[j]) /\ alloc.deployed = SumOver(Gone, Intents) =>
              alloc.deployed + d = SumOver(Gone', Intents)
    BY <1>2, <1>8, <1>9, <2>1, Difference
  <2> QED
    BY <1>9, <1>10, <2>2
<1>13. Qty = 1 => alloc'.deployed + alloc'.reserved <= Allocation
  <2>1. alloc.reserved \in Nat
    BY <1>2, <1>9
  <2>2. alloc'.deployed + alloc'.reserved =
            alloc.deployed + d + alloc.reserved - HeldBy(res[j]) + HeldBy(res'[j])
    BY <1>8, <1>9, <1>10, <2>1, Difference
  <2> QED
    BY <2>2
<1>14. alloc' \in [reserved : Nat, deployed : Nat]
  BY <1>11, <1>12
<1> QED
  BY <1>1, <1>11, <1>12, <1>13, <1>14 DEF AmountInvariant

LEMMA SameAmounts ==
    ASSUME AmountInvariant, UNCHANGED <<res, alloc>>
    PROVE  AmountInvariant'
BY DEF AmountInvariant, AmountRange, Held, Gone, HeldBy, GoneBy

LEMMA ReleasedColumns ==
    ASSUME NEW r, Row(r), NEW as, NEW terminal, NEW q, q = Release(r, as, terminal)
    PROVE  q.status = as /\ q.amount = r.amount /\ q.terminal = terminal
BY DEF Row, Release

(* A reservation that keeps its amount, and stays live if it was.           *)
LEMMA SameHoldings ==
    ASSUME AmountInvariant, NEW j \in Intents, UNCHANGED alloc,
           \A i \in Intents \ {j} : res'[i] = res[i],
           \/ res'[j] = res[j]
           \/ /\ Live(res[j]) /\ Live(res'[j])
              /\ res'[j].amount = res[j].amount /\ res'[j].terminal = res[j].terminal
    PROVE  AmountInvariant'
<1>1. AmountRange /\ alloc.reserved \in Nat /\ alloc.deployed \in Nat
  BY AllocationRow DEF AmountInvariant
<1>2. /\ HeldBy(res'[j]) = HeldBy(res[j]) /\ GoneBy(res'[j]) = GoneBy(res[j])
      /\ res'[j].amount \in 0..Amount /\ (Live(res'[j]) => res'[j].terminal = "none")
  BY <1>1 DEF HeldBy, GoneBy, Live, AmountRange
<1>3. HeldBy(res[j]) \in Nat /\ GoneBy(res[j]) \in Nat
  BY <1>1, QuantitiesAssumption DEF HeldBy, GoneBy, AmountRange
<1>4. alloc' = [reserved |-> alloc.reserved - HeldBy(res[j]) + HeldBy(res'[j]),
                deployed |-> alloc.deployed + 0]
  <2>1. /\ alloc.reserved - HeldBy(res[j]) + HeldBy(res'[j]) = alloc.reserved
        /\ alloc.deployed + 0 = alloc.deployed
    BY <1>1, <1>2, <1>3
  <2>2. alloc = [reserved |-> alloc.reserved, deployed |-> alloc.deployed]
    BY DEF AmountInvariant
  <2> QED
    BY <2>1, <2>2
<1>5. /\ 0 >= GoneBy(res'[j]) - GoneBy(res[j]) /\ 0 = GoneBy(res'[j]) - GoneBy(res[j])
      /\ alloc.deployed + 0 + alloc.reserved - HeldBy(res[j]) + HeldBy(res'[j]) =
            alloc.deployed + alloc.reserved
  BY <1>1, <1>2, <1>3
<1>6. Qty = 1 => alloc.deployed + 0 + alloc.reserved - HeldBy(res[j]) + HeldBy(res'[j]) <= Allocation
  BY <1>5 DEF AmountInvariant
<1> QED
  BY <1>2, <1>4, <1>5, <1>6, OneReservation

(* A live reservation gives back what it holds. *)
LEMMA HandedBack ==
    ASSUME AmountInvariant, NEW j \in Intents, Live(res[j]),
           \A i \in Intents \ {j} : res'[i] = res[i],
           res'[j].status = "released", res'[j].amount = res[j].amount,
           res'[j].terminal # "filled",
           alloc' = [reserved |-> Less(alloc.reserved, res[j].amount), deployed |-> alloc.deployed]
    PROVE  AmountInvariant'
<1> DEFINE n == res[j].amount
<1>1. AmountRange /\ alloc.reserved \in Nat /\ alloc.deployed \in Nat
  BY AllocationRow DEF AmountInvariant
<1>2. n \in 0..Amount /\ n \in Nat /\ res[j].terminal = "none" /\ res[j].status # "none"
  BY <1>1 DEF AmountRange, Live
<1>3. /\ HeldBy(res[j]) = n /\ HeldBy(res'[j]) = 0 /\ ~Live(res'[j])
      /\ GoneBy(res[j]) = Amount - n /\ GoneBy(res'[j]) = Amount - n
  BY <1>2 DEF HeldBy, GoneBy, Live
<1>4. alloc.reserved >= n
  <2>1. \A i \in Intents : Held[i] \in Nat
    BY <1>1, AmountsAreNatural
  <2>2. SumOver(Held, Intents) >= Held[j]
    BY <2>1, FiniteIntents, SumOfChanged
  <2> QED
    BY <1>3, <2>2 DEF Held, AmountInvariant
<1> HIDE DEF n
<1>5. Less(alloc.reserved, n) = alloc.reserved - n + 0 /\ alloc.deployed = alloc.deployed + 0
  BY <1>1, <1>2, <1>4 DEF Less
<1>6. alloc' = [reserved |-> alloc.reserved - n + 0, deployed |-> alloc.deployed + 0]
  BY <1>5 DEF n
<1>7. 0 >= (Amount - n) - (Amount - n) /\ 0 = (Amount - n) - (Amount - n)
  BY <1>2, QuantitiesAssumption
<1>8. Qty = 1 => alloc.deployed + 0 + alloc.reserved - n + 0 <= Allocation
  <2>1. alloc.deployed + 0 + alloc.reserved - n + 0 <= alloc.deployed + alloc.reserved
    BY <1>1, <1>2
  <2>2. Qty = 1 => alloc.deployed + alloc.reserved <= Allocation
    BY DEF AmountInvariant
  <2> QED
    BY <1>1, <1>2, <2>1, <2>2, QuantitiesAssumption
<1>9. res'[j].amount \in 0..Amount
  BY <1>2 DEF n
<1> QED
  BY <1>3, <1>6, <1>7, <1>8, <1>9, OneReservation

LEMMA GivenBack ==
    ASSUME AmountInvariant, NEW j \in Intents, Live(res[j]), Row(res[j]),
           \A i \in Intents \ {j} : res'[i] = res[i],
           NEW terminal \in {"cancelled", "stale"}, res'[j] = Release(res[j], "released", terminal),
           alloc' = [reserved |-> Less(alloc.reserved, res[j].amount), deployed |-> alloc.deployed]
    PROVE  AmountInvariant'
BY ReleasedColumns, HandedBack

AmountFacts == ClaimInvariant /\ ReportInvariant /\ SettledInvariant /\ AmountInvariant

(* A partial fill: the settled share moves from reserved to deployed, and   *)
(* what is rounded away from the one is not missing in the other.           *)
LEMMA AmountResize ==
    ASSUME NEW w \in Workers, ClaimInvariant, ReportInvariant, SettledInvariant, AmountInvariant,
           At(w, "observe"), ~Refused(proc[w]), Resize(proc[w])
    PROVE  AmountInvariant'
<1> DEFINE p == proc[w]
           j == p.cur
<1>1. j \in Intents /\ p.got.filled \in 0..Qty /\ (Resizes(p) => Live(res[j]))
  BY ObservationFacts DEF At, ReportInvariant, HoldsTrueReports, Agrees
<1>2. CASE ~Resizes(p)
  BY <1>2, SameAmounts DEF Resize
<1>3. CASE Resizes(p)
  <2> DEFINE n == res[j].amount
             u == Qty - p.snap[j].prior
             x == p.got.filled - p.snap[j].prior
  <2>1. p.snap[j].prior \in 0..Qty
    BY <1>1 DEF SettledInvariant, Snapped
  <2>2. p.got.filled > p.snap[j].prior /\ p.got.filled < Qty
    <3>1. PartialFill(p) /\ p.got.filled > p.snap[j].prior
      BY <1>3 DEF Resizes
    <3>2. ~Invalid(p)
      BY DEF Refused
    <3>3. ~(p.got.filled >= Qty)
      BY <3>1, <3>2 DEF Invalid
    <3> QED
      BY <1>1, <3>1, <3>3, QuantitiesAssumption
  <2>3. u \in Nat \ {0} /\ x \in 0..u /\ u - x = Qty - p.got.filled /\ Qty # 1
    BY <1>1, <2>1, <2>2, QuantitiesAssumption
  <2>4. AmountRange /\ alloc.reserved \in Nat /\ alloc.deployed \in Nat
    BY AllocationRow DEF AmountInvariant
  <2>5. n \in Nat /\ n \in 0..Amount /\ n <= Amount /\ res[j].terminal = "none" /\ Row(res[j])
    BY <1>1, <1>3, <2>4 DEF AmountRange, SettledInvariant, Consistent
  <2>6. Remaining(p) = Rounded(n * (u - x), u) /\ Settled(p) = Rounded(n * x, u)
    BY <2>3 DEF Remaining, Settled, SettledShare, Unfilled
  <2>7. /\ res' = [res EXCEPT ![j].amount = Remaining(p)]
        /\ alloc' = [reserved |-> alloc.reserved - n + Remaining(p),
                     deployed |-> alloc.deployed + Settled(p)]
    BY <1>3 DEF Resize
  <2>8. /\ res'[j] = [res[j] EXCEPT !.amount = Remaining(p)]
        /\ \A k \in Intents \ {j} : res'[k] = res[k]
    BY <1>1, <2>7 DEF SettledInvariant
  <2>9. /\ res'[j].amount = Remaining(p) /\ res'[j].status = res[j].status
        /\ res'[j].terminal = "none"
    BY <2>5, <2>8 DEF Row
  <2> HIDE DEF n, u, x
  <2>10. Settled(p) \in Nat /\ Remaining(p) \in 0..n /\ Settled(p) + Remaining(p) >= n
    BY <2>3, <2>5, <2>6, RoundedShares
  <2>11. /\ HeldBy(res[j]) = n /\ HeldBy(res'[j]) = Remaining(p)
         /\ GoneBy(res[j]) = Amount - n /\ GoneBy(res'[j]) = Amount - Remaining(p)
    <3>1. Live(res[j]) /\ Live(res'[j]) /\ res[j].status # "none" /\ res'[j].status # "none"
      BY <1>1, <1>3, <2>9 DEF Live
    <3> QED
      BY <2>5, <2>9, <3>1 DEF HeldBy, GoneBy, n
  <2>12. /\ Settled(p) >= (Amount - Remaining(p)) - (Amount - n)
         /\ Remaining(p) \in 0..Amount
    BY <2>5, <2>10, QuantitiesAssumption
  <2> HIDE DEF p, j
  <2> QED
    BY <1>1, <2>3, <2>7, <2>8, <2>9, <2>10, <2>11, <2>12, OneReservation
<1> QED
  BY <1>2, <1>3

(* Many reservations expire in one statement. *)
LEMMA AmountExpiry ==
    ASSUME NEW w \in Workers, AmountFacts, ExpireReservations(w)
    PROVE  AmountInvariant'
<1> DEFINE E == Expired(w)
           K == Intents \ E
           a == [i \in Intents |-> res[i].amount]
<1>1. /\ AmountInvariant /\ AmountRange /\ DOMAIN res = Intents
      /\ \A i \in Intents : Row(res[i])
      /\ alloc.reserved \in Nat /\ alloc.deployed \in Nat
  BY AllocationRow DEF AmountFacts, AmountInvariant, SettledInvariant, Consistent
<1>2. /\ E \subseteq Intents /\ \A i \in E : res[i].status = "active"
      /\ \A i \in E : res'[i] = Release(res[i], "expired", "stale")
      /\ \A i \in K : res'[i] = res[i]
      /\ alloc.reserved >= SumOver(a, E)
      /\ alloc' = [alloc EXCEPT !.reserved = @ - SumOver(a, E)]
  BY DEF ExpireReservations, Expired, Total
<1> HIDE DEF E, a
<1>3. \A i \in E : /\ res'[i].status = "expired" /\ res'[i].amount = res[i].amount
                   /\ res'[i].terminal = "stale"
  BY <1>1, <1>2, ReleasedColumns
<1>4. AmountRange'
  BY <1>1, <1>2, <1>3 DEF AmountRange, Live
<1>5. /\ \A i \in Intents : Held[i] \in Nat /\ Gone[i] \in Nat
      /\ SumOver(Held, Intents) \in Nat /\ SumOver(Gone, Intents) \in Nat
  BY <1>1, AmountsAreNatural
<1>6. \A i \in E : a[i] = Held[i] /\ Held'[i] = 0 /\ Gone'[i] = Gone[i]
  <2> SUFFICES ASSUME NEW i \in E PROVE a[i] = Held[i] /\ Held'[i] = 0 /\ Gone'[i] = Gone[i]
    OBVIOUS
  <2>1. /\ i \in Intents /\ res[i].status = "active" /\ res[i].terminal = "none"
        /\ res'[i].status = "expired" /\ res'[i].amount = res[i].amount
        /\ res'[i].terminal = "stale"
    BY <1>1, <1>2, <1>3 DEF AmountRange, Live
  <2> QED
    BY <2>1 DEF a, Held, Gone, HeldBy, GoneBy, Live
<1>7. \A i \in K : Held'[i] = Held[i] /\ Gone'[i] = Gone[i]
  BY <1>2 DEF Held, Gone, HeldBy, GoneBy
<1>8. SumOver(a, E) = SumOver(Held, E)
  BY <1>6, SumOfSame
<1>9. SumOver(Held, Intents) = SumOver(Held, E) + SumOver(Held, K)
      /\ SumOver(Held, E) \in Nat /\ SumOver(Held, K) \in Nat
  <2>1. IsFiniteSet(E) /\ IsFiniteSet(K)
    BY <1>2, FiniteIntents, FS_Subset
  <2>2. E \cap K = {} /\ E \cup K = Intents
    BY <1>2
  <2> HIDE DEF K
  <2>3. SumOver(Held, E \cup K) = SumOver(Held, E) + SumOver(Held, K)
    BY <1>5, <2>1, <2>2, SumOfTwo
  <2>4. SumOver(Held, E) \in Nat /\ SumOver(Held, K) \in Nat
    BY <1>5, <2>1, <2>2, UnitsAreFinite
  <2> QED
    BY <2>2, <2>3, <2>4
<1>10. SumOver(Held, K) = SumOver(Held', Intents)
  <2>1. K \subseteq Intents /\ \A i \in Intents \ K : i \in E
    OBVIOUS
  <2>2. /\ \A i \in K : Held[i] = Held'[i]
        /\ \A i \in Intents \ K : Held'[i] = 0
    BY <1>6, <1>7, <2>1
  <2> HIDE DEF K
  <2> QED
    BY <2>1, <2>2, SumOfSome
<1>11. SumOver(Gone, Intents) = SumOver(Gone', Intents)
  <2>1. \A i \in Intents : Gone[i] = Gone'[i]
    BY <1>6, <1>7
  <2> QED
    BY <2>1, SumOfSame
<1>12. alloc' = [reserved |-> alloc.reserved - SumOver(a, E), deployed |-> alloc.deployed]
  BY <1>1, <1>2, AllocationRow
<1> HIDE DEF K
<1>13. alloc.reserved - SumOver(a, E) = SumOver(Held', Intents) /\ SumOver(Held', Intents) \in Nat
       /\ SumOver(Held', Intents) <= alloc.reserved
  BY <1>1, <1>8, <1>9, <1>10 DEF AmountInvariant
<1>14. alloc'.reserved = SumOver(Held', Intents) /\ alloc'.deployed = alloc.deployed
  BY <1>12, <1>13
<1>15. alloc' \in [reserved : Nat, deployed : Nat]
  BY <1>1, <1>12, <1>13
<1>16. Qty = 1 => alloc'.deployed + alloc'.reserved <= Allocation
  <2>1. Qty = 1 => alloc.deployed + alloc.reserved <= Allocation
    BY <1>1 DEF AmountInvariant
  <2>2. alloc'.deployed + alloc'.reserved <= alloc.deployed + alloc.reserved
    BY <1>1, <1>13, <1>14
  <2> QED
    BY <1>1, <1>13, <1>14, <2>1, <2>2, QuantitiesAssumption
<1>17. /\ alloc'.deployed >= SumOver(Gone', Intents)
       /\ Qty = 1 => alloc'.deployed = SumOver(Gone', Intents)
  BY <1>1, <1>11, <1>14 DEF AmountInvariant
<1> QED
  BY <1>4, <1>14, <1>15, <1>16, <1>17 DEF AmountInvariant

LEMMA AmountSubmission ==
    ASSUME NEW w \in Workers, AmountFacts, Submission(w)
    PROVE  AmountInvariant'
<1> USE DEF ledger, clocks, history
<1>1. /\ ClaimInvariant /\ ReportInvariant /\ SettledInvariant /\ AmountInvariant /\ AmountRange
      /\ DOMAIN res = Intents
      /\ \A i \in Intents : Consistent(i, intent[i], res[i], order[i], broker[i]) /\ Row(res[i])
      /\ alloc.reserved \in Nat /\ alloc.deployed \in Nat
  BY AllocationRow DEF AmountFacts, AmountInvariant, SettledInvariant, Consistent
<1>2. CASE Promote(w)
  <2>1. PICK i \in Scope(w) :
            /\ intent[i].status = "created" /\ HasCapacity
            /\ res' = [res EXCEPT ![i] = [status |-> "active", amount |-> Amount, terminal |-> "none"]]
            /\ alloc' = [alloc EXCEPT !.reserved = @ + Amount]
    BY <1>2 DEF Promote, Confirmable
  <2>2. i \in Intents
    BY DEF Scope, Intents
  <2>3. res[i].status = "none"
    BY <1>1, <2>1, <2>2 DEF Consistent
  <2>4. res'[i] = [status |-> "active", amount |-> Amount, terminal |-> "none"]
        /\ \A k \in Intents \ {i} : res'[k] = res[k]
    BY <1>1, <2>1, <2>2
  <2>5. HeldBy(res[i]) = 0 /\ HeldBy(res'[i]) = Amount /\ GoneBy(res[i]) = 0 /\ GoneBy(res'[i]) = 0
    BY <2>3, <2>4, QuantitiesAssumption DEF HeldBy, GoneBy, Live
  <2>6. alloc' = [reserved |-> alloc.reserved + Amount, deployed |-> alloc.deployed]
    BY <1>1, <2>1, AllocationRow
  <2>7. /\ alloc.reserved + Amount = alloc.reserved - 0 + Amount
        /\ alloc.deployed = alloc.deployed + 0
        /\ alloc.deployed + 0 + alloc.reserved - 0 + Amount <= Allocation
    BY <1>1, <2>1, QuantitiesAssumption DEF HasCapacity
  <2>8. /\ res'[i].amount \in 0..Amount /\ res'[i].terminal = "none"
        /\ 0 >= GoneBy(res'[i]) - GoneBy(res[i]) /\ 0 = GoneBy(res'[i]) - GoneBy(res[i])
    BY <2>4, <2>5, QuantitiesAssumption
  <2> QED
    BY <1>1, <2>2, <2>4, <2>5, <2>6, <2>7, <2>8, OneReservation
<1>3. CASE RecordSubmission(w)
  <2> DEFINE i == proc[w].i
             r == proc[w].resp
  <2>1. i \in Intents
    BY <1>1, <1>3 DEF RecordSubmission, At, Claiming, ClaimInvariant
  <2>2. \/ UNCHANGED <<res, alloc>>
        \/ /\ Live(res[i]) /\ res' = [res EXCEPT ![i] = Release(@, "released", "cancelled")]
           /\ alloc' = [alloc EXCEPT !.reserved = Less(@, res[i].amount)]
        \/ /\ res[i].status = "active" /\ res' = [res EXCEPT ![i].status = "committed"]
           /\ UNCHANGED alloc
    BY <1>3 DEF RecordSubmission, CanRecord, Live
  <2> HIDE DEF i, r
  <2>3. CASE UNCHANGED <<res, alloc>>
    BY <1>1, <2>3, SameAmounts
  <2>4. CASE /\ Live(res[i]) /\ res' = [res EXCEPT ![i] = Release(@, "released", "cancelled")]
             /\ alloc' = [alloc EXCEPT !.reserved = Less(@, res[i].amount)]
    <3>1. /\ res'[i] = Release(res[i], "released", "cancelled")
          /\ \A k \in Intents \ {i} : res'[k] = res[k]
      BY <1>1, <2>1, <2>4
    <3>2. alloc' = [reserved |-> Less(alloc.reserved, res[i].amount), deployed |-> alloc.deployed]
      BY <1>1, <2>4, AllocationRow
    <3> QED
      BY <1>1, <2>1, <2>4, <3>1, <3>2, GivenBack
  <2>5. CASE /\ res[i].status = "active" /\ res' = [res EXCEPT ![i].status = "committed"]
             /\ UNCHANGED alloc
    <3>1. /\ res'[i] = [res[i] EXCEPT !.status = "committed"]
          /\ \A k \in Intents \ {i} : res'[k] = res[k]
      BY <1>1, <2>1, <2>5
    <3>2. /\ res'[i].status = "committed" /\ res'[i].amount = res[i].amount
          /\ res'[i].terminal = res[i].terminal
      BY <1>1, <2>1, <3>1 DEF Row
    <3> QED
      BY <1>1, <2>1, <2>5, <3>1, <3>2, SameHoldings DEF Live
  <2> QED
    BY <2>2, <2>3, <2>4, <2>5
<1>4. ASSUME UNCHANGED <<res, alloc>> PROVE AmountInvariant'
  BY <1>1, <1>4, SameAmounts
<1>5. CASE StartExecution(w) \/ PromoteNothing(w) \/ Claim(w) \/ ClaimNothing(w) \/ Validate(w)
           \/ ReleaseClaim(w) \/ ReleaseFails(w) \/ RecordAttempt(w) \/ AttemptFails(w)
           \/ SubmitOrder(w) \/ PostAccepted(w) \/ PostRefused(w) \/ PostUnanswered(w)
           \/ RecordFails(w) \/ MarkFailed(w) \/ MarkAmbiguous(w) \/ MarkFails(w)
           \/ LookupFinds(w) \/ LookupFails(w) \/ Receipt(w) \/ ReceiptFails(w)
  BY <1>4, <1>5 DEF StartExecution, PromoteNothing, Claim, ClaimNothing, Validate, ReleaseClaim,
                    ReleaseFails, RecordAttempt, AttemptFails, SubmitOrder, PostAccepted,
                    PostRefused, PostUnanswered, RecordFails, MarkFailed, MarkAmbiguous,
                    MarkFails, LookupFinds, LookupFails, Receipt, ReceiptFails
<1> QED
  BY <1>2, <1>3, <1>5 DEF Submission

LEMMA AmountReconciliation ==
    ASSUME NEW w \in Workers, AmountFacts, Reconciliation(w)
    PROVE  AmountInvariant'
<1> USE DEF ledger, clocks, history
<1>1. /\ ClaimInvariant /\ ReportInvariant /\ SettledInvariant /\ AmountInvariant /\ AmountRange
      /\ DOMAIN res = Intents
      /\ \A i \in Intents : Row(res[i])
      /\ alloc.reserved \in Nat /\ alloc.deployed \in Nat
      /\ HoldsTrueReports(proc[w], broker)
  BY AllocationRow DEF AmountFacts, AmountInvariant, SettledInvariant, Consistent, ReportInvariant
<1> DEFINE p == proc[w]
           j == p.cur
<1>2. CASE Observe(w) \/ ObserveConflict(w)
  <2>1. At(w, "observe") /\ ~Refused(p) /\ Resize(p)
    BY <1>2 DEF Observe, ObserveConflict
  <2> QED
    BY <1>1, <2>1, AmountResize DEF AmountFacts
<1>3. CASE Settle(w)
  <2>1. /\ proc[w].pc = "settle" /\ Live(res[j]) /\ res[j].terminal = "none"
        /\ alloc.reserved >= res[j].amount
        /\ res' = [res EXCEPT ![j] = Release(@, "released", TerminalState(p.got))]
        /\ alloc' = [reserved |-> Less(alloc.reserved, res[j].amount),
                     deployed |-> alloc.deployed +
                                  (IF p.got.status = "filled" THEN res[j].amount ELSE 0)]
    BY <1>3 DEF Settle, CanSettle, At
  <2>2. j \in Intents
    BY <1>1, <2>1 DEF HoldsTrueReports
  <2>3. /\ res'[j] = Release(res[j], "released", TerminalState(p.got))
        /\ \A k \in Intents \ {j} : res'[k] = res[k]
    BY <1>1, <2>1, <2>2
  <2>4. CASE p.got.status # "filled"
    <3>1. alloc' = [reserved |-> Less(alloc.reserved, res[j].amount), deployed |-> alloc.deployed]
      BY <1>1, <2>1, <2>4
    <3>2. TerminalState(p.got) = "cancelled"
      BY <2>4 DEF TerminalState
    <3> QED
      BY <1>1, <2>1, <2>2, <2>3, <3>1, <3>2, GivenBack
  <2>5. CASE p.got.status = "filled"
    <3>1. TerminalState(p.got) = "filled"
      BY <2>5 DEF TerminalState
    <3>2. /\ res'[j].status = "released" /\ res'[j].amount = res[j].amount
          /\ res'[j].terminal = "filled"
      BY <1>1, <2>2, <2>3, <3>1, ReleasedColumns
    <3> DEFINE n == res[j].amount
    <3>3. n \in Nat /\ n <= Amount /\ n \in 0..Amount
      BY <1>1, <2>2 DEF AmountRange
    <3>4. res[j].status # "none" /\ ~Live(res'[j])
      BY <2>1, <3>2 DEF Live
    <3>5. /\ HeldBy(res[j]) = n /\ HeldBy(res'[j]) = 0
          /\ GoneBy(res[j]) = Amount - n /\ GoneBy(res'[j]) = Amount
      BY <2>1, <3>2, <3>4 DEF HeldBy, GoneBy
    <3>6. alloc' = [reserved |-> alloc.reserved - n + 0, deployed |-> alloc.deployed + n]
      BY <1>1, <2>1, <2>5, <3>3 DEF Less
    <3> HIDE DEF n
    <3>7. n >= Amount - (Amount - n) /\ n = Amount - (Amount - n)
      BY <3>3, QuantitiesAssumption
    <3>8. Qty = 1 => alloc.deployed + n + alloc.reserved - n + 0 <= Allocation
      <4>1. alloc.deployed + n + alloc.reserved - n + 0 = alloc.deployed + alloc.reserved
        BY <1>1, <3>3
      <4> QED
        BY <1>1, <4>1 DEF AmountInvariant
    <3> QED
      BY <1>1, <2>2, <2>3, <3>2, <3>3, <3>4, <3>5, <3>6, <3>7, <3>8, OneReservation DEF n
  <2> QED
    BY <2>4, <2>5
<1>4. CASE ConfirmAbsence(w)
  <2> DEFINE frees == NewObservation(p) /\ intent[j].status \in Undecided /\ ReleasedByAbsence(j)
  <2>1. /\ proc[w].pc = "absence"
        /\ res' = [res EXCEPT ![j].status = IF frees THEN "released" ELSE @]
        /\ alloc' = [alloc EXCEPT !.reserved = IF frees THEN Less(@, res[j].amount) ELSE @]
    BY <1>4 DEF ConfirmAbsence, At
  <2>2. j \in Intents
    BY <1>1, <2>1 DEF HoldsTrueReports
  <2>3. frees => Live(res[j])
    BY DEF ReleasedByAbsence
  <2> HIDE DEF frees
  <2>4. /\ res'[j] = [res[j] EXCEPT !.status = IF frees THEN "released" ELSE @]
        /\ \A k \in Intents \ {j} : res'[k] = res[k]
    BY <1>1, <2>1, <2>2
  <2>5. alloc' = [reserved |-> IF frees THEN Less(alloc.reserved, res[j].amount) ELSE alloc.reserved,
                  deployed |-> alloc.deployed]
    BY <1>1, <2>1, AllocationRow
  <2>6. CASE frees
    <3>1. /\ res'[j].status = "released" /\ res'[j].amount = res[j].amount
          /\ res'[j].terminal = res[j].terminal
      BY <1>1, <2>2, <2>4, <2>6 DEF Row
    <3>2. res'[j].terminal # "filled"
      BY <1>1, <2>2, <2>3, <2>6, <3>1 DEF AmountRange
    <3> QED
      BY <1>1, <2>2, <2>3, <2>4, <2>5, <2>6, <3>1, <3>2, HandedBack
  <2>7. CASE ~frees
    <3>1. res'[j] = res[j]
      BY <1>1, <2>2, <2>4, <2>7, StatusRow
    <3>2. UNCHANGED alloc
      BY <1>1, <2>1, <2>7 DEF AmountInvariant
    <3> QED
      BY <1>1, <2>2, <2>4, <3>1, <3>2, SameHoldings DEF AmountRange
  <2> QED
    BY <2>6, <2>7
<1>5. ASSUME UNCHANGED <<res, alloc>> PROVE AmountInvariant'
  BY <1>1, <1>5, SameAmounts
<1>6. CASE StartReconciliation(w) \/ List(w) \/ ListFails(w) \/ FetchFinds(w) \/ FetchAbsent(w)
           \/ FetchFails(w) \/ ObserveFails(w) \/ SettleNothing(w) \/ RecordAbsence(w)
           \/ AbsenceFails(w) \/ Sync(w) \/ SyncFails(w) \/ Persist(w) \/ PersistFails(w)
  BY <1>5, <1>6 DEF StartReconciliation, List, ListFails, FetchFinds, FetchAbsent, FetchFails,
                    ObserveFails, SettleNothing, RecordAbsence, AbsenceFails, Sync, SyncFails,
                    Persist, PersistFails, ClosePositions
<1> QED
  BY <1>2, <1>3, <1>4, <1>6 DEF Reconciliation

LEMMA AmountRecovery ==
    ASSUME NEW w \in Workers, AmountFacts, Recovery(w)
    PROVE  AmountInvariant'
<1> USE DEF ledger, clocks, history
<1>1. /\ ClaimInvariant /\ ReportInvariant /\ SettledInvariant /\ AmountInvariant /\ AmountRange
      /\ DOMAIN res = Intents
      /\ \A i \in Intents : Row(res[i])
      /\ alloc.reserved \in Nat /\ alloc.deployed \in Nat
      /\ HoldsTrueReports(proc[w], broker)
  BY AllocationRow DEF AmountFacts, AmountInvariant, SettledInvariant, Consistent, ReportInvariant
<1>2. ASSUME UNCHANGED <<res, alloc>> PROVE AmountInvariant'
  BY <1>1, <1>2, SameAmounts
<1>3. CASE ResolveStale(w)
  <2> DEFINE j == proc[w].cur
  <2>1. /\ proc[w].pc = "staleWrite"
        /\ \/ UNCHANGED <<res, alloc>>
           \/ /\ Live(res[j]) /\ alloc.reserved >= res[j].amount
              /\ res' = [res EXCEPT ![j] = Release(@, "released", "stale")]
              /\ alloc' = [alloc EXCEPT !.reserved = @ - res[j].amount]
    BY <1>3 DEF ResolveStale, CancelStale, CancelsStale, PreserveStale, At
  <2>2. j \in Intents
    BY <1>1, <2>1 DEF HoldsTrueReports
  <2>3. CASE /\ Live(res[j]) /\ alloc.reserved >= res[j].amount
             /\ res' = [res EXCEPT ![j] = Release(@, "released", "stale")]
             /\ alloc' = [alloc EXCEPT !.reserved = @ - res[j].amount]
    <3>1. /\ res'[j] = Release(res[j], "released", "stale")
          /\ \A k \in Intents \ {j} : res'[k] = res[k]
      BY <1>1, <2>2, <2>3
    <3>2. alloc' = [reserved |-> alloc.reserved - res[j].amount, deployed |-> alloc.deployed]
      BY <1>1, <2>3, AllocationRow
    <3>3. alloc' = [reserved |-> Less(alloc.reserved, res[j].amount), deployed |-> alloc.deployed]
      BY <2>3, <3>2 DEF Less
    <3> QED
      BY <1>1, <2>2, <2>3, <3>1, <3>3, GivenBack
  <2> QED
    BY <1>2, <2>1, <2>3
<1>4. CASE ExpireReservations(w)
  BY <1>4, AmountExpiry
<1>5. CASE StartRecovery(w) \/ LookUpStale(w) \/ SkipStale(w) \/ ExpireReviews(w)
           \/ ExpireConfirmations(w) \/ CancelCreated(w) \/ RecoveryWritesNothing(w)
           \/ RecoveryFails(w)
  BY <1>2, <1>5 DEF StartRecovery, LookUpStale, SkipStale, ExpireReviews, ExpireConfirmations,
                    CancelCreated, RecoveryWritesNothing, RecoveryFails
<1> QED
  BY <1>3, <1>4, <1>5 DEF Recovery

LEMMA AmountCancellation ==
    ASSUME NEW w \in Workers, AmountFacts, Cancellation(w)
    PROVE  AmountInvariant'
<1>1. UNCHANGED <<res, alloc>>
  BY DEF Cancellation, StartCancellation, LookBefore, RequestCancel, ClaimCancel, ClaimedBefore,
         DeleteOrder, Poll, CancellationFails, ledger
<1> QED
  BY <1>1, SameAmounts DEF AmountFacts

LEMMA AmountEnvironment ==
    ASSUME AmountFacts, Environment
    PROVE  AmountInvariant'
<1>1. UNCHANGED <<res, alloc>>
  BY DEF Environment, Arrive, Fill, BrokerCancels, Lapse, Age, Crash, LoseFence, ledger
<1> QED
  BY <1>1, SameAmounts DEF AmountFacts

LEMMA NothingIsReservedInitially == Init => AmountInvariant
<1> SUFFICES ASSUME Init PROVE AmountInvariant
  OBVIOUS
<1>1. /\ \A i \in Intents : res[i] = [status |-> "none", amount |-> 0, terminal |-> "none"]
      /\ alloc = [reserved |-> 0, deployed |-> 0]
  BY DEF Init
<1>2. AmountRange
  BY <1>1, QuantitiesAssumption DEF AmountRange, Live
<1>3. \A i \in Intents : Held[i] = 0 /\ Gone[i] = 0
  BY <1>1 DEF Held, Gone, HeldBy, GoneBy, Live
<1>4. SumOver(Held, {}) = SumOver(Held, Intents) /\ SumOver(Gone, {}) = SumOver(Gone, Intents)
  BY <1>3, SumOfSome
<1>5. SumOver(Held, {}) = 0 /\ SumOver(Gone, {}) = 0
  BY FS_EmptySet DEF SumOver, Units
<1> QED
  BY <1>1, <1>2, <1>4, <1>5, QuantitiesAssumption DEF AmountInvariant

(* Every amount that is reserved, deployed or given back is accounted for,  *)
(* whoever confirms, commits, resizes, settles, expires or releases a       *)
(* reservation, in whatever order and however often it is repeated          *)
(* (promoteNextConfirmedPostgresIntent, reconcilePostgresPaperOrders,       *)
(* runAutonomousPostgresRecovery).                                          *)
THEOREM AmountsAreAccounted == Spec => []AmountInvariant
<1>1. AmountFacts /\ [Next]_vars => AmountInvariant'
  <2> SUFFICES ASSUME AmountFacts, [Next]_vars PROVE AmountInvariant'
    OBVIOUS
  <2>1. CASE UNCHANGED vars
    BY <2>1, SameAmounts DEF vars, ledger, AmountFacts
  <2>2. CASE Environment
    BY <2>2, AmountEnvironment
  <2>3. ASSUME NEW w \in Workers, WorkerStep(w) PROVE AmountInvariant'
    BY <2>3, AmountSubmission, AmountReconciliation, AmountRecovery, AmountCancellation DEF WorkerStep
  <2> QED
    BY <2>1, <2>2, <2>3 DEF Next
<1> QED
  BY <1>1, ClaimsAreExclusive, ReportsAreTrue, RowsFitTogether, NothingIsReservedInitially, PTL
     DEF Spec, AmountFacts

LEMMA SumsOfTheLedger ==
    ASSUME AmountInvariant
    PROVE  /\ Total({i \in Intents : Live(res[i])}) = SumOver(Held, Intents)
           /\ Moved = SumOver(Gone, Intents)
<1>1. Total({i \in Intents : Live(res[i])}) = SumOver(Held, Intents)
  <2> DEFINE a == [i \in Intents |-> res[i].amount]
             T == {i \in Intents : Live(res[i])}
  <2>1. /\ T \subseteq Intents /\ \A i \in T : a[i] = Held[i]
        /\ \A i \in Intents \ T : Held[i] = 0
    BY DEF Held, HeldBy
  <2> HIDE DEF a, T
  <2>2. SumOver(a, T) = SumOver(Held, Intents)
    BY <2>1, SumOfSome
  <2> QED
    BY <2>2 DEF Total, a, T
<1>2. Moved = SumOver(Gone, Intents)
  <2> DEFINE T == {i \in Intents : HasReservation(i)}
  <2>1. /\ T \subseteq Intents /\ \A i \in T : FilledPart[i] = Gone[i]
        /\ \A i \in Intents \ T : Gone[i] = 0
    BY DEF Gone, GoneBy, HasReservation, FilledPart
  <2> HIDE DEF T
  <2>2. SumOver(FilledPart, T) = SumOver(Gone, Intents)
    BY <2>1, SumOfSome
  <2> QED
    BY <2>2 DEF Moved, T
<1> QED
  BY <1>1, <1>2

(* reserved_amount is exactly what the live reservations hold, after any    *)
(* interleaving of confirmations, commits, partial fills, settlements,      *)
(* expiries and releases, with their crashes and repetitions.               *)
THEOREM ReservedAmountIsExact == Spec => []ReservedMatchesReservations
<1>1. AmountInvariant => ReservedMatchesReservations
  BY SumsOfTheLedger DEF AmountInvariant, ReservedMatchesReservations
<1> QED
  BY <1>1, AmountsAreAccounted, PTL

(* No fill is lost: deployed_amount is never less than what the fills took  *)
(* from the reservations, whatever is rounded and whoever settles.          *)
THEOREM NoFillIsLost == Spec => [](Moved <= alloc.deployed)
<1>1. AmountInvariant => Moved <= alloc.deployed
  <2> SUFFICES ASSUME AmountInvariant PROVE Moved <= alloc.deployed
    OBVIOUS
  <2>1. SumOver(Gone, Intents) \in Nat /\ alloc.deployed \in Nat
    BY AmountsAreNatural, AllocationRow DEF AmountInvariant
  <2> QED
    BY <2>1, SumsOfTheLedger DEF AmountInvariant
<1> QED
  BY <1>1, AmountsAreAccounted, PTL

(* Orders of one unit, which nothing fills in part: the strategy never      *)
(* holds more than its allocation (capacityAllowed), and what is deployed   *)
(* is what was filled, to the last decimal.  With larger quantities neither *)
(* holds in general: a partial fill is scaled and rounded.                  *)
THEOREM SingleUnitsStayWithinTheAllocation ==
    ASSUME Qty = 1
    PROVE  Spec => [](AllocationNeverExceeded /\ DeployedMatchesFills)
<1>1. AmountInvariant => AllocationNeverExceeded /\ DeployedMatchesFills
  <2> SUFFICES ASSUME AmountInvariant PROVE AllocationNeverExceeded /\ DeployedMatchesFills
    OBVIOUS
  <2>1. alloc.deployed \in Nat /\ alloc.deployed = Moved
    BY SumsOfTheLedger, AllocationRow DEF AmountInvariant
  <2>2. Cardinality(Entries) \in Nat
    BY SetsAssumption, FS_CardinalityType
  <2>3. Cardinality(Entries) * (Qty - 1) = 0
    BY <2>2
  <2> QED
    BY <2>1, <2>3 DEF AmountInvariant, AllocationNeverExceeded, DeployedMatchesFills
<1> QED
  BY <1>1, AmountsAreAccounted, PTL
=============================================================================
