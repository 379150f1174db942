-------------------------- MODULE IdempotencyRecords --------------------------
(* PostgresIdempotencyRepository: callers that repeat one request under one     *)
(* key. begin and complete or fail are transactions of their own, between them  *)
(* the caller does the work, may die, or may not hear that its COMMIT worked.   *)
EXTENDS Integers, TLAPS

CONSTANTS Callers, Hashes,       \* callers; fingerprints a request under the key may have
          Ttl, MaxTime, MaxVersion

(* What the proofs need of the constants. *)
IdempotencyBounds == Ttl \in Nat \ {0} /\ MaxTime \in Nat /\ MaxVersion \in Nat \ {0}

VARIABLES now,
          row,      \* idempotency_records: [hash, status, response, created, expires, version]; version 0 is no row
          call,     \* caller -> [pc, hash, at, expires, version]
          answers   \* responses that callers were given: what they did themselves, or a replay

vars == <<now, row, call, answers>>

Never == -1
NoResponse == 0

TypeOK ==
    /\ now \in Nat
    /\ row \in [hash : Hashes, status : {"in_progress", "completed", "failed"}, response : Nat, created : Nat,
               expires : Nat \cup {Never}, version : Nat]
    /\ call \in [Callers -> [pc : {"idle", "begin", "select", "work"}, hash : Hashes, at : Nat,
                             expires : Nat \cup {Never}, version : Nat]]
    /\ answers \in SUBSET Nat

Init ==
    /\ now = 0 /\ answers = {}
    /\ \E h \in Hashes :
         /\ row = [hash |-> h, status |-> "failed", response |-> NoResponse, created |-> 0, expires |-> Never, version |-> 0]
         /\ call = [c \in Callers |-> [pc |-> "idle", hash |-> h, at |-> 0, expires |-> Never, version |-> 0]]

At(c, pc) == call[c].pc = pc
Goto(c, pc) == call' = [call EXCEPT ![c].pc = pc]

Tick == now < MaxTime /\ now' = now + 1 /\ UNCHANGED <<row, call, answers>>

-----------------------------------------------------------------------------
(* The caller reads its clock; its transaction may run much later. *)
Call(c, h, e) ==
    /\ At(c, "idle")
    /\ call' = [call EXCEPT ![c] = [pc |-> "begin", hash |-> h, at |-> now, expires |-> IF e THEN now + Ttl ELSE Never, version |-> 0]]
    /\ UNCHANGED <<now, row, answers>>

(* The attempt that owns the row from now on; its caller may not hear of it. *)
Acquired(c, heard, created) ==
    /\ row.version < MaxVersion
    /\ row' = [hash |-> call[c].hash, status |-> "in_progress", response |-> NoResponse, created |-> created,
               expires |-> call[c].expires, version |-> row.version + 1]
    /\ call' = [call EXCEPT ![c].pc = IF heard THEN "work" ELSE "idle", ![c].version = row.version + 1]
    /\ UNCHANGED <<now, answers>>

(* INSERT ... ON CONFLICT DO NOTHING: the row is new, or begin goes on to lock it. *)
Insert(c, heard) == At(c, "begin") /\ row.version = 0 /\ Acquired(c, heard, call[c].at)

Conflict(c) ==
    /\ At(c, "begin") /\ row.version > 0 /\ Goto(c, "select")
    /\ UNCHANGED <<now, row, answers>>

Expired_AnyTime(c) == row.expires # Never

Expired(c) == row.expires # Never /\ row.expires <= call[c].at

Replayable_Unexpired(c) == row.status = "completed" /\ ~Expired(c)

(* A completed record is replayed, whatever its age. *)
Replayable(c) == row.status = "completed"

(* SELECT ... FOR UPDATE and what begin decides on the locked row. *)
Replay(c) ==
    /\ At(c, "select") /\ row.hash = call[c].hash /\ Replayable(c)
    /\ answers' = answers \cup {row.response} /\ Goto(c, "idle")
    /\ UNCHANGED <<now, row>>

Refuse(c) ==
    /\ At(c, "select")
    /\ \/ row.hash # call[c].hash
       \/ row.status = "in_progress" /\ ~Expired(c)
    /\ Goto(c, "idle") /\ UNCHANGED <<now, row, answers>>

(* The UPDATE of begin; a caller whose clock is older than the row violates idempotency_records_updated_after_created and fails. *)
Reset(c, heard) ==
    /\ At(c, "select") /\ row.hash = call[c].hash /\ ~Replayable(c)
    /\ row.status = "in_progress" => Expired(c)
    /\ row.created <= call[c].at
    /\ Acquired(c, heard, row.created)

-----------------------------------------------------------------------------
(* The WHERE clause of complete and fail. *)
Owned(c) == row.hash = call[c].hash /\ row.version = call[c].version /\ row.status = "in_progress"

(* complete: the response of an attempt is told apart by its version. *)
Complete(c, heard) ==
    /\ At(c, "work") /\ Owned(c)
    /\ row' = [row EXCEPT !.status = "completed", !.response = call[c].version, !.version = @ + 1]
    /\ answers' = IF heard THEN answers \cup {call[c].version} ELSE answers
    /\ Goto(c, "idle") /\ UNCHANGED now

(* fail: the record may be taken up again at once. *)
Fail(c) ==
    /\ At(c, "work") /\ Owned(c)
    /\ row' = [row EXCEPT !.status = "failed", !.version = @ + 1]
    /\ Goto(c, "idle") /\ UNCHANGED <<now, answers>>

(* mutationMiss: the caller learns that it does not own the record any more. *)
Miss(c) == At(c, "work") /\ ~Owned(c) /\ Goto(c, "idle") /\ UNCHANGED <<now, row, answers>>

(* The process dies, or its transaction is rolled back. *)
Crash(c) == ~At(c, "idle") /\ Goto(c, "idle") /\ UNCHANGED <<now, row, answers>>

Step(c) ==
    \/ \E h \in Hashes, e \in BOOLEAN : Call(c, h, e)
    \/ Conflict(c) \/ Replay(c) \/ Refuse(c) \/ Fail(c) \/ Miss(c) \/ Crash(c)
    \/ \E heard \in BOOLEAN : Insert(c, heard) \/ Reset(c, heard) \/ Complete(c, heard)

Next == Tick \/ \E c \in Callers : Step(c)

Spec == Init /\ [][Next]_vars

-----------------------------------------------------------------------------
(* Two attempts work at the same time only if one of them has run out of its time: begin never gives a record away that is still worked on. *)
OneLiveAttempt ==
    \A c, d \in Callers :
        At(c, "work") /\ At(d, "work") /\ c # d =>
            \E o \in {c, d} : call[o].expires # Never /\ call[o].expires <= now

(* Everybody who was given a response was given the same one, although attempts expire, die, answer late or do not hear that they succeeded. *)
AnswersAgree == \A r, s \in answers : r = s

-----------------------------------------------------------------------------
(* Proofs, for any callers, requests and bounds. *)

(* No caller's clock is ahead. *)
ClocksBehind == \A c \in Callers : call[c].at <= now

(* A working attempt owns the current version of the record, as it wrote it, or its time is up. *)
AttemptsAccounted ==
    \A c \in Callers : At(c, "work") =>
        /\ call[c].version \in 1..row.version
        /\ call[c].version = row.version =>
              row.status = "in_progress" /\ row.expires = call[c].expires
        /\ call[c].version < row.version => call[c].expires # Never /\ call[c].expires <= now

(* No two attempts work under one version. *)
VersionsDiffer ==
    \A c, d \in Callers : At(c, "work") /\ At(d, "work") /\ c # d => call[c].version # call[d].version

(* Nobody has a response before the record is completed, and then it is the one in the record. *)
AnswersRecorded ==
    /\ row.status = "completed" => answers \subseteq {row.response}
    /\ row.status # "completed" => answers = {}

IInv == TypeOK /\ ClocksBehind /\ AttemptsAccounted /\ VersionsDiffer /\ AnswersRecorded /\ (row.version = 0 => row.status = "failed")

Rows == [hash : Hashes, status : {"in_progress", "completed", "failed"}, response : Nat, created : Nat,
         expires : Nat \cup {Never}, version : Nat]
Calls == [pc : {"idle", "begin", "select", "work"}, hash : Hashes, at : Nat, expires : Nat \cup {Never}, version : Nat]

(* Two fields of a record change. *)
LEMMA CallUpdate ==
  ASSUME NEW r \in Calls, NEW pc \in {"idle", "begin", "select", "work"}, NEW v \in Nat
  PROVE  [r EXCEPT !.pc = pc, !.version = v] \in Calls
<1>1. [r EXCEPT !.pc = pc] \in Calls
  BY DEF Calls
<1> QED
  BY <1>1 DEF Calls

LEMMA RowUpdate ==
  ASSUME NEW r \in Rows, NEW status \in {"completed", "failed"}, NEW response \in Nat, NEW v \in Nat
  PROVE  [r EXCEPT !.status = status, !.response = response, !.version = v] \in Rows
<1>1. [r EXCEPT !.status = status] \in Rows
  BY DEF Rows
<1>2. [r EXCEPT !.status = status, !.response = response] \in Rows
  BY <1>1 DEF Rows
<1> QED
  BY <1>2 DEF Rows

LEMMA InitEstablishes == Init => IInv
<1> SUFFICES ASSUME Init PROVE IInv
  OBVIOUS
<1>1. PICK h \in Hashes :
        /\ row = [hash |-> h, status |-> "failed", response |-> NoResponse, created |-> 0, expires |-> Never, version |-> 0]
        /\ call = [c \in Callers |-> [pc |-> "idle", hash |-> h, at |-> 0, expires |-> Never, version |-> 0]]
  BY DEF Init
<1>2. TypeOK
  BY <1>1 DEF Init, TypeOK, NoResponse
<1> QED
  BY <1>1, <1>2 DEF Init, IInv, ClocksBehind, AttemptsAccounted, VersionsDiffer, AnswersRecorded, At

(* begin gives the record to a caller: a row that is new, failed, or whose attempt has run out of time. *)
LEMMA AcquiredPreserves ==
  ASSUME IInv, NEW c \in Callers, NEW heard \in BOOLEAN, NEW created \in Nat, Acquired(c, heard, created),
         row.status # "completed", row.status = "in_progress" => Expired(c)
  PROVE  IInv'
<1>1. TypeOK'
  <2> DEFINE next == IF heard THEN "work" ELSE "idle"
  <2>1. next \in {"idle", "work"}
    OBVIOUS
  <2> HIDE DEF next
  <2>2. call' = [call EXCEPT ![c].pc = next, ![c].version = row.version + 1]
    BY DEF Acquired, next
  <2>3. call' \in [Callers -> Calls]
    <3>1. call \in [Callers -> Calls] /\ row.version + 1 \in Nat
      BY DEF IInv, TypeOK, Calls
    <3>2. [call[c] EXCEPT !.pc = next, !.version = row.version + 1] \in Calls
      BY <2>1, <3>1, CallUpdate
    <3>3. call' = [call EXCEPT ![c] = [call[c] EXCEPT !.pc = next, !.version = row.version + 1]]
      BY <2>2, <3>1
    <3> QED
      BY <3>1, <3>2, <3>3
  <2>4. row' \in [hash : Hashes, status : {"in_progress", "completed", "failed"}, response : Nat, created : Nat,
                  expires : Nat \cup {Never}, version : Nat]
    BY DEF IInv, TypeOK, Acquired, NoResponse
  <2> QED
    BY <2>3, <2>4 DEF IInv, TypeOK, Acquired, Calls
<1>2. ClocksBehind'
  BY DEF IInv, TypeOK, ClocksBehind, Acquired
<1>3. ASSUME NEW d \in Callers, At(d, "work")', d # c
      PROVE  /\ call'[d] = call[d] /\ At(d, "work") /\ call[d].version \in 1..row.version
             /\ call[d].expires # Never /\ call[d].expires <= now
  <2>1. call'[d] = call[d] /\ At(d, "work")
    BY <1>3 DEF IInv, TypeOK, Acquired, At
  <2>2. call[d].version \in 1..row.version
    BY <2>1 DEF IInv, AttemptsAccounted
  <2>3. CASE call[d].version < row.version
    BY <2>1, <2>2, <2>3 DEF IInv, AttemptsAccounted
  <2>4. CASE call[d].version = row.version
    <3>1. row.status = "in_progress" /\ row.expires = call[d].expires
      BY <2>1, <2>4 DEF IInv, AttemptsAccounted
    <3>2. row.expires # Never /\ row.expires <= call[c].at /\ call[c].at <= now
      BY <3>1 DEF IInv, Expired, ClocksBehind
    <3>3. row.expires \in Int /\ call[c].at \in Int /\ now \in Int
      BY DEF IInv, TypeOK, Never
    <3> QED
      BY <2>1, <2>2, <3>1, <3>2, <3>3
  <2> QED
    BY <2>1, <2>2, <2>3, <2>4 DEF IInv, TypeOK
<1>4. /\ row.version \in Nat /\ row'.version = row.version + 1 /\ row'.status = "in_progress"
      /\ row'.expires = call[c].expires /\ call'[c].expires = call[c].expires /\ call'[c].version = row.version + 1
  BY DEF IInv, TypeOK, Acquired
<1>5. AttemptsAccounted'
  <2> SUFFICES ASSUME NEW d \in Callers, At(d, "work")'
      PROVE  /\ call'[d].version \in 1..row'.version
             /\ call'[d].version = row'.version => row'.status = "in_progress" /\ row'.expires = call'[d].expires
             /\ call'[d].version < row'.version => call'[d].expires # Never /\ call'[d].expires <= now'
    BY DEF AttemptsAccounted
  <2>1. CASE d = c
    BY <2>1, <1>4
  <2>2. CASE d # c
    <3>1. call'[d] = call[d] /\ call[d].version \in 1..row.version /\ call[d].expires # Never /\ call[d].expires <= now /\ now' = now
      BY <2>2, <1>3 DEF Acquired
    <3>2. call'[d].version \in 1..row'.version /\ call'[d].version # row'.version
      BY <3>1, <1>4
    <3> QED
      BY <3>1, <3>2
  <2> QED
    BY <2>1, <2>2
<1>6. VersionsDiffer'
  <2> SUFFICES ASSUME NEW d \in Callers, NEW e \in Callers, At(d, "work")', At(e, "work")', d # e
      PROVE  call'[d].version # call'[e].version
    BY DEF VersionsDiffer
  <2>1. CASE d # c /\ e # c
    BY <2>1, <1>3 DEF IInv, VersionsDiffer
  <2>2. CASE d = c
    BY <2>2, <1>3, <1>4
  <2>3. CASE e = c
    BY <2>3, <1>3, <1>4
  <2> QED
    BY <2>1, <2>2, <2>3
<1>7. AnswersRecorded'
  BY <1>4 DEF IInv, AnswersRecorded, Acquired
<1> QED
  BY <1>1, <1>2, <1>4, <1>5, <1>6, <1>7 DEF IInv

(* A caller that stops working, without a change of the record. *)
LEMMA LeavingPreserves ==
  ASSUME IInv, NEW c \in Callers, NEW pc \in {"idle", "select"}, Goto(c, pc), UNCHANGED <<now, row>>,
         answers' = answers \/ (row.status = "completed" /\ answers' = answers \cup {row.response})
  PROVE  IInv'
<1>1. TypeOK'
  BY DEF IInv, TypeOK, Goto
<1>2. \A d \in Callers : /\ call'[d].at = call[d].at /\ call'[d].version = call[d].version /\ call'[d].expires = call[d].expires
                         /\ At(d, "work")' => At(d, "work")
  BY DEF IInv, TypeOK, Goto, At
<1>3. ClocksBehind' /\ AttemptsAccounted' /\ VersionsDiffer'
  BY <1>2 DEF IInv, ClocksBehind, AttemptsAccounted, VersionsDiffer
<1>4. AnswersRecorded'
  BY DEF IInv, AnswersRecorded
<1> QED
  BY <1>1, <1>3, <1>4 DEF IInv

(* The owner of the current version writes its outcome and stops working. *)
LEMMA OutcomePreserves ==
  ASSUME IInv, NEW c \in Callers, NEW status \in {"completed", "failed"}, NEW response \in Nat, At(c, "work"), Owned(c),
         row' = [row EXCEPT !.status = status, !.response = response, !.version = row.version + 1],
         Goto(c, "idle"), UNCHANGED now, answers' = answers \/ (status = "completed" /\ answers' = answers \cup {response})
  PROVE  IInv'
<1>1. TypeOK'
  <2>1. row' \in Rows
    <3>1. row \in Rows /\ row.version + 1 \in Nat
      BY DEF IInv, TypeOK, Rows
    <3> QED
      BY <3>1, RowUpdate
  <2>2. answers' \in SUBSET Nat
    BY DEF IInv, TypeOK
  <2> QED
    BY <2>1, <2>2 DEF IInv, TypeOK, Goto, Rows
<1>2. ClocksBehind'
  BY DEF IInv, TypeOK, ClocksBehind, Goto
<1>3. /\ row.version \in Nat /\ row'.version = row.version + 1 /\ row'.status = status /\ row'.response = response
      /\ row.status = "in_progress" /\ row.version = call[c].version
  BY DEF IInv, TypeOK, Owned
<1>4. ASSUME NEW d \in Callers, At(d, "work")'
      PROVE  /\ call'[d] = call[d] /\ At(d, "work") /\ call[d].version \in 1..row.version /\ call[d].version < row.version
             /\ call[d].expires # Never /\ call[d].expires <= now
  <2>1. d # c /\ call'[d] = call[d] /\ At(d, "work")
    BY <1>4 DEF IInv, TypeOK, Goto, At
  <2>2. call[d].version # row.version
    BY <2>1, <1>3 DEF IInv, VersionsDiffer
  <2>3. call[d].version \in 1..row.version
    BY <2>1 DEF IInv, AttemptsAccounted
  <2>4. call[d].version < row.version
    BY <2>2, <2>3, <1>3
  <2> QED
    BY <2>1, <2>3, <2>4 DEF IInv, AttemptsAccounted
<1>5. AttemptsAccounted'
  BY <1>3, <1>4 DEF AttemptsAccounted
<1>6. VersionsDiffer'
  BY <1>4 DEF IInv, VersionsDiffer
<1>7. AnswersRecorded'
  BY <1>3 DEF IInv, AnswersRecorded
<1> QED
  BY <1>1, <1>2, <1>3, <1>5, <1>6, <1>7 DEF IInv

LEMMA StepPreserves ==
  ASSUME IdempotencyBounds
  PROVE  IInv /\ [Next]_vars => IInv'
<1> SUFFICES ASSUME IInv, [Next]_vars PROVE IInv'
  OBVIOUS
<1>1. CASE Tick
  BY <1>1 DEF IInv, TypeOK, ClocksBehind, AttemptsAccounted, VersionsDiffer, AnswersRecorded, At, Tick
<1>2. ASSUME NEW c \in Callers, Step(c) PROVE IInv'
  <2>1. ASSUME NEW h \in Hashes, NEW e \in BOOLEAN, Call(c, h, e) PROVE IInv'
    <3>1. TypeOK'
      BY <2>1 DEF IInv, TypeOK, Call, Never, IdempotencyBounds
    <3>2. ClocksBehind'
      BY <2>1 DEF IInv, TypeOK, ClocksBehind, Call
    <3>3. \A d \in Callers : At(d, "work")' => call'[d] = call[d] /\ At(d, "work")
      BY <2>1 DEF IInv, TypeOK, Call, At
    <3>4. AttemptsAccounted' /\ VersionsDiffer' /\ AnswersRecorded'
      BY <2>1, <3>3 DEF IInv, AttemptsAccounted, VersionsDiffer, AnswersRecorded, Call
    <3> QED
      BY <2>1, <3>1, <3>2, <3>4 DEF IInv, Call
  <2>2. CASE Conflict(c)
    BY <2>2, LeavingPreserves DEF Conflict
  <2>3. CASE Replay(c)
    BY <2>3, LeavingPreserves DEF Replay, Replayable
  <2>4. CASE Refuse(c) \/ Miss(c) \/ Crash(c)
    BY <2>4, LeavingPreserves DEF Refuse, Miss, Crash
  <2>5. ASSUME NEW heard \in BOOLEAN, Insert(c, heard) PROVE IInv'
    <3>1. call[c].at \in Nat /\ row.status = "failed"
      BY <2>5 DEF IInv, TypeOK, Insert
    <3> QED
      BY <2>5, <3>1, AcquiredPreserves DEF Insert
  <2>6. ASSUME NEW heard \in BOOLEAN, Reset(c, heard) PROVE IInv'
    <3>1. row.created \in Nat
      BY DEF IInv, TypeOK
    <3> QED
      BY <2>6, <3>1, AcquiredPreserves DEF Reset, Replayable
  <2>7. ASSUME NEW heard \in BOOLEAN, Complete(c, heard) PROVE IInv'
    <3>1. call[c].version \in Nat
      BY DEF IInv, TypeOK
    <3> QED
      BY <2>7, <3>1, OutcomePreserves DEF Complete
  <2>8. CASE Fail(c)
    <3>1. row.response \in Nat /\ row' = [row EXCEPT !.status = "failed", !.response = row.response, !.version = row.version + 1]
      BY <2>8 DEF IInv, TypeOK, Fail
    <3> QED
      BY <2>8, <3>1, OutcomePreserves DEF Fail
  <2> QED
    BY <1>2, <2>1, <2>2, <2>3, <2>4, <2>5, <2>6, <2>7, <2>8 DEF Step
<1>3. CASE UNCHANGED vars
  BY <1>3 DEF IInv, TypeOK, ClocksBehind, AttemptsAccounted, VersionsDiffer, AnswersRecorded, At, vars
<1> QED
  BY <1>1, <1>2, <1>3 DEF Next

(* At every moment at most one attempt whose time is not up works on a request, for any number of callers, and a record of postgresIdempotencyRepository is taken over only from an attempt that has failed or expired. *)
THEOREM LiveAttemptIsUnique ==
  ASSUME IdempotencyBounds
  PROVE  Spec => []OneLiveAttempt
<1>1. Init => IInv
  BY InitEstablishes
<1>2. IInv /\ [Next]_vars => IInv'
  BY StepPreserves
<1>3. IInv => OneLiveAttempt
  <2> SUFFICES ASSUME IInv, NEW c \in Callers, NEW d \in Callers, At(c, "work"), At(d, "work"), c # d
      PROVE  \E o \in {c, d} : call[o].expires # Never /\ call[o].expires <= now
    BY DEF OneLiveAttempt
  <2>1. call[c].version # call[d].version /\ row.version \in Nat /\ call[c].version \in 1..row.version /\ call[d].version \in 1..row.version
    BY DEF IInv, TypeOK, VersionsDiffer, AttemptsAccounted
  <2>2. call[c].version < row.version \/ call[d].version < row.version
    BY <2>1
  <2> QED
    BY <2>2 DEF IInv, AttemptsAccounted
<1> QED
  BY <1>1, <1>2, <1>3, PTL DEF Spec

(* All callers of complete and begin that are given a response for one idempotency key are given the same one. *)
THEOREM ResponsesAgree ==
  ASSUME IdempotencyBounds
  PROVE  Spec => []AnswersAgree
<1>1. Init => IInv
  BY InitEstablishes
<1>2. IInv /\ [Next]_vars => IInv'
  BY StepPreserves
<1>3. IInv => AnswersAgree
  BY DEF IInv, AnswersRecorded, AnswersAgree
<1> QED
  BY <1>1, <1>2, <1>3, PTL DEF Spec
===============================================================================
