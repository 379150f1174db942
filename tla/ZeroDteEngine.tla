------------------------------ MODULE ZeroDteEngine ------------------------------
(* zeroDteEngineService.runZeroDteEngine with the candidate queue it keeps: one  *)
(* transaction evaluates, ranks and decides, then every decision is acted on by  *)
(* a paper order or a shadow trade. The run id is a hash of its time and mode,   *)
(* so a command that is given the same time takes up the same run again.         *)
EXTENDS Integers, Sequences, FiniteSets, SequencesExt

CONSTANTS Procs, Cands,
          Runs,                  \* run id -> mode
          Evaluations,           \* what a playbook may say: [score, eligible, clean]
          MinObs,                \* minConfirmationObservations
          QueueTopN, ExecutionTopN,
          MaxObs, MaxCrashes

VARIABLES cand,      \* zero_dte_candidates: candidate -> [state, score, clean, seen]
          run,       \* zero_dte_engine_runs: run -> status
          observed,  \* zero_dte_candidate_observations: <<run, candidate>>
          decision,  \* zero_dte_decisions
          proc,      \* process -> [pc, run, todo]
          orders,    \* candidates with an order at the broker, each with its run
          shadow,    \* zero_dte_shadow_trades: [run, cand, decidedBy]
          refused,   \* decisions that led to neither: no order was accepted or the quote is no longer valid
          died,      \* runs one of whose processes stopped between its decisions and their actions
          crashes

vars == <<cand, run, observed, decision, proc, orders, shadow, refused, died, crashes>>

Confirmed == IF MinObs > 1 THEN MinObs ELSE 1
Preserved == {"selected", "executed", "closed"}
NotReconsidered == {"skipped", "rejected", "closed"}
Reappearance == {"weakening", "expired", "invalidated"}
TerminalQueueStates == {"closed", "expired", "invalidated", "rejected", "skipped"}
Settled == {"completed", "blocked"}   \* a market that is closed counts as blocked, a failed run as partial
Idle == [pc |-> "idle", run |-> 0, todo |-> <<>>]

Init ==
    /\ cand = [c \in Cands |-> [state |-> "none", score |-> 0, clean |-> FALSE, seen |-> 0]]
    /\ run = [r \in DOMAIN Runs |-> "none"]
    /\ observed = {} /\ decision = {} /\ orders = {} /\ shadow = {} /\ refused = {} /\ died = {}
    /\ proc = [p \in Procs |-> Idle] /\ crashes = 0

-----------------------------------------------------------------------------
(* ensureEngineRun inserts the row or leaves it alone, finishEngineRun overwrites it. *)
Ensured(r) == IF run[r] = "none" THEN "running" ELSE run[r]
FinishRun(r, status) == run' = [run EXCEPT ![r] = status]

(* A run that is completed, closed or blocked is only read again. *)
Start(p, r) ==
    LET old == Ensured(r)
    IN  /\ proc[p] = Idle
        /\ \/ /\ old \in Settled /\ UNCHANGED <<run, proc>>
           \/ /\ old \notin Settled
              /\ run' = [run EXCEPT ![r] = old]
              /\ proc' = [proc EXCEPT ![p] = [Idle EXCEPT !.pc = "evaluate", !.run = r]]
           \/ \* disabled or closed, or not a paper runtime, which overwrites the row whatever it says
              FinishRun(r, "blocked") /\ UNCHANGED proc
        /\ UNCHANGED <<cand, observed, decision, orders, shadow, refused, died, crashes>>

(* summarizeZeroDteSignal: the state of a signal with n observations. *)
SignalState(n, change) ==
    IF n < (IF MinObs > 2 THEN MinObs ELSE 2) THEN "watching"
    ELSE IF change > 0 THEN "strengthening" ELSE IF change < 0 THEN "weakening" ELSE "stable"

Confirms(n) == n >= Confirmed

Keeps_Executed(s) == s \in Preserved \ {"selected"}
Keeps_Undone(s) == s \in {"selected"} \cup NotReconsidered

(* A state that persistEvaluation never replaces by what the signal says now. *)
Keeps(s) == s \in Preserved \/ (s \in NotReconsidered /\ s \notin Reappearance)

(* persistEvaluation; clean: no blocker, a direction and an executable quote, which only an eligible candidate needs. *)
Evaluated(c, e) ==
    LET n == c.seen + 1
        said == IF e.eligible /\ Confirms(n) THEN "eligible" ELSE SignalState(n, e.score - c.score)
        state == IF Keeps(c.state) THEN c.state ELSE said
    IN  [state |-> state,
         score |-> e.score,
         clean |-> state = "eligible" /\ e.clean,
         seen |-> IF n > MaxObs THEN MaxObs ELSE n]

(* rowToQueueCandidate, compareQueueCandidates: the order is total because the last key is the hash of the id. *)
Executable(c) == c.state = "eligible" /\ c.clean
Before(a, b) ==
    \/ Executable(a) /\ ~Executable(b)
    \/ Executable(a) = Executable(b) /\ a.score > b.score

QueueRows(cs) == {c \in Cands : cs[c].state \notin TerminalQueueStates \cup {"none"}}

FirstOf(s, n) == SubSeq(s, 1, IF Len(s) > n THEN n ELSE Len(s))

(* listZeroDteQueue *)
Rankings(cs) ==
    {FirstOf(s, QueueTopN) : s \in {q \in SetToSeqs(QueueRows(cs)) : \A i, j \in DOMAIN q : i < j => ~Before(cs[q[j]], cs[q[i]])}}

IsActionable(c) == Executable(c)

Decided_Rejects(c, select) == [c EXCEPT !.clean = FALSE, !.state = IF select THEN "selected" ELSE "rejected"]

(* upsertZeroDteCandidate with what was decided: the candidate leaves the queue or waits for its trade. *)
Decided(c, select) == [c EXCEPT !.clean = FALSE, !.state = IF select THEN "selected" ELSE "skipped"]

DecisionRow(r, c, select) == [run |-> r, cand |-> c, select |-> select]
Decisions(r, actionable, picked) == {DecisionRow(r, c, c \in picked) : c \in Range(actionable)}

(* Observations and evaluations are keyed by run and candidate: a run that is repeated cannot store them again. *)
ObservationRows(r, seen) == {r} \X seen
Insertable(r, seen) == ObservationRows(r, seen) \cap observed = {}

(* The transaction of the batch: an observation that exists already fails it as a whole. *)
Batch(p) ==
    LET r == proc[p].run
    IN  /\ proc[p].pc = "evaluate"
        /\ \E seen \in SUBSET Cands : \E e \in [seen -> Evaluations] :
              /\ Insertable(r, seen)
              /\ LET cs == [c \in Cands |-> IF c \in seen THEN Evaluated(cand[c], e[c]) ELSE cand[c]]
                 IN  \E q \in Rankings(cs) :
                     LET actionable == SelectSeq(q, LAMBDA c : IsActionable(cs[c]))
                         picked == Range(FirstOf(actionable, ExecutionTopN))
                     IN  /\ cand' = [c \in Cands |-> IF c \in Range(actionable) THEN Decided(cs[c], c \in picked) ELSE cs[c]]
                         /\ decision' = decision \cup Decisions(r, actionable, picked)
                         /\ proc' = [proc EXCEPT ![p] = [@ EXCEPT !.pc = "act",
                               !.todo = [i \in DOMAIN actionable |-> [cand |-> actionable[i], select |-> actionable[i] \in picked]]]]
              /\ observed' = observed \cup ObservationRows(r, seen)
        /\ UNCHANGED <<run, orders, shadow, refused, died, crashes>>

(* A repeated observation, the lease or the database fails the batch: PERSISTENCE_BATCH_FAILED. *)
BatchFails(p) ==
    /\ proc[p].pc = "evaluate"
    /\ FinishRun(proc[p].run, "partial")
    /\ proc' = [proc EXCEPT ![p] = Idle]
    /\ UNCHANGED <<cand, observed, decision, orders, shadow, refused, died, crashes>>

-----------------------------------------------------------------------------
Acting(p) == proc[p].pc = "act" /\ proc[p].todo # <<>>
Next1(p) == Head(proc[p].todo)
Rest(p, pc) == proc' = [proc EXCEPT ![p].todo = Tail(@), ![p].pc = pc]

ByOrder(p) == Next1(p).select /\ Runs[proc[p].run] = "paper"
Done(p) == [run |-> proc[p].run, cand |-> Next1(p).cand]

(* What assertLifecycleLinkage compares with the group of the run. *)
DecidedBy(c) == {d.run : d \in {x \in decision : x.cand = c}}

(* createZeroDteShadowTrade: one per candidate and decision group. *)
OpensShadow(p) ==
    LET c == Next1(p).cand
    IN  \/ /\ shadow' = IF \E t \in shadow : t.cand = c /\ t.run = proc[p].run THEN shadow
                        ELSE shadow \cup {[run |-> proc[p].run, cand |-> c, decidedBy |-> DecidedBy(c)]}
           /\ UNCHANGED refused
        \/ /\ refused' = refused \cup {Done(p)} /\ UNCHANGED shadow   \* the quote is stale by now

Shadow(p) ==
    /\ Acting(p) /\ ~ByOrder(p)
    /\ OpensShadow(p) /\ Rest(p, "act")
    /\ UNCHANGED <<cand, run, observed, decision, orders, died, crashes>>

(* executeZeroDteCandidate (ZeroDteTrading has it in full) sends the order, *)
Send(p) ==
    /\ Acting(p) /\ ByOrder(p)
    /\ orders' = orders \cup {Done(p)}
    /\ proc' = [proc EXCEPT ![p].pc = "sent"]
    /\ UNCHANGED <<cand, run, observed, decision, shadow, refused, died, crashes>>

(* records the candidate as executed, *)
Executed(p) ==
    /\ proc[p].pc = "sent" /\ Rest(p, "act")
    /\ cand' = [cand EXCEPT ![Next1(p).cand].state = "executed"]
    /\ UNCHANGED <<run, observed, decision, orders, shadow, refused, died, crashes>>

(* or is blocked, which opens a shadow trade, *)
Blocked(p) ==
    /\ Acting(p) /\ ByOrder(p) /\ OpensShadow(p) /\ Rest(p, "act")
    /\ UNCHANGED <<cand, run, observed, decision, orders, died, crashes>>

Failed_Shadow(p) ==
    /\ Acting(p) /\ ByOrder(p) /\ OpensShadow(p) /\ Rest(p, "act")
    /\ \E sent \in BOOLEAN : orders' = IF sent THEN orders \cup {Done(p)} ELSE orders
    /\ UNCHANGED <<cand, run, observed, decision, died, crashes>>

(* or failed or was a duplicate, and the order may or may not have reached the broker. *)
Failed(p) ==
    /\ Acting(p) /\ ByOrder(p) /\ refused' = refused \cup {Done(p)} /\ Rest(p, "act")
    /\ \E sent \in BOOLEAN : orders' = IF sent THEN orders \cup {Done(p)} ELSE orders
    /\ UNCHANGED <<cand, run, observed, decision, shadow, died, crashes>>

Finish_Early(p) ==
    /\ proc[p].pc = "act"
    /\ FinishRun(proc[p].run, "completed")
    /\ proc' = [proc EXCEPT ![p] = Idle]
    /\ UNCHANGED <<cand, observed, decision, orders, shadow, refused, died, crashes>>

(* finishEngineRun: with errors the run is partial. *)
Finish(p) ==
    /\ proc[p].pc = "act" /\ proc[p].todo = <<>>
    /\ \E s \in {"completed", "partial"} : FinishRun(proc[p].run, s)
    /\ proc' = [proc EXCEPT ![p] = Idle]
    /\ UNCHANGED <<cand, observed, decision, orders, shadow, refused, died, crashes>>

(* The process dies, or its fence is lost and the next write throws: the row stays running. *)
Crash(p) ==
    /\ proc[p] # Idle /\ crashes < MaxCrashes /\ crashes' = crashes + 1
    /\ died' = IF proc[p].todo # <<>> THEN died \cup {proc[p].run} ELSE died
    /\ proc' = [proc EXCEPT ![p] = Idle]
    /\ UNCHANGED <<cand, run, observed, decision, orders, shadow, refused>>

Next ==
    \E p \in Procs :
        \/ \E r \in DOMAIN Runs : Start(p, r)
        \/ Batch(p) \/ BatchFails(p)
        \/ Shadow(p) \/ Send(p) \/ Executed(p) \/ Blocked(p) \/ Failed(p) \/ Finish(p)
        \/ Crash(p)

Spec == Init /\ [][Next]_vars

-----------------------------------------------------------------------------
CandidateStates == {"none", "watching", "strengthening", "weakening", "stable", "eligible", "selected", "skipped", "executed"}

TypeOK ==
    /\ cand \in [Cands -> [state : CandidateStates, score : {0} \cup {e.score : e \in Evaluations}, clean : BOOLEAN, seen : 0..MaxObs]]
    /\ run \in [DOMAIN Runs -> {"none", "running", "completed", "partial", "blocked"}]
    /\ \A p \in Procs : proc[p].pc \in {"idle", "evaluate", "act", "sent"}

(* A candidate is decided on once in its day, whatever runs overlap, are repeated or die, and every
   shadow trade belongs to the group of that decision, as assertLifecycleLinkage demands. *)
DecidedOnce ==
    /\ \A d, e \in decision : d.cand = e.cand => d = e
    /\ \A t \in shadow : t.decidedBy = {t.run}

(* No candidate is traded and shadowed: the learning never counts a simulated and a real trade of one decision. *)
TradedOrShadowed == \A o \in orders, t \in shadow : o.cand # t.cand

(* A completed run has acted on everything it decided, unless one of its processes died on the way. *)
CompletedHasActed ==
    \A d \in decision : run[d.run] = "completed" /\ d.run \notin died =>
        \/ [run |-> d.run, cand |-> d.cand] \in orders \cup refused
        \/ \E t \in shadow : t.run = d.run /\ t.cand = d.cand
        \/ \E p \in Procs : proc[p].run = d.run

(* A candidate that was executed stays so: later evaluations of the same contract do not reopen it. *)
ExecutedStaysStep == \A c \in Cands : cand[c].state = "executed" => cand'[c].state = "executed"
ExecutedStays == [][ExecutedStaysStep]_vars
=============================================================================
