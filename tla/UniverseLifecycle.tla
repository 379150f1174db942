--------------------------- MODULE UniverseLifecycle ---------------------------
(* universeLifecycleService and universeService: lifecycle runs discover and  *)
(* assess symbols one transaction at a time; the metadata refresh and the     *)
(* operator's commands write the same rows from other processes. What the     *)
(* evidence says of a symbol is chosen anew at each assessment.               *)
EXTENDS Integers, FiniteSets, Sequences, SequencesExt, FiniteSetsExt

CONSTANTS Assets, Seeds,       \* symbols in alphabetical order, the seeded ones
          Runs, ScanLimit, MaxNew, MaxAssess, RetireAfter,
          MaxChanges           \* bound on inventory changes and operator commands

VARIABLES listed,   \* assets without an issue in Alpaca's inventory
          sym,      \* universe_symbols: symbol -> [state, enabled, since]
          trail,    \* universe_lifecycle_events: symbol -> to_state of the last one
          broken,   \* symbols with an event that does not start where the last one ended
          rows,     \* universe_lifecycle_runs: run -> [status, cursor, order]
          run,      \* run -> [pc, cursor, end, seen, new, todo, read]
          holder,   \* run whose fence is active
          refresh,  \* refreshUniverseAssetMetadata [pc, sym, enabled]
          changes, removed,
          turn      \* assets looked at since the discovery began at the front

vars == <<listed, sym, trail, broken, rows, run, holder, refresh, changes, removed, turn>>

None == 0
Active == {"research_eligible", "paper_eligible", "paper_active"}
States == Active \cup {"absent", "discovered", "observe_only", "suspended", "retired"}
Priority == [paper_active |-> 0, paper_eligible |-> 1, research_eligible |-> 2, observe_only |-> 3, discovered |-> 4, suspended |-> 5]
Absent == [state |-> "absent", enabled |-> FALSE, since |-> 0]
NewRun == [pc |-> "idle", cursor |-> None, end |-> None, seen |-> {}, new |-> <<>>, todo |-> <<>>, read |-> <<>>]
Known == {a \in Assets : sym[a].state # "absent"}

Init ==
    /\ listed \in {Assets} /\ sym = [a \in Assets |-> Absent] /\ trail = [a \in Assets |-> "none"] /\ broken = {}
    /\ rows = [r \in Runs |-> [status |-> "none", cursor |-> None]] /\ run = [r \in Runs |-> NewRun]
    /\ holder = None /\ refresh = [pc |-> "idle", sym |-> None, enabled |-> FALSE]
    /\ changes = 0 /\ removed = {} /\ turn = {}

At(r, pc) == run[r].pc = pc
Set(r, pc) == run' = [run EXCEPT ![r].pc = pc]
End(r) == run' = [run EXCEPT ![r] = [NewRun EXCEPT !.pc = "done"]]

Fenced_Never(r) == TRUE

(* assertScheduledWriteFenceActive *)
Fenced(r) == holder = r

(* writeEvent, in the transaction of the change *)
Event(a, from, to) ==
    /\ trail' = [trail EXCEPT ![a] = to]
    /\ broken' = IF trail[a] \in {"none", from} THEN broken ELSE broken \cup {a}

(* transitionSymbol, for the row a caller has read *)
Transition(r, a, from, to) ==
    /\ sym' = IF a \in Known THEN [sym EXCEPT ![a] = [state |-> to, enabled |-> to \in Active, since |-> r]] ELSE sym
    /\ Event(a, from, to)

-----------------------------------------------------------------------------
LastCursor_AnyRun ==
    LET done == {r \in Runs : rows[r].status \in {"completed", "failed"} /\ rows[r].cursor # None}
    IN  IF done = {} THEN None ELSE rows[Max(done)].cursor

(* latestCursor *)
LastCursor ==
    LET done == {r \in Runs : rows[r].status = "completed" /\ rows[r].cursor # None}
    IN  IF done = {} THEN None ELSE rows[Max(done)].cursor

Start_NoRecovery(r) ==
    /\ At(r, "idle") /\ (\A q \in Runs : q < r => ~At(q, "idle"))
    /\ holder = None /\ holder' = r
    /\ rows' = [rows EXCEPT ![r].status = "running"]
    /\ run' = [run EXCEPT ![r] = [NewRun EXCEPT !.pc = "list", !.cursor = LastCursor, !.end = LastCursor]]
    /\ UNCHANGED <<listed, sym, trail, broken, refresh, changes, removed, turn>>

(* The scheduler starts the run; recoverIncompleteRuns and createRun follow. *)
Start(r) ==
    /\ At(r, "idle") /\ (\A q \in Runs : q < r => ~At(q, "idle"))
    /\ holder = None /\ holder' = r
    /\ rows' = [q \in Runs |-> IF q = r THEN [status |-> "running", cursor |-> None]
                               ELSE IF rows[q].status = "running" THEN [rows[q] EXCEPT !.status = "failed"] ELSE rows[q]]
    /\ run' = [run EXCEPT ![r] = [NewRun EXCEPT !.pc = "list", !.cursor = LastCursor, !.end = LastCursor]]
    /\ UNCHANGED <<listed, sym, trail, broken, refresh, changes, removed, turn>>

(* seedInitialUniverse: a row of its own makes has the default state. *)
Seed(r) ==
    /\ At(r, "list") /\ Fenced(r)
    /\ sym' = [a \in Assets |-> IF a \in Seeds \ Known THEN [state |-> "research_eligible", enabled |-> TRUE, since |-> 0] ELSE sym[a]]
    /\ Set(r, "answer")
    /\ UNCHANGED <<listed, trail, broken, rows, holder, refresh, changes, removed, turn>>

After(cursor, S) == {a \in S : a > cursor}

(* Those of S that the first n positions of the alphabet hold. *)
First(S, n) == {a \in S : Cardinality({b \in S : b < a}) < n}

Rotation(cursor) == IF After(cursor, listed) = {} THEN listed ELSE After(cursor, listed)

(* listAlpacaAssets answers; recordBaseline and selectDiscoveryAssets. *)
Answer(r) ==
    /\ At(r, "answer") /\ Fenced(r)
    /\ LET bare == {a \in Known : trail[a] = "none"}
           scanned == First(Rotation(run[r].cursor), ScanLimit)
           new == First(scanned \ Known, MaxNew)
           end == IF scanned = {} THEN run[r].cursor ELSE Max(scanned)
       IN  /\ trail' = [a \in Assets |-> IF a \in bare THEN sym[a].state ELSE trail[a]]
           /\ run' = [run EXCEPT ![r].pc = "discover", ![r].seen = listed, ![r].new = SetToSortSeq(new, <),
                                 ![r].end = end]
    /\ UNCHANGED <<listed, sym, broken, rows, holder, refresh, changes, removed, turn>>

(* insertDiscoveredSymbol *)
Discover(r) ==
    /\ At(r, "discover") /\ run[r].new # <<>> /\ Fenced(r)
    /\ LET a == Head(run[r].new) IN
       IF a \in Known THEN run' = [run EXCEPT ![r].new = Tail(@)] /\ UNCHANGED <<sym, trail, broken>>
       ELSE /\ sym' = [sym EXCEPT ![a] = [state |-> "discovered", enabled |-> FALSE, since |-> r]]
            /\ trail' = [trail EXCEPT ![a] = "discovered"] /\ UNCHANGED broken
            /\ Set(r, "accept")
    /\ UNCHANGED <<listed, rows, holder, refresh, changes, removed, turn>>

Accept(r) ==
    /\ At(r, "accept") /\ Fenced(r)
    /\ Transition(r, Head(run[r].new), "discovered", "observe_only")
    /\ run' = [run EXCEPT ![r].pc = "discover", ![r].new = Tail(@)]
    /\ UNCHANGED <<listed, rows, holder, refresh, changes, removed, turn>>

Assessable ==
    LET open == {a \in Known : sym[a].state # "retired"}
        before(a, b) == Priority[sym[a].state] < Priority[sym[b].state] \/ (sym[a].state = sym[b].state /\ a < b)
    IN  SetToSortSeq({a \in open : Cardinality({b \in open : before(b, a)}) < MaxAssess}, before)

Queue(r) ==
    /\ At(r, "discover") /\ run[r].new = <<>>
    /\ run' = [run EXCEPT ![r].pc = "assess", ![r].todo = Assessable, ![r].read = sym]
    /\ UNCHANGED <<listed, sym, trail, broken, rows, holder, refresh, changes, removed, turn>>

(* The row as it is now, or as the run has listed it when it is gone. *)
Row(r, a) == IF a \in Known THEN sym[a] ELSE run[r].read[a]

ShouldRetire(r, a) == r - Row(r, a).since >= RetireAfter

(* buildEvidence, by what assessSymbol asks of it: failures at a limit, an open position, quality and history for
   research, selections enough. *)
Evidence == [failing : BOOLEAN, held : BOOLEAN, qualifies : BOOLEAN, selected : BOOLEAN]

(* assessSymbol: where its first transition leads. *)
Verdict(r, a, e) ==
    LET s == Row(r, a).state IN
    CASE s = "retired" -> s
      [] s = "suspended" /\ ShouldRetire(r, a) -> "retired"
      [] s # "retired" /\ a \notin run[r].seen -> "suspended"
      [] s = "suspended" /\ a \in run[r].seen /\ ~ShouldRetire(r, a) -> IF e.qualifies THEN "observe_only" ELSE s
      [] s \notin {"retired", "suspended"} /\ a \in run[r].seen ->
           IF e.failing THEN "suspended"
           ELSE IF e.held THEN "paper_active"
           ELSE IF s = "paper_active" THEN "paper_eligible"
           ELSE IF s = "discovered" THEN "observe_only"
           ELSE IF s = "observe_only" /\ e.qualifies THEN "research_eligible"
           ELSE IF s = "research_eligible" /\ e.qualifies /\ e.selected THEN "paper_eligible"
           ELSE s

Assess(r) ==
    /\ At(r, "assess") /\ run[r].todo # <<>> /\ Fenced(r)
    /\ \E e \in Evidence :
         LET a == Head(run[r].todo)
             s == Row(r, a).state
             to == Verdict(r, a, e)
         IN  /\ IF to = s THEN UNCHANGED <<sym, trail, broken>> ELSE Transition(r, a, s, to)
             /\ IF s = "observe_only" /\ to = "research_eligible" /\ e.selected THEN Set(r, "again")
                ELSE run' = [run EXCEPT ![r].todo = Tail(@)]
    /\ UNCHANGED <<listed, rows, holder, refresh, changes, removed, turn>>

(* A symbol that research has selected often enough moves on at once, from the row as it is now. *)
Again(r) ==
    /\ At(r, "again") /\ Fenced(r)
    /\ LET a == Head(run[r].todo) IN
       /\ IF a \in Known THEN Transition(r, a, sym[a].state, "paper_eligible") ELSE UNCHANGED <<sym, trail, broken>>
       /\ run' = [run EXCEPT ![r].pc = "assess", ![r].todo = Tail(@)]
    /\ UNCHANGED <<listed, rows, holder, refresh, changes, removed, turn>>

(* Ghost: a completed run has dealt with what it scanned; a run that began at the front starts a new turn. *)
Turned(r) ==
    LET wrapped == After(run[r].cursor, run[r].seen) = {} \/ run[r].cursor = None
        looked == {a \in run[r].seen : a <= run[r].end /\ (wrapped \/ a > run[r].cursor)}
    IN  (IF wrapped THEN {} ELSE turn) \cup looked

Finish(r) ==
    /\ At(r, "assess") /\ run[r].todo = <<>> /\ Fenced(r)
    /\ rows' = [rows EXCEPT ![r] = [status |-> "completed", cursor |-> run[r].end]] /\ turn' = Turned(r) /\ End(r) /\ holder' = None
    /\ UNCHANGED <<listed, sym, trail, broken, refresh, changes, removed>>

Working(r) == run[r].pc \notin {"idle", "done"}

(* A step throws: the run ends failed, with the cursor it had. *)
Fail(r) ==
    /\ Working(r) /\ Fenced(r) /\ rows' = [rows EXCEPT ![r] = [status |-> "failed", cursor |-> run[r].end]] /\ End(r) /\ holder' = None
    /\ UNCHANGED <<listed, sym, trail, broken, refresh, changes, removed, turn>>

(* The lease is lost, or the process with it: what the run would write from now on is refused, its last status too. *)
LoseFence(r) ==
    /\ Working(r) /\ Fenced(r) /\ holder' = None
    /\ UNCHANGED <<listed, sym, trail, broken, rows, run, refresh, changes, removed, turn>>

(* applyAutonomousRecovery: a row that runs for more than 90 s is marked failed, whether or not its process is alive. *)
Recover(r) ==
    /\ rows[r].status = "running" /\ rows' = [rows EXCEPT ![r].status = "failed"]
    /\ UNCHANGED <<listed, sym, trail, broken, run, holder, refresh, changes, removed, turn>>

-----------------------------------------------------------------------------
Change == changes < MaxChanges /\ changes' = changes + 1

InventoryChanges(a) ==
    /\ Change /\ listed' = IF a \in listed THEN listed \ {a} ELSE listed \cup {a}
    /\ UNCHANGED <<sym, trail, broken, rows, run, holder, refresh, removed, turn>>

(* addTicker *)
AddTicker(a) ==
    /\ Change
    /\ sym' = [sym EXCEPT ![a] = IF a \in Known THEN [@ EXCEPT !.enabled = TRUE]
                                 ELSE [state |-> "research_eligible", enabled |-> TRUE, since |-> 0]]
    /\ UNCHANGED <<listed, trail, broken, rows, run, holder, refresh, removed, turn>>

(* removeTicker: the events stay. *)
RemoveTicker(a) ==
    /\ Change /\ a \in Known /\ sym' = [sym EXCEPT ![a] = Absent] /\ removed' = removed \cup {a}
    /\ UNCHANGED <<listed, trail, broken, rows, run, holder, refresh, turn>>

(* setTickerEnabled *)
SetEnabled(a, on) ==
    /\ Change /\ a \in Known /\ sym[a].enabled # on /\ sym' = [sym EXCEPT ![a].enabled = on]
    /\ UNCHANGED <<listed, trail, broken, rows, run, holder, refresh, removed, turn>>

(* refreshUniverseAssetMetadata keeps the enabled flag it read before it asked Alpaca. *)
RefreshReads(a) ==
    /\ refresh.pc = "idle" /\ a \in Known /\ Change
    /\ refresh' = [pc |-> "asked", sym |-> a, enabled |-> sym[a].enabled]
    /\ UNCHANGED <<listed, sym, trail, broken, rows, run, holder, removed, turn>>

RefreshWrites ==
    /\ refresh.pc = "asked" /\ refresh' = [refresh EXCEPT !.pc = "idle", !.sym = None, !.enabled = FALSE]
    /\ sym' = IF refresh.sym \in Known THEN [sym EXCEPT ![refresh.sym].enabled = refresh.sym \in listed /\ refresh.enabled] ELSE sym
    /\ UNCHANGED <<listed, trail, broken, rows, run, holder, changes, removed, turn>>

Next ==
    \/ \E r \in Runs : \/ Start(r) \/ Seed(r) \/ Answer(r) \/ Discover(r) \/ Accept(r) \/ Queue(r) \/ Assess(r) \/ Again(r)
                       \/ Finish(r) \/ Fail(r) \/ LoseFence(r) \/ Recover(r)
    \/ \E a \in Assets : InventoryChanges(a) \/ AddTicker(a) \/ RemoveTicker(a) \/ (\E on \in BOOLEAN : SetEnabled(a, on)) \/ RefreshReads(a)
    \/ RefreshWrites

Spec == Init /\ [][Next]_vars

-----------------------------------------------------------------------------
TypeOK ==
    /\ listed \subseteq Assets /\ \A a \in Assets : sym[a].state \in States /\ trail[a] \in States \cup {"none"}
    /\ holder \in Runs \cup {None} /\ \A r \in Runs : rows[r].status \in {"none", "running", "completed", "failed"}

(* The events of a symbol tell its history without a gap and end in its state, although runs are cut off between transactions and overlap, unless the operator removed it on the way. *)
TrailIsUnbroken ==
    \A a \in Assets \ removed : a \notin broken /\ (trail[a] # "none" => trail[a] = sym[a].state)

ActiveUniverse_ByFlag == {a \in Known : sym[a].enabled}

(* getActiveUniverse *)
ActiveUniverse == {a \in Known : sym[a].enabled /\ sym[a].state \in Active}

(* Research is never given a symbol whose last recorded transition suspended or retired it, although the refresh writes back an old flag. *)
ServedIsNotSuspended == \A a \in ActiveUniverse \ removed : trail[a] \notin {"suspended", "retired", "observe_only", "discovered"}

(* When the discovery starts again at the front, every asset that was listed all the time has been looked at since it last did: a run that ended early never moves the discovery on. *)
NothingSkippedStep ==
    \A r \in Runs : rows[r].status # "completed" /\ rows'[r].status = "completed" /\ changes = 0
                    /\ run[r].cursor # None /\ After(run[r].cursor, run[r].seen) = {}
       => turn = Assets

NothingSkipped == [][NothingSkippedStep]_vars

(* At most one lifecycle run is shown as running. *)
OneRunning == Cardinality({r \in Runs : rows[r].status = "running"}) <= 1
=============================================================================
