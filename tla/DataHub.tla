------------------------------- MODULE DataHub -------------------------------
(* alpacaDataHubService.ts: one place in the process where stream events,    *)
(* REST hydrations and account activities meet.  Promises of a cycle are     *)
(* shared, newer events win, activities are taken once.                      *)
(* One symbol and one event key stand for all of them.                       *)
EXTENDS Naturals, Sequences, SequencesExt, FiniteSets, FiniteSetsExt

CONSTANTS Cycles, Loads,          \* cycle ids; hydrations in the order they start: 1..n
          Activities,             \* account activities, named by the time they happened: 1..n
          RetainedCycles, RetainedIds,
          MaxPolls, MaxTime

VARIABLES market,    \* provider time of the newest quote at the provider
          stream,    \* what the stock stream has as its latest quote, and whether it is ready
          latest,    \* latestEvents: provider time of the quote the hub holds, 0 when there is none
          newest,    \* the newest quote that was ever handed to the hub
          cycles, order,   \* cycle -> its registered load (0: none); cycleOrder
          load,      \* load -> [st, cycle, quote, acts, replaced]: the answer of its requests
          done,      \* activities that have happened at the broker: 1..done
          ids,       \* activityIdOrder, the ids that seenActivityIds holds
          after,     \* activityAfter
          taken,     \* activity -> how often it was recorded
          forgot,    \* activities whose id was dropped from the memory
          poll       \* the poll in flight: [on, rows, n]

vars == <<market, stream, latest, newest, cycles, order, load, done, ids, after, taken, forgot, poll>>

NoLoad == [st |-> "none", cycle |-> 0, quote |-> 0, acts |-> {}, replaced |-> FALSE]

Init ==
    /\ market = 1 /\ stream = [t |-> 0, ready |-> FALSE] /\ latest = 0 /\ newest = 0
    /\ cycles = [c \in Cycles |-> 0] /\ order = <<>> /\ load = [l \in Loads |-> NoLoad]
    /\ done = 0 /\ ids = <<>> /\ after = 0 /\ taken = [a \in Activities |-> 0] /\ forgot = {}
    /\ poll = [on |-> FALSE, rows |-> {}, n |-> 0]

CurrentEventWins_Always(current, t) == TRUE

(* currentEventWins: an event that is as new as the current one replaces it. *)
CurrentEventWins(current, t) == t >= current

(* recordEvent of a quote. *)
Recorded(current, t) == IF t /= 0 /\ CurrentEventWins(current, t) THEN t ELSE current

(* ingestAccountActivity, one activity after the other in time order: an id that is remembered is skipped, the oldest *)
(* ids are forgotten, the cursor moves on.                                                                            *)
Seen_Never(s, a) == FALSE
Seen(s, a) == \E i \in DOMAIN s.ids : s.ids[i] = a

Ingest(s, a) ==
    IF Seen(s, a) THEN s
    ELSE LET all == Append(s.ids, a)
             drop == IF Len(all) > RetainedIds THEN {Head(all)} ELSE {}
         IN  [ids |-> IF drop = {} THEN all ELSE Tail(all), after |-> Max({s.after, a}),
              taken |-> [s.taken EXCEPT ![a] = @ + 1], forgot |-> s.forgot \cup drop]

Ingested(rows) ==
    FoldLeft(Ingest, [ids |-> ids, after |-> after, taken |-> taken, forgot |-> forgot],
             SetToSortSeq(rows, <))

Take(rows) ==
    LET s == Ingested(rows)
    IN  ids' = s.ids /\ after' = s.after /\ taken' = s.taken /\ forgot' = s.forgot

Pruned(ord, cyc) ==
    IF Len(ord) > RetainedCycles THEN [order |-> Tail(ord), cycles |-> [cyc EXCEPT ![Head(ord)] = 0], gone |-> {Head(ord)}]
    ELSE [order |-> ord, cycles |-> cyc, gone |-> {}]

(* A load that loses its registration while it is pending. *)
Marked(ld, cyc, gone) == [l \in Loads |-> [ld[l] EXCEPT !.replaced = @ \/ (ld[l].cycle \in gone /\ cyc[ld[l].cycle] /= l)]]

HydrateCycle_NoShare(l, c, replace) ==
    /\ load[l].st = "none" /\ (l > 1 => load[l - 1].st /= "none")
    /\ LET p == Pruned(Append(SelectSeq(order, LAMBDA x : x /= c), c), [cycles EXCEPT ![c] = l])
           ld == [load EXCEPT ![l] = [NoLoad EXCEPT !.st = "pending", !.cycle = c, !.quote = market, !.acts = 1..done]]
       IN  /\ cycles' = p.cycles /\ order' = p.order
           /\ load' = Marked(ld, p.cycles, p.gone \cup (IF replace THEN {c} ELSE {}))
    /\ UNCHANGED <<market, stream, latest, newest, done, ids, after, taken, forgot, poll>>

(* hydrateCycle: an existing cycle is shared; a replacement takes its place at once, while the older load goes on.  *)
(* The request sees the provider as it is now.                                                                      *)
HydrateCycle(l, c, replace) ==
    /\ load[l].st = "none" /\ (l > 1 => load[l - 1].st /= "none")
    /\ cycles[c] = 0 \/ replace
    /\ LET p == Pruned(Append(SelectSeq(order, LAMBDA x : x /= c), c), [cycles EXCEPT ![c] = l])
           ld == [load EXCEPT ![l] = [NoLoad EXCEPT !.st = "pending", !.cycle = c, !.quote = market, !.acts = 1..done]]
       IN  /\ cycles' = p.cycles /\ order' = p.order
           /\ load' = Marked(ld, p.cycles, p.gone \cup (IF replace THEN {c} ELSE {}))
    /\ UNCHANGED <<market, stream, latest, newest, done, ids, after, taken, forgot, poll>>

(* captureStreamState: the stream's own latest quote, when the stream is ready. *)
StreamQuote == IF stream.ready THEN stream.t ELSE 0

(* ingestHydration, ingestStockSnapshot: every row of the answer becomes an event. *)
IngestHydration(l) == Recorded(latest, load[l].quote)

(* buildCycle: the cycle is frozen with what the hub holds. *)
BuildCycle == [NoLoad EXCEPT !.st = "built"]

(* The load resolves. *)
LoadResolves(l) ==
    /\ load[l].st = "pending"
    /\ latest' = Recorded(IngestHydration(l), StreamQuote)
    /\ newest' = Max({newest, load[l].quote, StreamQuote})
    /\ Take(load[l].acts)
    /\ load' = [load EXCEPT ![l] = BuildCycle]
    /\ UNCHANGED <<market, stream, cycles, order, done, poll>>

(* The load rejects: whatever is registered for its cycle is removed, also the load that has replaced it. *)
LoadRejects(l) ==
    /\ load[l].st = "pending"
    /\ LET c == load[l].cycle
           cyc == [cycles EXCEPT ![c] = 0]
       IN  /\ cycles' = cyc /\ order' = SelectSeq(order, LAMBDA x : x /= c)
           /\ load' = Marked([load EXCEPT ![l] = [NoLoad EXCEPT !.st = "failed"]], cyc, {c})
    /\ UNCHANGED <<market, stream, latest, newest, done, ids, after, taken, forgot, poll>>

(* A quote arrives on the stream and is handed to the hub; the stream keeps it even when it is an older one. *)
StreamEvent(t) ==
    /\ t <= market /\ stream' = [stream EXCEPT !.t = t]
    /\ latest' = Recorded(latest, t) /\ newest' = Max({newest, t})
    /\ UNCHANGED <<market, cycles, order, load, done, ids, after, taken, forgot, poll>>

StreamTurns ==
    /\ stream' = [stream EXCEPT !.ready = ~@]
    /\ UNCHANGED <<market, latest, newest, cycles, order, load, done, ids, after, taken, forgot, poll>>

(* pollAccountActivitiesOnce: one poll at a time, asking for what came after the cursor. *)
PollStarts ==
    /\ ~poll.on /\ poll.n < MaxPolls
    /\ poll' = [on |-> TRUE, rows |-> {a \in 1..done : a > after}, n |-> poll.n + 1]
    /\ UNCHANGED <<market, stream, latest, newest, cycles, order, load, done, ids, after, taken, forgot>>

PollEnds ==
    /\ poll.on /\ poll' = [poll EXCEPT !.on = FALSE, !.rows = {}]
    /\ \/ Take(poll.rows)
       \/ UNCHANGED <<ids, after, taken, forgot>>
    /\ UNCHANGED <<market, stream, latest, newest, cycles, order, load, done>>

WorldMoves ==
    /\ \/ market < MaxTime /\ market' = market + 1 /\ UNCHANGED done
       \/ done < Cardinality(Activities) /\ done' = done + 1 /\ UNCHANGED market
    /\ UNCHANGED <<stream, latest, newest, cycles, order, load, ids, after, taken, forgot, poll>>

Next ==
    \/ \E l \in Loads : \/ \E c \in Cycles, replace \in BOOLEAN : HydrateCycle(l, c, replace)
                        \/ LoadResolves(l) \/ LoadRejects(l)
    \/ \E t \in 1..MaxTime : StreamEvent(t)
    \/ StreamTurns \/ PollStarts \/ PollEnds \/ WorldMoves

Spec == Init /\ [][Next]_vars

TypeOK ==
    /\ market \in 1..MaxTime /\ stream.t \in 0..MaxTime /\ stream.ready \in BOOLEAN /\ latest \in 0..MaxTime
    /\ cycles \in [Cycles -> Loads \cup {0}] /\ Len(order) <= RetainedCycles
    /\ \A l \in Loads : load[l].st \in {"none", "pending", "built", "failed"} /\ load[l].cycle \in Cycles \cup {0}
    /\ done \in 0..Cardinality(Activities) /\ after \in 0..done /\ Len(ids) <= RetainedIds
    /\ taken \in [Activities -> Nat] /\ poll.on \in BOOLEAN

(* The hub, and with it every cycle it builds, holds the newest quote it was ever given, although REST answers are *)
(* older than the stream by the time they arrive and the stream itself may go back.                                *)
HubKeepsNewest == latest = newest

(* Every caller shares the load of a cycle while it is pending, unless it was replaced, pruned or dropped because *)
(* an older load of its cycle failed.                                                                             *)
SharedWhilePending ==
    \A l \in Loads : load[l].st = "pending" /\ ~load[l].replaced => cycles[load[l].cycle] = l

(* An account activity that arrives by a poll and by hydrations is recorded once, as long as its id is remembered. *)
RecordedOnce == \A a \in Activities : taken[a] > 1 => a \in forgot
=============================================================================
