----------------------------- MODULE StockStream -----------------------------
(* The SIP web socket of alpacaStockStream.ts: one socket at a time, a       *)
(* handshake, subscriptions that follow the wanted symbols, reconnection     *)
(* with a growing delay; and stockMarketDataAccessor.ts, which answers a     *)
(* price from the stream or from a REST request.                             *)
(* The stream is enabled; running stands for running and not intentionalStop.*)
EXTENDS Naturals, Sequences, SequencesExt

CONSTANTS Symbols,
          MaxSockets,  \* connections opened over time
          MaxStops, MaxChanges, MaxFaults, MaxTime,
          StaleAfter

VARIABLES running, socket,   \* the service: started, and the socket it uses (0: none)
          flags,             \* what getStatus reports: subset of {"connected", "authenticated", "subscribed"}
          symbols,           \* the wanted symbols
          timer, attempts,   \* reconnectTimer is set, reconnectAttempts
          latest,            \* symbol -> provider time of the latest trade, 0 when there is none
          wire,              \* socket -> [st, up, down, authed, subs, lost]: the two directions, the provider's side,
                             \*   and whether a send on it has thrown
          served,            \* the last answer of the accessor: [src, age]
          used, faults, now

vars == <<running, socket, flags, symbols, timer, attempts, latest, wire, served, used, faults, now>>

NoWire == [st |-> "none", up |-> <<>>, down |-> <<>>, authed |-> FALSE, subs |-> {}, lost |-> FALSE]
Unserved == [src |-> "none", age |-> 0]

Init ==
    /\ running = FALSE /\ socket = 0 /\ flags = {} /\ symbols = {} /\ timer = FALSE /\ attempts = 0
    /\ latest = [s \in Symbols |-> 0] /\ wire = [k \in 1..MaxSockets |-> NoWire] /\ served = Unserved
    /\ used = [stops |-> 0, changes |-> 0] /\ faults = 0 /\ now = 1

Fault == faults < MaxFaults /\ faults' = faults + 1
Cmd(a, syms) == [a |-> a, syms |-> syms]

(* send: an open socket takes the command; a throw is caught and nobody tries again. *)
Sent(w, cmd) == IF w.st = "open" THEN [w EXCEPT !.up = Append(@, cmd)] ELSE w
Threw(w) == [w EXCEPT !.lost = TRUE]

(* scheduleReconnect: at most one timer; how long it runs is left open. *)
ScheduleReconnect ==
    IF running' /\ ~timer THEN timer' = TRUE /\ attempts' = attempts + 1 ELSE UNCHANGED <<timer, attempts>>

Fresh == CHOOSE k \in 1..MaxSockets : wire[k].st = "none" /\ \A j \in 1..MaxSockets : wire[j].st = "none" => k <= j

(* connect: the guard, missing credentials or a failing factory, or a new socket. *)
Connect(w) ==
    \/ /\ ~running' \/ socket /= 0
       /\ wire' = w /\ timer' = FALSE /\ UNCHANGED <<socket, attempts, faults>>
    \/ /\ running' /\ socket = 0 /\ wire[MaxSockets].st = "none"
       /\ socket' = Fresh /\ wire' = [w EXCEPT ![Fresh].st = "connecting"]
       /\ timer' = FALSE /\ UNCHANGED <<attempts, faults>>
    \/ /\ running' /\ socket = 0 /\ Fault
       /\ timer' = TRUE /\ attempts' = attempts + 1 /\ wire' = w /\ UNCHANGED socket

Start ==
    /\ ~running /\ running' = TRUE /\ Connect(wire)
    /\ UNCHANGED <<flags, symbols, latest, served, used, now>>

TimerFires ==
    /\ timer /\ UNCHANGED running /\ Connect(wire)
    /\ UNCHANGED <<flags, symbols, latest, served, used, now>>

(* What a closed or closing socket still carries is dropped by the identity checks, and left out here. *)
Closing(w, k) == IF k = 0 \/ w[k].st = "closed" THEN w ELSE [w EXCEPT ![k] = [NoWire EXCEPT !.st = "closing"]]

Stop_KeepsTimer ==
    /\ running /\ used.stops < MaxStops /\ used' = [used EXCEPT !.stops = @ + 1]
    /\ running' = FALSE /\ socket' = 0 /\ flags' = {}
    /\ wire' = Closing(wire, socket)
    /\ UNCHANGED <<symbols, timer, attempts, latest, served, faults, now>>

Stop ==
    /\ running /\ used.stops < MaxStops /\ used' = [used EXCEPT !.stops = @ + 1]
    /\ running' = FALSE /\ timer' = FALSE /\ socket' = 0 /\ flags' = {}
    /\ wire' = Closing(wire, socket)
    /\ UNCHANGED <<symbols, attempts, latest, served, faults, now>>

SetSymbols_SendsAll(new) ==
    /\ new /= symbols /\ used.changes < MaxChanges /\ used' = [used EXCEPT !.changes = @ + 1]
    /\ symbols' = new
    /\ IF socket /= 0 /\ "authenticated" \in flags
         THEN wire' = [wire EXCEPT ![socket] = Sent(@, Cmd("subscribe", new \ symbols))]
         ELSE UNCHANGED wire
    /\ UNCHANGED <<running, socket, flags, timer, attempts, latest, served, faults, now>>

(* setSymbols, also through the shared registry: before the authentication nothing is sent, the handshake *)
(* subscribes to whatever is wanted by then.                                                              *)
SetSymbols(new) ==
    /\ new /= symbols /\ used.changes < MaxChanges /\ used' = [used EXCEPT !.changes = @ + 1]
    /\ symbols' = new
    /\ LET add == IF new \subseteq symbols THEN <<>> ELSE <<Cmd("subscribe", new \ symbols)>>
           del == IF symbols \subseteq new THEN <<>> ELSE <<Cmd("unsubscribe", symbols \ new)>>
       IN  IF socket = 0 \/ "authenticated" \notin flags THEN UNCHANGED <<wire, faults>>
           ELSE \/ wire' = [wire EXCEPT ![socket] = FoldLeft(Sent, @, add \o del)] /\ UNCHANGED faults
                \/ wire' = [wire EXCEPT ![socket] = Threw(@)] /\ Fault
    /\ UNCHANGED <<running, socket, flags, timer, attempts, latest, served, now>>

(* The open event.  A failed auth command is not noticed. *)
SocketOpens(k) ==
    /\ wire[k].st = "connecting"
    /\ LET w == [wire[k] EXCEPT !.st = "open"]
       IN  IF socket = k /\ running
             THEN flags' = {"connected"} /\ wire' = [wire EXCEPT ![k] = Sent(w, Cmd("auth", {}))]
             ELSE wire' = [wire EXCEPT ![k] = w] /\ UNCHANGED flags
    /\ UNCHANGED <<running, socket, symbols, timer, attempts, latest, served, used, faults, now>>

(* The provider reads the next command. *)
ProviderReads(k) ==
    /\ wire[k].st = "open" /\ wire[k].up /= <<>>
    /\ LET c == Head(wire[k].up)
           r == [wire[k] EXCEPT !.up = Tail(@)]
           say(m) == Append(r.down, [k |-> m, s |-> {}, t |-> 0])
       IN  wire' = [wire EXCEPT ![k] =
              CASE c.a = "auth" -> [r EXCEPT !.authed = TRUE, !.down = say("authenticated")]
                [] c.a /= "auth" /\ ~r.authed -> [r EXCEPT !.down = say("error")]
                [] c.a = "subscribe" /\ r.authed -> [r EXCEPT !.subs = @ \cup c.syms, !.down = say("subscription")]
                [] OTHER -> [r EXCEPT !.subs = @ \ c.syms, !.down = say("subscription")]]
    /\ UNCHANGED <<running, socket, flags, symbols, timer, attempts, latest, served, used, faults, now>>

(* The provider reports a trade, sometimes one that happened earlier. *)
ProviderSends(k, s, t) ==
    /\ wire[k].st = "open" /\ s \in wire[k].subs /\ wire[k].down = <<>>
    /\ wire' = [wire EXCEPT ![k].down = Append(@, [k |-> "trade", s |-> {s}, t |-> t])]
    /\ UNCHANGED <<running, socket, flags, symbols, timer, attempts, latest, served, used, faults, now>>

(* The handshake is complete: everything that is wanted now is subscribed. *)
AfterAuth(w) == Sent(w, Cmd("subscribe", symbols))

(* normalizeTrade, normalizeQuote, normalizeBar and the map they go to: the latest one, without looking at its time. *)
Noted(m) == [s \in Symbols |-> IF s \in m.s THEN m.t ELSE latest[s]]

(* handleRawMessage, handleMessage: a message of any socket but the current one is dropped.  *)
Receive(k) ==
    /\ wire[k].st = "open" /\ wire[k].down /= <<>>
    /\ LET m == Head(wire[k].down)
           r == [wire[k] EXCEPT !.down = Tail(@)]
       IN  IF socket /= k THEN wire' = [wire EXCEPT ![k] = r] /\ UNCHANGED <<flags, attempts, latest>>
           ELSE CASE m.k = "authenticated" ->
                       /\ flags' = flags \cup {"authenticated", "subscribed"}
                       /\ attempts' = 0 /\ wire' = [wire EXCEPT ![k] = AfterAuth(r)] /\ UNCHANGED latest
                  [] m.k = "subscription" ->
                       flags' = flags \cup {"subscribed"} /\ wire' = [wire EXCEPT ![k] = r] /\ UNCHANGED <<attempts, latest>>
                  [] m.k = "error" -> wire' = [wire EXCEPT ![k] = r] /\ UNCHANGED <<flags, attempts, latest>>
                  [] OTHER -> /\ latest' = Noted(m)
                              /\ wire' = [wire EXCEPT ![k] = r] /\ UNCHANGED <<flags, attempts>>
    /\ UNCHANGED <<running, socket, symbols, timer, served, used, faults, now>>

Current_Any(k) == TRUE

(* The identity check of the socket's callbacks. *)
Current(k) == socket = k

(* handleSocketClose: only the current socket's close resets the state and asks for a reconnection. *)
HandleClose(k, w) ==
    /\ wire' = w /\ UNCHANGED running
    /\ IF Current(k) THEN socket' = 0 /\ flags' = {} /\ ScheduleReconnect
                     ELSE UNCHANGED <<socket, flags, timer, attempts>>

SocketCloses(k) ==
    /\ wire[k].st \in {"connecting", "open", "closing"}
    /\ IF wire[k].st = "closing" THEN UNCHANGED faults ELSE Fault
    /\ HandleClose(k, [wire EXCEPT ![k] = [NoWire EXCEPT !.st = "closed"]])
    /\ UNCHANGED <<symbols, latest, served, used, now>>

(* handleSocketError closes the socket itself; the close event that follows finds another socket or none. *)
SocketErrors(k) ==
    /\ wire[k].st \in {"connecting", "open"} /\ Fault
    /\ IF Current(k) THEN HandleClose(k, Closing(wire, k))
                     ELSE UNCHANGED <<running, socket, flags, timer, attempts, wire>>
    /\ UNCHANGED <<symbols, latest, served, used, now>>

(* streamReadyFor, isFreshTrade *)
ReadyFor(s) == {"connected", "authenticated", "subscribed"} \subseteq flags /\ s \in symbols
IsFreshTrade_Any(s) == latest[s] /= 0
IsFreshTrade(s) == latest[s] /= 0 /\ now - latest[s] <= StaleAfter

(* readFreshTrade, readFreshQuote, getStreamPrice *)
StreamAnswers(s) == ReadyFor(s) /\ IsFreshTrade(s)

(* getLatestStockTrade, getLatestStockPrices: the stream when it is ready and fresh, a REST request otherwise. *)
Read(s) ==
    /\ served' = IF StreamAnswers(s) THEN [src |-> "stream", age |-> now - latest[s]]
                 ELSE [src |-> "rest", age |-> 0]
    /\ UNCHANGED <<running, socket, flags, symbols, timer, attempts, latest, wire, used, faults, now>>

Tick ==
    /\ now < MaxTime /\ now' = now + 1
    /\ UNCHANGED <<running, socket, flags, symbols, timer, attempts, latest, wire, served, used, faults>>

Next ==
    \/ Start \/ TimerFires \/ Stop \/ Tick
    \/ \E new \in SUBSET Symbols : SetSymbols(new)
    \/ \E k \in 1..MaxSockets :
         \/ SocketOpens(k) \/ ProviderReads(k) \/ Receive(k) \/ SocketCloses(k) \/ SocketErrors(k)
         \/ \E s \in Symbols, t \in {now, 1} : ProviderSends(k, s, t)
    \/ \E s \in Symbols : Read(s)

Spec == Init /\ [][Next]_vars

TypeOK ==
    /\ running \in BOOLEAN /\ timer \in BOOLEAN /\ socket \in 0..MaxSockets
    /\ flags \subseteq {"connected", "authenticated", "subscribed"} /\ symbols \subseteq Symbols
    /\ attempts \in 0..(MaxFaults + MaxSockets) /\ now \in 1..MaxTime /\ faults \in 0..MaxFaults
    /\ latest \in [Symbols -> 0..MaxTime]
    /\ \A k \in DOMAIN wire : wire[k].st \in {"none", "connecting", "open", "closing", "closed"} /\ wire[k].subs \subseteq Symbols
    /\ served.src \in {"none", "stream", "rest"}

(* A running stream always has a socket or a reconnection ahead of it, never both, and a stopped one has neither. *)
NeverStranded == IF running THEN (socket /= 0) /= timer ELSE socket = 0 /\ ~timer

(* No socket is left open behind the service: every socket it has not closed is the current one. *)
OneConnection == \A k \in DOMAIN wire : wire[k].st \in {"connecting", "open"} => socket = k

(* Whatever was wanted before, during and after the handshake: once the provider has read every command, it sends   *)
(* exactly the wanted symbols, unless a send threw.                                                                 *)
SubscriptionsFollow ==
    socket /= 0 /\ "authenticated" \in flags /\ wire[socket].up = <<>> /\ ~wire[socket].lost
        => wire[socket].subs = symbols

(* An answer taken from the stream is younger than the limit. *)
ServedIsFresh == served.src = "stream" => served.age <= StaleAfter
=============================================================================
