----------------------------- MODULE MarketStream -----------------------------
(***************************************************************************)
(* The market-stream service: KalshiWebSocketClient (kalshi_client/ws.py), *)
(* MarketStreamService (market_stream/service.py) and what it persists     *)
(* (market_stream/persistence.py), over the lives of its process.          *)
(*                                                                         *)
(* The service is one asyncio task with a heartbeat beside it.  Each call  *)
(* of the persistence layer commits in a session of its own, so a handler  *)
(* is as many steps as it has such calls, and a crash may fall between     *)
(* them.  A market's data is reduced to what the risk rules read of it:    *)
(* its spread, its liquidity and its closing time.                         *)
(***************************************************************************)
EXTENDS Naturals, Sequences, FiniteSets

CONSTANTS
    Markets,       \* tickers the exchange may send
    Watchlist,     \* KALSHI_STREAM_WATCHLIST; empty: the ticker channel of all
    Figures,       \* what the exchange may say of a market: spread and liquidity
    MaxClock,      \* bound: messages received
    MaxStored,     \* bound: snapshots per market
    MaxFailures,   \* bound: lost connections, failed handlers, crashes
    NoMarket

ASSUME WatchlistAssumption == Watchlist \subseteq Markets /\ NoMarket \notin Markets
ASSUME FiguresAssumption ==
    Figures \subseteq [spread : {"none", "tight", "wide"}, liquidity : {"none", "thin", "deep"}]
ASSUME BoundsAssumption == {MaxClock, MaxStored, MaxFailures} \subseteq Nat

VARIABLES
    process,   \* where the service is in its life
    boot,      \* the markets that bootstrap_watchlist has still to come to
    link,      \* the connection, and the channels subscribed on it
    wanted,    \* self._subscriptions
    running,   \* self._running
    handling,  \* the message being handled and the calls still to make for it
    beat,      \* the heartbeat task
    health,    \* the newest service_health_events row of the service
    rows,      \* kalshi_markets
    stored,    \* market_snapshots, in the order they were committed
    deltas,    \* markets with orderbook_events rows
    cache,     \* kalshi:latest:<ticker> in Redis
    clock,
    failures

streamVars == <<process, boot, link, wanted, running, handling, beat, health, rows,
                stored, deltas, cache, clock, failures>>

-----------------------------------------------------------------------------
Processes == {"down", "starting", "booking", "subscribed", "looping",
              "connected", "consuming", "leaving", "stopping"}
Channels == {"ticker", "orderbook_delta"}
Kinds == {"ticker", "orderbook_snapshot", "orderbook_delta"}

\* What subscribe is called with, in this order.
Subscriptions == IF Watchlist = {} THEN {"ticker"} ELSE Channels

\* close_time of a market, later than any time a message is received at.
ClosingTime == MaxClock + 1
Times == 0..ClosingTime

NoLink == [open |-> FALSE, channels |-> {}]
Links == [open : BOOLEAN, channels : SUBSET Channels]

NoFigures == [spread |-> "none", liquidity |-> "none"]

\* What a ticker or a REST row says of its market.
Quoted == Figures \cup {NoFigures}

\* A kalshi_markets row; observed is its last_observed_at, 0 if it has none.
Rows == [present : BOOLEAN, figures : Quoted,
         closes : {"none", "later"}, observed : Times]
NoRow == [present |-> FALSE, figures |-> NoFigures, closes |-> "none", observed |-> 0]
Stub == [NoRow EXCEPT !.present = TRUE]

Snapshots == [type : {"bootstrap_orderbook", "ticker", "orderbook_snapshot"},
              spread : {"none", "tight", "wide"}, liquidity : {"none"},
              closes : {"none", "later"}, observed : Times]

HealthStatus == {"none", "starting", "running", "healthy", "stopped"}

\* A message, as _normalize_envelope hands it to handle_event at its time.
Messages == [kind : Kinds, market : Markets, time : Times,
             figures : Quoted,
             todo : {"row", "event", "snapshot", "cache"}]
Quiet == [kind |-> "ticker", market |-> NoMarket, time |-> 0, figures |-> NoFigures,
          todo |-> "row"]

Idling == handling = Quiet
-----------------------------------------------------------------------------
(* Persistence. *)

UpsertMarket(m, figures, closes, observed) ==
    rows' = [rows EXCEPT ![m] = [present |-> TRUE, figures |-> figures,
                                 closes |-> closes, observed |-> observed]]

\* As if an order book message came for a known market only.
NoStub(m) == rows' = rows

WithStub(row) == IF row.present THEN row ELSE Stub
EnsureMarketStub(m) == rows' = [rows EXCEPT ![m] = WithStub(@)]

\* store_snapshot copies the market row, all but its liquidity.
SnapshotOf(row, type, observed) ==
    [type |-> type, spread |-> row.figures.spread, liquidity |-> "none",
     closes |-> row.closes, observed |-> observed]
StoreSnapshot(m, type, observed) ==
    stored' = [stored EXCEPT ![m] = Append(@, SnapshotOf(rows[m], type, observed))]

HasRoom(m) == Len(stored[m]) < MaxStored

-----------------------------------------------------------------------------
(* The life of the service: main._run and MarketStreamService.start. *)

Restart ==
    /\ process = "down"
    /\ process' = "starting"
    /\ boot' = Watchlist
    /\ health' = "starting"
    /\ wanted' = {}
    /\ UNCHANGED <<link, running, handling, beat, rows, stored, deltas, cache, clock,
                   failures>>

\* bootstrap_watchlist asks for one market after the other and writes its row, dated
\* with its close_time if it has one; a request or a write that fails is only logged.
BootstrapRow ==
    /\ process = "starting"
    /\ \E m \in boot :
          /\ boot' = boot \ {m}
          /\ \/ rows' = rows
             \/ \E figures \in Figures, closes \in {"none", "later"} :
                   UpsertMarket(m, figures, closes, IF closes = "later" THEN ClosingTime ELSE 0)
    /\ UNCHANGED <<process, link, wanted, running, handling, beat, health, stored, deltas,
                   cache, clock, failures>>

\* Then for all order books, of which it gets some, or none if the request fails.
RequestBooks ==
    /\ process = "starting" /\ boot = {}
    /\ process' = "booking"
    /\ boot' \in SUBSET {m \in Watchlist : HasRoom(m)}
    /\ UNCHANGED <<link, wanted, running, handling, beat, health, rows, stored, deltas,
                   cache, clock, failures>>

\* A book is dated with its ts, with the row's last_observed_at, or with the creation
\* of the row.
BookTimes(row) == IF row.observed = 0 THEN 0..clock ELSE {clock, row.observed}

\* The book of a market that is not known gets a stub to belong to.
BootstrapBook ==
    /\ process = "booking"
    /\ \E m \in boot :
          IF rows[m].present
          THEN /\ \E observed \in BookTimes(rows[m]) :
                     StoreSnapshot(m, "bootstrap_orderbook", observed)
               /\ boot' = boot \ {m}
               /\ rows' = rows
          ELSE EnsureMarketStub(m) /\ UNCHANGED <<boot, stored>>
    /\ UNCHANGED <<process, link, wanted, running, handling, beat, health, deltas, cache,
                   clock, failures>>

\* The heartbeat task is created, and the subscriptions are noted for the time
\* there is a connection.
Subscribe ==
    /\ process = "booking" /\ boot = {}
    /\ process' = "subscribed"
    /\ beat' = "on"
    /\ wanted' = Subscriptions
    /\ UNCHANGED <<boot, link, running, handling, health, rows, stored, deltas, cache, clock,
                   failures>>

\* "running" is recorded before run_forever has made a connection.
RunForever ==
    /\ process = "subscribed"
    /\ process' = "looping"
    /\ health' = "running"
    /\ running' = TRUE
    /\ UNCHANGED <<boot, link, wanted, handling, beat, rows, stored, deltas, cache, clock,
                   failures>>

Heartbeat ==
    /\ beat = "on"
    /\ health' = "healthy"
    /\ UNCHANGED <<process, boot, link, wanted, running, handling, beat, rows, stored, deltas,
                   cache, clock, failures>>

\* A commit of the heartbeat fails: the task ends, which nobody notices.
HeartbeatFails ==
    /\ beat = "on" /\ failures < MaxFailures
    /\ beat' = "failed"
    /\ failures' = failures + 1
    /\ UNCHANGED <<process, boot, link, wanted, running, handling, health, rows, stored, deltas,
                   cache, clock>>

-----------------------------------------------------------------------------
(* KalshiWebSocketClient.run_forever. *)

Connect ==
    /\ process = "looping" /\ running
    /\ process' = "connected"
    /\ link' = [open |-> TRUE, channels |-> {}]
    /\ UNCHANGED <<boot, wanted, running, handling, beat, health, rows, stored, deltas, cache,
                   clock, failures>>

\* As if run_forever consumed right after it connected.
ReplayedNever == TRUE
Replayed == link.channels = wanted

\* _resubscribe sends one command per subscription, then _consume begins.
Resubscribe ==
    /\ process = "connected"
    /\ IF Replayed
       THEN process' = "consuming" /\ link' = link
       ELSE /\ \E c \in wanted \ link.channels : link' = [link EXCEPT !.channels = @ \cup {c}]
            /\ process' = process
    /\ UNCHANGED <<boot, wanted, running, handling, beat, health, rows, stored, deltas, cache,
                   clock, failures>>

\* close(): besides the connection it drops the flag run_forever loops on.
Close ==
    /\ running' = FALSE
    /\ link' = NoLink

\* The connection is refused or lost, goes stale, or a handler raises: either
\* except branch calls close() and sleeps.
LoseConnection ==
    /\ process \in {"looping", "connected", "consuming"} /\ running
    /\ failures < MaxFailures
    /\ Close
    /\ handling' = Quiet
    /\ process' = "leaving"
    /\ failures' = failures + 1
    /\ UNCHANGED <<boot, wanted, beat, health, rows, stored, deltas, cache, clock>>

\* As if the loop waited for the flag.
KeepWaiting == IF running THEN "looping" ELSE "leaving"

\* while self._running
AfterError == IF running THEN "looping" ELSE "stopping"
LoopOrLeave ==
    /\ process = "leaving"
    /\ process' = AfterError
    /\ UNCHANGED <<boot, link, wanted, running, handling, beat, health, rows, stored, deltas,
                   cache, clock, failures>>

\* stop() cancels the heartbeat and waits for it: one that failed raises again,
\* and the rest of stop() is skipped.
StopHeartbeat ==
    /\ process = "stopping" /\ beat # "off"
    /\ process' = IF beat = "failed" THEN "down" ELSE process
    /\ beat' = "off"
    /\ UNCHANGED <<boot, link, wanted, running, handling, health, rows, stored, deltas, cache,
                   clock, failures>>

\* As if stop() did not wait for the heartbeat.
HeartbeatLeft == TRUE
HeartbeatEnded == beat = "off"

RecordStopped ==
    /\ process = "stopping" /\ HeartbeatEnded
    /\ Close
    /\ health' = "stopped"
    /\ process' = "down"
    /\ UNCHANGED <<boot, wanted, handling, beat, rows, stored, deltas, cache, clock, failures>>

\* start() raises before the loop: stop() runs as well.
StartFails ==
    /\ process \in {"starting", "booking", "subscribed"} /\ failures < MaxFailures
    /\ process' = "stopping"
    /\ boot' = {}
    /\ failures' = failures + 1
    /\ UNCHANGED <<link, wanted, running, handling, beat, health, rows, stored, deltas,
                   cache, clock>>

Crash ==
    /\ process # "down" /\ failures < MaxFailures
    /\ Close
    /\ process' = "down"
    /\ handling' = Quiet
    /\ beat' = "off"
    /\ boot' = {}
    /\ failures' = failures + 1
    /\ UNCHANGED <<wanted, health, rows, stored, deltas, cache, clock>>

-----------------------------------------------------------------------------
(* MarketStreamService.handle_event, one persistence call per step. *)

Channel(kind) == IF kind = "ticker" THEN "ticker" ELSE "orderbook_delta"

\* recv and _normalize_envelope, which dates the event with the current time.
Receive(kind, m) ==
    /\ process = "consuming" /\ running /\ Idling
    /\ Channel(kind) \in link.channels
    /\ Watchlist # {} => m \in Watchlist
    /\ clock < MaxClock
    /\ kind # "orderbook_delta" => HasRoom(m)
    /\ clock' = clock + 1
    /\ \E figures \in IF kind = "ticker" THEN Figures ELSE {NoFigures} :
          handling' = [kind |-> kind, market |-> m, time |-> clock', figures |-> figures,
                       todo |-> "row"]
    /\ UNCHANGED <<process, boot, link, wanted, running, beat, health, rows, stored, deltas,
                   cache, failures>>

Handles(todo) == process = "consuming" /\ ~Idling /\ handling.todo = todo
Then(todo) == handling' = [handling EXCEPT !.todo = todo]

\* A ticker writes the whole row, without the closing time it does not carry; an
\* order book message only makes sure that there is one.
HandleRow ==
    /\ Handles("row")
    /\ IF handling.kind = "ticker"
       THEN /\ UpsertMarket(handling.market, handling.figures, "none", handling.time)
            /\ Then("snapshot")
       ELSE /\ EnsureMarketStub(handling.market)
            /\ Then("event")
    /\ UNCHANGED <<process, boot, link, wanted, running, beat, health, stored, deltas, cache,
                   clock, failures>>

\* record_orderbook_event
HandleEvent ==
    /\ Handles("event")
    /\ deltas' = deltas \cup {handling.market}
    /\ Then(IF handling.kind = "orderbook_delta" THEN "cache" ELSE "snapshot")
    /\ UNCHANGED <<process, boot, link, wanted, running, beat, health, rows, stored, cache,
                   clock, failures>>

HandleSnapshot ==
    /\ Handles("snapshot")
    /\ StoreSnapshot(handling.market, handling.kind, handling.time)
    /\ IF handling.kind = "ticker" THEN Then("cache") ELSE handling' = Quiet
    /\ UNCHANGED <<process, boot, link, wanted, running, beat, health, rows, deltas, cache,
                   clock, failures>>

HandleCache ==
    /\ Handles("cache")
    /\ cache' = [cache EXCEPT ![handling.market] = handling.time]
    /\ handling' = Quiet
    /\ UNCHANGED <<process, boot, link, wanted, running, beat, health, rows, stored, deltas,
                   clock, failures>>

-----------------------------------------------------------------------------
StreamInit ==
    /\ process = "down"
    /\ boot = {}
    /\ link = NoLink
    /\ wanted = {}
    /\ running = FALSE
    /\ handling = Quiet
    /\ beat = "off"
    /\ health = "none"
    /\ rows = [m \in Markets |-> NoRow]
    /\ stored = [m \in Markets |-> <<>>]
    /\ deltas = {}
    /\ cache = [m \in Markets |-> 0]
    /\ clock = 0
    /\ failures = 0

Life == Restart \/ BootstrapRow \/ RequestBooks \/ BootstrapBook \/ Subscribe \/ RunForever
Loop == Connect \/ Resubscribe \/ LoopOrLeave \/ StopHeartbeat \/ RecordStopped
Handler == HandleRow \/ HandleEvent \/ HandleSnapshot \/ HandleCache
Failure == HeartbeatFails \/ LoseConnection \/ StartFails \/ Crash

StreamNext ==
    \/ Life \/ Loop \/ Handler \/ Failure \/ Heartbeat
    \/ \E kind \in Kinds, m \in Markets : Receive(kind, m)

\* The steps of the task are taken while it can take one, and the platform starts
\* a process that ended again (ECS keeps desired_count tasks).
StreamFairness == WF_streamVars(Life) /\ WF_streamVars(Loop) /\ WF_streamVars(Handler)
StreamSpec == StreamInit /\ [][StreamNext]_streamVars /\ StreamFairness

-----------------------------------------------------------------------------
(* Properties. *)

\* Every variable holds values of its kind.
StreamTypeOK ==
    /\ process \in Processes
    /\ boot \subseteq Watchlist
    /\ link \in Links
    /\ wanted \subseteq Channels
    /\ running \in BOOLEAN
    /\ handling \in Messages \cup {Quiet}
    /\ beat \in {"off", "on", "failed"}
    /\ health \in HealthStatus
    /\ rows \in [Markets -> Rows]
    /\ stored \in [Markets -> Seq(Snapshots)]
    /\ deltas \subseteq Markets
    /\ cache \in [Markets -> Times]
    /\ clock \in 0..MaxClock
    /\ failures \in 0..MaxFailures

\* While messages are consumed every subscription the service asked for has been
\* sent on this very connection, the only one of its life: the subscriptions are made
\* before there is one, and nothing but _resubscribe sends them.
SubscriptionsReplayed ==
    process = "consuming" => link.open /\ link.channels = Subscriptions

\* A snapshot or an order book event belongs to a stored market (a foreign key),
\* and the snapshots of the messages are in the order of their times, over the
\* lives of the service; only those of a bootstrap may be out of it.
HistoryIsSound ==
    \A m \in Markets :
        /\ stored[m] # <<>> \/ m \in deltas => rows[m].present
        /\ \A i, j \in DOMAIN stored[m] :
              i < j /\ "bootstrap_orderbook" \notin {stored[m][i].type, stored[m][j].type} =>
                  stored[m][i].observed < stored[m][j].observed

\* Once a life has recorded "stopped" the next record of the service is "starting":
\* the heartbeat does not declare a stopped service healthy.
StoppedIsFinal ==
    [][health = "stopped" => health' \in {"stopped", "starting"}]_streamVars

\* A life that lost its connection waits for the next attempt to connect
\* (docs/architecture/market-stream.md: "exponential reconnects", "subscription replay
\* after reconnect"), unless it crashes.
ReconnectsItself ==
    [][process = "leaving" => process' \in {"leaving", "looping", "down"}]_streamVars

\* Whatever is lost, fails or crashes, a life of the service consumes a fully subscribed
\* stream again, if the platform starts the process that ended: the loop of a life does
\* not reconnect.
StreamRecovers ==
    []<>(process = "consuming" /\ link.channels = Subscriptions)
=============================================================================
