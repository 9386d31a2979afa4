------------------------- MODULE MarketStream_proofs -------------------------
(***************************************************************************)
(* Proofs about MarketStream: its types, what a consumed connection is     *)
(* subscribed to, the history it leaves behind, and the last word of the   *)
(* health records; and about TradingDesk: to the risk rules the stream is  *)
(* no more than a sequence of new snapshots, so the theorems of the ledger *)
(* hold of the desk, and what the rules refuse they refuse for good; and   *)
(* about MCFeedAndAlerts: the stream and the notifier side by side.        *)
(***************************************************************************)
EXTENDS MCFeedAndAlerts, Notifier_proofs, TradingDesk, SequenceTheorems, TLAPS

-----------------------------------------------------------------------------
(* The inductive invariant. *)

\* What the service is in the middle of fits the connection, the flag and the
\* heartbeat that it has.
LifeIsSound ==
    /\ process \in {"subscribed", "looping", "connected", "consuming", "leaving"}
          => wanted = Subscriptions
    /\ process \in {"connected", "consuming"} => link.open
    /\ process = "connected" => link.channels \subseteq wanted
    /\ process = "consuming" => link.channels = wanted
    /\ process \in {"down", "starting", "booking"} => beat = "off"
    /\ health = "stopped" => process = "down"

Snapshotted == {"ticker", "orderbook_snapshot"}

\* The message being handled is the newest one, and its market is stored before
\* anything that refers to the market is written.
HandlingIsSound ==
    handling \in Messages =>
        /\ handling.time = clock
        /\ handling.todo # "row" => rows[handling.market].present
        /\ handling.todo = "snapshot" => handling.kind \in Snapshotted

\* A snapshot of a message is no younger than the newest message, and older than it
\* while the snapshot of that message may be still to come.
Received(s) == s.type # "bootstrap_orderbook"
MarketSound(m) ==
    /\ stored[m] # <<>> \/ m \in deltas => rows[m].present
    /\ \A i \in DOMAIN stored[m] :
          Received(stored[m][i]) =>
              /\ stored[m][i].observed <= clock
              /\ handling \in Messages /\ handling.todo # "cache" => stored[m][i].observed < clock
    /\ \A i, j \in DOMAIN stored[m] :
          i < j /\ Received(stored[m][i]) /\ Received(stored[m][j]) =>
              stored[m][i].observed < stored[m][j].observed

StreamInv ==
    /\ StreamTypeOK
    /\ LifeIsSound
    /\ HandlingIsSound
    /\ \A m \in Markets : MarketSound(m)

-----------------------------------------------------------------------------
(* Types. *)

\* Between two messages nothing is handled: Quiet is none.
LEMMA QuietIsNone == Quiet \notin Messages
BY WatchlistAssumption DEF Quiet, Messages

\* What a handler acts on is a message.
LEMMA HandlesAMessage ==
    ASSUME StreamTypeOK, NEW todo, Handles(todo)
    PROVE  handling \in Messages /\ handling.todo = todo
BY DEF StreamTypeOK, Handles, Idling

\* Moving a message on to another step keeps all the rest of it.
LEMMA MovedOn ==
    ASSUME NEW msg \in Messages, NEW todo \in {"row", "event", "snapshot", "cache"}
    PROVE  LET next == [msg EXCEPT !.todo = todo]
           IN  /\ next \in Messages
               /\ next.kind = msg.kind /\ next.market = msg.market /\ next.time = msg.time
               /\ next.figures = msg.figures /\ next.todo = todo
BY DEF Messages

\* The times of the messages and of the closings.
LEMMA TimesAreNat ==
    /\ MaxClock \in Nat /\ MaxStored \in Nat /\ MaxFailures \in Nat
    /\ ClosingTime \in Times /\ 0 \in Times
    /\ 0..MaxClock \subseteq Times /\ Times \subseteq Nat
BY BoundsAssumption DEF ClosingTime, Times

\* The rows that the persistence layer writes.
LEMMA WrittenRows ==
    /\ NoRow \in Rows /\ ~NoRow.present
    /\ Stub \in Rows /\ Stub.present
    /\ \A figures \in Quoted, closes \in {"none", "later"}, observed \in Times :
          LET row == [present |-> TRUE, figures |-> figures, closes |-> closes,
                      observed |-> observed]
          IN  row \in Rows /\ row.present
    /\ \A row \in Rows : WithStub(row) \in Rows /\ WithStub(row).present
<1>1. NoFigures \in Quoted
    BY DEF Quoted
<1>2. NoRow \in Rows /\ ~NoRow.present
    BY <1>1, TimesAreNat DEF NoRow, Rows
<1>3. Stub \in Rows /\ Stub.present
    BY <1>2 DEF Stub, Rows
<1>4. \A figures \in Quoted, closes \in {"none", "later"}, observed \in Times :
          LET row == [present |-> TRUE, figures |-> figures, closes |-> closes,
                      observed |-> observed]
          IN  row \in Rows /\ row.present
    BY DEF Rows
<1>5. ASSUME NEW row \in Rows PROVE WithStub(row) \in Rows /\ WithStub(row).present
    <2>1. CASE row.present
        BY <2>1 DEF WithStub
    <2>2. CASE ~row.present
        BY <2>2, <1>3 DEF WithStub
    <2> QED BY <2>1, <2>2
<1> QED BY <1>2, <1>3, <1>4, <1>5

\* Figures name a spread.
LEMMA QuotedSpread ==
    ASSUME NEW f \in Quoted PROVE f.spread \in {"none", "tight", "wide"}
BY FiguresAssumption DEF Quoted, NoFigures

\* The snapshot of a row, of a kind a snapshot may have.
LEMMA SnapshotType ==
    ASSUME NEW row \in Rows, NEW observed \in Times,
           NEW type \in {"bootstrap_orderbook", "ticker", "orderbook_snapshot"}
    PROVE  /\ SnapshotOf(row, type, observed) \in Snapshots
           /\ SnapshotOf(row, type, observed).type = type
           /\ SnapshotOf(row, type, observed).observed = observed
<1>1. row.figures \in Quoted /\ row.closes \in {"none", "later"}
    BY DEF Rows
<1>2. row.figures.spread \in {"none", "tight", "wide"}
    BY <1>1, QuotedSpread
<1> QED BY <1>1, <1>2 DEF SnapshotOf, Snapshots

-----------------------------------------------------------------------------
(* What the calls of the persistence layer do to the history of a market. *)

Storing == handling \in Messages /\ handling.todo # "cache"

\* A market's history is kept when nothing is stored of it.
LEMMA NothingStored ==
    ASSUME NEW m \in Markets, StreamTypeOK, StreamTypeOK', MarketSound(m),
           stored'[m] = stored[m],
           rows[m].present => rows'[m].present,
           m \in deltas' => m \in deltas \/ rows'[m].present,
           clock <= clock',
           Storing' => clock < clock' \/ (Storing /\ clock = clock')
    PROVE  MarketSound(m)'
<1>1. stored'[m] # <<>> \/ m \in deltas' => rows'[m].present
    BY DEF MarketSound
<1>2. clock \in Nat /\ clock' \in Nat
    BY TimesAreNat DEF StreamTypeOK
<1>3. ASSUME NEW i \in DOMAIN stored'[m], Received(stored'[m][i])
      PROVE  /\ stored'[m][i].observed <= clock'
             /\ Storing' => stored'[m][i].observed < clock'
    <2>1. /\ stored[m][i].observed <= clock
          /\ Storing => stored[m][i].observed < clock
        BY <1>3 DEF MarketSound, Received, Storing
    <2>2. stored[m][i] \in Snapshots
        BY <1>3, ElementOfSeq DEF StreamTypeOK
    <2>3. stored[m][i].observed \in Nat
        BY <2>2, TimesAreNat DEF Snapshots
    <2> QED BY <1>2, <2>1, <2>3
<1>4. \A i, j \in DOMAIN stored'[m] :
          i < j /\ Received(stored'[m][i]) /\ Received(stored'[m][j]) =>
              stored'[m][i].observed < stored'[m][j].observed
    BY DEF MarketSound, Received
<1> QED BY <1>1, <1>3, <1>4 DEF MarketSound, Received, Storing

\* Storing a snapshot keeps the history: one of a message if it is the newest and
\* none is still to come for it, one of a bootstrap in any case.
LEMMA SnapshotStored ==
    ASSUME NEW m \in Markets, StreamTypeOK, MarketSound(m), NEW s \in Snapshots,
           stored'[m] = Append(stored[m], s),
           rows'[m].present, clock' = clock,
           Storing' => Storing,
           Received(s) => s.observed = clock /\ Storing /\ ~Storing'
    PROVE  MarketSound(m)'
<1> DEFINE old == stored[m]
<1> DEFINE new == stored'[m]
<1>1. old \in Seq(Snapshots) /\ new = Append(old, s)
    BY DEF StreamTypeOK
<1>2. MarketSound(m) => /\ \A i \in DOMAIN old :
                              Received(old[i]) =>
                                 /\ old[i].observed <= clock
                                 /\ Storing => old[i].observed < clock
                        /\ \A i, j \in DOMAIN old :
                              i < j /\ Received(old[i]) /\ Received(old[j]) =>
                                 old[i].observed < old[j].observed
    BY DEF MarketSound, Storing
<1>3. clock \in Nat
    BY TimesAreNat DEF StreamTypeOK
<1> HIDE DEF old, new
<1>4. /\ DOMAIN old = 1..Len(old) /\ Len(old) \in Nat
      /\ DOMAIN new = 1..Len(old) + 1 
      /\ \A i \in 1..Len(old) : new[i] = old[i]
      /\ new[Len(old) + 1] = s
    BY <1>1
<1>5. ASSUME NEW i \in DOMAIN new, Received(new[i])
      PROVE  /\ new[i].observed <= clock
             /\ Storing' => new[i].observed < clock
    <2>1. CASE i \in 1..Len(old)
        BY <2>1, <1>2, <1>4, <1>5
    <2>2. CASE i = Len(old) + 1
        BY <2>2, <1>3, <1>4, <1>5
    <2> QED BY <2>1, <2>2, <1>4
<1>6. ASSUME NEW i \in DOMAIN new, NEW j \in DOMAIN new, i < j,
             Received(new[i]), Received(new[j])
      PROVE  new[i].observed < new[j].observed
    <2>1. i \in 1..Len(old)
        BY <1>4, <1>6
    <2>2. CASE j \in 1..Len(old)
        BY <2>1, <2>2, <1>2, <1>4, <1>6
    <2>3. CASE j = Len(old) + 1
        BY <2>1, <2>3, <1>2, <1>4, <1>6
    <2> QED BY <2>2, <2>3, <1>4
<1>7. MarketSound(m)' <=>
        /\ new # <<>> \/ m \in deltas' => rows'[m].present
        /\ \A i \in DOMAIN new :
              Received(new[i]) =>
                 /\ new[i].observed <= clock'
                 /\ Storing' => new[i].observed < clock'
        /\ \A i, j \in DOMAIN new :
              i < j /\ Received(new[i]) /\ Received(new[j]) =>
                 new[i].observed < new[j].observed
    BY DEF MarketSound, Received, Storing, new
<1> QED BY <1>5, <1>6, <1>7

\* A bootstrap writes one row, or adds one book that no message brought.
Bootstrap == BootstrapRow \/ BootstrapBook

\* It touches nothing else.
LEMMA BootstrapType ==
    ASSUME StreamTypeOK, Bootstrap
    PROVE  /\ boot' \subseteq Watchlist
           /\ UNCHANGED <<process, link, wanted, running, handling, beat, health, deltas,
                          cache, clock, failures>>
BY DEF Bootstrap, BootstrapRow, BootstrapBook, StreamTypeOK

\* What a bootstrap writes: a row, or a book of a market that has a row.
LEMMA BootstrapWrites ==
    ASSUME StreamTypeOK, Bootstrap
    PROVE  \E m \in boot :
              \/ /\ \E row \in Rows : row.present /\ rows' = [rows EXCEPT ![m] = row]
                 /\ stored' = stored
              \/ rows' = rows /\ stored' = stored
              \/ /\ rows' = rows /\ rows[m].present
                 /\ \E s \in Snapshots :
                       ~Received(s) /\ stored' = [stored EXCEPT ![m] = Append(stored[m], s)]
<1>1. boot \subseteq Markets
    BY WatchlistAssumption DEF StreamTypeOK
<1>2. CASE BootstrapRow
    <2>1. PICK m \in boot :
            \/ rows' = rows
            \/ \E figures \in Figures, closes \in {"none", "later"} :
                  UpsertMarket(m, figures, closes, IF closes = "later" THEN ClosingTime ELSE 0)
        BY <1>2 DEF BootstrapRow
    <2>2. stored' = stored
        BY <1>2 DEF BootstrapRow
    <2>3. CASE rows' = rows
        BY <1>1, <2>2, <2>3
    <2>4. CASE \E figures \in Figures, closes \in {"none", "later"} :
                  UpsertMarket(m, figures, closes, IF closes = "later" THEN ClosingTime ELSE 0)
        <3>1. PICK figures \in Figures, closes \in {"none", "later"} :
                UpsertMarket(m, figures, closes, IF closes = "later" THEN ClosingTime ELSE 0)
            BY <2>4
        <3>2. PICK observed \in Times : UpsertMarket(m, figures, closes, observed)
            BY <3>1, TimesAreNat
        <3>3. figures \in Quoted
            BY DEF Quoted
        <3>4. PICK row \in Rows : row.present /\ rows' = [rows EXCEPT ![m] = row]
            BY <3>2, <3>3, WrittenRows DEF UpsertMarket
        <3> QED BY <1>1, <2>2, <3>4
    <2> QED BY <2>1, <2>3, <2>4
<1>3. CASE BootstrapBook
    <2>1. PICK m \in boot :
            IF rows[m].present
            THEN /\ \E observed \in BookTimes(rows[m]) :
                       StoreSnapshot(m, "bootstrap_orderbook", observed)
                 /\ boot' = boot \ {m}
                 /\ rows' = rows
            ELSE EnsureMarketStub(m) /\ UNCHANGED <<boot, stored>>
        BY <1>3 DEF BootstrapBook
    <2>2. m \in Markets /\ rows[m] \in Rows
        BY <1>1 DEF StreamTypeOK
    <2>3. CASE rows[m].present
        <3>1. PICK observed \in BookTimes(rows[m]) :
                StoreSnapshot(m, "bootstrap_orderbook", observed)
            BY <2>1, <2>3
        <3>2. observed \in Times
            <4>1. clock \in 0..MaxClock /\ rows[m].observed \in Times
                BY <2>2 DEF StreamTypeOK, Rows
            <4>2. 0..clock \subseteq Times /\ clock \in Times
                BY <4>1, TimesAreNat DEF Times
            <4> QED BY <4>1, <4>2 DEF BookTimes
        <3> DEFINE s == SnapshotOf(rows[m], "bootstrap_orderbook", observed)
        <3>3. s \in Snapshots /\ ~Received(s)
            BY <2>2, <3>2, SnapshotType DEF Received
        <3>4. stored' = [stored EXCEPT ![m] = Append(stored[m], s)] /\ rows' = rows
            BY <2>1, <2>3, <3>1 DEF StoreSnapshot
        <3> HIDE DEF s
        <3> QED BY <2>2, <2>3, <3>3, <3>4
    <2>4. CASE ~rows[m].present
        <3>1. rows' = [rows EXCEPT ![m] = WithStub(rows[m])] /\ stored' = stored
            BY <2>1, <2>4 DEF EnsureMarketStub
        <3>2. WithStub(rows[m]) \in Rows /\ WithStub(rows[m]).present
            BY <2>2, WrittenRows
        <3> QED BY <2>2, <3>1, <3>2
    <2> QED BY <2>3, <2>4
<1> QED BY <1>2, <1>3 DEF Bootstrap

\* A bootstrap takes no row and no snapshot away.
LEMMA Bootstrapped ==
    ASSUME StreamTypeOK, Bootstrap
    PROVE  /\ rows' \in [Markets -> Rows]
           /\ stored' \in [Markets -> Seq(Snapshots)]
           /\ \A m \in Markets :
                 /\ rows[m].present => rows'[m].present
                 /\ \/ stored'[m] = stored[m]
                    \/ /\ rows'[m].present
                       /\ \E s \in Snapshots : ~Received(s) /\ stored'[m] = Append(stored[m], s)
<1>1. rows \in [Markets -> Rows] /\ stored \in [Markets -> Seq(Snapshots)]
    BY DEF StreamTypeOK
<1>2. \A m \in Markets, s \in Snapshots : Append(stored[m], s) \in Seq(Snapshots)
    BY <1>1, AppendProperties
<1>3. boot \subseteq Markets
    BY WatchlistAssumption DEF StreamTypeOK
<1> QED BY <1>1, <1>2, <1>3, BootstrapWrites

-----------------------------------------------------------------------------
(* What every step keeps. *)

\* The steps that write nothing of the history, and handle no new message.
LEMMA HistoryUntouched ==
    ASSUME StreamInv, StreamTypeOK', UNCHANGED <<rows, stored, deltas, clock>>,
           handling' \in {handling, Quiet}
    PROVE  HandlingIsSound' /\ \A m \in Markets : MarketSound(m)'
<1>1. Storing' => Storing
    BY QuietIsNone DEF Storing
<1>2. HandlingIsSound'
    BY QuietIsNone DEF StreamInv, HandlingIsSound
<1>3. clock \in Nat
    BY TimesAreNat DEF StreamInv, StreamTypeOK
<1>4. ASSUME NEW m \in Markets PROVE MarketSound(m)'
    <2>1. MarketSound(m)
        BY DEF StreamInv
    <2> QED BY <1>1, <1>3, <2>1, NothingStored DEF StreamInv
<1> QED BY <1>2, <1>4

\* A closed connection is one.
LEMMA NoLinkType == NoLink \in Links /\ [open |-> TRUE, channels |-> {}] \in Links
BY DEF NoLink, Links

\* The types of the steps of the service's life and of its connection.
LEMMA TypeKeptInLife ==
    ASSUME StreamTypeOK, \/ Life \/ Loop \/ Failure \/ Heartbeat
    PROVE  StreamTypeOK'
<1> USE TimesAreNat, NoLinkType
<1>1. CASE Restart
    BY <1>1 DEF Restart, StreamTypeOK, Processes, HealthStatus
<1>2. CASE Bootstrap
    <2>1. rows' \in [Markets -> Rows] /\ stored' \in [Markets -> Seq(Snapshots)]
        BY <1>2, Bootstrapped
    <2> QED BY <1>2, <2>1, BootstrapType DEF StreamTypeOK
<1>3. CASE Subscribe
    BY <1>3 DEF Subscribe, StreamTypeOK, Processes, Subscriptions, Channels
<1>4. CASE RunForever
    BY <1>4 DEF RunForever, StreamTypeOK, Processes, HealthStatus
<1>5. CASE Connect
    BY <1>5 DEF Connect, StreamTypeOK, Processes
<1>6. CASE Resubscribe
    <2>1. /\ process' \in Processes
          /\ UNCHANGED <<boot, wanted, running, handling, beat, health, rows, stored, deltas, cache,
                         clock, failures>>
        BY <1>6 DEF Resubscribe, StreamTypeOK, Processes
    <2>2. ASSUME NEW c \in Channels PROVE [link EXCEPT !.channels = @ \cup {c}] \in Links
        BY DEF StreamTypeOK, Links
    <2>3. link' \in Links
        BY <1>6, <2>2 DEF Resubscribe, StreamTypeOK
    <2> QED BY <2>1, <2>3 DEF StreamTypeOK
<1>7. CASE LoopOrLeave
    BY <1>7 DEF LoopOrLeave, AfterError, StreamTypeOK, Processes
<1>8. CASE StopHeartbeat
    BY <1>8 DEF StopHeartbeat, StreamTypeOK, Processes
<1>9. CASE RecordStopped
    BY <1>9 DEF RecordStopped, Close, StreamTypeOK, Processes, HealthStatus
<1>10. CASE HeartbeatFails
    BY <1>10 DEF HeartbeatFails, StreamTypeOK
<1>11. CASE LoseConnection
    <2>1. /\ process' \in Processes /\ handling' = Quiet /\ beat' \in {"off", beat}
          /\ link' = NoLink /\ running' = FALSE
          /\ boot' \subseteq boot
          /\ UNCHANGED <<wanted, health, rows, stored, deltas, cache, clock>>
        BY <1>11 DEF LoseConnection, Close, Processes
    <2>2. failures' \in 0..MaxFailures
        BY <1>11 DEF LoseConnection, StreamTypeOK
    <2> QED BY <2>1, <2>2 DEF StreamTypeOK
<1>12. CASE StartFails
    BY <1>12 DEF StartFails, StreamTypeOK, Processes
<1>13. CASE Crash
    <2>1. /\ process' \in Processes /\ handling' = Quiet /\ beat' \in {"off", beat}
          /\ link' = NoLink /\ running' = FALSE
          /\ boot' \subseteq boot
          /\ UNCHANGED <<wanted, health, rows, stored, deltas, cache, clock>>
        BY <1>13 DEF Crash, Close, Processes
    <2>2. failures' \in 0..MaxFailures
        BY <1>13 DEF Crash, StreamTypeOK
    <2> QED BY <2>1, <2>2 DEF StreamTypeOK
<1>14. CASE Heartbeat
    BY <1>14 DEF Heartbeat, StreamTypeOK, HealthStatus
<1>15. CASE RequestBooks
    BY <1>15 DEF RequestBooks, StreamTypeOK, Processes
<1> QED
    BY <1>1, <1>2, <1>3, <1>4, <1>5, <1>6, <1>7, <1>8, <1>9, <1>10, <1>11, <1>12, <1>13, <1>14,
       <1>15 DEF Life, Loop, Failure, Bootstrap

\* The subscriptions of a connection, the heartbeat and the last health record,
\* through the life of the service.
LEMMA LifeKept ==
    ASSUME StreamTypeOK, LifeIsSound, \/ Life \/ Loop \/ Failure \/ Heartbeat
    PROVE  LifeIsSound'
<1> USE DEF LifeIsSound
<1>1. CASE Restart
    BY <1>1 DEF Restart
<1>2. CASE Bootstrap
    BY <1>2, BootstrapType
<1>3. CASE Subscribe
    BY <1>3 DEF Subscribe
<1>4. CASE RunForever
    BY <1>4 DEF RunForever
<1>5. CASE Connect
    BY <1>5 DEF Connect
<1>6. CASE Resubscribe
    <2>1. CASE Replayed
        BY <1>6, <2>1 DEF Resubscribe, Replayed
    <2>2. CASE ~Replayed
        <3>1. PICK c \in wanted \ link.channels : link' = [link EXCEPT !.channels = @ \cup {c}]
            BY <1>6, <2>2 DEF Resubscribe
        <3>2. link'.open = link.open /\ link'.channels = link.channels \cup {c}
            BY <3>1 DEF StreamTypeOK, Links
        <3>3. UNCHANGED <<process, wanted, beat, health>>
            BY <1>6, <2>2 DEF Resubscribe
        <3> QED BY <1>6, <3>2, <3>3 DEF Resubscribe
    <2> QED BY <2>1, <2>2
<1>7. CASE LoopOrLeave
    BY <1>7 DEF LoopOrLeave, AfterError
<1>8. CASE StopHeartbeat
    BY <1>8 DEF StopHeartbeat
<1>9. CASE RecordStopped
    BY <1>9 DEF RecordStopped, HeartbeatEnded
<1>10. CASE HeartbeatFails
    BY <1>10 DEF HeartbeatFails
<1>11. CASE LoseConnection
    BY <1>11 DEF LoseConnection
<1>12. CASE StartFails
    BY <1>12 DEF StartFails
<1>13. CASE Crash
    BY <1>13 DEF Crash
<1>14. CASE Heartbeat
    BY <1>14 DEF Heartbeat
<1>15. CASE RequestBooks
    BY <1>15 DEF RequestBooks
<1> QED
    BY <1>1, <1>2, <1>3, <1>4, <1>5, <1>6, <1>7, <1>8, <1>9, <1>10, <1>11, <1>12, <1>13, <1>14,
       <1>15 DEF Life, Loop, Failure, Bootstrap

\* The service's life is none of the handlers' business.
LEMMA LifeUntouched ==
    ASSUME LifeIsSound, UNCHANGED <<process, link, wanted, beat, health>>
    PROVE  LifeIsSound'
BY DEF LifeIsSound

\* A received message is younger than all that is stored.
LEMMA ReceiveKeeps ==
    ASSUME StreamInv, NEW kind \in Kinds, NEW market \in Markets, Receive(kind, market)
    PROVE  StreamInv'
<1>1. clock \in Nat /\ clock' = clock + 1 /\ clock' \in 0..MaxClock /\ clock' \in Times
    BY TimesAreNat DEF Receive, StreamInv, StreamTypeOK
<1>2. NoFigures \in Quoted /\ Figures \subseteq Quoted
    BY DEF Quoted
<1>3. PICK figures \in Quoted :
        handling' = [kind |-> kind, market |-> market, time |-> clock', figures |-> figures,
                     todo |-> "row"]
    BY <1>2 DEF Receive
<1>4. handling' \in Messages /\ handling'.time = clock' /\ handling'.todo = "row"
    BY <1>1, <1>3 DEF Messages
<1>5. UNCHANGED <<process, boot, link, wanted, running, beat, health, rows, stored, deltas, cache,
                  failures>>
    BY DEF Receive
<1>6. StreamTypeOK'
    BY <1>1, <1>4, <1>5 DEF StreamInv, StreamTypeOK
<1>7. LifeIsSound'
    BY <1>5, LifeUntouched DEF StreamInv
<1>8. HandlingIsSound'
    BY <1>4 DEF HandlingIsSound
<1>9. clock <= clock' /\ clock < clock'
    BY <1>1
<1>10. ASSUME NEW m \in Markets PROVE MarketSound(m)'
    <2>1. MarketSound(m) /\ StreamTypeOK
        BY DEF StreamInv
    <2> QED BY <1>5, <1>6, <1>9, <2>1, NothingStored
<1> QED BY <1>6, <1>7, <1>8, <1>10 DEF StreamInv

\* A ticker's row, or a stub.
LEMMA HandleRowKeeps ==
    ASSUME StreamInv, HandleRow
    PROVE  StreamInv'
<1> DEFINE msg == handling
<1> DEFINE row == [present |-> TRUE, figures |-> msg.figures, closes |-> "none",
                   observed |-> msg.time]
<1>1. msg \in Messages /\ msg.todo = "row" /\ msg.time = clock
    BY HandlesAMessage DEF HandleRow, StreamInv, HandlingIsSound
<1>2. /\ msg.market \in Markets /\ msg.figures \in Quoted /\ msg.time \in Times
      /\ msg.kind \in Kinds
    BY <1>1 DEF Messages
<1>3. UNCHANGED <<process, boot, link, wanted, running, beat, health, stored, deltas, cache, clock,
                  failures>>
    BY DEF HandleRow
<1>4. PICK new \in Rows : new.present /\ rows' = [rows EXCEPT ![msg.market] = new]
    <2>1. CASE msg.kind = "ticker"
        <3>1. row \in Rows /\ row.present
            BY <1>2, WrittenRows
        <3>2. rows' = [rows EXCEPT ![msg.market] = row]
            BY <2>1 DEF HandleRow, UpsertMarket
        <3> QED BY <3>1, <3>2
    <2>2. CASE msg.kind # "ticker"
        <3>1. rows[msg.market] \in Rows
            BY <1>2 DEF StreamInv, StreamTypeOK
        <3>2. rows' = [rows EXCEPT ![msg.market] = WithStub(rows[msg.market])]
            BY <2>2 DEF HandleRow, EnsureMarketStub
        <3>3. WithStub(rows[msg.market]) \in Rows /\ WithStub(rows[msg.market]).present
            BY <3>1, WrittenRows
        <3> HIDE DEF msg
        <3> QED BY <3>2, <3>3
    <2> QED BY <2>1, <2>2
<1>5. PICK todo \in {"event", "snapshot"} :
        /\ handling' = [msg EXCEPT !.todo = todo]
        /\ todo = "snapshot" => msg.kind = "ticker"
    BY DEF HandleRow, Then
<1>6. /\ handling' \in Messages /\ handling'.kind = msg.kind /\ handling'.market = msg.market
      /\ handling'.time = msg.time /\ handling'.todo = todo
    <2> todo \in {"row", "event", "snapshot", "cache"}
        OBVIOUS
    <2> HIDE DEF msg
    <2> QED BY <1>1, <1>5, MovedOn
<1>7. /\ rows' \in [Markets -> Rows]
      /\ rows'[msg.market].present
      /\ \A m \in Markets : rows[m].present => rows'[m].present
    BY <1>2, <1>4 DEF StreamInv, StreamTypeOK
<1>8. StreamTypeOK'
    BY <1>3, <1>6, <1>7 DEF StreamInv, StreamTypeOK
<1>9. LifeIsSound'
    BY <1>3, LifeUntouched DEF StreamInv
<1>10. HandlingIsSound'
    BY <1>1, <1>3, <1>5, <1>6, <1>7 DEF HandlingIsSound, Snapshotted
<1>11. Storing /\ clock \in Nat
    BY <1>1, TimesAreNat DEF Storing, StreamInv, StreamTypeOK
<1>12. ASSUME NEW m \in Markets PROVE MarketSound(m)'
    <2>1. MarketSound(m) /\ StreamTypeOK
        BY DEF StreamInv
    <2> QED BY <1>3, <1>7, <1>8, <1>11, <2>1, NothingStored
<1> QED BY <1>8, <1>9, <1>10, <1>12 DEF StreamInv

\* An order book event of a market that is stored.
LEMMA HandleEventKeeps ==
    ASSUME StreamInv, HandleEvent
    PROVE  StreamInv'
<1> DEFINE msg == handling
<1>1. msg \in Messages /\ msg.todo = "event" /\ msg.time = clock /\ rows[msg.market].present
    BY HandlesAMessage DEF HandleEvent, StreamInv, HandlingIsSound
<1>2. msg.market \in Markets /\ msg.kind \in Kinds
    BY <1>1 DEF Messages
<1>3. UNCHANGED <<process, boot, link, wanted, running, beat, health, rows, stored, cache, clock,
                  failures>>
    BY DEF HandleEvent
<1>4. deltas' = deltas \cup {msg.market}
    BY DEF HandleEvent
<1>5. PICK todo \in {"cache", "snapshot"} :
        handling' = [msg EXCEPT !.todo = todo]
    BY DEF HandleEvent, Then
<1>7. /\ handling' \in Messages /\ handling'.kind = msg.kind /\ handling'.market = msg.market
      /\ handling'.time = msg.time /\ handling'.todo = todo
    <2> todo \in {"row", "event", "snapshot", "cache"}
        OBVIOUS
    <2> HIDE DEF msg
    <2> QED BY <1>1, <1>5, MovedOn
<1>8. todo = "snapshot" => msg.kind \in Snapshotted
    <2>1. CASE msg.kind = "orderbook_delta"
        <3>1. handling' = [msg EXCEPT !.todo = "cache"]
            BY <2>1 DEF HandleEvent, Then
        <3>2. handling'.todo = "cache"
            BY <1>1, <3>1, MovedOn
        <3> QED BY <1>7, <3>2
    <2>2. CASE msg.kind # "orderbook_delta"
        BY <1>2, <2>2 DEF Kinds, Snapshotted
    <2> QED BY <2>1, <2>2
<1>9. StreamTypeOK'
    BY <1>2, <1>3, <1>4, <1>7 DEF StreamInv, StreamTypeOK
<1>10. LifeIsSound'
    BY <1>3, LifeUntouched DEF StreamInv
<1>11. HandlingIsSound'
    BY <1>1, <1>3, <1>7, <1>8 DEF HandlingIsSound
<1>12. Storing /\ clock \in Nat
    BY <1>1, TimesAreNat DEF Storing, StreamInv, StreamTypeOK
<1>13. ASSUME NEW m \in Markets PROVE MarketSound(m)'
    <2>1. MarketSound(m) /\ StreamTypeOK
        BY DEF StreamInv
    <2>2. m \in deltas' => m \in deltas \/ rows'[m].present
        BY <1>1, <1>3, <1>4
    <2> QED BY <1>3, <1>9, <1>12, <2>1, <2>2, NothingStored
<1> QED BY <1>9, <1>10, <1>11, <1>13 DEF StreamInv

\* The snapshot of the message is the newest of its market, and its last.
LEMMA HandleSnapshotKeeps ==
    ASSUME StreamInv, HandleSnapshot
    PROVE  StreamInv'
<1> DEFINE msg == handling
<1> DEFINE s == SnapshotOf(rows[msg.market], msg.kind, msg.time)
<1>1. /\ msg \in Messages /\ msg.todo = "snapshot" /\ msg.time = clock
      /\ rows[msg.market].present /\ msg.kind \in Snapshotted
    BY HandlesAMessage DEF HandleSnapshot, StreamInv, HandlingIsSound
<1>2. msg.market \in Markets /\ msg.time \in Times
    BY <1>1 DEF Messages
<1>3. UNCHANGED <<process, boot, link, wanted, running, beat, health, rows, deltas, cache, clock,
                  failures>>
    BY DEF HandleSnapshot
<1>4. rows[msg.market] \in Rows /\ stored \in [Markets -> Seq(Snapshots)]
    BY <1>2 DEF StreamInv, StreamTypeOK
<1>5. s \in Snapshots /\ s.observed = msg.time /\ s.type = msg.kind
    BY <1>1, <1>2, <1>4, SnapshotType DEF Snapshotted
<1>6. stored' = [stored EXCEPT ![msg.market] = Append(stored[msg.market], s)]
    BY DEF HandleSnapshot, StoreSnapshot
<1> HIDE DEF s
<1>7. Append(stored[msg.market], s) \in Seq(Snapshots)
    BY <1>2, <1>4, <1>5, AppendProperties
<1>8. stored' \in [Markets -> Seq(Snapshots)]
    BY <1>2, <1>4, <1>6, <1>7
<1>9. /\ handling' \in Messages \cup {Quiet} /\ ~Storing'
      /\ handling' \in Messages =>
            handling'.market = msg.market /\ handling'.time = msg.time /\ handling'.todo = "cache"
    <2>1. CASE msg.kind = "ticker"
        <3>1. handling' = [msg EXCEPT !.todo = "cache"]
            BY <2>1 DEF HandleSnapshot, Then
        <3> QED BY <1>1, <3>1, MovedOn DEF Storing
    <2>2. CASE msg.kind # "ticker"
        <3>1. handling' = Quiet
            BY <2>2 DEF HandleSnapshot
        <3> QED BY <3>1, QuietIsNone DEF Storing
    <2> QED BY <2>1, <2>2
<1>10. StreamTypeOK'
    BY <1>3, <1>8, <1>9 DEF StreamInv, StreamTypeOK
<1>11. LifeIsSound'
    BY <1>3, LifeUntouched DEF StreamInv
<1>12. HandlingIsSound'
    BY <1>1, <1>3, <1>9 DEF HandlingIsSound
<1>13. Storing /\ clock \in Nat
    BY <1>1, TimesAreNat DEF Storing, StreamInv, StreamTypeOK
<1>14. ASSUME NEW m \in Markets PROVE MarketSound(m)'
    <2>1. MarketSound(m) /\ StreamTypeOK
        BY DEF StreamInv
    <2>2. CASE m = msg.market
        <3>1. stored'[m] = Append(stored[m], s)
            BY <2>2, <1>4, <1>6
        <3>2. rows'[m].present
            BY <2>2, <1>1, <1>3
        <3> QED BY <1>1, <1>3, <1>5, <1>9, <1>13, <2>1, <3>1, <3>2, SnapshotStored
    <2>3. CASE m # msg.market
        <3>1. stored'[m] = stored[m]
            BY <2>3, <1>4, <1>6
        <3> QED BY <1>3, <1>9, <1>10, <1>13, <2>1, <3>1, NothingStored
    <2> QED BY <2>2, <2>3
<1> QED BY <1>10, <1>11, <1>12, <1>14 DEF StreamInv

\* The newest snapshot's time goes to the cache.
LEMMA HandleCacheKeeps ==
    ASSUME StreamInv, HandleCache
    PROVE  StreamInv'
<1>1. handling \in Messages
    BY HandlesAMessage DEF HandleCache, StreamInv
<1>2. handling.market \in Markets /\ handling.time \in Times
    BY <1>1 DEF Messages
<1>3. /\ handling' = Quiet
      /\ UNCHANGED <<process, boot, link, wanted, running, beat, health, rows, stored, deltas, clock,
                     failures>>
    BY DEF HandleCache
<1>4. cache' \in [Markets -> Times]
    BY <1>2 DEF HandleCache, StreamInv, StreamTypeOK
<1>5. StreamTypeOK'
    BY <1>3, <1>4 DEF StreamInv, StreamTypeOK
<1>6. LifeIsSound'
    BY <1>3, LifeUntouched DEF StreamInv
<1> QED BY <1>3, <1>5, <1>6, HistoryUntouched DEF StreamInv

\* A bootstrap stores books out of order, but none of a message.
LEMMA BootstrapKeeps ==
    ASSUME StreamInv, Bootstrap
    PROVE  StreamInv'
<1>1. StreamTypeOK'
    BY TypeKeptInLife DEF StreamInv, Life, Bootstrap
<1>2. LifeIsSound'
    BY LifeKept DEF StreamInv, Life, Bootstrap
<1>3. UNCHANGED <<handling, deltas, clock>>
    BY BootstrapType DEF StreamInv
<1>4. \A m \in Markets :
        /\ rows[m].present => rows'[m].present
        /\ \/ stored'[m] = stored[m]
           \/ /\ rows'[m].present
              /\ \E s \in Snapshots : ~Received(s) /\ stored'[m] = Append(stored[m], s)
    BY Bootstrapped DEF StreamInv
<1>5. HandlingIsSound'
    <2>1. handling \in Messages => handling.market \in Markets
        BY DEF Messages
    <2> QED BY <1>3, <1>4, <2>1 DEF StreamInv, HandlingIsSound
<1>6. clock \in Nat /\ (Storing' <=> Storing)
    BY <1>3, TimesAreNat DEF Storing, StreamInv, StreamTypeOK
<1>7. ASSUME NEW m \in Markets PROVE MarketSound(m)'
    <2>1. MarketSound(m) /\ StreamTypeOK
        BY DEF StreamInv
    <2>2. CASE stored'[m] = stored[m]
        BY <1>1, <1>3, <1>4, <1>6, <2>1, <2>2, NothingStored
    <2>3. CASE stored'[m] # stored[m]
        <3>1. rows'[m].present
            BY <1>4, <2>3
        <3>2. PICK s \in Snapshots : ~Received(s) /\ stored'[m] = Append(stored[m], s)
            BY <1>4, <2>3
        <3> QED BY <1>3, <1>6, <2>1, <3>1, <3>2, SnapshotStored
    <2> QED BY <2>2, <2>3
<1> QED BY <1>1, <1>2, <1>5, <1>7 DEF StreamInv

-----------------------------------------------------------------------------
\* It holds of a database without markets and a service that is not running.
LEMMA InitStreamInv == StreamInit => StreamInv
<1> SUFFICES ASSUME StreamInit PROVE StreamInv
    OBVIOUS
<1>1. StreamTypeOK
    <2>1. 0 \in 0..MaxClock /\ 0 \in 0..MaxFailures /\ 0 \in Times
        BY TimesAreNat
    <2>2. <<>> \in Seq(Snapshots)
        OBVIOUS
    <2> QED BY <2>1, <2>2, NoLinkType, WrittenRows
            DEF StreamInit, StreamTypeOK, Processes, HealthStatus
<1>2. LifeIsSound
    BY DEF StreamInit, LifeIsSound
<1>3. HandlingIsSound
    BY QuietIsNone DEF StreamInit, HandlingIsSound
<1>4. \A m \in Markets : MarketSound(m)
    BY DEF StreamInit, MarketSound
<1> QED BY <1>1, <1>2, <1>3, <1>4 DEF StreamInv

\* Every step keeps it.
LEMMA StepStreamInv == StreamInv /\ [StreamNext]_streamVars => StreamInv'
<1> SUFFICES ASSUME StreamInv, [StreamNext]_streamVars PROVE StreamInv'
    OBVIOUS
<1>1. CASE Bootstrap
    BY <1>1, BootstrapKeeps
<1>2. CASE \/ Restart \/ RequestBooks \/ Subscribe \/ RunForever \/ Loop \/ Failure \/ Heartbeat
    <2>1. StreamTypeOK'
        BY <1>2, TypeKeptInLife DEF StreamInv, Life
    <2>2. LifeIsSound'
        BY <1>2, LifeKept DEF StreamInv, Life
    <2>3. UNCHANGED <<rows, stored, deltas, clock>> /\ handling' \in {handling, Quiet}
        BY <1>2 DEF Restart, RequestBooks, Subscribe, RunForever, Loop, Connect, Resubscribe, LoopOrLeave,
                    StopHeartbeat, RecordStopped, Failure, HeartbeatFails, LoseConnection,
                    StartFails, Crash, Heartbeat
    <2> QED BY <2>1, <2>2, <2>3, HistoryUntouched DEF StreamInv
<1>3. CASE HandleRow
    BY <1>3, HandleRowKeeps
<1>4. CASE HandleEvent
    BY <1>4, HandleEventKeeps
<1>5. CASE HandleSnapshot
    BY <1>5, HandleSnapshotKeeps
<1>6. CASE HandleCache
    BY <1>6, HandleCacheKeeps
<1>7. CASE \E kind \in Kinds, m \in Markets : Receive(kind, m)
    BY <1>7, ReceiveKeeps
<1>8. CASE UNCHANGED streamVars
    <2> USE <1>8 DEF streamVars
    <2>1. StreamTypeOK'
        BY DEF StreamInv, StreamTypeOK
    <2>2. LifeIsSound'
        BY LifeUntouched DEF StreamInv
    <2> QED BY <2>1, <2>2, HistoryUntouched DEF StreamInv
<1> QED
    BY <1>1, <1>2, <1>3, <1>4, <1>5, <1>6, <1>7, <1>8 DEF StreamNext, Life, Handler, Bootstrap

\* The inductive invariant of the market stream: its types, its life, the message
\* it is handling and the history it has stored.
THEOREM StreamInvariance == StreamSpec => []StreamInv
BY InitStreamInv, StepStreamInv, PTL DEF StreamSpec

\* Every variable of the market stream holds values of its kind.
THEOREM StreamTypes == StreamSpec => []StreamTypeOK
<1>1. StreamInv => StreamTypeOK
    BY DEF StreamInv
<1> QED BY <1>1, StreamInvariance, PTL

\* What the invariant says of the subscriptions and of the history.
LEMMA StreamPromises == StreamInv => SubscriptionsReplayed /\ HistoryIsSound
<1>1. StreamInv => SubscriptionsReplayed
    BY DEF StreamInv, LifeIsSound, SubscriptionsReplayed
<1>2. StreamInv => HistoryIsSound
    BY DEF StreamInv, MarketSound, Received, HistoryIsSound
<1> QED BY <1>1, <1>2

\* A service that consumes messages has subscribed to all it wants on the connection
\* it consumes (ws.py: _resubscribe before _consume, and close() before anything else).
THEOREM ConsumesSubscribed == StreamSpec => []SubscriptionsReplayed
BY StreamPromises, StreamInvariance, PTL

\* Nothing is stored of an unknown market, and the snapshots of the messages stay in
\* the order of their times over all lives of the service, crashes included.
THEOREM HistoryStaysSound == StreamSpec => []HistoryIsSound
BY StreamPromises, StreamInvariance, PTL

\* After "stopped" a service records "starting" before anything else: the heartbeat
\* has ended by then.
THEOREM StoppedStaysFinal == StreamSpec => StoppedIsFinal
<1>1. StreamInv /\ [StreamNext]_streamVars =>
        [health = "stopped" => health' \in {"stopped", "starting"}]_streamVars
    <2> SUFFICES ASSUME StreamInv, StreamNext, health = "stopped"
                 PROVE  health' \in {"stopped", "starting"}
        OBVIOUS
    <2>1. process = "down" /\ beat = "off"
        BY DEF StreamInv, LifeIsSound
    <2>2. CASE Life
        BY <2>1, <2>2 DEF Life, Restart, BootstrapRow, RequestBooks, BootstrapBook, Subscribe,
                          RunForever
    <2>3. CASE Loop
        BY <2>1, <2>3 DEF Loop, Connect, Resubscribe, LoopOrLeave, StopHeartbeat, RecordStopped
    <2>4. CASE Failure
        BY <2>1, <2>4 DEF Failure, HeartbeatFails, LoseConnection, StartFails, Crash
    <2>5. CASE Handler
        BY <2>5 DEF Handler, HandleRow, HandleEvent, HandleSnapshot, HandleCache
    <2>6. CASE Heartbeat
        BY <2>1, <2>6 DEF Heartbeat
    <2>7. CASE \E kind \in Kinds, m \in Markets : Receive(kind, m)
        BY <2>7 DEF Receive
    <2> QED BY <2>2, <2>3, <2>4, <2>5, <2>6, <2>7 DEF StreamNext
<1> QED BY <1>1, StreamInvariance, PTL DEF StreamSpec, StoppedIsFinal

-----------------------------------------------------------------------------
(* What the stream is to the risk rules. *)

\* Room is made sure of before a snapshot is stored, and messages are handled
\* only while they are consumed.
RoomKept ==
    /\ process = "booking" => \A m \in boot : HasRoom(m)
    /\ handling # Quiet => process = "consuming"
    /\ handling \in Messages /\ handling.kind # "orderbook_delta" /\ handling.todo # "cache" =>
          HasRoom(handling.market)

\* A step stores nothing, or one snapshot of one market.
LEMMA OneSnapshot ==
    ASSUME StreamInv, RoomKept, [StreamNext]_streamVars
    PROVE  \/ stored' = stored
           \/ \E m \in Markets, s \in Snapshots :
                 /\ HasRoom(m)
                 /\ stored' = [stored EXCEPT ![m] = Append(stored[m], s)]
<1>1. CASE BootstrapBook
    <2>1. \A m \in boot : HasRoom(m) /\ m \in Markets
        BY <1>1, WatchlistAssumption DEF BootstrapBook, RoomKept, StreamInv, StreamTypeOK
    <2> QED BY <1>1, <2>1, BootstrapWrites DEF Bootstrap, StreamInv
<1>2. CASE HandleSnapshot
    <2>1. handling \in Messages /\ handling.todo = "snapshot"
        BY <1>2, HandlesAMessage DEF HandleSnapshot, StreamInv
    <2>2. handling.kind \in Snapshotted
        BY <2>1 DEF StreamInv, HandlingIsSound
    <2>3. HasRoom(handling.market) /\ handling.market \in Markets
        BY <2>1, <2>2 DEF RoomKept, Snapshotted, Messages
    <2> DEFINE s == SnapshotOf(rows[handling.market], handling.kind, handling.time)
    <2>4. rows[handling.market] \in Rows /\ handling.time \in Times
        BY <2>1, <2>3 DEF StreamInv, StreamTypeOK, Messages
    <2>5. s \in Snapshots
        BY <2>2, <2>4, SnapshotType DEF Snapshotted
    <2>6. stored' = [stored EXCEPT ![handling.market] = Append(stored[handling.market], s)]
        BY <1>2 DEF HandleSnapshot, StoreSnapshot
    <2> HIDE DEF s
    <2> QED BY <2>3, <2>5, <2>6
<1>3. CASE \/ Restart \/ BootstrapRow \/ RequestBooks \/ Subscribe \/ RunForever \/ Loop
           \/ HandleRow \/ HandleEvent \/ HandleCache \/ Failure \/ Heartbeat
           \/ (\E kind \in Kinds, m \in Markets : Receive(kind, m)) \/ UNCHANGED streamVars
    BY <1>3 DEF Restart, BootstrapRow, RequestBooks, Subscribe, RunForever, Loop, Connect,
       Resubscribe, LoopOrLeave, StopHeartbeat, RecordStopped, HandleRow, HandleEvent,
       HandleCache, Failure, HeartbeatFails, LoseConnection, StartFails, Crash, Heartbeat,
       Receive, streamVars
<1> QED BY <1>1, <1>2, <1>3 DEF StreamNext, Life, Handler

\* Storing one snapshot of a market takes no room of the others.
LEMMA RoomElsewhere ==
    ASSUME NEW m, NEW n, NEW s, m # n, stored' = [stored EXCEPT ![n] = Append(stored[n], s)],
           StreamTypeOK, m \in Markets, HasRoom(m)
    PROVE  HasRoom(m)'
BY DEF HasRoom, StreamTypeOK

\* The room is kept until the snapshot is stored.
LEMMA RoomIsKept ==
    ASSUME StreamInv, RoomKept, [StreamNext]_streamVars
    PROVE  RoomKept'
<1> USE DEF RoomKept
<1>1. CASE RequestBooks
    BY <1>1, QuietIsNone DEF RequestBooks, HasRoom
<1>2. CASE BootstrapRow
    BY <1>2, QuietIsNone DEF BootstrapRow, HasRoom
<1>3. CASE BootstrapBook
    <2>1. handling' = Quiet /\ process' = "booking"
        BY <1>3 DEF BootstrapBook
    <2>2. ASSUME NEW m \in boot' PROVE HasRoom(m)'
        <3>1. PICK n \in boot :
                IF rows[n].present
                THEN /\ \E observed \in BookTimes(rows[n]) :
                           StoreSnapshot(n, "bootstrap_orderbook", observed)
                     /\ boot' = boot \ {n}
                     /\ rows' = rows
                ELSE EnsureMarketStub(n) /\ UNCHANGED <<boot, stored>>
            BY <1>3 DEF BootstrapBook
        <3>2. m \in boot /\ m \in Markets /\ HasRoom(m)
            BY <1>3, <2>2, <3>1, WatchlistAssumption DEF BootstrapBook, StreamInv, StreamTypeOK
        <3>3. CASE stored' = stored
            BY <3>2, <3>3 DEF HasRoom
        <3>4. CASE stored' # stored
            <4>1. PICK s : stored' = [stored EXCEPT ![n] = Append(stored[n], s)]
                BY <3>1, <3>4 DEF StoreSnapshot
            <4>2. m # n
                BY <2>2, <3>1, <3>4
            <4> QED BY <3>2, <4>1, <4>2, RoomElsewhere DEF StreamInv
        <3> QED BY <3>3, <3>4
    <2> QED BY <2>1, <2>2, QuietIsNone
<1>4. ASSUME NEW kind \in Kinds, NEW m \in Markets, Receive(kind, m) PROVE RoomKept'
    <2>1. process' = "consuming" /\ stored' = stored
        BY <1>4 DEF Receive
    <2>2. kind # "orderbook_delta" => HasRoom(m)'
        BY <1>4, <2>1 DEF Receive, HasRoom
    <2>3. handling'.kind = kind /\ handling'.market = m
        BY <1>4 DEF Receive
    <2> QED BY <2>1, <2>2, <2>3
<1>5. CASE HandleRow \/ HandleEvent
    <2>1. handling \in Messages /\ handling.todo # "cache" /\ process = "consuming"
        BY <1>5, HandlesAMessage DEF HandleRow, HandleEvent, Handles, StreamInv
    <2>2. process' = "consuming" /\ stored' = stored
        BY <1>5, <2>1 DEF HandleRow, HandleEvent
    <2>3. PICK todo \in {"row", "event", "snapshot", "cache"} :
            handling' = [handling EXCEPT !.todo = todo]
        BY <1>5 DEF HandleRow, HandleEvent, Then
    <2>4. handling'.kind = handling.kind /\ handling'.market = handling.market
        BY <2>1, <2>3, MovedOn
    <2> QED BY <2>1, <2>2, <2>4 DEF HasRoom
<1>6. CASE HandleSnapshot \/ HandleCache
    <2>1. handling \in Messages /\ process = "consuming"
        BY <1>6, HandlesAMessage DEF HandleSnapshot, HandleCache, Handles, StreamInv
    <2>2. process' = "consuming"
        BY <1>6, <2>1 DEF HandleSnapshot, HandleCache
    <2>3. handling' = Quiet \/ handling' = [handling EXCEPT !.todo = "cache"]
        BY <1>6 DEF HandleSnapshot, HandleCache, Then
    <2>4. handling' = Quiet \/ handling'.todo = "cache"
        BY <2>1, <2>3, MovedOn
    <2> QED BY <2>2, <2>4, QuietIsNone
<1>7. CASE \/ Restart \/ Subscribe \/ RunForever \/ Loop \/ Failure \/ Heartbeat
           \/ UNCHANGED streamVars
    <2>1. UNCHANGED stored /\ (handling' = Quiet \/ UNCHANGED <<handling, process>>
                                \/ (handling' = handling /\ process # "consuming"))
        BY <1>7 DEF Restart, Subscribe, RunForever, Loop, Connect, Resubscribe, LoopOrLeave,
           StopHeartbeat, RecordStopped, Failure, HeartbeatFails, LoseConnection, StartFails,
           Crash, Heartbeat, streamVars
    <2>2. process' = "booking" => process = "booking" /\ boot' = boot
        BY <1>7 DEF Restart, Subscribe, RunForever, Loop, Connect, Resubscribe, LoopOrLeave,
           AfterError, StopHeartbeat, RecordStopped, Failure, HeartbeatFails, LoseConnection,
           StartFails, Crash, Heartbeat, streamVars
    <2> QED BY <2>1, <2>2, QuietIsNone DEF HasRoom
<1> QED BY <1>1, <1>2, <1>3, <1>4, <1>5, <1>6, <1>7 DEF StreamNext, Life, Handler

\* A sequence is the function of its elements.
LEMMA SeqIsMap ==
    ASSUME NEW T, NEW r \in Seq(T), NEW n \in Nat, Len(r) = n
    PROVE  r = [i \in 1..n |-> r[i]]
<1>1. r \in [1..n -> T]
    OBVIOUS
<1> QED BY <1>1

\* A snapshot appended to the history is appended to what the rules see of it.
LEMMA ObservedAppend ==
    ASSUME StreamTypeOK, NEW m \in Markets, NEW s \in Snapshots,
           stored' = [stored EXCEPT ![m] = Append(stored[m], s)]
    PROVE  /\ Len(Observed[m]) = Len(stored[m])
           /\ Observed' = [Observed EXCEPT ![m] = Append(@, Conditions(s))]
<1> DEFINE old == stored[m]
<1> DEFINE seen == [i \in DOMAIN old |-> Conditions(old[i])]
<1> DEFINE new == Append(old, s)
<1>1. old \in Seq(Snapshots) /\ stored \in [Markets -> Seq(Snapshots)]
    BY DEF StreamTypeOK
<1>2. Observed[m] = seen
    BY DEF Observed
<1>3. stored' = [stored EXCEPT ![m] = new]
    OBVIOUS
<1> HIDE DEF old
<1>4. /\ Len(old) \in Nat /\ DOMAIN old = 1..Len(old)
      /\ DOMAIN new = 1..(Len(old) + 1)
      /\ \A i \in 1..Len(old) : new[i] = old[i]
      /\ new[Len(old) + 1] = s
    BY <1>1
<1> HIDE DEF new
<1>5. seen \in Seq({Conditions(x) : x \in Snapshots}) /\ Len(seen) = Len(old)
    <2>1. \A i \in 1..Len(old) : old[i] \in Snapshots
        BY <1>1, <1>4
    <2> DEFINE T == {Conditions(x) : x \in Snapshots}
    <2>2. \A i \in 1..Len(old) : Conditions(old[i]) \in T
        BY <2>1
    <2> HIDE DEF T
    <2>3. seen \in [1..Len(old) -> T]
        BY <1>4, <2>2
    <2>4. seen \in Seq(T) /\ Len(seen) = Len(old)
        BY <1>4, <2>3
    <2> QED BY <2>4 DEF T
<1>6. [i \in DOMAIN new |-> Conditions(new[i])] = Append(seen, Conditions(s))
    <2> DEFINE right == Append(seen, Conditions(s))
    <2> DEFINE T == {Conditions(x) : x \in Snapshots}
    <2>1. Conditions(s) \in T
        OBVIOUS
    <2>2. \A i \in 1..Len(old) : seen[i] = Conditions(old[i])
        BY <1>4
    <2>3. seen \in Seq(T) /\ Len(seen) = Len(old)
        BY <1>5
    <2> HIDE DEF T, seen
    <2>4. /\ right \in Seq(T) /\ Len(right) = Len(old) + 1
          /\ \A i \in 1..Len(old) : right[i] = seen[i]
          /\ right[Len(old) + 1] = Conditions(s)
        BY <1>4, <2>1, <2>3, AppendProperties
    <2>5. \A i \in 1..(Len(old) + 1) : Conditions(new[i]) = right[i]
      <3> SUFFICES ASSUME NEW i \in 1..(Len(old) + 1) PROVE Conditions(new[i]) = right[i]
        OBVIOUS
      <3>1. CASE i \in 1..Len(old)
        BY <3>1, <1>4, <2>2, <2>4
      <3>2. CASE i = Len(old) + 1
        BY <3>2, <1>4, <2>4
      <3>3. i \in 1..Len(old) \/ i = Len(old) + 1
        <4>1. Len(old) \in Nat
            BY <1>4
        <4> QED BY <4>1
      <3> QED BY <3>1, <3>2, <3>3
    <2> HIDE DEF right
    <2>6. right = [i \in 1..(Len(old) + 1) |-> right[i]]
      <3>1. right \in Seq(T) /\ Len(old) + 1 \in Nat /\ Len(right) = Len(old) + 1
        BY <1>4, <2>4
      <3> QED BY <3>1, SeqIsMap, Zenon
    <2>7. [i \in DOMAIN new |-> Conditions(new[i])] = [i \in 1..(Len(old) + 1) |-> right[i]]
        BY <1>4, <2>5
    <2>8. [i \in DOMAIN new |-> Conditions(new[i])] = right
        BY <2>6, <2>7, Zenon
    <2> QED BY <2>8 DEF right
<1>7. Observed' = [n \in Markets |-> [i \in DOMAIN stored'[n] |-> Conditions(stored'[n][i])]]
    BY DEF Observed, Conditions
<1>8. stored'[m] = new /\ \A n \in Markets : n # m => stored'[n] = stored[n]
    BY <1>1, <1>3
<1>9. Observed' = [n \in Markets |-> IF n = m THEN Append(seen, Conditions(s)) ELSE Observed[n]]
    <2> HIDE DEF seen
    <2>1. ASSUME NEW n \in Markets
          PROVE  [i \in DOMAIN stored'[n] |-> Conditions(stored'[n][i])]
                    = IF n = m THEN Append(seen, Conditions(s)) ELSE Observed[n]
      <3>1. CASE n = m
        BY <3>1, <1>6, <1>8, Zenon
      <3>2. CASE n # m
        BY <3>2, <1>8 DEF Observed
      <3> QED BY <3>1, <3>2
    <2> QED BY <1>7, <2>1, Zenon
<1>10. [Observed EXCEPT ![m] = Append(@, Conditions(s))]
         = [n \in Markets |-> IF n = m THEN Append(Observed[m], Conditions(s)) ELSE Observed[n]]
    BY DEF Observed
<1> QED BY <1>2, <1>5, <1>9, <1>10 DEF old

\* To the risk rules the stream is a sequence of snapshots, one at a time: whatever
\* the two processes do, with the snapshots of the one in its table the other
\* behaves as RiskLedger says.
THEOREM DeskImplementsLedger == DeskSpec => Ledger!LedgerSpec
<1>1. DeskInit => StreamInv /\ RoomKept /\ Ledger!LedgerInit
    <2> SUFFICES ASSUME DeskInit PROVE StreamInv /\ RoomKept /\ Ledger!LedgerInit
        OBVIOUS
    <2>1. RoomKept
        BY QuietIsNone DEF DeskInit, StreamInit, RoomKept
    <2> QED BY <2>1, InitStreamInv DEF DeskInit
<1>2. StreamInv /\ RoomKept /\ [DeskNext]_<<streamVars, deskVars>> => StreamInv' /\ RoomKept'
    <2> SUFFICES ASSUME StreamInv, RoomKept, [DeskNext]_<<streamVars, deskVars>>
                 PROVE  StreamInv' /\ RoomKept'
        OBVIOUS
    <2>1. [StreamNext]_streamVars
        BY DEF DeskNext
    <2> QED BY <2>1, StepStreamInv, RoomIsKept
<1>3. StreamInv /\ RoomKept /\ [DeskNext]_<<streamVars, deskVars>>
        => [Ledger!LedgerNext]_(Ledger!ledgerVars)
    <2> SUFFICES ASSUME StreamInv, RoomKept, [DeskNext]_<<streamVars, deskVars>>
                 PROVE  [Ledger!LedgerNext]_(Ledger!ledgerVars)
        OBVIOUS
    <2>1. CASE UNCHANGED streamVars /\ Ledger!LedgerSteps
        BY <2>1 DEF Ledger!LedgerNext
    <2>2. CASE [StreamNext]_streamVars /\ UNCHANGED deskVars
        <3>1. CASE stored' = stored
            <4>1. Observed' = Observed
                BY <3>1 DEF Observed, Conditions
            <4> QED BY <2>2, <4>1 DEF deskVars, Ledger!ledgerVars
        <3>2. ASSUME NEW m \in Markets, NEW s \in Snapshots, HasRoom(m),
                     stored' = [stored EXCEPT ![m] = Append(stored[m], s)]
              PROVE  Ledger!LedgerNext
            <4>1. /\ Len(Observed[m]) = Len(stored[m])
                  /\ Observed' = [Observed EXCEPT ![m] = Append(@, Conditions(s))]
                BY <3>2, ObservedAppend DEF StreamInv
            <4>2. Len(Observed[m]) < MaxStored
                BY <3>2, <4>1 DEF HasRoom
            <4>3. Ledger!Observe(m, Conditions(s))
                BY <2>2, <4>1, <4>2 DEF Ledger!Observe, deskVars
            <4> QED BY <4>3 DEF Ledger!LedgerNext
        <3> QED BY <2>2, <3>1, <3>2, OneSnapshot
    <2> QED BY <2>1, <2>2 DEF DeskNext
<1> QED BY <1>1, <1>2, <1>3, PTL DEF DeskSpec, Ledger!LedgerSpec

-----------------------------------------------------------------------------
(* The theorems of the ledger, about the desk.  RiskLedger reaches the desk as one  *)
(* instance and RiskLedger_proofs as another: action by action they mean the same. *)

LedgerFacts == INSTANCE RiskLedger_proofs WITH
    snapshots <- Observed,
    MarketStates <- {Conditions(snapshot) : snapshot \in Snapshots},
    MaxSnapshots <- MaxStored

\* The desk begins as the ledger does.
LEMMA SameInit == Ledger!LedgerInit => LedgerFacts!LedgerInit
BY Zenon DEF Ledger!LedgerInit, LedgerFacts!LedgerInit, Ledger!Books, LedgerFacts!Books,
    Ledger!Idle, LedgerFacts!Idle

\* The same step in both: a preview begins.
LEMMA SameBeginPreview ==
    ASSUME NEW s, NEW o, Ledger!BeginPreview(s, o)
    PROVE  LedgerFacts!BeginPreview(s, o)
BY Zenon DEF Ledger!BeginPreview, LedgerFacts!BeginPreview, Ledger!Outstanding,
    LedgerFacts!Outstanding, Ledger!Applied, LedgerFacts!Applied, Ledger!Canceled,
    LedgerFacts!Canceled, Ledger!Reported, LedgerFacts!Reported, Ledger!Filled,
    LedgerFacts!Filled, Ledger!Answers, LedgerFacts!Answers, Ledger!LossesAged,
    LedgerFacts!LossesAged, Ledger!RulesPass, LedgerFacts!RulesPass,
    Ledger!ConditionsPass, LedgerFacts!ConditionsPass, Ledger!DailyLoss,
    LedgerFacts!DailyLoss, Ledger!CategoryExposure, LedgerFacts!CategoryExposure,
    Ledger!OpenLive, LedgerFacts!OpenLive, Ledger!IsOpen, LedgerFacts!IsOpen,
    Ledger!ExposureOver, LedgerFacts!ExposureOver, Ledger!MarketExposure,
    LedgerFacts!MarketExposure, Ledger!OpenRows, LedgerFacts!OpenRows, Ledger!Estimate,
    LedgerFacts!Estimate, Ledger!UnitPrice, LedgerFacts!UnitPrice, Ledger!CanBegin,
    LedgerFacts!CanBegin, Ledger!Active, LedgerFacts!Active, Ledger!Reading,
    LedgerFacts!Reading, Ledger!Idle, LedgerFacts!Idle, Ledger!Cardinality,
    LedgerFacts!Cardinality, Ledger!SumFunctionOnSet, LedgerFacts!SumFunctionOnSet,
    Ledger!FoldFunctionOnSet, LedgerFacts!FoldFunctionOnSet, Ledger!MapThenFoldSet,
    LedgerFacts!MapThenFoldSet

\* The same step in both: its verdict is stored.
LEMMA SameCommitPreview ==
    ASSUME NEW s, Ledger!CommitPreview(s)
    PROVE  LedgerFacts!CommitPreview(s)
BY Zenon DEF Ledger!CommitPreview, LedgerFacts!CommitPreview, Ledger!Active,
    LedgerFacts!Active, Ledger!Idle, LedgerFacts!Idle

\* The same step in both: an order is placed.
LEMMA SamePlace ==
    ASSUME NEW o, Ledger!Place(o)
    PROVE  LedgerFacts!Place(o)
BY Zenon DEF Ledger!Place, LedgerFacts!Place

\* The same step in both: the exchange fills a contract.
LEMMA SameExchangeFill ==
    ASSUME NEW o, Ledger!ExchangeFill(o)
    PROVE  LedgerFacts!ExchangeFill(o)
BY Zenon DEF Ledger!ExchangeFill, LedgerFacts!ExchangeFill, Ledger!Report,
    LedgerFacts!Report, Ledger!Reported, LedgerFacts!Reported, Ledger!Filled,
    LedgerFacts!Filled, Ledger!Cardinality, LedgerFacts!Cardinality

\* The same step in both: or cancels the order.
LEMMA SameExchangeCancel ==
    ASSUME NEW o, Ledger!ExchangeCancel(o)
    PROVE  LedgerFacts!ExchangeCancel(o)
BY Zenon DEF Ledger!ExchangeCancel, LedgerFacts!ExchangeCancel, Ledger!Report,
    LedgerFacts!Report, Ledger!Reported, LedgerFacts!Reported, Ledger!Filled,
    LedgerFacts!Filled, Ledger!Cardinality, LedgerFacts!Cardinality

\* The same step in both: reconcile reads the position.
LEMMA SameBeginReconcile ==
    ASSUME NEW s, NEW u, Ledger!BeginReconcile(s, u)
    PROVE  LedgerFacts!BeginReconcile(s, u)
BY Zenon DEF Ledger!BeginReconcile, LedgerFacts!BeginReconcile, Ledger!WithPosition,
    LedgerFacts!WithPosition, Ledger!OpenRows, LedgerFacts!OpenRows, Ledger!IsOpen,
    LedgerFacts!IsOpen, Ledger!OnePosition, LedgerFacts!OnePosition, Ledger!CanBegin,
    LedgerFacts!CanBegin, Ledger!Active, LedgerFacts!Active, Ledger!Reading,
    LedgerFacts!Reading, Ledger!Idle, LedgerFacts!Idle, Ledger!Cardinality,
    LedgerFacts!Cardinality

\* The same step in both: and writes the report into it.
LEMMA SameCommitReconcile ==
    ASSUME NEW s, Ledger!CommitReconcile(s)
    PROVE  LedgerFacts!CommitReconcile(s)
BY Zenon DEF Ledger!CommitReconcile, LedgerFacts!CommitReconcile, Ledger!CommitBook, LedgerFacts!CommitBook, Ledger!Overtaken,
    LedgerFacts!Overtaken, Ledger!OpenRows, LedgerFacts!OpenRows, Ledger!IsOpen,
    LedgerFacts!IsOpen, Ledger!Upserted, LedgerFacts!Upserted, Ledger!RowsWith,
    LedgerFacts!RowsWith, Ledger!Idle, LedgerFacts!Idle, Ledger!Applied,
    LedgerFacts!Applied, Ledger!TimesApplied, LedgerFacts!TimesApplied, Ledger!Estimate,
    LedgerFacts!Estimate, Ledger!UnitPrice, LedgerFacts!UnitPrice, Ledger!Active,
    LedgerFacts!Active, Ledger!Cardinality, LedgerFacts!Cardinality

\* The same step in both: a paper execution begins.
LEMMA SameBeginPaper ==
    ASSUME NEW s, NEW o, Ledger!BeginPaper(s, o)
    PROVE  LedgerFacts!BeginPaper(s, o)
BY Zenon DEF Ledger!BeginPaper, LedgerFacts!BeginPaper, Ledger!PaperPrices,
    LedgerFacts!PaperPrices, Ledger!FillCount,
    LedgerFacts!FillCount, Ledger!Larger, LedgerFacts!Larger, Ledger!WithPosition,
    LedgerFacts!WithPosition, Ledger!OpenRows, LedgerFacts!OpenRows, Ledger!IsOpen,
    LedgerFacts!IsOpen, Ledger!OnePosition, LedgerFacts!OnePosition, Ledger!CanBegin,
    LedgerFacts!CanBegin, Ledger!Active, LedgerFacts!Active, Ledger!Reading,
    LedgerFacts!Reading, Ledger!Idle, LedgerFacts!Idle, Ledger!Cardinality,
    LedgerFacts!Cardinality

\* The same step in both: its position is written and the portfolio read.
LEMMA SameWritePaper ==
    ASSUME NEW s, Ledger!WritePaper(s)
    PROVE  LedgerFacts!WritePaper(s)
BY Zenon DEF Ledger!WritePaper, LedgerFacts!WritePaper, Ledger!RowIsFree,
    LedgerFacts!RowIsFree, Ledger!Active, LedgerFacts!Active, Ledger!Captured,
    LedgerFacts!Captured, Ledger!OpenPaper, LedgerFacts!OpenPaper, Ledger!TotalExposure,
    LedgerFacts!TotalExposure, Ledger!ExposureOver, LedgerFacts!ExposureOver,
    Ledger!IsOpen, LedgerFacts!IsOpen, Ledger!SumFunctionOnSet, LedgerFacts!SumFunctionOnSet,
    Ledger!FoldFunctionOnSet, LedgerFacts!FoldFunctionOnSet, Ledger!MapThenFoldSet,
    LedgerFacts!MapThenFoldSet

\* The same step in both: and both are committed.
LEMMA SameCommitPaper ==
    ASSUME NEW s, Ledger!CommitPaper(s)
    PROVE  LedgerFacts!CommitPaper(s)
BY Zenon DEF Ledger!CommitPaper, LedgerFacts!CommitPaper, Ledger!TotalExposure,
    LedgerFacts!TotalExposure, Ledger!ExposureOver, LedgerFacts!ExposureOver,
    Ledger!IsOpen, LedgerFacts!IsOpen, Ledger!CommitBook, LedgerFacts!CommitBook,
    Ledger!Overtaken, LedgerFacts!Overtaken, Ledger!OpenRows, LedgerFacts!OpenRows,
    Ledger!Upserted, LedgerFacts!Upserted, Ledger!RowsWith, LedgerFacts!RowsWith,
    Ledger!Idle, LedgerFacts!Idle, Ledger!SumFunctionOnSet, LedgerFacts!SumFunctionOnSet,
    Ledger!FoldFunctionOnSet, LedgerFacts!FoldFunctionOnSet, Ledger!MapThenFoldSet,
    LedgerFacts!MapThenFoldSet

\* The same step in both: a position is closed.
LEMMA SameClosePosition ==
    ASSUME NEW i, NEW lost, Ledger!ClosePosition(i, lost)
    PROVE  LedgerFacts!ClosePosition(i, lost)
BY Zenon DEF Ledger!ClosePosition, LedgerFacts!ClosePosition, Ledger!OpenLive,
    LedgerFacts!OpenLive, Ledger!IsOpen, LedgerFacts!IsOpen

\* The same step in both: and ages.
LEMMA SameAge ==
    ASSUME NEW i, Ledger!Age(i)
    PROVE  LedgerFacts!Age(i)
BY Zenon DEF Ledger!Age, LedgerFacts!Age

\* The same step in both: a snapshot is stored.
LEMMA SameObserve ==
    ASSUME NEW m, NEW state, Ledger!Observe(m, state)
    PROVE  LedgerFacts!Observe(m, state)
BY Zenon DEF Ledger!Observe, LedgerFacts!Observe

\* What is a step of the one is a step of the other.
LEMMA SameNext ==
    [Ledger!LedgerNext]_(Ledger!ledgerVars) => [LedgerFacts!LedgerNext]_(LedgerFacts!ledgerVars)
<1>1. ASSUME NEW s \in Sessions, NEW o \in Orders, Ledger!BeginPreview(s, o) \/ Ledger!BeginPaper(s, o)
      PROVE  LedgerFacts!LedgerSteps
    <2>1. LedgerFacts!BeginPreview(s, o) \/ LedgerFacts!BeginPaper(s, o)
        BY <1>1, SameBeginPreview, SameBeginPaper
    <2> QED BY <2>1 DEF LedgerFacts!LedgerSteps
<1>2. ASSUME NEW s \in Sessions,
             \/ Ledger!CommitPreview(s) \/ Ledger!CommitReconcile(s)
             \/ Ledger!WritePaper(s) \/ Ledger!CommitPaper(s)
      PROVE  LedgerFacts!LedgerSteps
    <2>1. \/ LedgerFacts!CommitPreview(s) \/ LedgerFacts!CommitReconcile(s)
          \/ LedgerFacts!WritePaper(s) \/ LedgerFacts!CommitPaper(s)
        BY <1>2, SameCommitPreview, SameCommitReconcile, SameWritePaper, SameCommitPaper
    <2> QED BY <2>1 DEF LedgerFacts!LedgerSteps
<1>3. ASSUME NEW o \in Orders,
             Ledger!Place(o) \/ Ledger!ExchangeFill(o) \/ Ledger!ExchangeCancel(o)
      PROVE  LedgerFacts!LedgerSteps
    <2>1. LedgerFacts!Place(o) \/ LedgerFacts!ExchangeFill(o) \/ LedgerFacts!ExchangeCancel(o)
        BY <1>3, SamePlace, SameExchangeFill, SameExchangeCancel
    <2> QED BY <2>1 DEF LedgerFacts!LedgerSteps
<1>4. ASSUME NEW s \in Sessions, NEW u \in updates, Ledger!BeginReconcile(s, u)
      PROVE  LedgerFacts!LedgerSteps
    <2>1. LedgerFacts!BeginReconcile(s, u)
        BY <1>4, SameBeginReconcile
    <2> QED BY <2>1 DEF LedgerFacts!LedgerSteps
<1>5. ASSUME NEW i \in DOMAIN books["live"],
             Ledger!Age(i) \/ \E lost \in BOOLEAN : Ledger!ClosePosition(i, lost)
      PROVE  LedgerFacts!LedgerSteps
    <2>1. LedgerFacts!Age(i) \/ \E lost \in BOOLEAN : LedgerFacts!ClosePosition(i, lost)
        BY <1>5, SameAge, SameClosePosition
    <2> QED BY <2>1 DEF LedgerFacts!LedgerSteps
<1>6. Ledger!LedgerSteps => LedgerFacts!LedgerSteps
    BY <1>1, <1>2, <1>3, <1>4, <1>5 DEF Ledger!LedgerSteps
<1>7. Ledger!LedgerNext => LedgerFacts!LedgerNext
    BY <1>6, SameObserve DEF Ledger!LedgerNext, LedgerFacts!LedgerNext
<1> QED BY <1>7 DEF Ledger!ledgerVars, LedgerFacts!ledgerVars

\* The two instances have the same behaviours.
LEMMA SameLedger == Ledger!LedgerSpec => LedgerFacts!LedgerSpec
BY SameInit, SameNext, PTL DEF Ledger!LedgerSpec, LedgerFacts!LedgerSpec

\* The books hold the fills in both.
LEMMA SameBooksMatchFills == LedgerFacts!BooksMatchFills => Ledger!BooksMatchFills
BY DEF Ledger!BooksMatchFills, LedgerFacts!BooksMatchFills, Ledger!PaperFilled,
    LedgerFacts!PaperFilled, Ledger!RowsOf, LedgerFacts!RowsOf, Ledger!AppliedFills,
    LedgerFacts!AppliedFills, Ledger!ContractsOver, LedgerFacts!ContractsOver,
    Ledger!Cardinality, LedgerFacts!Cardinality, Ledger!SumFunctionOnSet,
    LedgerFacts!SumFunctionOnSet, Ledger!FoldFunctionOnSet, LedgerFacts!FoldFunctionOnSet,
    Ledger!MapThenFoldSet, LedgerFacts!MapThenFoldSet

\* The portfolio follows the books in both.
LEMMA SamePortfolioFollowsBooks == LedgerFacts!PortfolioFollowsBooks => Ledger!PortfolioFollowsBooks
BY DEF Ledger!PortfolioFollowsBooks, LedgerFacts!PortfolioFollowsBooks,
    Ledger!TotalExposure, LedgerFacts!TotalExposure, Ledger!ExposureOver,
    LedgerFacts!ExposureOver, Ledger!IsOpen, LedgerFacts!IsOpen, Ledger!SumFunctionOnSet,
    LedgerFacts!SumFunctionOnSet, Ledger!FoldFunctionOnSet, LedgerFacts!FoldFunctionOnSet,
    Ledger!MapThenFoldSet, LedgerFacts!MapThenFoldSet

\* The exposure is within the limits in both.
LEMMA SameExposureWithinLimits == LedgerFacts!ExposureWithinLimits => Ledger!ExposureWithinLimits
BY DEF Ledger!ExposureWithinLimits, LedgerFacts!ExposureWithinLimits,
    Ledger!MarketExposure, LedgerFacts!MarketExposure, Ledger!ExposureOver,
    LedgerFacts!ExposureOver, Ledger!OpenRows, LedgerFacts!OpenRows, Ledger!IsOpen,
    LedgerFacts!IsOpen, Ledger!OpenLive, LedgerFacts!OpenLive, Ledger!Cardinality,
    LedgerFacts!Cardinality, Ledger!SumFunctionOnSet, LedgerFacts!SumFunctionOnSet,
    Ledger!FoldFunctionOnSet, LedgerFacts!FoldFunctionOnSet, Ledger!MapThenFoldSet,
    LedgerFacts!MapThenFoldSet

\* What the theorems of the ledger take for granted of its constants.
DeskFigures ==
    /\ PriceOf \in [Orders -> Nat] /\ DefaultPrice \in Nat \ {0} /\ FillPrices \subseteq Nat
    /\ CountOf \in [Orders -> Nat \ {0}]
    /\ MarketOf \in [Orders -> Markets] /\ Catalogued \subseteq Markets
    /\ {MarketLimit, CategoryLimit, PositionLimit, LossLimit, Loss} \subseteq Nat
    /\ NoOrder \notin Orders

\* They are the assumptions of RiskLedger, with the snapshots that the stream stores.
LEMMA FiguresFit ==
    ASSUME DeskFigures
    PROVE  /\ LedgerFacts!PricesAssumption
           /\ LedgerFacts!CountsAssumption
           /\ LedgerFacts!MarketsAssumption
           /\ LedgerFacts!LimitsAssumption
           /\ LedgerFacts!SnapshotsAssumption
           /\ LedgerFacts!NoOrderAssumption
<1>1. LedgerFacts!PricesAssumption
    BY DEF DeskFigures
<1>2. LedgerFacts!CountsAssumption
    BY DEF DeskFigures
<1>3. LedgerFacts!MarketsAssumption
    BY DEF DeskFigures
<1>4. LedgerFacts!LimitsAssumption
    BY DEF DeskFigures
<1>5. LedgerFacts!SnapshotsAssumption
    BY DEF Conditions, Snapshots
<1>6. LedgerFacts!NoOrderAssumption
    BY DEF DeskFigures
<1> QED BY <1>1, <1>2, <1>3, <1>4, <1>5, <1>6

\* A closed position is the same in both.
LEMMA SameClosed ==
    [\A i \in DOMAIN books["live"] :
        ~LedgerFacts!IsOpen(books["live"][i]) =>
            /\ ~LedgerFacts!IsOpen(books'["live"][i])
            /\ books'["live"][i].lost = books["live"][i].lost]_(LedgerFacts!ledgerVars)
    => [\A i \in DOMAIN books["live"] :
          ~Ledger!IsOpen(books["live"][i]) =>
              /\ ~Ledger!IsOpen(books'["live"][i])
              /\ books'["live"][i].lost = books["live"][i].lost]_(Ledger!ledgerVars)
BY DEF Ledger!IsOpen, LedgerFacts!IsOpen, Ledger!ledgerVars, LedgerFacts!ledgerVars

\* With the snapshots that the stream stores, at its own pace and over its restarts, the
\* books hold the fills, the newest portfolio snapshot lacks no more of them than overlapping
\* executions committed meanwhile, orders previewed with care stay within the limits, and a closed position stays closed: what RiskLedger promises for snapshots
\* of its own (orders/service.py, paper/service.py, risk/engine.py) holds of the desk.
THEOREM DeskKeepsItsBooks ==
    ASSUME DeskFigures
    PROVE  DeskSpec => /\ []Ledger!BooksMatchFills
                       /\ []Ledger!PortfolioFollowsBooks
                       /\ []Ledger!ExposureWithinLimits
                       /\ Ledger!ClosedStaysClosed
<1>1. /\ LedgerFacts!PricesAssumption /\ LedgerFacts!CountsAssumption
      /\ LedgerFacts!MarketsAssumption /\ LedgerFacts!LimitsAssumption
      /\ LedgerFacts!SnapshotsAssumption /\ LedgerFacts!NoOrderAssumption
    BY FiguresFit
<1>2. LedgerFacts!LedgerSpec => []LedgerFacts!BooksMatchFills
    BY <1>1, LedgerFacts!BooksHoldFills
<1>3. LedgerFacts!LedgerSpec => []LedgerFacts!PortfolioFollowsBooks
    BY <1>1, LedgerFacts!PortfolioIsCurrent
<1>4. LedgerFacts!LedgerSpec => []LedgerFacts!ExposureWithinLimits
    BY <1>1, LedgerFacts!CarefulStaysWithin
<1>5. LedgerFacts!LedgerSpec => LedgerFacts!ClosedStaysClosed
    BY <1>1, LedgerFacts!ClosedForGood
<1>6. DeskSpec => LedgerFacts!LedgerSpec
    BY DeskImplementsLedger, SameLedger
<1>7. LedgerFacts!ClosedStaysClosed => Ledger!ClosedStaysClosed
    BY SameClosed, PTL DEF Ledger!ClosedStaysClosed, LedgerFacts!ClosedStaysClosed
<1>8. DeskSpec => []Ledger!BooksMatchFills
    BY <1>2, <1>6, SameBooksMatchFills, PTL
<1>9. DeskSpec => []Ledger!PortfolioFollowsBooks
    BY <1>3, <1>6, SamePortfolioFollowsBooks, PTL
<1>10. DeskSpec => []Ledger!ExposureWithinLimits
    BY <1>4, <1>6, SameExposureWithinLimits, PTL
<1>11. DeskSpec => Ledger!ClosedStaysClosed
    BY <1>5, <1>6, <1>7
<1> QED BY <1>8, <1>9, <1>10, <1>11

\* What is stored of a market only grows, and nothing is previewed or executed on
\* paper in a market of which two snapshots are stored.
RefusedForGood ==
    [][/\ \A m \in Markets : Len(stored[m]) > 1 => Len(stored'[m]) > 1
       /\ \A s \in Sessions :
             sessions[s].pc = "idle" /\ sessions'[s].pc \in {"preview", "paper"}
                => Len(stored[MarketOf[sessions'[s].order]]) <= 1]_<<streamVars, deskVars>>

\* The rules see as many snapshots of a market as are stored.
LEMMA SeenAreStored ==
    ASSUME StreamTypeOK, NEW m \in Markets
    PROVE  Len(Observed[m]) = Len(stored[m])
<1>1. stored[m] \in Seq(Snapshots)
    BY DEF StreamTypeOK
<1>2. DOMAIN Observed[m] = 1..Len(stored[m]) /\ Len(stored[m]) \in Nat
    BY <1>1 DEF Observed
<1>3. Observed[m] \in Seq({Conditions(snapshot) : snapshot \in Snapshots})
    <2>1. \A i \in 1..Len(stored[m]) : stored[m][i] \in Snapshots
        BY <1>1
    <2> DEFINE T == {Conditions(snapshot) : snapshot \in Snapshots}
    <2>2. \A i \in 1..Len(stored[m]) : Conditions(stored[m][i]) \in T
        BY <2>1
    <2>3. Observed[m] = [i \in 1..Len(stored[m]) |-> Conditions(stored[m][i])]
        BY <1>1 DEF Observed
    <2> HIDE DEF T
    <2>4. Observed[m] \in [1..Len(stored[m]) -> T]
        BY <2>2, <2>3
    <2>5. Observed[m] \in Seq(T)
        BY <1>2, <2>4
    <2> QED BY <2>5 DEF T
<1> QED BY <1>2, <1>3

\* A session that begins on a market has found one snapshot of it at most.
LEMMA BeginsOnOne ==
    ASSUME DeskFigures, StreamTypeOK, Ledger!LedgerSteps,
           NEW s \in Sessions, DOMAIN sessions = Sessions,
           sessions[s].pc = "idle", sessions'[s].pc \in {"preview", "paper"}
    PROVE  Len(stored[MarketOf[sessions'[s].order]]) <= 1
<1>1. ASSUME NEW t \in Sessions, NEW o \in Orders, Ledger!BeginPreview(t, o)
      PROVE  Len(stored[MarketOf[sessions'[s].order]]) <= 1
    <2>1. sessions' = [sessions EXCEPT ![t] = sessions'[t]] /\ sessions'[t].order = o
        BY <1>1 DEF Ledger!BeginPreview, Ledger!Reading, Ledger!Idle
    <2>2. s = t
        BY <2>1
    <2>3. Len(Observed[MarketOf[o]]) <= 1 /\ MarketOf[o] \in Markets
        BY <1>1 DEF Ledger!BeginPreview, Ledger!Answers, DeskFigures
    <2> QED BY <2>1, <2>2, <2>3, SeenAreStored
<1>2. ASSUME NEW t \in Sessions, NEW o \in Orders, Ledger!BeginPaper(t, o)
      PROVE  Len(stored[MarketOf[sessions'[s].order]]) <= 1
    <2>1. sessions' = [sessions EXCEPT ![t] = sessions'[t]] /\ sessions'[t].order = o
        BY <1>2 DEF Ledger!BeginPaper, Ledger!Reading, Ledger!Idle, Ledger!WithPosition
    <2>2. s = t
        BY <2>1
    <2>3. Len(Observed[MarketOf[o]]) <= 1 /\ MarketOf[o] \in Markets
        BY <1>2 DEF Ledger!BeginPaper, DeskFigures
    <2> QED BY <2>1, <2>2, <2>3, SeenAreStored
<1>3. ASSUME NEW t \in Sessions,
             Ledger!CommitPreview(t) \/ Ledger!CommitReconcile(t) \/ Ledger!CommitPaper(t)
      PROVE  FALSE
    <2>1. sessions' = [sessions EXCEPT ![t] = Ledger!Idle]
        BY <1>3 DEF Ledger!CommitPreview, Ledger!CommitReconcile, Ledger!CommitPaper, Ledger!CommitBook
    <2> QED BY <2>1 DEF Ledger!Idle
<1>4. ASSUME NEW t \in Sessions, NEW u \in updates, Ledger!BeginReconcile(t, u)
      PROVE  FALSE
    <2>1. sessions' = [sessions EXCEPT ![t] = sessions'[t]] /\ sessions'[t].pc = "reconcile"
        BY <1>4 DEF Ledger!BeginReconcile, Ledger!Reading, Ledger!Idle, Ledger!WithPosition
    <2> QED BY <2>1
<1>5. ASSUME UNCHANGED sessions PROVE FALSE
    BY <1>5
<1>6. ASSUME NEW t \in Sessions, Ledger!WritePaper(t)
      PROVE  FALSE
    <2>1. sessions' = [sessions EXCEPT ![t] = sessions'[t]] /\ sessions'[t].pc = "written"
        BY <1>6 DEF Ledger!WritePaper
    <2> QED BY <2>1
<1> QED BY <1>1, <1>2, <1>3, <1>4, <1>5, <1>6 DEF Ledger!LedgerSteps, Ledger!Place, Ledger!ExchangeFill,
    Ledger!ExchangeCancel, Ledger!Age, Ledger!ClosePosition

\* From the second snapshot of a market on, whatever the stream, its restarts and the
\* requests do, no order is previewed or executed on paper there: scalar_one_or_none
\* over the snapshots raises for good (risk/engine.py, paper/service.py).
THEOREM TwoSnapshotsRefuse == ASSUME DeskFigures PROVE DeskSpec => RefusedForGood
<1>1. DeskSpec => []LedgerFacts!LedgerTypeOK
    <2>1. LedgerFacts!LedgerSpec => []LedgerFacts!LedgerTypeOK
        BY FiguresFit, LedgerFacts!LedgerTypes
    <2>2. DeskSpec => LedgerFacts!LedgerSpec
        BY DeskImplementsLedger, SameLedger
    <2> QED BY <2>1, <2>2
<1>2. DeskSpec => [](StreamInv /\ RoomKept)
    <2>1. DeskInit => StreamInv /\ RoomKept
        BY InitStreamInv, QuietIsNone DEF DeskInit, StreamInit, RoomKept
    <2>2. StreamInv /\ RoomKept /\ [DeskNext]_<<streamVars, deskVars>> => StreamInv' /\ RoomKept'
      <3> SUFFICES ASSUME StreamInv, RoomKept, [DeskNext]_<<streamVars, deskVars>>
                   PROVE  StreamInv' /\ RoomKept'
        OBVIOUS
      <3>1. [StreamNext]_streamVars
        BY DEF DeskNext
      <3> QED BY <3>1, StepStreamInv, RoomIsKept
    <2> QED BY <2>1, <2>2, PTL DEF DeskSpec
<1>3. LedgerFacts!LedgerTypeOK => DOMAIN sessions = Sessions
    BY DEF LedgerFacts!LedgerTypeOK
<1>4. ASSUME StreamInv, RoomKept, DOMAIN sessions = Sessions, [DeskNext]_<<streamVars, deskVars>>
      PROVE  [/\ \A m \in Markets : Len(stored[m]) > 1 => Len(stored'[m]) > 1
              /\ \A s \in Sessions :
                    sessions[s].pc = "idle" /\ sessions'[s].pc \in {"preview", "paper"}
                       => Len(stored[MarketOf[sessions'[s].order]]) <= 1]_<<streamVars, deskVars>>
    <2>1. CASE UNCHANGED streamVars /\ Ledger!LedgerSteps
      <3>1. stored' = stored
        BY <2>1 DEF streamVars
      <3> QED BY <2>1, <3>1, <1>4, BeginsOnOne DEF StreamInv
    <2>2. CASE StreamNext /\ UNCHANGED deskVars
      <3>1. sessions' = sessions
        BY <2>2 DEF deskVars
      <3>2. ASSUME NEW m \in Markets, Len(stored[m]) > 1 PROVE Len(stored'[m]) > 1
        <4>1. stored \in [Markets -> Seq(Snapshots)]
            BY <1>4 DEF StreamInv, StreamTypeOK
        <4>2. CASE stored' = stored
            BY <3>2, <4>2
        <4>3. ASSUME NEW n \in Markets, NEW s \in Snapshots,
                     stored' = [stored EXCEPT ![n] = Append(stored[n], s)]
              PROVE  Len(stored'[m]) > 1
            BY <3>2, <4>1, <4>3
        <4> QED BY <2>2, <4>2, <4>3, <1>4, OneSnapshot
      <3> QED BY <3>1, <3>2
    <2> QED BY <2>1, <2>2, <1>4 DEF DeskNext
<1> QED BY <1>1, <1>2, <1>3, <1>4, PTL DEF DeskSpec, RefusedForGood

-----------------------------------------------------------------------------
(* The stream and the notifier side by side. *)

\* A step of the two is a step of one of them at most; neither writes what the other has.
LEMMA SideBySideSteps == [Next]_allVars => [StreamNext]_streamVars /\ [PipelineNext]_pipelineVars
BY DEF Next, Feed, Alerts, allVars

\* What each promises alone both promise next to each other: their types, a subscribed
\* connection and a sound history of the stream; a guarded key sent once, and for a signal
\* that stands, of the notifier (market_stream/service.py, notifier/delivery.py).
THEOREM SideBySideSafety ==
    Spec => [](/\ TypeOK
               /\ SubscriptionsReplayed /\ HistoryIsSound
               /\ AtMostOncePerWindow /\ SendsAreCurrent)
<1>1. Init => StreamInv /\ PipelineInv
    BY InitStreamInv, InitPipelineInv DEF Init
<1>2. StreamInv /\ PipelineInv /\ [Next]_allVars => StreamInv' /\ PipelineInv'
    BY SideBySideSteps, StepStreamInv, StepPipelineInv
<1>3. StreamInv /\ PipelineInv => /\ TypeOK
                                  /\ SubscriptionsReplayed /\ HistoryIsSound
                                  /\ AtMostOncePerWindow /\ SendsAreCurrent
    <2> SUFFICES ASSUME StreamInv, PipelineInv
                 PROVE  /\ TypeOK
                        /\ SubscriptionsReplayed /\ HistoryIsSound
                        /\ AtMostOncePerWindow /\ SendsAreCurrent
        OBVIOUS
    <2>1. TypeOK
        BY DEF TypeOK, StreamInv, PipelineInv
    <2>2. SubscriptionsReplayed /\ HistoryIsSound
        BY StreamPromises
    <2>3. AtMostOncePerWindow /\ SendsAreCurrent
        BY PipelinePromises
    <2> QED BY <2>1, <2>2, <2>3
<1> QED BY <1>1, <1>2, <1>3, PTL DEF Spec
=============================================================================
