------------------------------ MODULE RiskLedger ------------------------------
(***************************************************************************)
(* The books of the execution engine and the risk rules that read them:    *)
(* the positions that reconcile writes from the exchange's updates         *)
(* (execution_engine/orders/service.py), the paper positions and portfolio *)
(* snapshots of paper mode (paper/service.py), and the deterministic rules *)
(* a preview is screened by (risk/engine.py, previews/service.py).         *)
(*                                                                         *)
(* A handler is a session of two steps: the reads it decides on, then the  *)
(* commit; a paper execution reads once more in between.  Two sessions     *)
(* interleave as two requests do; a commit writes the columns the handler  *)
(* assigned, computed from what it read.  The races of approval and        *)
(* submission themselves are those of OrderExecution and are one step each *)
(* here.  The column orders.status, which reconcile and a paper execution  *)
(* overwrite with any string, is read by no rule and left out.             *)
(***************************************************************************)
EXTENDS Integers, Sequences, FiniteSets, Functions

CONSTANTS
    Orders,         \* candidate orders
    Markets,        \* the market of each, its count and its limit price
    MarketOf,
    CountOf,
    PriceOf,        \* 0 for a market order
    DefaultPrice,   \* what a candidate without a price is estimated at
    FillPrices,     \* prices the exchange fills at
    Catalogued,     \* markets whose kalshi_markets row has a series_ticker
    MarketLimit,    \* RISK_MAX_EXPOSURE_PER_MARKET_CENTS and so on
    CategoryLimit,
    PositionLimit,
    LossLimit,
    Loss,           \* the loss of a position closed at a loss
    Sessions,       \* requests that may overlap
    MarketStates,   \* what a snapshot may say of its market
    MaxSnapshots,   \* bound: snapshots per market
    MaxApplied,     \* bound: updates reported, and updates applied, repeated ones included
    MaxPaper,       \* bound: paper executions
    NoOrder, NoUpdate

ASSUME PricesAssumption ==
    /\ PriceOf \in [Orders -> Nat]
    /\ DefaultPrice \in Nat \ {0}
    /\ FillPrices \subseteq Nat
ASSUME CountsAssumption == CountOf \in [Orders -> Nat \ {0}]
ASSUME MarketsAssumption == MarketOf \in [Orders -> Markets] /\ Catalogued \subseteq Markets
ASSUME LimitsAssumption ==
    /\ {MarketLimit, CategoryLimit, PositionLimit, LossLimit, Loss} \subseteq Nat
ASSUME SnapshotsAssumption ==
    MarketStates \subseteq [spread : {"none", "tight", "wide"},
                            liquidity : {"none", "thin", "deep"},
                            closes : {"none", "soon", "later"}]
ASSUME NoOrderAssumption == NoOrder \notin Orders

VARIABLES
    mode,        \* the execution mode: "live" or "paper"
    orders,      \* order -> how far its approval has come
    onExchange,  \* orders the exchange works on
    updates,     \* what the exchange reported: fills and cancellations
    books,       \* "live" and "paper" -> the rows of the positions tables
    snapshots,   \* market -> its market_snapshots rows
    portfolio,   \* the exposure of each paper_portfolio_snapshots row; history: what
                 \* other executions wrote between its reads and its commit
    sessions,    \* session -> its step and what it read
    applied,     \* history: <<update, n>> for the n-th time reconcile committed it
    paperFills,  \* the paper_fills rows
    raced,       \* history: <<book, market>> where a commit wrote over a newer row
    careful      \* history: no preview, order or update overlapped another

ledgerVars == <<mode, orders, onExchange, updates, books, snapshots, portfolio, sessions,
                applied, paperFills, raced, careful>>

-----------------------------------------------------------------------------
Books == {"live", "paper"}

ApprovalStatus == {"absent", "blocked", "pending_approval", "submitted"}

Updates == [order : Orders, nth : Nat, count : {0, 1}, price : FillPrices \cup {0}]

\* A positions or paper_positions row.  One closed at a loss, the only ones whose
\* closed_at is looked at, has been closed within the cooldown ("fresh"), within the
\* day ("today") or before.
Positions == [market : Markets, contracts : Nat, exposure : Nat,
              age : {"open", "fresh", "today", "old"}, lost : BOOLEAN]

PaperFills == [market : Markets, count : Nat \ {0}]
PortfolioRows == [exposure : Nat, missed : Int]

Idle == [pc |-> "idle", order |-> NoOrder, update |-> NoUpdate, row |-> 0,
         contracts |-> 0, exposure |-> 0, fill |-> 0, value |-> 0, stored |-> 0,
         captured |-> 0, passed |-> FALSE, calm |-> TRUE]
SessionStates ==
    [pc : {"idle", "preview", "reconcile", "paper", "written"}, order : Orders \cup {NoOrder},
     update : Updates \cup {NoUpdate}, row : Nat, contracts : Nat, exposure : Nat,
     fill : Nat, value : Nat, stored : Nat, captured : Nat, passed : BOOLEAN, calm : BOOLEAN]

IsOpen(row) == row.age = "open"
OpenRows(book, m) ==
    {i \in DOMAIN books[book] : books[book][i].market = m /\ IsOpen(books[book][i])}

Larger(a, b) == IF a >= b THEN a ELSE b
RowsOf(rows, m) == {i \in DOMAIN rows : rows[i].market = m}
ExposureOver(rows, S) == SumFunctionOnSet([i \in DOMAIN rows |-> rows[i].exposure], S)
TotalExposure(rows) == ExposureOver(rows, {i \in DOMAIN rows : IsOpen(rows[i])})
ContractsOver(rows, S) == SumFunctionOnSet([i \in DOMAIN rows |-> rows[i].contracts], S)

\* A fresh session over order o.
Reading(pc, o) == [Idle EXCEPT !.pc = pc, !.order = o]

Active == {s \in Sessions : sessions[s].pc # "idle"}
CanBegin(s) == sessions[s].pc = "idle"

-----------------------------------------------------------------------------
(* The rules of DeterministicRiskEngine.evaluate. *)

\* int(price or 50) * count
UnitPrice(o) == IF PriceOf[o] = 0 THEN DefaultPrice ELSE PriceOf[o]
Estimate(o) == UnitPrice(o) * CountOf[o]

OpenLive == {i \in DOMAIN books["live"] : IsOpen(books["live"][i])}
MarketExposure(m) == ExposureOver(books["live"], OpenRows("live", m))

\* Every position is of the category "general", while the rule looks for those of
\* the market's series, if it has one.
CategoryExposure(m) ==
    IF m \in Catalogued THEN 0 ELSE ExposureOver(books["live"], OpenLive)

LossesAged(ages) ==
    {i \in DOMAIN books["live"] : books["live"][i].lost /\ books["live"][i].age \in ages}
DailyLoss == Loss * Cardinality(LossesAged({"fresh", "today"}))

\* A rule whose figure the newest snapshot lacks passes.
ConditionsPass(m) ==
    \A i \in DOMAIN snapshots[m] :
        /\ snapshots[m][i].spread # "wide"
        /\ snapshots[m][i].liquidity # "thin"
        /\ snapshots[m][i].closes # "soon"

\* As if the rules looked at what is held, without the order.
RulesOnHeld(o) ==
    /\ MarketExposure(MarketOf[o]) <= MarketLimit
    /\ Cardinality(OpenLive) < PositionLimit
    /\ ConditionsPass(MarketOf[o])
    /\ LossesAged({"fresh"}) = {}

\* The kill switch, one more rule, is that of OrderExecution; the concentration of
\* a category only warns.
RulesPass(o) ==
    /\ MarketExposure(MarketOf[o]) + Estimate(o) <= MarketLimit
    /\ CategoryExposure(MarketOf[o]) + Estimate(o) <= CategoryLimit
    /\ DailyLoss <= LossLimit
    /\ Cardinality(OpenLive) < PositionLimit
    /\ ConditionsPass(MarketOf[o])
    /\ LossesAged({"fresh"}) = {}

\* scalar_one_or_none over the snapshots and over the losses of the cooldown:
\* a second row raises MultipleResultsFound, and the preview stores nothing.
Answers(m) ==
    /\ Len(snapshots[m]) <= 1
    /\ Cardinality(LossesAged({"fresh"})) <= 1

-----------------------------------------------------------------------------
(* Previews and the way of an order to the exchange. *)

Reported(o) == {u \in updates : u.order = o}
Filled(o) == {u \in Reported(o) : u.count = 1}
Canceled(o) == \E u \in Reported(o) : u.count = 0
TimesApplied(u) == Cardinality({a \in applied : a[1] = u})
Applied == {a[1] : a \in applied}

\* An order that may still be filled, or with reports that are not in the books.
Outstanding(o) ==
    /\ orders[o] \notin {"absent", "blocked"}
    /\ ~(Reported(o) \subseteq Applied
         /\ (Canceled(o) \/ Cardinality(Filled(o)) = CountOf[o]))

\* POST /orders/preview: the rules read the books and the snapshots.
BeginPreview(s, o) ==
    /\ CanBegin(s) /\ orders[o] = "absent"
    /\ Answers(MarketOf[o])
    /\ sessions' = [sessions EXCEPT ![s] =
                       [Reading("preview", o) EXCEPT
                           !.passed = RulesPass(o),
                           !.calm = Active = {} /\ \A p \in Orders : ~Outstanding(p)]]
    /\ UNCHANGED <<mode, orders, onExchange, updates, books, snapshots, portfolio, applied,
                   paperFills, raced, careful>>

\* create_preview_order stores the order with the verdict.
CommitPreview(s) ==
    /\ sessions[s].pc = "preview"
    /\ orders' = [orders EXCEPT ![sessions[s].order] =
                     IF sessions[s].passed THEN "pending_approval" ELSE "blocked"]
    /\ careful' = (careful /\ sessions[s].calm /\ Active = {s})
    /\ sessions' = [sessions EXCEPT ![s] = Idle]
    /\ UNCHANGED <<mode, onExchange, updates, books, snapshots, portfolio, applied,
                   paperFills, raced>>

\* The order is approved, executed in live mode and accepted by the exchange.
Place(o) ==
    /\ mode = "live"
    /\ orders[o] = "pending_approval"
    /\ orders' = [orders EXCEPT ![o] = "submitted"]
    /\ onExchange' = onExchange \cup {o}
    /\ UNCHANGED <<mode, updates, books, snapshots, portfolio, sessions, applied,
                   paperFills, raced, careful>>

-----------------------------------------------------------------------------
(* The exchange, and reconcile for what it reports: repeated, late or never. *)

Report(o, count, price) ==
    /\ Cardinality(updates) < MaxApplied
    /\ updates' = updates \cup
          {[order |-> o, nth |-> Cardinality(Reported(o)) + 1, count |-> count, price |-> price]}

\* One contract is filled at the limit price or better; the report may lack the price.
ExchangeFill(o) ==
    /\ o \in onExchange /\ Cardinality(Filled(o)) < CountOf[o]
    /\ \E price \in FillPrices \cup {0} :
        /\ PriceOf[o] # 0 => price <= PriceOf[o]
        /\ Report(o, 1, price)
    /\ UNCHANGED <<mode, orders, onExchange, books, snapshots, portfolio, sessions, applied,
                   paperFills, raced, careful>>

ExchangeCancel(o) ==
    /\ o \in onExchange /\ Cardinality(Filled(o)) < CountOf[o]
    /\ onExchange' = onExchange \ {o}
    /\ Report(o, 0, 0)
    /\ UNCHANGED <<mode, orders, books, snapshots, portfolio, sessions, applied, paperFills,
                   raced, careful>>

\* The open position of a market; scalar_one_or_none raises on a second one.
OnePosition(book, m) == Cardinality(OpenRows(book, m)) <= 1
WithPosition(session, book, m) ==
    IF OpenRows(book, m) = {} THEN session
    ELSE LET i == CHOOSE j \in OpenRows(book, m) : TRUE
         IN  [session EXCEPT !.row = i,
                             !.contracts = books[book][i].contracts,
                             !.exposure = books[book][i].exposure]

\* The rows with these columns of the session's position, a new one if it saw none.
\* A column whose value the session did not change is not in its UPDATE.
RowsWith(s, book, m, contracts, exposure) ==
    LET rows == books[book]
        i == sessions[s].row
    IN  IF i = 0
        THEN Append(rows, [market |-> m, contracts |-> contracts, exposure |-> exposure,
                           age |-> "open", lost |-> FALSE])
        ELSE [rows EXCEPT ![i].contracts = contracts,
                          ![i].exposure = IF exposure = sessions[s].exposure THEN @ ELSE exposure]

\* As if it added what the order asked for.
UpsertedByRequest(s, book, m, count, value) ==
    RowsWith(s, book, m, sessions[s].contracts + CountOf[sessions[s].order],
             sessions[s].exposure + value)

\* As if it wrote the row back as it was read, open.
UpsertedWhole(s, book, m, count, value) ==
    LET row == [market |-> m, contracts |-> sessions[s].contracts + count,
                exposure |-> sessions[s].exposure + value, age |-> "open", lost |-> FALSE]
    IN  IF sessions[s].row = 0 THEN Append(books[book], row)
        ELSE [books[book] EXCEPT ![sessions[s].row] = row]

\* Count contracts worth value are added to the columns the session read, and only
\* these columns are written.
Upserted(s, book, m, count, value) ==
    RowsWith(s, book, m, sessions[s].contracts + count, sessions[s].exposure + value)

\* What the session read of its position is no longer what is stored.
Overtaken(s, book, m) ==
    LET seen == sessions[s]
    IN  IF seen.row = 0 THEN OpenRows(book, m) # {}
        ELSE \/ books[book][seen.row].contracts # seen.contracts
             \/ books[book][seen.row].exposure # seen.exposure

CommitBook(s, book, m, count, value) ==
    /\ books' = [books EXCEPT ![book] = Upserted(s, book, m, count, value)]
    /\ raced' = IF Overtaken(s, book, m) THEN raced \cup {<<book, m>>} ELSE raced
    /\ sessions' = [sessions EXCEPT ![s] = Idle]

\* reconcile reads the order and the open position of its market.
BeginReconcile(s, u) ==
    LET m == MarketOf[u.order]
    IN  /\ CanBegin(s) /\ u \in updates
        /\ Cardinality(applied) + Cardinality({t \in Active : sessions[t].pc = "reconcile"}) < MaxApplied
        /\ OnePosition("live", m) \/ u.count = 0
        /\ sessions' = [sessions EXCEPT ![s] =
              IF u.count = 0 THEN [Reading("reconcile", u.order) EXCEPT !.update = u]
              ELSE WithPosition([Reading("reconcile", u.order) EXCEPT !.update = u], "live", m)]
        /\ UNCHANGED <<mode, orders, onExchange, updates, books, snapshots, portfolio, applied,
                       paperFills, raced, careful>>

\* It writes a fill into the position.
CommitReconcile(s) ==
    LET u == sessions[s].update
        m == MarketOf[u.order]
    IN  /\ sessions[s].pc = "reconcile"
        /\ IF u.count = 0
           THEN /\ sessions' = [sessions EXCEPT ![s] = Idle]
                /\ UNCHANGED <<books, raced>>
           ELSE CommitBook(s, "live", m, 1, u.price)
        /\ applied' = applied \cup {<<u, TimesApplied(u) + 1>>}
        /\ careful' = (careful /\ Active = {s} /\ u \notin Applied
                       /\ u.price * CountOf[u.order] <= Estimate(u.order))
        /\ UNCHANGED <<mode, orders, onExchange, updates, snapshots, portfolio, paperFills>>

\* mark_position_closed, an operation that no route or worker calls yet, as is
\* reconcile.
ClosePosition(i, lost) ==
    /\ i \in OpenLive
    /\ books' = [books EXCEPT !["live"][i].age = IF lost THEN "fresh" ELSE "old",
                              !["live"][i].lost = lost]
    /\ UNCHANGED <<mode, orders, onExchange, updates, snapshots, portfolio, sessions, applied,
                   paperFills, raced, careful>>

\* A closed position leaves the cooldown, then the day the drawdown looks at.
Age(i) ==
    /\ books["live"][i].age \in {"fresh", "today"}
    /\ books' = [books EXCEPT !["live"][i].age = IF @ = "fresh" THEN "today" ELSE "old"]
    /\ UNCHANGED <<mode, orders, onExchange, updates, snapshots, portfolio, sessions, applied,
                   paperFills, raced, careful>>

\* market-stream stores one more snapshot.
Observe(m, state) ==
    /\ Len(snapshots[m]) < MaxSnapshots
    /\ snapshots' = [snapshots EXCEPT ![m] = Append(@, state)]
    /\ UNCHANGED <<mode, orders, onExchange, updates, books, portfolio, sessions, applied,
                   paperFills, raced, careful>>

-----------------------------------------------------------------------------
(* Paper mode: PaperExecutionService.submit_order. *)

\* As if half a contract could be none.
FillCountOfHalf(o) ==
    IF \E i \in DOMAIN snapshots[MarketOf[o]] : snapshots[MarketOf[o]][i].liquidity = "thin"
    THEN CountOf[o] \div 2
    ELSE CountOf[o]

\* _fill_count: a snapshot of a thin market fills half, at least one contract.
FillCount(o) ==
    IF \E i \in DOMAIN snapshots[MarketOf[o]] : snapshots[MarketOf[o]][i].liquidity = "thin"
    THEN Larger(1, CountOf[o] \div 2)
    ELSE CountOf[o]

\* An order without a price is filled at the last one of the market, or at 50
\* (midpoint mode, the default).
PaperPrices(o) ==
    IF PriceOf[o] = 0 THEN (FillPrices \ {0}) \cup {DefaultPrice} ELSE {PriceOf[o]}

\* Whatever the order's status, it is read together with the only snapshot and
\* the open paper position of its market.  The order is written before the position
\* is read, and another execution of it waits for its row.
BeginPaper(s, o) ==
    /\ mode = "paper"
    /\ CanBegin(s) /\ orders[o] # "absent"
    /\ \A t \in Active : sessions[t].order # o
    /\ Len(paperFills) + Cardinality({t \in Active : sessions[t].pc # "preview"}) < MaxPaper
    /\ Len(snapshots[MarketOf[o]]) <= 1
    /\ OnePosition("paper", MarketOf[o])
    /\ \E price \in PaperPrices(o) :
          sessions' = [sessions EXCEPT ![s] =
                          [WithPosition(Reading("paper", o), "paper", MarketOf[o])
                              EXCEPT !.fill = FillCount(o), !.value = FillCount(o) * price]]
    /\ UNCHANGED <<mode, orders, onExchange, updates, books, snapshots, portfolio, applied,
                   paperFills, raced, careful>>

\* capture_portfolio_snapshot sums the open positions that are committed, and the
\* session's own as it has written it.
OpenPaper == {i \in DOMAIN books["paper"] : IsOpen(books["paper"][i])}
CapturedFirst(s) == TotalExposure(books["paper"])
Captured(s) ==
    ExposureOver(books["paper"], OpenPaper \ {sessions[s].row})
        + sessions[s].exposure + sessions[s].value

\* A row that another execution has written is locked until it commits.
RowIsFree(s) ==
    \A t \in Active : sessions[t].pc = "written" => sessions[t].row # sessions[s].row

\* The position is written, then the portfolio read, in a transaction whose rows
\* nobody else sees yet.
WritePaper(s) ==
    /\ sessions[s].pc = "paper"
    /\ sessions[s].row # 0 => RowIsFree(s)
    /\ sessions' = [sessions EXCEPT ![s].pc = "written", ![s].captured = Captured(s),
                                    ![s].stored = TotalExposure(books["paper"])]
    /\ UNCHANGED <<mode, orders, onExchange, updates, books, snapshots, portfolio, applied,
                   paperFills, raced, careful>>

\* The fill, the position and the snapshot of the portfolio are there for all.
CommitPaper(s) ==
    LET m == MarketOf[sessions[s].order]
        count == sessions[s].fill
    IN  /\ sessions[s].pc = "written"
        /\ paperFills' = Append(paperFills, [market |-> m, count |-> count])
        /\ CommitBook(s, "paper", m, count, sessions[s].value)
        /\ portfolio' = Append(portfolio,
              [exposure |-> sessions[s].captured,
               missed |-> TotalExposure(books["paper"]) - sessions[s].stored])
        /\ UNCHANGED <<mode, orders, onExchange, updates, snapshots, applied, careful>>

-----------------------------------------------------------------------------
LedgerInit ==
    /\ mode \in {"live", "paper"}
    /\ orders = [o \in Orders |-> "absent"]
    /\ onExchange = {}
    /\ updates = {}
    /\ books = [b \in Books |-> <<>>]
    /\ snapshots = [m \in Markets |-> <<>>]
    /\ portfolio = <<>>
    /\ sessions = [s \in Sessions |-> Idle]
    /\ applied = {}
    /\ paperFills = <<>>
    /\ raced = {}
    /\ careful = TRUE

LedgerSteps ==
    \/ \E s \in Sessions, o \in Orders : BeginPreview(s, o) \/ BeginPaper(s, o)
    \/ \E s \in Sessions : CommitPreview(s) \/ CommitReconcile(s)
    \/ \E s \in Sessions : WritePaper(s) \/ CommitPaper(s)
    \/ \E o \in Orders : Place(o) \/ ExchangeFill(o) \/ ExchangeCancel(o)
    \/ \E s \in Sessions, u \in updates : BeginReconcile(s, u)
    \/ \E i \in DOMAIN books["live"] :
          Age(i) \/ \E lost \in BOOLEAN : ClosePosition(i, lost)

LedgerNext == LedgerSteps \/ \E m \in Markets, state \in MarketStates : Observe(m, state)

LedgerSpec == LedgerInit /\ [][LedgerNext]_ledgerVars

-----------------------------------------------------------------------------
(* Properties. *)

\* Every variable holds rows of its kind, whatever the sessions race over.
LedgerTypeOK ==
    /\ mode \in {"live", "paper"}
    /\ orders \in [Orders -> ApprovalStatus]
    /\ onExchange \subseteq Orders
    /\ updates \subseteq Updates
    /\ books \in [Books -> Seq(Positions)]
    /\ snapshots \in [Markets -> Seq(MarketStates)]
    /\ portfolio \in Seq(PortfolioRows)
    /\ sessions \in [Sessions -> SessionStates]
    /\ applied \subseteq Updates \X (Nat \ {0})
    /\ paperFills \in Seq(PaperFills)
    /\ raced \subseteq Books \X Markets
    /\ careful \in BOOLEAN

AppliedFills(m) == {a \in applied : MarketOf[a[1].order] = m /\ a[1].count = 1}
PaperFilled(m) ==
    SumFunctionOnSet([i \in DOMAIN paperFills |-> paperFills[i].count], RowsOf(paperFills, m))

\* The positions of a market, open and closed, never hold more contracts than the
\* fills that were written into them (reconcile, _upsert_paper_position): a race
\* of two sessions can lose a fill, and without one the sums agree.
BooksMatchFills ==
    \A m \in Markets :
        /\ ContractsOver(books["live"], RowsOf(books["live"], m)) <= Cardinality(AppliedFills(m))
        /\ ContractsOver(books["paper"], RowsOf(books["paper"], m)) <= PaperFilled(m)
        /\ <<"live", m>> \notin raced =>
              ContractsOver(books["live"], RowsOf(books["live"], m)) = Cardinality(AppliedFills(m))
        /\ <<"paper", m>> \notin raced =>
              ContractsOver(books["paper"], RowsOf(books["paper"], m)) = PaperFilled(m)

\* A closed position stays closed with its result, although a session that read
\* it open may still commit a fill into it: the commit writes only the columns
\* the handler assigned, and the next fill opens another row.
ClosedStaysClosed ==
    [][\A i \in DOMAIN books["live"] :
          ~IsOpen(books["live"][i]) =>
              /\ ~IsOpen(books'["live"][i])
              /\ books'["live"][i].lost = books["live"][i].lost]_ledgerVars

\* As long as each order is previewed after the earlier ones are settled and each
\* report is reconciled once, at a price no higher than the preview counted with,
\* the open positions stay within the limits of risk/engine.py.
ExposureWithinLimits ==
    careful => /\ \A m \in Markets : MarketExposure(m) <= MarketLimit
               /\ Catalogued = {} => ExposureOver(books["live"], OpenLive) <= CategoryLimit
               /\ Cardinality(OpenLive) <= PositionLimit

\* The newest portfolio snapshot shows the paper positions as they are, but for
\* what executions of other positions committed after it was taken and before it
\* was stored: its own position is in it, and nobody else writes that one meanwhile
\* (paper/service.py: the position is written, the snapshot taken, then both are
\* committed).
PortfolioFollowsBooks ==
    portfolio # <<>> =>
        LET newest == portfolio[Len(portfolio)]
        IN  newest.exposure + newest.missed = TotalExposure(books["paper"])
=============================================================================
