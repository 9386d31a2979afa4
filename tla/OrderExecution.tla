--------------------------- MODULE OrderExecution ---------------------------
(***************************************************************************)
(* The order path of the execution engine as the API serves it: preview,   *)
(* approve, reject and execute requests running concurrently over one      *)
(* database, the kill switch and the execution mode they read, and the     *)
(* POSTs that the live path sends to the exchange.                         *)
(*                                                                         *)
(* Every request owns a database session.  A handler is split at each      *)
(* point where it awaits: the row it read stays in its session (`seen`)    *)
(* and is what the later checks look at and the later writes start from.   *)
(* Nothing locks or versions a row, so a commit overwrites whatever other  *)
(* requests committed in between, column by column (see Flush).            *)
(*                                                                         *)
(* A request is one-shot: Requests bounds how many a behaviour contains.   *)
(* A refusal that happens before anything is read into the session or      *)
(* written leaves every variable as it was and has no action.              *)
(***************************************************************************)
EXTENDS Naturals, FiniteSets

CONSTANTS
    Orders,             \* order previews; each has its own client_order_id
    Requests,           \* HTTP requests, each served once
    MaxAttempts,        \* max_retries + 1 of the Kalshi client
    MaxConcurrent,      \* how many requests are in progress at a time
    Environments,       \* settings a process may be started with
    ExchangeDedupes,    \* the exchange refuses a client_order_id it has seen
    NoOrder,            \* order of a session that has none
    NoPlacement         \* kalshi_order_id IS NULL

ASSUME OrdersAssumption == NoOrder \notin Orders
ASSUME AttemptsAssumption == MaxAttempts \in Nat \ {0}
ASSUME ConcurrencyAssumption == MaxConcurrent \in Nat
ASSUME DedupeAssumption == ExchangeDedupes \in BOOLEAN

VARIABLES
    orders,         \* OrderRecord row of each order
    audit,          \* ExecutionAuditRecord rows of each order
    paperOrders,    \* PaperOrderRecord rows (one fill each)
    killSwitch,     \* is_enabled of the global_trading control row
    modeRow,        \* reason column of the execution_mode control row
    settings,       \* environment of the running process
    sessions,       \* the request in progress in each session
    transit,        \* POSTs on their way to the exchange
    exchange        \* POSTs the exchange turned into orders

vars == <<orders, audit, paperOrders, killSwitch, modeRow, settings,
          sessions, transit, exchange>>

-----------------------------------------------------------------------------
(* Data *)

\* One POST /portfolio/orders; the exchange order it creates bears its name.
Placements == [req : Requests, order : Orders, attempt : 1..MaxAttempts]

ApprovalStatus ==
    {"proposed", "blocked", "pending_approval", "approved", "rejected",
     "submitted", "partially_filled", "filled", "canceled", "expired"}

\* The transition table of ApprovalWorkflow.
Allowed ==
    [s \in ApprovalStatus |->
        CASE s = "proposed" -> {"blocked", "pending_approval"}
          [] s = "blocked" -> {"rejected"}
          [] s = "pending_approval" -> {"approved", "rejected", "expired"}
          [] s = "approved" -> {"submitted", "canceled"}
          [] s = "submitted" -> {"partially_filled", "filled", "canceled"}
          [] s = "partially_filled" -> {"filled", "canceled"}
          [] OTHER -> {}]

ExecutionModes == {"disabled", "paper", "live"}

\* resolved: EXECUTION_MODE after resolved_execution_mode has checked the
\* confirmation flag; clientTrading: KALSHI_ENABLE_TRADING.
Settings == [resolved : ExecutionModes, clientTrading : BOOLEAN]

ASSUME EnvironmentsAssumption == Environments \subseteq Settings

LiveTradingEnabled == settings.resolved = "live"

\* enable_trading of the client's configuration.
ClientMayPost == settings.clientTrading /\ LiveTradingEnabled

Rows == [approval : ApprovalStatus \cup {"absent"},
         status : ApprovalStatus \cup {"absent"},
         kalshiId : Placements \cup {NoPlacement}]

Row(a) == [approval |-> a, status |-> a, kalshiId |-> NoPlacement]

NoRow == Row("absent")

\* (event_type, status) of the audit records that concern an order.
AuditEvents ==
    {"order_previewed", "order_approved", "order_rejected",
     "order_submitted", "paper_order_submitted"} \X ApprovalStatus

PaperOrderRows ==
    [req : Requests, order : Orders, status : {"filled", "partially_filled"}]

PCs == {"new", "previewing", "approving", "rejecting", "switch_read",
        "loaded", "paper", "posting", "awaiting", "accepted", "done"}

Sessions == [pc : PCs, order : Orders \cup {NoOrder}, seen : Rows,
             attempt : 0..MaxAttempts]

Session(pc, o, row) == [pc |-> pc, order |-> o, seen |-> row, attempt |-> 0]

Fresh == Session("new", NoOrder, NoRow)
Finished == Session("done", NoOrder, NoRow)

InProgress(r) == sessions[r].pc \notin {"new", "done"}

\* The POST that session r is sending or waiting for.
PlacementOf(r) ==
    [req |-> r, order |-> sessions[r].order, attempt |-> sessions[r].attempt]

\* The unit of work issues UPDATEs for the columns the handler changed with
\* respect to the values it had loaded, and for no other column.
Flush(stored, seen, edited) ==
    [approval |-> IF edited.approval = seen.approval
                  THEN stored.approval ELSE edited.approval,
     status   |-> IF edited.status = seen.status
                  THEN stored.status ELSE edited.status,
     kalshiId |-> IF edited.kalshiId = seen.kalshiId
                  THEN stored.kalshiId ELSE edited.kalshiId]

\* ApprovalWorkflow.transition sets both status columns of the loaded row.
Transitioned(row, target) ==
    [row EXCEPT !.approval = target, !.status = target]

-----------------------------------------------------------------------------
(* Requests *)

\* Environment: at most MaxConcurrent requests are in progress.
CanBegin(r) ==
    /\ sessions[r].pc = "new"
    /\ Cardinality({q \in Requests : InProgress(q)}) < MaxConcurrent

Begin(r, session) ==
    /\ CanBegin(r)
    /\ sessions' = [sessions EXCEPT ![r] = session]

Finish(r) == sessions' = [sessions EXCEPT ![r] = Finished]

Record(o, event, status) ==
    audit' = [audit EXCEPT ![o] = @ \cup {<<event, status>>}]

Write(r, edited) ==
    orders' = [orders EXCEPT ![sessions[r].order] =
                    Flush(@, sessions[r].seen, edited)]

\* Risk evaluation of a new preview.  The verdict of the other rules is
\* open here, but an engaged kill switch always blocks.
BeginPreview(r, o) ==
    /\ orders[o] = NoRow
    /\ \A q \in Requests : sessions[q].order # o
    /\ \E passed \in BOOLEAN :
        /\ passed => killSwitch
        /\ Begin(r, Session("previewing", o,
                            Row(IF passed THEN "pending_approval"
                                          ELSE "blocked")))
    /\ UNCHANGED <<orders, audit, paperOrders, killSwitch, modeRow, settings,
                   transit, exchange>>

CommitPreview(r) ==
    LET o == sessions[r].order
    IN  /\ sessions[r].pc = "previewing"
        /\ orders' = [orders EXCEPT ![o] = sessions[r].seen]
        /\ Record(o, "order_previewed", sessions[r].seen.approval)
        /\ Finish(r)
        /\ UNCHANGED <<paperOrders, killSwitch, modeRow, settings, transit,
                       exchange>>

BeginApprove(r, o) ==
    /\ orders[o].approval = "pending_approval"
    /\ Begin(r, Session("approving", o, orders[o]))
    /\ UNCHANGED <<orders, audit, paperOrders, killSwitch, modeRow, settings,
                   transit, exchange>>

\* The transition is validated on the loaded row, then written blindly.
CommitApprove(r) ==
    /\ sessions[r].pc = "approving"
    /\ "approved" \in Allowed[sessions[r].seen.approval]
    /\ Write(r, Transitioned(sessions[r].seen, "approved"))
    /\ Record(sessions[r].order, "order_approved", "approved")
    /\ Finish(r)
    /\ UNCHANGED <<paperOrders, killSwitch, modeRow, settings, transit,
                   exchange>>

BeginReject(r, o) ==
    /\ orders[o].approval \in {"pending_approval", "blocked"}
    /\ Begin(r, Session("rejecting", o, orders[o]))
    /\ UNCHANGED <<orders, audit, paperOrders, killSwitch, modeRow, settings,
                   transit, exchange>>

CommitReject(r) ==
    /\ sessions[r].pc = "rejecting"
    /\ "rejected" \in Allowed[sessions[r].seen.approval]
    /\ Write(r, Transitioned(sessions[r].seen, "rejected"))
    /\ Record(sessions[r].order, "order_rejected", "rejected")
    /\ Finish(r)
    /\ UNCHANGED <<paperOrders, killSwitch, modeRow, settings, transit,
                   exchange>>

\* execute_order: the kill switch is read first, and never again.
BeginExecute(r, o) ==
    /\ killSwitch
    /\ Begin(r, Session("switch_read", o, NoRow))
    /\ UNCHANGED <<orders, audit, paperOrders, killSwitch, modeRow, settings,
                   transit, exchange>>

LoadOrder(r) ==
    LET o == sessions[r].order
    IN  /\ sessions[r].pc = "switch_read"
        /\ IF orders[o] = NoRow
           THEN Finish(r)
           ELSE sessions' = [sessions EXCEPT ![r] =
                                Session("loaded", o, orders[o])]
        /\ UNCHANGED <<orders, audit, paperOrders, killSwitch, modeRow,
                       settings, transit, exchange>>

\* Variant: settings take precedence over the control row.
SettingsFirst ==
    IF settings.resolved = "live" \/ modeRow = "absent"
    THEN settings.resolved ELSE modeRow

\* get_execution_mode: the control row outlives the settings it came from.
EffectiveMode == IF modeRow = "absent" THEN settings.resolved ELSE modeRow

\* Variants of the checks with one missing or too weak.
WithoutApproval(row) == ClientMayPost

UnlessDecided(row) ==
    ClientMayPost /\ row.approval \in {"pending_approval", "approved"}

TrustingMode(row) == row.approval = "approved"

\* OrderService.submit, then place_order: three checks before the first POST,
\* the approval being that of the loaded row.
MayPost(row) ==
    /\ LiveTradingEnabled
    /\ row.approval = "approved"
    /\ ClientMayPost

\* Where execute_order goes once it knows the mode.  The paper branch does
\* not look at the row.
Route(mode, row) ==
    IF mode = "paper" THEN "paper"
    ELSE IF mode = "live" /\ MayPost(row) THEN "posting"
    ELSE "done"

ReadMode(r) ==
    LET next == Route(EffectiveMode, sessions[r].seen)
    IN  /\ sessions[r].pc = "loaded"
        /\ modeRow' = EffectiveMode
        /\ IF next = "done"
           THEN Finish(r)
           ELSE sessions' = [sessions EXCEPT ![r].pc = next]
        /\ UNCHANGED <<orders, audit, paperOrders, killSwitch, settings,
                       transit, exchange>>

\* Variant: the simulated fill is written to approval_status as well.
CommitPaperAsTransition(r) ==
    LET o == sessions[r].order
    IN  /\ sessions[r].pc = "paper"
        /\ \E fill \in {"filled", "partially_filled"} :
            /\ Write(r, Transitioned(sessions[r].seen, fill))
            /\ Record(o, "paper_order_submitted", fill)
            /\ paperOrders' = paperOrders \cup
                    {[req |-> r, order |-> o, status |-> fill]}
        /\ Finish(r)
        /\ UNCHANGED <<killSwitch, modeRow, settings, transit, exchange>>

\* PaperExecutionService.submit_order: complete or partial simulated fill.
\* The approval columns are neither read nor written.
CommitPaper(r) ==
    LET o == sessions[r].order
    IN  /\ sessions[r].pc = "paper"
        /\ \E fill \in {"filled", "partially_filled"} :
            /\ Write(r, [sessions[r].seen EXCEPT !.status = fill,
                                                 !.kalshiId = NoPlacement])
            /\ Record(o, "paper_order_submitted", fill)
            /\ paperOrders' = paperOrders \cup
                    {[req |-> r, order |-> o, status |-> fill]}
        /\ Finish(r)
        /\ UNCHANGED <<killSwitch, modeRow, settings, transit, exchange>>

-----------------------------------------------------------------------------
(* The live path: POST with retries, then the commit *)

\* One attempt of the retry loop in KalshiRestClient._request.
Post(r) ==
    LET attempt == sessions[r].attempt + 1
    IN  /\ sessions[r].pc = "posting"
        /\ sessions' = [sessions EXCEPT ![r].pc = "awaiting",
                                        ![r].attempt = attempt]
        /\ transit' = transit \cup {[PlacementOf(r) EXCEPT !.attempt = attempt]}
        /\ UNCHANGED <<orders, audit, paperOrders, killSwitch, modeRow,
                       settings, exchange>>

\* The session still waits for the answer to this very attempt.
Awaited(p) == sessions[p.req].pc = "awaiting" /\ PlacementOf(p.req) = p

\* A POST reaches the exchange, maybe after its sender gave up on it.
ExchangeAccept(p) ==
    /\ p \in transit
    /\ ExchangeDedupes => \A q \in exchange : q.order # p.order
    /\ transit' = transit \ {p}
    /\ exchange' = exchange \cup {p}
    /\ sessions' = IF Awaited(p)
                   THEN [sessions EXCEPT ![p.req].pc = "accepted"]
                   ELSE sessions
    /\ UNCHANGED <<orders, audit, paperOrders, killSwitch, modeRow, settings>>

\* Variant: an error status is taken for the answer to the order.
RefusalTakenAsAnswer(p) ==
    /\ p \in transit
    /\ transit' = transit \ {p}
    /\ sessions' = IF Awaited(p)
                   THEN [sessions EXCEPT ![p.req].pc = "accepted"]
                   ELSE sessions
    /\ UNCHANGED <<orders, audit, paperOrders, killSwitch, modeRow, settings,
                   exchange>>

\* An error status ends the request: it is raised, and not retried.
ExchangeRefuse(p) ==
    /\ p \in transit
    /\ transit' = transit \ {p}
    /\ IF Awaited(p) THEN Finish(p.req) ELSE UNCHANGED sessions
    /\ UNCHANGED <<orders, audit, paperOrders, killSwitch, modeRow, settings,
                   exchange>>

\* A POST, or a refusal on its way back, is lost.
LosePost(p) ==
    /\ p \in transit
    /\ transit' = transit \ {p}
    /\ UNCHANGED <<orders, audit, paperOrders, killSwitch, modeRow, settings,
                   sessions, exchange>>

\* Variants: the retry loop lost its stop condition, or its counter.
TimeoutAlwaysRetries(r) ==
    /\ sessions[r].pc \in {"awaiting", "accepted"}
    /\ sessions' = [sessions EXCEPT ![r].pc = "posting"]
    /\ UNCHANGED <<orders, audit, paperOrders, killSwitch, modeRow, settings,
                   transit, exchange>>

TimeoutStartsOver(r) ==
    /\ sessions[r].pc \in {"awaiting", "accepted"}
    /\ sessions' = [sessions EXCEPT ![r].pc = "posting", ![r].attempt = 0]
    /\ UNCHANGED <<orders, audit, paperOrders, killSwitch, modeRow, settings,
                   transit, exchange>>

\* TimeoutException or NetworkError, possibly with the answer on its way.
Timeout(r) ==
    /\ sessions[r].pc \in {"awaiting", "accepted"}
    /\ IF sessions[r].attempt < MaxAttempts
       THEN sessions' = [sessions EXCEPT ![r].pc = "posting"]
       ELSE Finish(r)
    /\ UNCHANGED <<orders, audit, paperOrders, killSwitch, modeRow, settings,
                   transit, exchange>>

\* The answer arrived: transition, order id and audit in one commit.
CommitSubmit(r) ==
    LET row == sessions[r].seen
    IN  /\ sessions[r].pc = "accepted"
        /\ "submitted" \in Allowed[row.approval]
        /\ Write(r, [Transitioned(row, "submitted")
                        EXCEPT !.kalshiId = PlacementOf(r)])
        /\ Record(sessions[r].order, "order_submitted", "submitted")
        /\ Finish(r)
        /\ UNCHANGED <<paperOrders, killSwitch, modeRow, settings, transit,
                       exchange>>

-----------------------------------------------------------------------------
(* Operators, failures and restarts *)

SetKillSwitch(enabled) ==
    /\ killSwitch' = enabled
    /\ UNCHANGED <<orders, audit, paperOrders, modeRow, settings, sessions,
                   transit, exchange>>

\* The routes offer "paper" and "disabled" only.
SetExecutionMode(mode) ==
    /\ modeRow' = mode
    /\ UNCHANGED <<orders, audit, paperOrders, killSwitch, settings, sessions,
                   transit, exchange>>

\* GET /paper/status resolves the mode too, and commits the row it creates.
ShowStatus ==
    /\ modeRow' = EffectiveMode
    /\ UNCHANGED <<orders, audit, paperOrders, killSwitch, settings, sessions,
                   transit, exchange>>

\* An exception before the commit (database, cancellation) rolls back.
Abort(r) ==
    /\ InProgress(r)
    /\ Finish(r)
    /\ UNCHANGED <<orders, audit, paperOrders, killSwitch, modeRow, settings,
                   transit, exchange>>

\* The process dies with its sessions and comes back under other settings;
\* the database, and the POSTs already sent, stay.
Restart ==
    /\ settings' \in Environments
    /\ sessions' = [r \in Requests |->
                        IF InProgress(r) THEN Finished ELSE sessions[r]]
    /\ UNCHANGED <<orders, audit, paperOrders, killSwitch, modeRow, transit,
                   exchange>>

Init ==
    /\ orders = [o \in Orders |-> NoRow]
    /\ audit = [o \in Orders |-> {}]
    /\ paperOrders = {}
    /\ killSwitch = TRUE
    /\ modeRow = "absent"
    /\ settings \in Environments
    /\ sessions = [r \in Requests |-> Fresh]
    /\ transit = {}
    /\ exchange = {}

\* The steps a handler takes by itself once its request has begun.
Progress(r) ==
    \/ CommitPreview(r)
    \/ CommitApprove(r)
    \/ CommitReject(r)
    \/ LoadOrder(r)
    \/ ReadMode(r)
    \/ CommitPaper(r)
    \/ Post(r)
    \/ Timeout(r)
    \/ CommitSubmit(r)

Arrive(r, o) ==
    \/ BeginPreview(r, o)
    \/ BeginApprove(r, o)
    \/ BeginReject(r, o)
    \/ BeginExecute(r, o)

Network(p) == ExchangeAccept(p) \/ ExchangeRefuse(p) \/ LosePost(p)

Next ==
    \/ \E r \in Requests, o \in Orders : Arrive(r, o)
    \/ \E r \in Requests : Progress(r) \/ Abort(r)
    \/ \E p \in transit : Network(p)
    \/ \E enabled \in BOOLEAN : SetKillSwitch(enabled)
    \/ \E mode \in {"paper", "disabled"} : SetExecutionMode(mode)
    \/ ShowStatus
    \/ Restart

Spec == Init /\ [][Next]_vars

\* Handlers run on: every await returns or times out.  Neither the users
\* nor the network owe the system anything.
FairSpec == Spec /\ \A r \in Requests : WF_vars(Progress(r))

-----------------------------------------------------------------------------
(* Properties *)

TypeOK ==
    /\ orders \in [Orders -> Rows]
    /\ audit \in [Orders -> SUBSET AuditEvents]
    /\ paperOrders \subseteq PaperOrderRows
    /\ killSwitch \in BOOLEAN
    /\ modeRow \in ExecutionModes \cup {"absent"}
    /\ settings \in Settings
    /\ sessions \in [Requests -> Sessions]
    /\ transit \subseteq Placements
    /\ exchange \subseteq Placements

WasPreviewed(o) == <<"order_previewed", "pending_approval">> \in audit[o]
WasBlocked(o) == <<"order_previewed", "blocked">> \in audit[o]
WasApproved(o) == <<"order_approved", "approved">> \in audit[o]
WasSubmitted(o) == <<"order_submitted", "submitted">> \in audit[o]
HasExchangeOrder(o) == \E p \in exchange : p.order = o

\* Nothing is sent to the exchange, let alone accepted by it, for an order
\* whose screening did not pass or that nobody approved: the trail of the
\* approval is on record before the first POST, however requests interleave.
PlacedOnlyAfterApproval ==
    \A p \in transit \cup exchange : WasPreviewed(p.order) /\ WasApproved(p.order)

\* The database never claims a live submission that did not happen: a
\* submitted order, and one whose audit trail says so, is at the exchange,
\* and a recorded kalshi_order_id is one the exchange issued for that order.
SubmissionIsBacked ==
    \A o \in Orders :
        /\ orders[o].approval = "submitted" \/ WasSubmitted(o)
                => HasExchangeOrder(o)
        /\ orders[o].kalshiId # NoPlacement
                => /\ orders[o].kalshiId \in exchange
                   /\ orders[o].kalshiId.order = o

\* A process whose settings do not enable live trading in all three ways
\* sends nothing, even when a live process left its mode row behind and a
\* restart changed the settings under requests in progress.
LiveOnlyPosts ==
    [][\A p \in transit' \ transit : ClientMayPost]_vars

Overridden == modeRow \in {"paper", "disabled"}

\* After an operator has chosen paper or disabled, a request that starts
\* from reading the mode never reaches the live path, whatever restarts and
\* settings come later: the override has no way back to live.
OverrideOutlivesRestarts ==
    [][Overridden => /\ Overridden'
                     /\ \A r \in Requests : sessions[r].pc = "loaded"
                            => sessions'[r].pc # "posting"]_vars

\* The gate that the audit trail of an order shows.
Stage ==
    [o \in Orders |->
        IF WasApproved(o) THEN "cleared"
        ELSE IF WasPreviewed(o) THEN "awaiting"
        ELSE IF WasBlocked(o) THEN "screened_out"
        ELSE "none"]

Gate == INSTANCE ApprovalGate WITH stage <- Stage

\* The order path implements the approval gate under full concurrency: one
\* screening per order, approval only after it passed, placement only after
\* approval.
ImplementsGate == Gate!Spec

\* Every step of approval_status follows the table of ApprovalWorkflow.
LifecycleFollowsTable ==
    [][\A o \in Orders :
        LET from == orders[o].approval
            to == orders'[o].approval
        IN  from # to => IF from = "absent"
                         THEN to \in Allowed["proposed"]
                         ELSE to \in Allowed[from]]_vars

\* A POST leaves only while the order row says approved.
ApprovedAtPost ==
    [][\A p \in transit' \ transit : orders[p.order].approval = "approved"]_vars

\* Whatever the exchange holds is sooner or later recorded on the order.
EventuallyRecorded ==
    \A o \in Orders : HasExchangeOrder(o) ~> WasSubmitted(o)

\* Every request that starts comes to an end: retries are bounded and no
\* handler waits for another.
RequestsEnd ==
    \A r \in Requests : InProgress(r) ~> ~InProgress(r)

-----------------------------------------------------------------------------
(* Inductive strengthening *)

\* What an approval status of order o, stored or loaded, says of the trail.
Trail(o, approval) ==
    /\ approval = "pending_approval" => WasPreviewed(o)
    /\ approval \in {"approved", "submitted"}
            => WasPreviewed(o) /\ WasApproved(o)
    /\ approval = "submitted" => HasExchangeOrder(o)

\* Rows and exchange orders are never ahead of the audit trail, and an order
\* whose row does not exist yet has none.
RowsTrail ==
    \A o \in Orders :
        /\ Trail(o, orders[o].approval)
        /\ orders[o].approval = "absent" => Stage[o] = "none"

\* What session r holds between two steps of its handler.
SessionTrail(r) ==
    LET s == sessions[r]
    IN  /\ s.pc \notin {"new", "done"} => s.order \in Orders
        /\ s.pc = "previewing"
                => /\ Stage[s.order] = "none"
                   /\ s.seen \in {Row("pending_approval"), Row("blocked")}
        /\ s.pc \notin {"new", "done", "previewing"}
                => Trail(s.order, s.seen.approval)
        /\ s.pc = "approving" => s.seen.approval = "pending_approval"
        /\ s.pc = "rejecting"
                => s.seen.approval \in {"pending_approval", "blocked"}
        /\ s.pc \in {"posting", "awaiting", "accepted"}
                => s.seen.approval = "approved"
        /\ s.pc = "loaded" => s.attempt = 0
        /\ s.pc = "posting" => s.attempt < MaxAttempts
        /\ s.pc \in {"awaiting", "accepted"} => s.attempt > 0
        /\ s.pc = "accepted" => PlacementOf(r) \in exchange

\* The uuid of a preview in the making belongs to one request.
PreviewsDisjoint ==
    \A r, q \in Requests :
        /\ sessions[r].pc = "previewing"
        /\ sessions[q].pc = "previewing"
        /\ sessions[r].order = sessions[q].order
        => r = q

IInv ==
    /\ TypeOK
    /\ RowsTrail
    /\ \A r \in Requests : SessionTrail(r)
    /\ PreviewsDisjoint
    /\ PlacedOnlyAfterApproval
    /\ SubmissionIsBacked

\* A request on its way to the exchange belongs to a process that may post:
\* settings change only in a restart, which ends it.
PostersMayPost ==
    \A r \in Requests :
        sessions[r].pc \in {"posting", "awaiting", "accepted"} => ClientMayPost
=============================================================================
