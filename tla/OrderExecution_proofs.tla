----------------------- MODULE OrderExecution_proofs -----------------------
EXTENDS OrderExecution, FiniteSetTheorems, TLAPS

\* A flush writes the columns that were edited and no other.
LEMMA FlushedRow ==
    ASSUME NEW stored \in Rows, NEW seen \in Rows, NEW edited \in Rows
    PROVE  /\ Flush(stored, seen, edited) \in Rows
           /\ Flush(stored, seen, edited).approval =
                IF edited.approval = seen.approval
                THEN stored.approval ELSE edited.approval
           /\ Flush(stored, seen, edited).kalshiId =
                IF edited.kalshiId = seen.kalshiId
                THEN stored.kalshiId ELSE edited.kalshiId
BY DEF Rows, Flush

\* A row made of one status.
LEMMA RowType ==
    ASSUME NEW a \in ApprovalStatus \cup {"absent"}
    PROVE  Row(a) \in Rows /\ Row(a).approval = a
BY DEF Rows, Row

\* A transition sets the status and keeps the id of the exchange.
LEMMA TransitionedRow ==
    ASSUME NEW row \in Rows, NEW a \in ApprovalStatus
    PROVE  /\ Transitioned(row, a) \in Rows
           /\ Transitioned(row, a).approval = a
           /\ Transitioned(row, a).kalshiId = row.kalshiId
BY DEF Rows, Transitioned

\* The inductive invariant holds at the start: no order, no session, no trail.
THEOREM InitIInv == Init => IInv
<1> SUFFICES ASSUME Init PROVE IInv
    OBVIOUS
<1>1. NoRow \in Rows /\ NoRow.approval = "absent" /\ NoRow.kalshiId = NoPlacement
    BY DEF NoRow, Row, Rows
<1>2. Fresh \in Sessions /\ Fresh.pc = "new"
    BY <1>1, AttemptsAssumption DEF Fresh, Session, Sessions, PCs
<1>3. TypeOK
    BY <1>1, <1>2, EnvironmentsAssumption DEF Init, TypeOK, ExecutionModes
<1>4. Stage = [o \in Orders |-> "none"]
    BY DEF Init, Stage, WasApproved, WasPreviewed, WasBlocked
<1>5. RowsTrail
    BY <1>1, <1>4 DEF Init, RowsTrail, Trail
<1>6. (\A r \in Requests : SessionTrail(r)) /\ PreviewsDisjoint
    BY <1>2 DEF Init, SessionTrail, PreviewsDisjoint
<1>7. PlacedOnlyAfterApproval
    BY DEF Init, PlacedOnlyAfterApproval
<1>8. SubmissionIsBacked
    BY <1>1 DEF Init, SubmissionIsBacked, WasSubmitted
<1> QED
    BY <1>3, <1>5, <1>6, <1>7, <1>8 DEF IInv

-----------------------------------------------------------------------------
(* What every step keeps *)

\* The session of a request that is over.
LEMMA FinishedType == Finished \in Sessions /\ Finished.pc = "done"
BY RowType, AttemptsAssumption DEF Finished, Session, Sessions, NoRow, PCs

\* The session of a request that has just begun.
LEMMA SessionType ==
    ASSUME NEW pc \in PCs, NEW o \in Orders \cup {NoOrder}, NEW row \in Rows
    PROVE  /\ Session(pc, o, row) \in Sessions
           /\ Session(pc, o, row).pc = pc
           /\ Session(pc, o, row).order = o
           /\ Session(pc, o, row).seen = row
           /\ Session(pc, o, row).attempt = 0
BY AttemptsAssumption DEF Session, Sessions

\* A trail that only grows keeps what it shows.
LEMMA TrailKept ==
    ASSUME NEW o, NEW a, Trail(o, a),
           audit[o] \subseteq audit'[o], exchange \subseteq exchange'
    PROVE  Trail(o, a)'
BY DEF Trail, WasPreviewed, WasApproved, HasExchangeOrder

\* What a session relies on outlives the steps of the others.
LEMMA SessionKept ==
    ASSUME NEW r \in Requests, SessionTrail(r), sessions'[r] = sessions[r],
           \A o \in Orders : audit[o] \subseteq audit'[o],
           exchange \subseteq exchange',
           sessions[r].pc = "previewing"
                => Stage'[sessions[r].order] = Stage[sessions[r].order]
    PROVE  SessionTrail(r)'
BY TrailKept DEF SessionTrail, PlacementOf

\* A request that is over relies on nothing.
LEMMA SessionFinished ==
    ASSUME NEW r \in Requests, sessions'[r] = Finished
    PROVE  SessionTrail(r)'
BY FinishedType DEF SessionTrail

\* A step that leaves the database rows and their trail alone.
LEMMA QuietStep ==
    ASSUME IInv, UNCHANGED <<orders, audit>>, exchange \subseteq exchange', TypeOK',
           \A r \in Requests : \/ sessions'[r] \in {sessions[r], Finished}
                               \/ SessionTrail(r)',
           PreviewsDisjoint',
           \A p \in (transit' \cup exchange') \ (transit \cup exchange) :
                WasPreviewed(p.order) /\ WasApproved(p.order)
    PROVE  IInv'
<1>1. Stage' = Stage
    BY DEF Stage, WasPreviewed, WasApproved, WasBlocked
<1>2. RowsTrail'
    BY <1>1 DEF IInv, RowsTrail, Trail, WasPreviewed, WasApproved, HasExchangeOrder
<1>3. \A r \in Requests : SessionTrail(r)'
    BY <1>1, SessionKept, SessionFinished DEF IInv
<1>4. PlacedOnlyAfterApproval'
    BY DEF IInv, PlacedOnlyAfterApproval, WasPreviewed, WasApproved
<1>5. SubmissionIsBacked'
    BY DEF IInv, SubmissionIsBacked, WasSubmitted, HasExchangeOrder
<1> QED
    BY <1>2, <1>3, <1>4, <1>5 DEF IInv

\* The end of a request, in terms of the sessions.
LEMMA FinishTyped ==
    ASSUME TypeOK, NEW r \in Requests, Finish(r)
    PROVE  /\ sessions' \in [Requests -> Sessions]
           /\ sessions'[r] = Finished
           /\ \A q \in Requests : q # r => sessions'[q] = sessions[q]
           /\ PreviewsDisjoint => PreviewsDisjoint'
<1>1. /\ sessions' \in [Requests -> Sessions]
      /\ sessions'[r] = Finished
      /\ \A q \in Requests : q # r => sessions'[q] = sessions[q]
    BY FinishedType DEF TypeOK, Finish
<1>2. PreviewsDisjoint => PreviewsDisjoint'
    BY <1>1, FinishedType DEF PreviewsDisjoint
<1> QED
    BY <1>1, <1>2

-----------------------------------------------------------------------------
(* Steps that leave orders, audit and exchange alone *)

\* The start of a request, in terms of the sessions.
LEMMA BeginTyped ==
    ASSUME TypeOK, NEW r \in Requests, NEW s \in Sessions, Begin(r, s)
    PROVE  /\ sessions' \in [Requests -> Sessions]
           /\ sessions[r].pc = "new"
           /\ sessions'[r] = s
           /\ \A q \in Requests : q # r => sessions'[q] = sessions[q]
BY DEF TypeOK, Begin, CanBegin

\* A preview that begins has an order of its own.
LEMMA BeginPreviewKeeps ==
    ASSUME IInv, NEW r \in Requests, NEW o \in Orders, BeginPreview(r, o)
    PROVE  IInv'
<1>1. PICK passed \in BOOLEAN :
            Begin(r, Session("previewing", o,
                        Row(IF passed THEN "pending_approval" ELSE "blocked")))
    BY DEF BeginPreview
<1> DEFINE row == Row(IF passed THEN "pending_approval" ELSE "blocked")
           s == Session("previewing", o, row)
<1>2. row \in Rows /\ row \in {Row("pending_approval"), Row("blocked")}
    BY RowType DEF ApprovalStatus
<1>3. s \in Sessions /\ s.pc = "previewing" /\ s.order = o /\ s.seen = row
    BY <1>2, SessionType DEF PCs
<1>4. /\ sessions' \in [Requests -> Sessions]
      /\ sessions'[r] = s
      /\ \A q \in Requests : q # r => sessions'[q] = sessions[q]
    BY <1>1, <1>3, BeginTyped DEF IInv
<1>5. Stage'[o] = "none"
    BY RowType DEF BeginPreview, NoRow, IInv, RowsTrail, ApprovalStatus, Stage,
        WasPreviewed, WasApproved, WasBlocked
<1>6. SessionTrail(r)'
    BY <1>2, <1>3, <1>4, <1>5 DEF SessionTrail
<1>7. PreviewsDisjoint'
    BY <1>3, <1>4 DEF IInv, PreviewsDisjoint, BeginPreview
<1>8. TypeOK'
    BY <1>4 DEF IInv, TypeOK, BeginPreview
<1> QED
    BY <1>4, <1>6, <1>7, <1>8, QuietStep DEF BeginPreview

\* A request that starts, or goes on, with the row it has just loaded.
LEMMA LoadedKeeps ==
    ASSUME IInv, NEW r \in Requests, NEW o \in Orders,
           NEW pc \in {"approving", "rejecting", "switch_read", "loaded"},
           NEW row \in {NoRow, orders[o]},
           sessions' = [sessions EXCEPT ![r] = Session(pc, o, row)],
           pc = "approving" => row.approval = "pending_approval",
           pc = "rejecting" => row.approval \in {"pending_approval", "blocked"},
           UNCHANGED <<orders, audit, paperOrders, killSwitch, modeRow,
                       settings, transit, exchange>>
    PROVE  IInv'
<1>1. row \in Rows /\ orders[o] \in Rows /\ NoRow.approval = "absent"
    BY RowType DEF IInv, TypeOK, NoRow
<1> DEFINE s == Session(pc, o, row)
<1>2. /\ s \in Sessions /\ s.pc = pc /\ s.order = o /\ s.seen = row
      /\ s.attempt = 0
    BY <1>1, SessionType DEF PCs
<1>3. Trail(o, row.approval)
    BY <1>1 DEF IInv, RowsTrail, Trail
<1>4. Trail(o, row.approval)'
    BY <1>3, TrailKept
<1>5. sessions'[r] = s /\ \A q \in Requests : q # r => sessions'[q] = sessions[q]
    BY DEF IInv, TypeOK
<1>6. SessionTrail(r)'
    BY <1>2, <1>4, <1>5 DEF SessionTrail
<1>7. PreviewsDisjoint'
    BY <1>2, <1>5 DEF IInv, PreviewsDisjoint
<1>8. TypeOK'
    BY <1>2 DEF IInv, TypeOK
<1> QED
    BY <1>5, <1>6, <1>7, <1>8, QuietStep

\* A request that ends without a commit changes nothing that matters.
LEMMA FinishKeeps ==
    ASSUME IInv, NEW r \in Requests, Finish(r), transit' \subseteq transit,
           UNCHANGED <<orders, audit, paperOrders, killSwitch, settings, exchange>>,
           modeRow' \in ExecutionModes \cup {"absent"}
    PROVE  IInv'
<1>1. TypeOK' /\ PreviewsDisjoint'
    BY FinishTyped DEF IInv, TypeOK
<1> QED
    BY <1>1, FinishTyped, QuietStep DEF IInv

\* The mode that a handler reads is one of the three.
LEMMA EffectiveModeType ==
    ASSUME TypeOK
    PROVE  EffectiveMode \in ExecutionModes
BY DEF TypeOK, EffectiveMode, Settings

\* A loaded row has the trail of the stored one.
LEMMA LoadOrderKeeps ==
    ASSUME IInv, NEW r \in Requests, LoadOrder(r)
    PROVE  IInv'
<1>1. sessions[r].order \in Orders
    BY DEF IInv, SessionTrail, LoadOrder
<1>2. CASE orders[sessions[r].order] = NoRow
    BY <1>2, FinishKeeps DEF LoadOrder, IInv, TypeOK
<1>3. CASE orders[sessions[r].order] # NoRow
    BY <1>1, <1>3, LoadedKeeps DEF LoadOrder
<1> QED
    BY <1>2, <1>3

\* A session that moves on with the row it holds, towards the exchange or
\* into the paper simulation.
LEMMA MovedKeeps ==
    ASSUME IInv, NEW r \in Requests, NEW pc \in {"paper", "posting", "awaiting", "accepted"},
           NEW n \in 0..MaxAttempts,
           sessions[r].pc \in {"loaded", "posting", "awaiting", "accepted"},
           \/ /\ n = sessions[r].attempt
              /\ sessions' = [sessions EXCEPT ![r].pc = pc]
           \/ sessions' = [sessions EXCEPT ![r].pc = pc, ![r].attempt = n],
           pc # "paper" => sessions[r].seen.approval = "approved",
           pc = "posting" => n < MaxAttempts,
           pc \in {"awaiting", "accepted"} => n > 0,
           pc = "accepted" => PlacementOf(r)' \in exchange',
           \A o \in Orders : audit[o] \subseteq audit'[o],
           exchange \subseteq exchange'
    PROVE  /\ sessions' \in [Requests -> Sessions]
           /\ sessions'[r].order = sessions[r].order
           /\ sessions'[r].attempt = n
           /\ \A q \in Requests : q # r => sessions'[q] = sessions[q]
           /\ SessionTrail(r)'
           /\ PreviewsDisjoint'
<1> DEFINE s == sessions[r]
<1>1. s \in Sessions /\ s.order \in Orders /\ Trail(s.order, s.seen.approval)
    BY DEF IInv, TypeOK, SessionTrail
<1>2. /\ sessions'[r] \in Sessions
      /\ sessions'[r].pc = pc
      /\ sessions'[r].order = s.order
      /\ sessions'[r].seen = s.seen
      /\ sessions'[r].attempt = n
      /\ \A q \in Requests : q # r => sessions'[q] = sessions[q]
    BY <1>1 DEF IInv, TypeOK, Sessions, PCs
<1>3. sessions' \in [Requests -> Sessions]
    BY <1>2 DEF IInv, TypeOK
<1>4. Trail(s.order, s.seen.approval)'
  <2> DEFINE o == s.order
             a == s.seen.approval
  <2>1. o' = o /\ a' = a
    BY <1>2
  <2>2. audit[o] \subseteq audit'[o] /\ Trail(o, a)
    BY <1>1
  <2> HIDE DEF o, a
  <2>3. Trail(o, a)'
    BY <2>1, <2>2 DEF Trail, WasPreviewed, WasApproved, HasExchangeOrder
  <2> QED
    BY <2>3 DEF o, a
<1>5. SessionTrail(r)'
    BY <1>1, <1>2, <1>4, <1>3 DEF SessionTrail
<1>6. PreviewsDisjoint'
    BY <1>2 DEF IInv, PreviewsDisjoint
<1> QED
    BY <1>2, <1>3, <1>5, <1>6

\* The live path is entered with an approved row only.
LEMMA ReadModeKeeps ==
    ASSUME IInv, NEW r \in Requests, ReadMode(r)
    PROVE  IInv'
<1>1. modeRow' \in ExecutionModes
    BY EffectiveModeType DEF IInv, ReadMode
<1>2. PICK next : next = Route(EffectiveMode, sessions[r].seen)
    OBVIOUS
<1>3. CASE next = "done"
    BY <1>1, <1>2, <1>3, FinishKeeps DEF ReadMode
<1>4. CASE next # "done"
  <2>1. sessions' = [sessions EXCEPT ![r].pc = next] /\ sessions[r].pc = "loaded"
    BY <1>2, <1>4 DEF ReadMode
  <2>2. /\ next \in {"paper", "posting"}
        /\ next = "posting" => sessions[r].seen.approval = "approved"
    BY <1>2, <1>4 DEF Route, MayPost
  <2>3. sessions[r] \in Sessions /\ sessions[r].attempt \in 0..MaxAttempts
    BY DEF IInv, TypeOK, Sessions
  <2>4. sessions[r].attempt < MaxAttempts
    BY <2>1, AttemptsAssumption DEF IInv, SessionTrail
  <2>5. /\ sessions' \in [Requests -> Sessions]
        /\ \A q \in Requests : q # r => sessions'[q] = sessions[q]
        /\ SessionTrail(r)'
        /\ PreviewsDisjoint'
    <3>1. /\ next \in {"paper", "posting", "awaiting", "accepted"}
          /\ sessions[r].pc \in {"loaded", "posting", "awaiting", "accepted"}
          /\ next # "paper" => sessions[r].seen.approval = "approved"
          /\ ~(next \in {"awaiting", "accepted"}) /\ next # "accepted"
        BY <2>1, <2>2
    <3>2. /\ \A o \in Orders : audit[o] \subseteq audit'[o]
          /\ exchange \subseteq exchange'
        BY DEF ReadMode
    <3> QED
        BY <2>1, <2>3, <2>4, <3>1, <3>2, MovedKeeps
  <2>6. TypeOK'
    BY <1>1, <2>5 DEF IInv, TypeOK, ReadMode
  <2> QED
    BY <2>5, <2>6, QuietStep DEF ReadMode
<1> QED
    BY <1>3, <1>4

\* A POST is sent for an approved order.
LEMMA PostKeeps ==
    ASSUME IInv, NEW r \in Requests, Post(r)
    PROVE  IInv'
<1> DEFINE n == sessions[r].attempt + 1
           o == sessions[r].order
           p == [PlacementOf(r) EXCEPT !.attempt = n]
<1>1. /\ sessions[r] \in Sessions
      /\ o \in Orders
      /\ sessions[r].seen.approval = "approved"
      /\ sessions[r].attempt < MaxAttempts
      /\ Trail(o, sessions[r].seen.approval)
    BY DEF IInv, TypeOK, SessionTrail, Post
<1>2. n \in 0..MaxAttempts /\ n > 0 /\ n \in 1..MaxAttempts
    BY <1>1, AttemptsAssumption DEF Sessions
<1>3. p = [req |-> r, order |-> o, attempt |-> n]
    BY DEF PlacementOf
<1>4. p \in Placements /\ p.order = o
    BY <1>1, <1>2, <1>3 DEF Placements
<1>5. /\ sessions[r].pc = "posting"
      /\ sessions' = [sessions EXCEPT ![r].pc = "awaiting", ![r].attempt = n]
      /\ transit' = transit \cup {p}
    BY DEF Post
<1> HIDE DEF n, p
<1>6. /\ sessions' \in [Requests -> Sessions]
      /\ \A q \in Requests : q # r => sessions'[q] = sessions[q]
      /\ SessionTrail(r)'
      /\ PreviewsDisjoint'
    BY <1>1, <1>2, <1>5, MovedKeeps DEF Post
<1>7. TypeOK'
    BY <1>4, <1>5, <1>6 DEF IInv, TypeOK, Post
<1>8. WasPreviewed(p.order) /\ WasApproved(p.order)
    BY <1>1, <1>4 DEF Trail
<1> QED
    BY <1>5, <1>6, <1>7, <1>8, QuietStep DEF Post

\* A retry goes on with the row the request has loaded.
LEMMA TimeoutKeeps ==
    ASSUME IInv, NEW r \in Requests, Timeout(r)
    PROVE  IInv'
<1>1. CASE sessions[r].attempt < MaxAttempts
  <2>1. /\ sessions[r] \in Sessions
        /\ sessions[r].attempt \in 0..MaxAttempts
        /\ sessions[r].seen.approval = "approved"
    BY DEF IInv, TypeOK, Sessions, SessionTrail, Timeout
  <2>2. /\ sessions' \in [Requests -> Sessions]
        /\ \A q \in Requests : q # r => sessions'[q] = sessions[q]
        /\ SessionTrail(r)'
        /\ PreviewsDisjoint'
    BY <1>1, <2>1, MovedKeeps DEF Timeout
  <2>3. TypeOK'
    BY <2>2 DEF IInv, TypeOK, Timeout
  <2> QED
    BY <2>2, <2>3, QuietStep DEF Timeout
<1>2. CASE ~(sessions[r].attempt < MaxAttempts)
    BY <1>2, FinishKeeps DEF Timeout, IInv, TypeOK
<1> QED
    BY <1>1, <1>2

\* Awaited names the placement's own session, which exists.
LEMMA TransitTyped ==
    ASSUME IInv, NEW p \in transit
    PROVE  p \in Placements /\ p.req \in Requests /\ p.order \in Orders
BY DEF IInv, TypeOK, Placements

\* A refused or lost POST leaves no trace.
LEMMA RefuseKeeps ==
    ASSUME IInv, NEW p \in transit, ExchangeRefuse(p) \/ LosePost(p)
    PROVE  IInv'
<1>1. CASE Finish(p.req)
    BY <1>1, TransitTyped, FinishKeeps DEF ExchangeRefuse, LosePost, IInv, TypeOK
<1>2. CASE UNCHANGED sessions
    BY <1>2, QuietStep DEF ExchangeRefuse, LosePost, IInv, TypeOK, PreviewsDisjoint
<1> QED
    BY <1>1, <1>2 DEF ExchangeRefuse, LosePost

\* Control rows are no part of an order's trail.
LEMMA OperatorKeeps ==
    ASSUME IInv,
           \/ \E enabled \in BOOLEAN : SetKillSwitch(enabled)
           \/ \E mode \in {"paper", "disabled"} : SetExecutionMode(mode)
           \/ ShowStatus
    PROVE  IInv'
<1>1. UNCHANGED <<orders, audit, sessions, transit, exchange>>
    BY DEF SetKillSwitch, SetExecutionMode, ShowStatus
<1>2. TypeOK'
    BY EffectiveModeType DEF IInv, TypeOK, ExecutionModes,
        SetKillSwitch, SetExecutionMode, ShowStatus
<1>3. PreviewsDisjoint'
    BY <1>1 DEF IInv, PreviewsDisjoint
<1> QED
    BY <1>1, <1>2, <1>3, QuietStep

\* A restart ends requests and keeps rows and trail.
LEMMA RestartKeeps ==
    ASSUME IInv, Restart
    PROVE  IInv'
<1>1. \A r \in Requests : sessions'[r] \in {sessions[r], Finished}
    BY DEF Restart
<1>2. sessions' \in [Requests -> Sessions]
    BY FinishedType DEF IInv, TypeOK, Restart
<1>3. TypeOK'
    BY <1>2, EnvironmentsAssumption DEF IInv, TypeOK, Restart
<1>4. PreviewsDisjoint'
    BY <1>1, FinishedType DEF IInv, PreviewsDisjoint
<1> QED
    BY <1>1, <1>3, <1>4, QuietStep DEF Restart

\* What the exchange accepts was sent.
LEMMA AcceptKeeps ==
    ASSUME IInv, NEW p \in transit, ExchangeAccept(p)
    PROVE  IInv'
<1> DEFINE r == p.req
<1>1. p \in Placements /\ r \in Requests
    BY TransitTyped
<1>2. exchange' = exchange \cup {p} /\ transit' \subseteq transit
    BY DEF ExchangeAccept
<1>3. /\ sessions' \in [Requests -> Sessions]
      /\ \A q \in Requests : sessions'[q] = sessions[q] \/ SessionTrail(q)'
      /\ PreviewsDisjoint'
  <2>1. CASE Awaited(p)
    <3>1. /\ sessions[r] \in Sessions
          /\ sessions[r].attempt \in 0..MaxAttempts
          /\ sessions[r].pc = "awaiting"
          /\ sessions[r].seen.approval = "approved"
          /\ sessions[r].attempt > 0
        BY <1>1, <2>1 DEF IInv, TypeOK, Sessions, SessionTrail, Awaited
    <3>2. sessions' = [sessions EXCEPT ![r].pc = "accepted"]
        BY <2>1 DEF ExchangeAccept
    <3>3. PlacementOf(r)' \in exchange'
        BY <1>1, <1>2, <2>1, <3>1, <3>2 DEF IInv, TypeOK, Sessions, Awaited, PlacementOf
    <3>4. audit' = audit
        BY DEF ExchangeAccept
    <3> QED
        BY <1>1, <1>2, <3>1, <3>2, <3>3, <3>4, MovedKeeps
  <2>2. CASE ~Awaited(p)
    <3>1. sessions' = sessions
        BY <2>2 DEF ExchangeAccept
    <3> QED
        BY <3>1 DEF IInv, TypeOK, PreviewsDisjoint
  <2> QED
    BY <2>1, <2>2
<1>4. TypeOK'
    BY <1>1, <1>2, <1>3 DEF IInv, TypeOK, ExchangeAccept
<1> QED
    BY <1>2, <1>3, <1>4, QuietStep DEF ExchangeAccept

-----------------------------------------------------------------------------
(* Commits *)

\* A request that writes row into its order and an entry into the order's
\* trail, and ends.
LEMMA CommitKeeps ==
    ASSUME IInv, NEW r \in Requests, NEW o \in Orders, NEW row \in Rows,
           NEW entry \in AuditEvents,
           orders' = [orders EXCEPT ![o] = row],
           audit' = [audit EXCEPT ![o] = @ \cup {entry}],
           Finish(r),
           UNCHANGED <<killSwitch, modeRow, settings, transit, exchange>>,
           paperOrders' \subseteq PaperOrderRows,
           Trail(o, row.approval)',
           row.approval = "absent" => Stage'[o] = "none",
           \A q \in Requests \ {r} :
                sessions[q].pc = "previewing" /\ sessions[q].order = o
                    => Stage'[o] = Stage[o],
           row.approval = "submitted" \/ entry = <<"order_submitted", "submitted">>
                => HasExchangeOrder(o),
           row.kalshiId # NoPlacement
                => row.kalshiId \in exchange /\ row.kalshiId.order = o
    PROVE  IInv'
<1>1. /\ sessions' \in [Requests -> Sessions]
      /\ sessions'[r] = Finished
      /\ \A q \in Requests : q # r => sessions'[q] = sessions[q]
      /\ PreviewsDisjoint'
    BY FinishTyped DEF IInv
<1>2. /\ orders'[o] = row
      /\ audit'[o] = audit[o] \cup {entry}
      /\ \A x \in Orders : x # o => orders'[x] = orders[x] /\ audit'[x] = audit[x]
    BY DEF IInv, TypeOK
<1>3. TypeOK'
    BY <1>1 DEF IInv, TypeOK
<1>4. \A x \in Orders : x # o => Stage'[x] = Stage[x]
    BY <1>2 DEF Stage, WasPreviewed, WasApproved, WasBlocked
<1>5. RowsTrail'
  <2> SUFFICES ASSUME NEW x \in Orders
               PROVE  /\ Trail(x, orders[x].approval)'
                      /\ orders'[x].approval = "absent" => Stage'[x] = "none"
    BY DEF RowsTrail
  <2>1. CASE x = o
    BY <1>2, <2>1 DEF Trail
  <2>2. CASE x # o
    BY <1>2, <1>4, <2>2 DEF IInv, RowsTrail, Trail, WasPreviewed, WasApproved,
        HasExchangeOrder
  <2> QED
    BY <2>1, <2>2
<1>6. \A q \in Requests : SessionTrail(q)'
  <2> SUFFICES ASSUME NEW q \in Requests PROVE SessionTrail(q)'
    OBVIOUS
  <2>1. CASE q = r
    BY <1>1, <2>1, SessionFinished
  <2>2. CASE q # r
    <3>1. sessions[q].pc = "previewing"
            => Stage'[sessions[q].order] = Stage[sessions[q].order]
        BY <1>4, <2>2 DEF IInv, SessionTrail
    <3>2. \A x \in Orders : audit[x] \subseteq audit'[x]
        BY <1>2
    <3> QED
        BY <1>1, <2>2, <3>1, <3>2, SessionKept DEF IInv
  <2> QED
    BY <2>1, <2>2
<1>7. PlacedOnlyAfterApproval'
    BY <1>2, TransitTyped DEF IInv, TypeOK, Placements, PlacedOnlyAfterApproval,
        WasPreviewed, WasApproved
<1>8. SubmissionIsBacked'
    BY <1>2 DEF IInv, SubmissionIsBacked, WasSubmitted, HasExchangeOrder
<1> QED
    BY <1>1, <1>3, <1>5, <1>6, <1>7, <1>8 DEF IInv

\* The audit entries that Stage does not look at.
LEMMA StageKept ==
    ASSUME NEW o \in Orders, NEW entry,
           audit'[o] = audit[o] \cup {entry},
           entry \notin {<<"order_approved", "approved">>,
                         <<"order_previewed", "pending_approval">>,
                         <<"order_previewed", "blocked">>}
    PROVE  Stage'[o] = Stage[o]
BY DEF Stage, WasPreviewed, WasApproved, WasBlocked

\* The first commit of an order writes its screening.
LEMMA CommitPreviewKeeps ==
    ASSUME IInv, NEW r \in Requests, CommitPreview(r)
    PROVE  IInv'
<1> PICK o, row : o = sessions[r].order /\ row = sessions[r].seen
    OBVIOUS
<1> PICK entry : entry = <<"order_previewed", row.approval>>
    OBVIOUS
<1>1. /\ sessions[r].pc = "previewing"
      /\ orders' = [orders EXCEPT ![o] = row]
      /\ audit' = [audit EXCEPT ![o] = @ \cup {entry}]
      /\ Finish(r)
      /\ UNCHANGED <<paperOrders, killSwitch, modeRow, settings, transit, exchange>>
    BY DEF CommitPreview, Record
<1>2. o \in Orders /\ row \in {Row("pending_approval"), Row("blocked")}
    BY <1>1 DEF IInv, SessionTrail
<1>3. /\ row \in Rows
      /\ row.approval \in {"pending_approval", "blocked"}
      /\ row.kalshiId = NoPlacement
    BY <1>2, RowType DEF ApprovalStatus, Row
<1>4. entry \in AuditEvents
    BY <1>3 DEF AuditEvents, ApprovalStatus
<1>5. \A q \in Requests \ {r} :
            ~(sessions[q].pc = "previewing" /\ sessions[q].order = o)
    BY <1>1 DEF IInv, PreviewsDisjoint
<1>6. audit'[o] = audit[o] \cup {entry} /\ paperOrders' \subseteq PaperOrderRows
    BY <1>1, <1>2 DEF IInv, TypeOK
<1>7. Trail(o, row.approval)'
    BY <1>3, <1>6 DEF Trail, WasPreviewed
<1>8. /\ row.approval # "absent" /\ row.approval # "submitted"
      /\ entry # <<"order_submitted", "submitted">>
    BY <1>3
<1> QED
    BY <1>1, <1>2, <1>3, <1>4, <1>5, <1>6, <1>7, <1>8, CommitKeeps

\* An approval is recorded with the row it writes.
LEMMA CommitApproveKeeps ==
    ASSUME IInv, NEW r \in Requests, CommitApprove(r)
    PROVE  IInv'
<1> PICK o, seen : o = sessions[r].order /\ seen = sessions[r].seen
    OBVIOUS
<1>1. /\ o \in Orders
      /\ orders[o] \in Rows /\ seen \in Rows
      /\ seen.approval = "pending_approval"
      /\ Trail(o, seen.approval)
    BY DEF IInv, TypeOK, Sessions, SessionTrail, CommitApprove
<1> PICK row : row = Flush(orders[o], seen, Transitioned(seen, "approved"))
    OBVIOUS
<1> PICK entry : entry = <<"order_approved", "approved">>
    OBVIOUS
<1>2. row \in Rows /\ row.approval = "approved" /\ row.kalshiId = orders[o].kalshiId
    BY <1>1, TransitionedRow, FlushedRow DEF ApprovalStatus
<1>3. /\ orders' = [orders EXCEPT ![o] = row]
      /\ audit' = [audit EXCEPT ![o] = @ \cup {entry}]
      /\ Finish(r)
      /\ UNCHANGED <<paperOrders, killSwitch, modeRow, settings, transit, exchange>>
    BY DEF CommitApprove, Record, Write
<1>4. entry \in AuditEvents
    BY DEF AuditEvents, ApprovalStatus
<1>5. audit'[o] = audit[o] \cup {entry} /\ paperOrders' \subseteq PaperOrderRows
    BY <1>1, <1>3 DEF IInv, TypeOK
<1>6. WasPreviewed(o)
    BY <1>1 DEF Trail
<1>7. \A q \in Requests \ {r} :
            ~(sessions[q].pc = "previewing" /\ sessions[q].order = o)
    BY <1>1, <1>6 DEF IInv, SessionTrail, Stage
<1>8. Trail(o, row.approval)'
    BY <1>2, <1>5, <1>6 DEF Trail, WasPreviewed, WasApproved
<1>9. row.kalshiId # NoPlacement
            => row.kalshiId \in exchange /\ row.kalshiId.order = o
    BY <1>1, <1>2 DEF IInv, SubmissionIsBacked
<1> QED
    BY <1>1, <1>2, <1>3, <1>4, <1>5, <1>7, <1>8, <1>9, CommitKeeps

\* A rejection claims nothing of the exchange.
LEMMA CommitRejectKeeps ==
    ASSUME IInv, NEW r \in Requests, CommitReject(r)
    PROVE  IInv'
<1> PICK o, seen : o = sessions[r].order /\ seen = sessions[r].seen
    OBVIOUS
<1>1. /\ o \in Orders
      /\ orders[o] \in Rows /\ seen \in Rows
      /\ seen.approval \in {"pending_approval", "blocked"}
    BY DEF IInv, TypeOK, Sessions, SessionTrail, CommitReject
<1> PICK row : row = Flush(orders[o], seen, Transitioned(seen, "rejected"))
    OBVIOUS
<1> PICK entry : entry = <<"order_rejected", "rejected">>
    OBVIOUS
<1>2. row \in Rows /\ row.approval = "rejected" /\ row.kalshiId = orders[o].kalshiId
    BY <1>1, TransitionedRow, FlushedRow DEF ApprovalStatus
<1>3. /\ orders' = [orders EXCEPT ![o] = row]
      /\ audit' = [audit EXCEPT ![o] = @ \cup {entry}]
      /\ Finish(r)
      /\ UNCHANGED <<paperOrders, killSwitch, modeRow, settings, transit, exchange>>
    BY DEF CommitReject, Record, Write
<1>4. entry \in AuditEvents
    BY DEF AuditEvents, ApprovalStatus
<1>5. audit'[o] = audit[o] \cup {entry} /\ paperOrders' \subseteq PaperOrderRows
    BY <1>1, <1>3 DEF IInv, TypeOK
<1>6. Stage'[o] = Stage[o]
    BY <1>1, <1>5, StageKept
<1>7. Trail(o, row.approval)'
    BY <1>2 DEF Trail
<1>8. row.kalshiId # NoPlacement
            => row.kalshiId \in exchange /\ row.kalshiId.order = o
    BY <1>1, <1>2 DEF IInv, SubmissionIsBacked
<1> QED
    BY <1>1, <1>2, <1>3, <1>4, <1>5, <1>6, <1>7, <1>8, CommitKeeps

\* A simulated fill leaves approval and trail as they are.
LEMMA CommitPaperKeeps ==
    ASSUME IInv, NEW r \in Requests, CommitPaper(r)
    PROVE  IInv'
<1> PICK o, seen : o = sessions[r].order /\ seen = sessions[r].seen
    OBVIOUS
<1>1. o \in Orders /\ orders[o] \in Rows /\ seen \in Rows
    BY DEF IInv, TypeOK, Sessions, SessionTrail, CommitPaper
<1>2. PICK fill \in {"filled", "partially_filled"} :
        /\ Write(r, [sessions[r].seen EXCEPT !.status = fill, !.kalshiId = NoPlacement])
        /\ Record(sessions[r].order, "paper_order_submitted", fill)
        /\ paperOrders' = paperOrders \cup
                {[req |-> r, order |-> sessions[r].order, status |-> fill]}
    BY DEF CommitPaper
<1>3. PICK edited : edited = [seen EXCEPT !.status = fill, !.kalshiId = NoPlacement]
    OBVIOUS
<1> PICK row : row = Flush(orders[o], seen, edited)
    OBVIOUS
<1> PICK entry : entry = <<"paper_order_submitted", fill>>
    OBVIOUS
<1>4. edited \in Rows /\ edited.approval = seen.approval /\ edited.kalshiId = NoPlacement
    BY <1>1, <1>3 DEF Rows, ApprovalStatus
<1>5. /\ row \in Rows
      /\ row.approval = orders[o].approval
      /\ row.kalshiId \in {orders[o].kalshiId, NoPlacement}
  <2>1. /\ row \in Rows
        /\ row.approval = IF edited.approval = seen.approval
                          THEN orders[o].approval ELSE edited.approval
        /\ row.kalshiId = IF edited.kalshiId = seen.kalshiId
                          THEN orders[o].kalshiId ELSE edited.kalshiId
    BY <1>1, <1>4, FlushedRow
  <2> QED
    BY <2>1, <1>4
<1>6. /\ orders' = [orders EXCEPT ![o] = row]
      /\ audit' = [audit EXCEPT ![o] = @ \cup {entry}]
      /\ Finish(r)
      /\ UNCHANGED <<killSwitch, modeRow, settings, transit, exchange>>
    BY <1>2, <1>3 DEF CommitPaper, Record, Write
<1>7. entry \in AuditEvents
    BY DEF AuditEvents, ApprovalStatus
<1>8. audit'[o] = audit[o] \cup {entry} /\ paperOrders' \subseteq PaperOrderRows
    BY <1>1, <1>2, <1>6 DEF IInv, TypeOK, PaperOrderRows
<1>9. Stage'[o] = Stage[o]
    BY <1>1, <1>8, StageKept
<1>10. Trail(o, row.approval)'
    BY <1>1, <1>5, <1>6, <1>8 DEF IInv, RowsTrail, Trail, WasPreviewed, WasApproved,
        HasExchangeOrder
<1>11. /\ row.approval = "absent" => Stage'[o] = "none"
       /\ row.approval = "submitted" => HasExchangeOrder(o)
       /\ row.kalshiId # NoPlacement
            => row.kalshiId \in exchange /\ row.kalshiId.order = o
    BY <1>1, <1>5, <1>9 DEF IInv, RowsTrail, SubmissionIsBacked
<1> QED
    BY <1>1, <1>5, <1>6, <1>7, <1>8, <1>9, <1>10, <1>11, CommitKeeps

\* A submission is written for a POST that was accepted.
LEMMA CommitSubmitKeeps ==
    ASSUME IInv, NEW r \in Requests, CommitSubmit(r)
    PROVE  IInv'
<1> PICK o, seen, p : o = sessions[r].order /\ seen = sessions[r].seen
                      /\ p = PlacementOf(r)
    OBVIOUS
<1>1. /\ o \in Orders
      /\ orders[o] \in Rows /\ seen \in Rows
      /\ seen.approval = "approved"
      /\ Trail(o, seen.approval)
      /\ p \in exchange /\ p.order = o
      /\ p \in Placements
    BY DEF IInv, TypeOK, Sessions, SessionTrail, CommitSubmit, PlacementOf
<1>2. PICK edited : edited = [Transitioned(seen, "submitted") EXCEPT !.kalshiId = p]
    OBVIOUS
<1> PICK row : row = Flush(orders[o], seen, edited)
    OBVIOUS
<1> PICK entry : entry = <<"order_submitted", "submitted">>
    OBVIOUS
<1>3. edited \in Rows /\ edited.approval = "submitted" /\ edited.kalshiId = p
    BY <1>1, <1>2, TransitionedRow DEF Rows, ApprovalStatus
<1>4. /\ row \in Rows
      /\ row.approval = "submitted"
      /\ row.kalshiId \in {orders[o].kalshiId, p}
  <2>1. /\ row \in Rows
        /\ row.approval = IF edited.approval = seen.approval
                          THEN orders[o].approval ELSE edited.approval
        /\ row.kalshiId = IF edited.kalshiId = seen.kalshiId
                          THEN orders[o].kalshiId ELSE edited.kalshiId
    BY <1>1, <1>3, FlushedRow
  <2> QED
    BY <2>1, <1>1, <1>3
<1>5. /\ orders' = [orders EXCEPT ![o] = row]
      /\ audit' = [audit EXCEPT ![o] = @ \cup {entry}]
      /\ Finish(r)
      /\ UNCHANGED <<paperOrders, killSwitch, modeRow, settings, transit, exchange>>
    BY <1>2 DEF CommitSubmit, Record, Write
<1>6. entry \in AuditEvents
    BY DEF AuditEvents, ApprovalStatus
<1>7. audit'[o] = audit[o] \cup {entry} /\ paperOrders' \subseteq PaperOrderRows
    BY <1>1, <1>5 DEF IInv, TypeOK
<1>8. Stage'[o] = Stage[o]
    BY <1>1, <1>7, StageKept
<1>9. HasExchangeOrder(o)
    BY <1>1 DEF HasExchangeOrder
<1>10. Trail(o, row.approval)'
    BY <1>1, <1>4, <1>5, <1>7, <1>9 DEF Trail, WasPreviewed, WasApproved,
        HasExchangeOrder
<1>11. row.kalshiId # NoPlacement
            => row.kalshiId \in exchange /\ row.kalshiId.order = o
    BY <1>1, <1>4 DEF IInv, SubmissionIsBacked
<1> QED
    BY <1>1, <1>4, <1>5, <1>6, <1>7, <1>8, <1>9, <1>10, <1>11, CommitKeeps

-----------------------------------------------------------------------------
(* Invariance *)

\* Requests that begin keep the invariant.
LEMMA ArriveKeeps ==
    ASSUME IInv, NEW r \in Requests, NEW o \in Orders, Arrive(r, o)
    PROVE  IInv'
<1>1. CASE BeginPreview(r, o)
    BY <1>1, BeginPreviewKeeps
<1>2. CASE BeginApprove(r, o)
    BY <1>2, LoadedKeeps DEF BeginApprove, Begin
<1>3. CASE BeginReject(r, o)
    BY <1>3, LoadedKeeps DEF BeginReject, Begin
<1>4. CASE BeginExecute(r, o)
    BY <1>4, LoadedKeeps DEF BeginExecute, Begin
<1> QED
    BY <1>1, <1>2, <1>3, <1>4 DEF Arrive

\* Handlers that go on keep the invariant.
LEMMA ProgressKeeps ==
    ASSUME IInv, NEW r \in Requests, Progress(r) \/ Abort(r)
    PROVE  IInv'
<1>1. CASE Abort(r)
    BY <1>1, FinishKeeps DEF Abort, IInv, TypeOK
<1> QED
    BY <1>1, CommitPreviewKeeps, CommitApproveKeeps, CommitRejectKeeps,
       LoadOrderKeeps, ReadModeKeeps, CommitPaperKeeps, PostKeeps, TimeoutKeeps,
       CommitSubmitKeeps DEF Progress

\* Every step keeps the invariant.
LEMMA NextKeeps ==
    ASSUME IInv, [Next]_vars
    PROVE  IInv'
<1>1. CASE \E r \in Requests, o \in Orders : Arrive(r, o)
    BY <1>1, ArriveKeeps
<1>2. CASE \E r \in Requests : Progress(r) \/ Abort(r)
    BY <1>2, ProgressKeeps
<1>3. CASE \E p \in transit : Network(p)
    BY <1>3, AcceptKeeps, RefuseKeeps DEF Network
<1>4. CASE \/ \E enabled \in BOOLEAN : SetKillSwitch(enabled)
           \/ \E mode \in {"paper", "disabled"} : SetExecutionMode(mode)
           \/ ShowStatus
    BY <1>4, OperatorKeeps
<1>5. CASE Restart
    BY <1>5, RestartKeeps
<1>6. CASE UNCHANGED vars
  <2>1. /\ UNCHANGED <<orders, audit, sessions, transit, exchange>>
        /\ UNCHANGED <<paperOrders, killSwitch, modeRow, settings>>
    BY <1>6 DEF vars
  <2>2. TypeOK' /\ PreviewsDisjoint'
    BY <2>1 DEF IInv, TypeOK, PreviewsDisjoint
  <2> QED
    BY <2>1, <2>2, QuietStep
<1> QED
    BY <1>1, <1>2, <1>3, <1>4, <1>5, <1>6 DEF Next

\* The inductive invariant: the database, the sessions and the exchange never
\* run ahead of the audit trail of an order.
THEOREM Invariance == Spec => []IInv
<1>1. Init => IInv
    BY InitIInv
<1>2. IInv /\ [Next]_vars => IInv'
    BY NextKeeps
<1> QED
    BY <1>1, <1>2, PTL DEF Spec

\* Type correctness, among which the retry counter never passes MaxAttempts.
THEOREM TypeCorrect == Spec => []TypeOK
<1>1. IInv => TypeOK
    BY DEF IInv
<1> QED
    BY <1>1, Invariance, PTL

\* Nothing travels to the exchange before its order passed the screening and
\* was approved, for any number of orders, requests and retries.
THEOREM PlacementsAreApproved == Spec => []PlacedOnlyAfterApproval
<1>1. IInv => PlacedOnlyAfterApproval
    BY DEF IInv
<1> QED
    BY <1>1, Invariance, PTL

\* Every live submission the database claims happened, under the name it gives.
THEOREM SubmissionsAreBacked == Spec => []SubmissionIsBacked
<1>1. IInv => SubmissionIsBacked
    BY DEF IInv
<1> QED
    BY <1>1, Invariance, PTL

-----------------------------------------------------------------------------
(* The order path implements the approval gate *)

\* The stage is a function on the orders.
LEMMA StageType == Stage = [o \in Orders |-> Stage[o]]
BY DEF Stage

\* Steps that add no entry Stage looks at, and nothing to the exchange.
LEMMA GateStutters ==
    ASSUME \A o \in Orders : Stage'[o] = Stage[o], exchange' = exchange
    PROVE  UNCHANGED <<Stage, exchange>>
<1>1. Stage' = [o \in Orders |-> Stage'[o]]
    BY DEF Stage
<1> QED
    BY <1>1, StageType

\* Audit entries that are no stage of the gate.
LEMMA EntryStutters ==
    ASSUME IInv, NEW o \in Orders, NEW event, NEW status,
           event \notin {"order_approved", "order_previewed"},
           Record(o, event, status), exchange' = exchange
    PROVE  UNCHANGED <<Stage, exchange>>
<1>1. PICK entry : entry = <<event, status>>
    OBVIOUS
<1>2. audit' = [audit EXCEPT ![o] = @ \cup {entry}]
    BY <1>1 DEF Record
<1>3. entry \notin {<<"order_approved", "approved">>,
                    <<"order_previewed", "pending_approval">>,
                    <<"order_previewed", "blocked">>}
    BY <1>1
<1>4. Stage'[o] = Stage[o]
    BY <1>2, <1>3, StageKept DEF IInv, TypeOK
<1>5. \A x \in Orders : x # o => Stage'[x] = Stage[x]
    BY <1>2 DEF IInv, TypeOK, Stage, WasPreviewed, WasApproved, WasBlocked
<1> QED
    BY <1>4, <1>5, GateStutters

\* Rejections, simulated fills and submissions are no stage of the gate.
LEMMA RecordStutters ==
    ASSUME IInv, NEW r \in Requests,
           \/ CommitReject(r)
           \/ CommitPaper(r)
           \/ CommitSubmit(r)
    PROVE  UNCHANGED <<Stage, exchange>>
<1>1. sessions[r].order \in Orders
    BY DEF IInv, SessionTrail, CommitReject, CommitPaper, CommitSubmit
<1>2. \E event \in {"order_rejected", "paper_order_submitted", "order_submitted"},
         status \in ApprovalStatus :
            Record(sessions[r].order, event, status)
    BY DEF CommitReject, CommitPaper, CommitSubmit, ApprovalStatus
<1>3. exchange' = exchange
    BY DEF CommitReject, CommitPaper, CommitSubmit
<1> QED
    BY <1>1, <1>2, <1>3, EntryStutters

\* The commit of a preview screens the order.
LEMMA PreviewScreens ==
    ASSUME IInv, NEW r \in Requests, CommitPreview(r)
    PROVE  \E o \in Orders : Gate!Screen(o)
<1>1. PICK o, verdict : o = sessions[r].order /\ verdict = sessions[r].seen.approval
    OBVIOUS
<1>2. /\ o \in Orders
      /\ Stage[o] = "none"
      /\ verdict \in {"pending_approval", "blocked"}
    BY <1>1, RowType DEF IInv, SessionTrail, CommitPreview, ApprovalStatus
<1>3. /\ audit'[o] = audit[o] \cup {<<"order_previewed", verdict>>}
      /\ \A x \in Orders : x # o => audit'[x] = audit[x]
      /\ exchange' = exchange
    BY <1>1, <1>2 DEF IInv, TypeOK, CommitPreview, Record
<1>4. Stage'[o] \in {"screened_out", "awaiting"}
    BY <1>2, <1>3 DEF Stage, WasPreviewed, WasApproved, WasBlocked
<1>5. \A x \in Orders : x # o => Stage'[x] = Stage[x]
    BY <1>3 DEF Stage, WasPreviewed, WasApproved, WasBlocked
<1>6. Stage' = [Stage EXCEPT ![o] = Stage'[o]]
    BY <1>2, <1>5, StageType DEF Stage
<1> QED
    BY <1>2, <1>3, <1>4, <1>6 DEF Gate!Screen

\* The commit of an approval clears it, or has been preceded by another.
LEMMA ApproveClears ==
    ASSUME IInv, NEW r \in Requests, CommitApprove(r)
    PROVE  (\E o \in Orders : Gate!Clear(o)) \/ UNCHANGED <<Stage, exchange>>
<1>1. PICK o : o = sessions[r].order
    OBVIOUS
<1>2. o \in Orders /\ WasPreviewed(o)
    BY <1>1 DEF IInv, SessionTrail, CommitApprove, Trail
<1>3. /\ audit'[o] = audit[o] \cup {<<"order_approved", "approved">>}
      /\ \A x \in Orders : x # o => audit'[x] = audit[x]
      /\ exchange' = exchange
    BY <1>1, <1>2 DEF IInv, TypeOK, CommitApprove, Record
<1>4. Stage[o] \in {"awaiting", "cleared"} /\ Stage'[o] = "cleared"
    BY <1>2, <1>3 DEF Stage, WasPreviewed, WasApproved, WasBlocked
<1>5. \A x \in Orders : x # o => Stage'[x] = Stage[x]
    BY <1>3 DEF Stage, WasPreviewed, WasApproved, WasBlocked
<1>6. CASE Stage[o] = "awaiting"
  <2>1. Stage' = [Stage EXCEPT ![o] = "cleared"]
    BY <1>2, <1>4, <1>5, StageType DEF Stage
  <2> QED
    BY <1>2, <1>3, <1>6, <2>1 DEF Gate!Clear
<1>7. CASE Stage[o] = "cleared"
    BY <1>3, <1>4, <1>5, <1>7, GateStutters
<1> QED
    BY <1>4, <1>6, <1>7

\* The exchange places what was cleared.
LEMMA AcceptPlaces ==
    ASSUME IInv, NEW p \in transit, ExchangeAccept(p)
    PROVE  \E q \in Placements : Gate!Place(q)
<1>1. p \in Placements /\ Stage[p.order] = "cleared"
    BY TransitTyped DEF IInv, PlacedOnlyAfterApproval, Stage
<1>2. exchange' = exchange \cup {p} /\ audit' = audit
    BY DEF ExchangeAccept
<1>3. Stage' = Stage
    BY <1>2 DEF Stage, WasPreviewed, WasApproved, WasBlocked
<1> QED
    BY <1>1, <1>2, <1>3 DEF Gate!Place

\* Every step is one of the gate or a stutter.
LEMMA StepRefines ==
    ASSUME IInv, [Next]_vars
    PROVE  [Gate!Next]_<<Stage, exchange>>
<1>1. audit' = audit => Stage' = Stage
    BY DEF Stage, WasPreviewed, WasApproved, WasBlocked
<1>2. ASSUME NEW r \in Requests, NEW o \in Orders, Arrive(r, o)
      PROVE  UNCHANGED <<Stage, exchange>>
    BY <1>1, <1>2 DEF Arrive, BeginPreview, BeginApprove, BeginReject, BeginExecute
<1>3. ASSUME NEW r \in Requests, Progress(r) \/ Abort(r)
      PROVE  [Gate!Next]_<<Stage, exchange>>
  <2>1. CASE CommitPreview(r)
    BY <2>1, PreviewScreens DEF Gate!Next
  <2>2. CASE CommitApprove(r)
    BY <2>2, ApproveClears DEF Gate!Next
  <2>3. CASE CommitReject(r) \/ CommitPaper(r) \/ CommitSubmit(r)
    BY <2>3, RecordStutters
  <2>4. CASE LoadOrder(r) \/ ReadMode(r) \/ Post(r) \/ Timeout(r) \/ Abort(r)
    BY <1>1, <2>4 DEF LoadOrder, ReadMode, Post, Timeout, Abort
  <2> QED
    BY <1>3, <2>1, <2>2, <2>3, <2>4 DEF Progress
<1>4. ASSUME NEW p \in transit, Network(p)
      PROVE  [Gate!Next]_<<Stage, exchange>>
  <2>1. CASE ExchangeAccept(p)
    BY <2>1, AcceptPlaces DEF Gate!Next
  <2>2. CASE ExchangeRefuse(p) \/ LosePost(p)
    BY <1>1, <2>2 DEF ExchangeRefuse, LosePost
  <2> QED
    BY <1>4, <2>1, <2>2 DEF Network
<1>5. CASE \/ \E enabled \in BOOLEAN : SetKillSwitch(enabled)
           \/ \E mode \in {"paper", "disabled"} : SetExecutionMode(mode)
           \/ ShowStatus
           \/ Restart
           \/ UNCHANGED vars
    BY <1>1, <1>5 DEF SetKillSwitch, SetExecutionMode, ShowStatus, Restart, vars
<1> QED
    BY <1>2, <1>3, <1>4, <1>5 DEF Next

\* The order path implements the approval gate: every order is screened at
\* most once, approved only after passing, and at the exchange only approved.
THEOREM OrderPathImplementsGate == Spec => ImplementsGate
<1>1. Init => Gate!Init
  <2> SUFFICES ASSUME Init PROVE Gate!Init
    OBVIOUS
  <2>1. Stage = [o \in Orders |-> "none"]
    BY DEF Init, Stage, WasApproved, WasPreviewed, WasBlocked
  <2> QED
    BY <2>1 DEF Init, Gate!Init
<1>2. IInv /\ [Next]_vars => [Gate!Next]_<<Stage, exchange>>
    BY StepRefines
<1> QED
    BY <1>1, <1>2, Invariance, PTL DEF Spec, ImplementsGate, Gate!Spec

-----------------------------------------------------------------------------
(* What a step may never do *)

\* A request on the live path stays one of a process that may post.
LEMMA PostersKept ==
    ASSUME TypeOK, PostersMayPost, [Next]_vars
    PROVE  PostersMayPost'
<1>1. CASE Restart
    BY <1>1, FinishedType DEF Restart, PostersMayPost, InProgress
<1>2. ASSUME settings' = settings,
             \A r \in Requests :
                \/ sessions'[r].pc \notin {"posting", "awaiting", "accepted"}
                \/ sessions[r].pc \in {"posting", "awaiting", "accepted"}
                \/ ClientMayPost
      PROVE  PostersMayPost'
    BY <1>2 DEF PostersMayPost, ClientMayPost, LiveTradingEnabled
<1>3. ASSUME NEW r \in Requests, NEW pc \in PCs, NEW o, NEW row,
             pc \notin {"posting", "awaiting", "accepted"},
             settings' = settings,
             sessions' = [sessions EXCEPT ![r] = Session(pc, o, row)]
      PROVE  PostersMayPost'
    BY <1>2, <1>3 DEF TypeOK, Session
<1>4. ASSUME NEW r \in Requests, settings' = settings, Finish(r)
      PROVE  PostersMayPost'
    BY <1>2, <1>4, FinishTyped, FinishedType
<1>5. ASSUME settings' = settings, sessions' = sessions
      PROVE  PostersMayPost'
    BY <1>2, <1>5
<1>6. ASSUME NEW r \in Requests, NEW o \in Orders, Arrive(r, o)
      PROVE  PostersMayPost'
    BY <1>3, <1>6 DEF Arrive, BeginPreview, BeginApprove, BeginReject,
        BeginExecute, Begin, PCs
<1>7. ASSUME NEW r \in Requests, Progress(r) \/ Abort(r)
      PROVE  PostersMayPost'
  <2>1. CASE \/ CommitPreview(r) \/ CommitApprove(r) \/ CommitReject(r)
             \/ CommitPaper(r) \/ CommitSubmit(r) \/ Abort(r)
    BY <1>4, <2>1 DEF CommitPreview, CommitApprove, CommitReject, CommitPaper,
        CommitSubmit, Abort
  <2>2. CASE LoadOrder(r)
    BY <1>3, <1>4, <2>2 DEF LoadOrder, PCs
  <2>3. CASE ReadMode(r)
    <3>1. PICK next : next = Route(EffectiveMode, sessions[r].seen)
        OBVIOUS
    <3>2. CASE next = "done"
        BY <1>4, <2>3, <3>1, <3>2 DEF ReadMode
    <3>3. CASE next # "done"
      <4>1. /\ sessions' = [sessions EXCEPT ![r].pc = next]
            /\ settings' = settings
            /\ next = "posting" => ClientMayPost
            /\ next \in {"paper", "posting"}
        BY <2>3, <3>1, <3>3 DEF ReadMode, Route, MayPost
      <4>2. \A q \in Requests : sessions'[q].pc \in {sessions[q].pc, next}
        BY <4>1 DEF TypeOK, Sessions
      <4> QED
        BY <1>2, <4>1, <4>2
    <3> QED
        BY <3>2, <3>3
  <2>4. CASE Post(r) \/ Timeout(r)
    <3>1. CASE Timeout(r) /\ Finish(r)
        BY <1>4, <3>1 DEF Timeout
    <3>2. CASE Post(r) \/ (Timeout(r) /\ ~Finish(r))
      <4>1. /\ sessions[r].pc \in {"posting", "awaiting", "accepted"}
            /\ \A q \in Requests : q # r => sessions'[q] = sessions[q]
            /\ settings' = settings
        BY <3>2 DEF TypeOK, Post, Timeout
      <4> QED
        BY <1>2, <4>1
    <3> QED
        BY <2>4, <3>1, <3>2
  <2> QED
    BY <1>7, <2>1, <2>2, <2>3, <2>4 DEF Progress
<1>8. ASSUME NEW p \in transit, Network(p)
      PROVE  PostersMayPost'
  <2>1. p.req \in Requests
    BY DEF TypeOK, Placements
  <2>2. CASE ExchangeAccept(p) /\ Awaited(p)
    <3>1. /\ sessions[p.req].pc = "awaiting"
          /\ \A q \in Requests : q # p.req => sessions'[q] = sessions[q]
          /\ settings' = settings
        BY <2>1, <2>2 DEF ExchangeAccept, Awaited, TypeOK
    <3> QED
        BY <1>2, <3>1
  <2>3. CASE ExchangeRefuse(p) /\ Awaited(p)
    BY <1>4, <2>1, <2>3 DEF ExchangeRefuse
  <2>4. CASE LosePost(p) \/ ((ExchangeAccept(p) \/ ExchangeRefuse(p)) /\ ~Awaited(p))
    BY <1>5, <2>4 DEF LosePost, ExchangeAccept, ExchangeRefuse
  <2> QED
    BY <1>8, <2>2, <2>3, <2>4 DEF Network
<1>9. CASE \/ \E enabled \in BOOLEAN : SetKillSwitch(enabled)
           \/ \E mode \in {"paper", "disabled"} : SetExecutionMode(mode)
           \/ ShowStatus
           \/ UNCHANGED vars
    BY <1>5, <1>9 DEF SetKillSwitch, SetExecutionMode, ShowStatus, vars
<1> QED
    BY <1>1, <1>6, <1>7, <1>8, <1>9 DEF Next

\* Nobody else sends anything.
LEMMA OnlyPostersPost ==
    ASSUME [Next]_vars, NEW p \in transit' \ transit
    PROVE  \E r \in Requests : Post(r) /\ sessions[r].pc = "posting"
<1>1. CASE \E r \in Requests, o \in Orders : Arrive(r, o)
    BY <1>1 DEF Arrive, BeginPreview, BeginApprove, BeginReject, BeginExecute
<1>2. CASE \E r \in Requests : Progress(r) \/ Abort(r)
  <2>1. PICK r \in Requests : Progress(r) \/ Abort(r)
    BY <1>2
  <2>2. CASE Post(r)
    BY <2>2 DEF Post
  <2>3. CASE \/ CommitPreview(r) \/ CommitApprove(r) \/ CommitReject(r)
             \/ LoadOrder(r) \/ ReadMode(r) \/ CommitPaper(r) \/ Timeout(r)
             \/ CommitSubmit(r) \/ Abort(r)
    BY <2>3 DEF CommitPreview, CommitApprove, CommitReject, LoadOrder, ReadMode,
        CommitPaper, Timeout, CommitSubmit, Abort
  <2> QED
    BY <2>1, <2>2, <2>3 DEF Progress
<1>3. CASE \E q \in transit : Network(q)
    BY <1>3 DEF Network, ExchangeAccept, ExchangeRefuse, LosePost
<1>4. CASE \/ \E enabled \in BOOLEAN : SetKillSwitch(enabled)
           \/ \E mode \in {"paper", "disabled"} : SetExecutionMode(mode)
           \/ ShowStatus
           \/ Restart
           \/ UNCHANGED vars
    BY <1>4 DEF SetKillSwitch, SetExecutionMode, ShowStatus, Restart, vars
<1> QED
    BY <1>1, <1>2, <1>3, <1>4 DEF Next

\* Whatever restarts and mode rows do, only a process whose settings enable
\* live trading sends a POST.
THEOREM OnlyLiveProcessesPost == Spec => LiveOnlyPosts
<1>1. Init => PostersMayPost
    BY DEF Init, PostersMayPost, Fresh, Session
<1>2. TypeOK /\ PostersMayPost /\ [Next]_vars => PostersMayPost'
    BY PostersKept
<1>3. PostersMayPost /\ [Next]_vars => [\A p \in transit' \ transit : ClientMayPost]_vars
    BY OnlyPostersPost DEF PostersMayPost
<1> QED
    BY <1>1, <1>2, <1>3, TypeCorrect, PTL DEF Spec, LiveOnlyPosts

\* Only ReadMode takes a session from the loaded order to the live path.
LEMMA OnlyReadModePosts ==
    ASSUME TypeOK, [Next]_vars, NEW q \in Requests,
           sessions[q].pc = "loaded", sessions'[q].pc = "posting"
    PROVE  ReadMode(q) /\ MayPost(sessions[q].seen) /\ EffectiveMode = "live"
<1> DEFINE Others(r) == \A x \in Requests : x # r => sessions'[x] = sessions[x]
<1>1. ASSUME NEW r \in Requests, NEW o \in Orders, Arrive(r, o)
      PROVE  FALSE
  <2>1. sessions[r].pc = "new" /\ Others(r)
    BY <1>1 DEF TypeOK, Arrive, BeginPreview, BeginApprove, BeginReject,
        BeginExecute, Begin, CanBegin
  <2> QED
    BY <2>1
<1>2. ASSUME NEW r \in Requests, Finish(r)
      PROVE  FALSE
    BY <1>2, FinishTyped, FinishedType
<1>3. ASSUME NEW r \in Requests, Progress(r) \/ Abort(r), ~ReadMode(r)
      PROVE  FALSE
  <2>1. CASE \/ CommitPreview(r) \/ CommitApprove(r) \/ CommitReject(r)
             \/ CommitPaper(r) \/ CommitSubmit(r) \/ Abort(r)
    BY <1>2, <2>1 DEF CommitPreview, CommitApprove, CommitReject, CommitPaper,
        CommitSubmit, Abort
  <2>2. CASE LoadOrder(r) \/ Post(r) \/ Timeout(r)
    <3>1. CASE Finish(r)
        BY <1>2, <3>1
    <3>2. CASE ~Finish(r)
        BY <2>2, <3>2 DEF TypeOK, LoadOrder, Post, Timeout
    <3> QED
        BY <3>1, <3>2
  <2> QED
    BY <1>3, <2>1, <2>2 DEF Progress
<1>4. ASSUME NEW r \in Requests, ReadMode(r), ~(MayPost(sessions[q].seen) /\ EffectiveMode = "live")
      PROVE  FALSE
  <2>1. PICK next : next = Route(EffectiveMode, sessions[r].seen)
    OBVIOUS
  <2>2. CASE next = "done"
    BY <1>2, <1>4, <2>1, <2>2 DEF ReadMode
  <2>3. CASE next # "done"
    <3>1. sessions' = [sessions EXCEPT ![r].pc = next]
        BY <1>4, <2>1, <2>3 DEF ReadMode
    <3>2. r = q => next # "posting"
        BY <1>4, <2>1 DEF Route
    <3>3. r # q => sessions'[q] = sessions[q]
        BY <3>1 DEF TypeOK
    <3>4. r = q => sessions'[q].pc = next
        BY <3>1 DEF TypeOK, Sessions
    <3> QED
        BY <3>2, <3>3, <3>4
  <2> QED
    BY <2>2, <2>3
<1>5. ASSUME NEW r \in Requests, ReadMode(r), r # q
      PROVE  FALSE
    BY <1>5 DEF TypeOK, ReadMode, Finish
<1>6. ASSUME NEW p \in transit, Network(p)
      PROVE  FALSE
  <2>1. p.req \in Requests
    BY DEF TypeOK, Placements
  <2>2. CASE Awaited(p)
    BY <1>6, <2>1, <2>2, FinishTyped DEF TypeOK, Network, ExchangeAccept,
        ExchangeRefuse, LosePost, Awaited
  <2>3. CASE ~Awaited(p)
    BY <1>6, <2>3 DEF Network, ExchangeAccept, ExchangeRefuse, LosePost
  <2> QED
    BY <2>2, <2>3
<1>7. CASE Restart
    BY <1>7, FinishedType DEF Restart
<1>8. CASE \/ \E enabled \in BOOLEAN : SetKillSwitch(enabled)
           \/ \E mode \in {"paper", "disabled"} : SetExecutionMode(mode)
           \/ ShowStatus
           \/ UNCHANGED vars
    BY <1>8 DEF SetKillSwitch, SetExecutionMode, ShowStatus, vars
<1> QED
    BY <1>1, <1>3, <1>4, <1>5, <1>6, <1>7, <1>8 DEF Next

\* No step turns an override back.
LEMMA OverrideStays ==
    ASSUME Overridden, [Next]_vars
    PROVE  Overridden'
<1>1. EffectiveMode = modeRow
    BY DEF Overridden, EffectiveMode
<1>2. modeRow' \in {modeRow, EffectiveMode, "paper", "disabled"}
  <2>1. CASE \E r \in Requests, o \in Orders : Arrive(r, o)
    BY <2>1 DEF Arrive, BeginPreview, BeginApprove, BeginReject, BeginExecute
  <2>2. CASE \E r \in Requests : Progress(r) \/ Abort(r)
    BY <2>2 DEF Progress, CommitPreview, CommitApprove, CommitReject, LoadOrder,
        ReadMode, CommitPaper, Post, Timeout, CommitSubmit, Abort
  <2>3. CASE \E p \in transit : Network(p)
    BY <2>3 DEF Network, ExchangeAccept, ExchangeRefuse, LosePost
  <2>4. CASE \/ \E enabled \in BOOLEAN : SetKillSwitch(enabled)
             \/ \E mode \in {"paper", "disabled"} : SetExecutionMode(mode)
             \/ ShowStatus
             \/ Restart
             \/ UNCHANGED vars
    BY <2>4 DEF SetKillSwitch, SetExecutionMode, ShowStatus, Restart, vars
  <2> QED
    BY <2>1, <2>2, <2>3, <2>4 DEF Next
<1> QED
    BY <1>1, <1>2 DEF Overridden

\* Once an operator has overridden the mode, no later restart or environment
\* leads a request that reads the mode to the live path.
THEOREM OverridesLast == Spec => OverrideOutlivesRestarts
<1>1. TypeOK /\ [Next]_vars
        => [Overridden => /\ Overridden'
                          /\ \A r \in Requests : sessions[r].pc = "loaded"
                                => sessions'[r].pc # "posting"]_vars
    BY OverrideStays, OnlyReadModePosts DEF Overridden, EffectiveMode
<1> QED
    BY <1>1, TypeCorrect, PTL DEF Spec, OverrideOutlivesRestarts

-----------------------------------------------------------------------------
(* One request at a time *)

\* Without another request in progress, the row a session has loaded is the
\* row there is.
SeenIsStored(r) ==
    LET s == sessions[r]
    IN  /\ s.pc = "previewing" => orders[s.order].approval = "absent"
        /\ s.pc \notin {"new", "done", "previewing", "switch_read"}
                => orders[s.order].approval = s.seen.approval

SerialInv ==
    /\ \A r, q \in Requests : InProgress(r) /\ InProgress(q) => r = q
    /\ \A r \in Requests : SeenIsStored(r)

\* A request begins only when no other is in progress.
LEMMA BeginsAlone ==
    ASSUME MaxConcurrent = 1, SerialInv, NEW r \in Requests, CanBegin(r)
    PROVE  \A q \in Requests : ~InProgress(q)
<1> DEFINE S == {q \in Requests : InProgress(q)}
<1>1. Cardinality(S) < 1
    BY DEF CanBegin
<1>2. \A x, y \in S : x = y
    BY DEF SerialInv
<1> HIDE DEF S
<1>3. S = {}
  <2>1. ASSUME NEW x \in S PROVE FALSE
    <3>1. S = {x}
        BY <1>2, <2>1
    <3>2. Cardinality(S) = 1
        BY <3>1, FS_Singleton
    <3> QED
        BY <1>1, <3>2
  <2> QED
    BY <2>1
<1> QED
    BY <1>3 DEF S

\* The end of the only request leaves none.
LEMMA SerialFinish ==
    ASSUME TypeOK, SerialInv, NEW r \in Requests, InProgress(r), Finish(r)
    PROVE  SerialInv'
<1>1. \A q \in Requests : sessions'[q].pc \in {"new", "done"}
  <2> TAKE q \in Requests
  <2>1. CASE q = r
    BY <2>1, FinishTyped, FinishedType
  <2>2. CASE q # r
    <3>1. ~InProgress(q)
        BY <2>2 DEF SerialInv
    <3> QED
        BY <2>2, <3>1, FinishTyped DEF InProgress
  <2> QED
    BY <2>1, <2>2
<1> QED
    BY <1>1 DEF SerialInv, SeenIsStored, InProgress

\* Any step that leaves the orders, and at most one request in progress.
LEMMA SerialMove ==
    ASSUME SerialInv, NEW r \in Requests, UNCHANGED orders, SeenIsStored(r)',
           \A q \in Requests : q # r => sessions'[q] = sessions[q],
           \A q \in Requests : q # r => ~InProgress(q)
    PROVE  SerialInv'
<1>1. \A q \in Requests : q # r => SeenIsStored(q)'
    BY DEF SerialInv, SeenIsStored
<1>2. \A q \in Requests : q # r => ~InProgress(q)'
    BY DEF InProgress
<1> QED
    BY <1>1, <1>2 DEF SerialInv

\* A request that begins alone loads the row there is.
LEMMA SerialArrive ==
    ASSUME MaxConcurrent = 1, TypeOK, SerialInv, NEW r \in Requests, NEW o \in Orders,
           Arrive(r, o)
    PROVE  SerialInv'
<1>1. orders[o] \in Rows /\ NoRow \in Rows /\ NoRow.approval = "absent"
    BY RowType DEF TypeOK, NoRow
<1>2. ASSUME NEW pc \in {"previewing", "approving", "rejecting", "switch_read"},
             NEW row \in Rows, Begin(r, Session(pc, o, row)), UNCHANGED orders,
             pc = "previewing" => orders[o] = NoRow,
             pc \in {"approving", "rejecting"} => row = orders[o]
      PROVE  SerialInv'
  <2> DEFINE s == Session(pc, o, row)
  <2>1. s \in Sessions /\ s.pc = pc /\ s.order = o /\ s.seen = row
    BY <1>2, SessionType DEF PCs
  <2> HIDE DEF s
  <2>2. Begin(r, s)
    BY <1>2 DEF s
  <2>3. sessions'[r] = s /\ \A q \in Requests : q # r => sessions'[q] = sessions[q]
    BY <2>1, <2>2, BeginTyped
  <2>4. \A q \in Requests : ~InProgress(q)
    BY <2>2, BeginsAlone DEF Begin
  <2>5. SeenIsStored(r)'
    BY <1>1, <1>2, <2>1, <2>3 DEF SeenIsStored
  <2> QED
    BY <1>2, <2>3, <2>4, <2>5, SerialMove
<1>3. CASE BeginPreview(r, o)
  <2>1. PICK passed \in BOOLEAN :
            Begin(r, Session("previewing", o,
                        Row(IF passed THEN "pending_approval" ELSE "blocked")))
    BY <1>3 DEF BeginPreview
  <2>2. PICK row \in Rows : row = Row(IF passed THEN "pending_approval" ELSE "blocked")
    BY RowType DEF ApprovalStatus
  <2> QED
    BY <1>2, <1>3, <2>1, <2>2 DEF BeginPreview
<1>4. CASE BeginApprove(r, o)
    BY <1>1, <1>2, <1>4 DEF BeginApprove
<1>5. CASE BeginReject(r, o)
    BY <1>1, <1>2, <1>5 DEF BeginReject
<1>6. CASE BeginExecute(r, o)
    BY <1>1, <1>2, <1>6 DEF BeginExecute
<1> QED
    BY <1>3, <1>4, <1>5, <1>6 DEF Arrive

\* A session that moves on with the row it holds.
LEMMA SerialOnward ==
    ASSUME TypeOK, SerialInv, NEW r \in Requests, UNCHANGED orders,
           sessions[r].pc \in {"loaded", "posting", "awaiting", "accepted"},
           NEW pc \in {"paper", "posting", "awaiting", "accepted"}, NEW n,
           \/ sessions' = [sessions EXCEPT ![r].pc = pc]
           \/ sessions' = [sessions EXCEPT ![r].pc = pc, ![r].attempt = n]
    PROVE  SerialInv'
<1>1. /\ sessions'[r].pc = pc /\ sessions'[r].order = sessions[r].order
      /\ sessions'[r].seen = sessions[r].seen
      /\ \A q \in Requests : q # r => sessions'[q] = sessions[q]
    BY DEF TypeOK, Sessions
<1>2. SeenIsStored(r)'
    BY <1>1 DEF SerialInv, SeenIsStored
<1>3. \A q \in Requests : q # r => ~InProgress(q)
    BY DEF SerialInv, InProgress
<1> QED
    BY <1>1, <1>2, <1>3, SerialMove

\* A handler alone goes on with the row there is, and its commit ends it.
LEMMA SerialProgress ==
    ASSUME TypeOK, SerialInv, NEW r \in Requests, Progress(r) \/ Abort(r)
    PROVE  SerialInv'
<1>1. InProgress(r)
    BY DEF Progress, Abort, CommitPreview, CommitApprove, CommitReject, LoadOrder,
       ReadMode, CommitPaper, Post, Timeout, CommitSubmit, InProgress
<1>2. CASE Finish(r)
    BY <1>1, <1>2, SerialFinish
<1>3. CASE ~Finish(r)
  <2>1. LoadOrder(r) \/ ReadMode(r) \/ Post(r) \/ Timeout(r)
    BY <1>3 DEF Progress, Abort, CommitPreview, CommitApprove, CommitReject,
       CommitPaper, CommitSubmit
  <2>2. CASE LoadOrder(r)
    <3>1. PICK o : o = sessions[r].order
        OBVIOUS
    <3>2. /\ orders' = orders
          /\ sessions' = [sessions EXCEPT ![r] = Session("loaded", o, orders[o])]
        BY <1>3, <2>2, <3>1 DEF LoadOrder
    <3>3. /\ sessions'[r].pc = "loaded" /\ sessions'[r].order = o
          /\ sessions'[r].seen = orders[o]
          /\ \A q \in Requests : q # r => sessions'[q] = sessions[q]
        BY <3>2 DEF TypeOK, Session
    <3>4. \A q \in Requests : q # r => ~InProgress(q)
        BY <1>1 DEF SerialInv
    <3>5. SeenIsStored(r)'
        BY <3>2, <3>3 DEF SeenIsStored
    <3> QED
        BY <3>2, <3>3, <3>4, <3>5, SerialMove
  <2>3. CASE ReadMode(r)
    <3>1. PICK next : next = Route(EffectiveMode, sessions[r].seen)
        OBVIOUS
    <3>2. next \in {"paper", "posting"}
        BY <1>3, <2>3, <3>1 DEF ReadMode, Route
    <3>3. sessions' = [sessions EXCEPT ![r].pc = next] /\ orders' = orders
        BY <2>3, <3>1, <3>2 DEF ReadMode
    <3> QED
        BY <2>3, <3>2, <3>3, SerialOnward DEF ReadMode
  <2>4. CASE Post(r)
    <3>1. PICK n : n = sessions[r].attempt + 1
        OBVIOUS
    <3>2. /\ sessions' = [sessions EXCEPT ![r].pc = "awaiting", ![r].attempt = n]
          /\ orders' = orders /\ sessions[r].pc = "posting"
        BY <2>4, <3>1 DEF Post
    <3> QED
        BY <3>2, SerialOnward
  <2>5. CASE Timeout(r)
    <3>1. /\ sessions' = [sessions EXCEPT ![r].pc = "posting"] /\ orders' = orders
          /\ sessions[r].pc \in {"awaiting", "accepted"}
        BY <1>3, <2>5 DEF Timeout
    <3> QED
        BY <3>1, SerialOnward
  <2> QED
    BY <2>1, <2>2, <2>3, <2>4, <2>5
<1> QED
    BY <1>2, <1>3

\* With one request at a time its row stays the stored one.
LEMMA SerialKept ==
    ASSUME MaxConcurrent = 1, IInv, SerialInv, [Next]_vars
    PROVE  SerialInv'
<1>1. TypeOK
    BY DEF IInv
<1>2. ASSUME UNCHANGED <<orders, sessions>> PROVE SerialInv'
    BY <1>2 DEF SerialInv, SeenIsStored, InProgress
<1>3. ASSUME NEW p \in transit, Network(p) PROVE SerialInv'
  <2>1. p.req \in Requests
    BY <1>1 DEF TypeOK, Placements
  <2>2. CASE ExchangeAccept(p) /\ Awaited(p)
    <3>1. /\ sessions[p.req].pc = "awaiting" /\ orders' = orders
          /\ sessions' = [sessions EXCEPT ![p.req].pc = "accepted"]
        BY <2>2 DEF ExchangeAccept, Awaited
    <3> QED
        BY <1>1, <2>1, <3>1, SerialOnward
  <2>3. CASE ExchangeRefuse(p) /\ Awaited(p)
    <3>1. InProgress(p.req) /\ Finish(p.req)
        BY <2>3 DEF ExchangeRefuse, Awaited, InProgress
    <3> QED
        BY <1>1, <2>1, <3>1, SerialFinish
  <2>4. CASE LosePost(p) \/ ((ExchangeAccept(p) \/ ExchangeRefuse(p)) /\ ~Awaited(p))
    BY <1>2, <2>4 DEF LosePost, ExchangeAccept, ExchangeRefuse
  <2> QED
    BY <1>3, <2>2, <2>3, <2>4 DEF Network
<1>4. CASE Restart
  <2>1. \A r \in Requests : sessions'[r].pc \in {"new", "done"}
    BY <1>4, FinishedType DEF Restart, InProgress
  <2> QED
    BY <2>1 DEF SerialInv, SeenIsStored, InProgress
<1>5. CASE \/ \E enabled \in BOOLEAN : SetKillSwitch(enabled)
           \/ \E mode \in {"paper", "disabled"} : SetExecutionMode(mode)
           \/ ShowStatus
           \/ UNCHANGED vars
    BY <1>2, <1>5 DEF SetKillSwitch, SetExecutionMode, ShowStatus, vars
<1> QED
    BY <1>1, <1>3, <1>4, <1>5, SerialArrive, SerialProgress DEF Next

\* Both invariants hold throughout.
LEMMA SerialInvariance ==
    ASSUME MaxConcurrent = 1
    PROVE  Spec => [](IInv /\ SerialInv)
<1>1. Init => SerialInv
    BY DEF Init, SerialInv, SeenIsStored, InProgress, Fresh, Session
<1>2. IInv /\ SerialInv /\ [Next]_vars => SerialInv'
    BY SerialKept
<1> QED
    BY <1>1, <1>2, Invariance, PTL DEF Spec

\* What the two decisions and the submission make of an approval status: the row
\* that is stored has the status the transition was validated on.
LEMMA TransitionFollows ==
    ASSUME NEW stored \in Rows, NEW seen \in Rows, NEW edited \in Rows,
           NEW target \in ApprovalStatus, target \in Allowed[seen.approval],
           edited.approval = target, stored.approval = seen.approval
    PROVE  \/ Flush(stored, seen, edited).approval = stored.approval
           \/ Flush(stored, seen, edited).approval \in Allowed[stored.approval]
BY FlushedRow

\* A screened order is blocked or waits for its approval.
LEMMA ProposalsAllowed == {"blocked", "pending_approval"} \subseteq Allowed["proposed"]
<1>1. Allowed["proposed"] = {"blocked", "pending_approval"}
    BY DEF Allowed, ApprovalStatus
<1> QED
    BY <1>1

\* A step of the approval status of an order that the table allows.
Follows(o) ==
    orders[o].approval # orders'[o].approval =>
        IF orders[o].approval = "absent"
        THEN orders'[o].approval \in Allowed["proposed"]
        ELSE orders'[o].approval \in Allowed[orders[o].approval]

\* A decision or a submission that is validated on the stored row follows the table.
LEMMA TransitionsFollow ==
    ASSUME IInv, SerialInv, NEW r \in Requests, NEW edited \in Rows,
           NEW target \in ApprovalStatus, target \in Allowed[sessions[r].seen.approval],
           edited.approval = target, Write(r, edited),
           sessions[r].pc \in {"approving", "rejecting", "accepted"}
    PROVE  \A o \in Orders : Follows(o)
<1> PICK x, seen : x = sessions[r].order /\ seen = sessions[r].seen
    OBVIOUS
<1>1. /\ x \in Orders /\ orders[x] \in Rows /\ seen \in Rows
      /\ orders[x].approval = seen.approval /\ seen.approval # "absent"
    BY DEF IInv, TypeOK, Sessions, SessionTrail, SerialInv, SeenIsStored
<1> PICK row : row = Flush(orders[x], seen, edited)
    OBVIOUS
<1>2. row.approval = orders[x].approval \/ row.approval \in Allowed[orders[x].approval]
    BY <1>1, TransitionFollows
<1>3. orders'[x] = row /\ \A o \in Orders : o # x => orders'[o] = orders[o]
    BY <1>1 DEF Write, IInv, TypeOK
<1> QED
    BY <1>1, <1>2, <1>3 DEF Follows

\* Every step follows the table.
LEMMA StepsFollow ==
    ASSUME IInv, SerialInv, [Next]_vars
    PROVE  \A o \in Orders : Follows(o)
<1>1. ASSUME UNCHANGED orders PROVE \A o \in Orders : Follows(o)
    BY <1>1 DEF Follows
<1>2. ASSUME NEW r \in Requests, CommitPreview(r) PROVE \A o \in Orders : Follows(o)
  <2> PICK x, row : x = sessions[r].order /\ row = sessions[r].seen
    OBVIOUS
  <2>1. /\ x \in Orders /\ orders[x].approval = "absent"
        /\ row \in {Row("pending_approval"), Row("blocked")}
    BY <1>2 DEF CommitPreview, IInv, SessionTrail, SerialInv, SeenIsStored
  <2>2. row.approval \in {"blocked", "pending_approval"}
    BY <2>1, RowType DEF ApprovalStatus
  <2>3. orders'[x] = row /\ \A o \in Orders : o # x => orders'[o] = orders[o]
    BY <1>2, <2>1 DEF CommitPreview, IInv, TypeOK
  <2> QED
    BY <2>1, <2>2, <2>3, ProposalsAllowed DEF Follows
<1>3. ASSUME NEW r \in Requests, CommitApprove(r) \/ CommitReject(r)
      PROVE  \A o \in Orders : Follows(o)
  <2>1. PICK seen \in Rows : seen = sessions[r].seen
    BY DEF IInv, TypeOK, Sessions
  <2>2. PICK target \in {"approved", "rejected"} :
            /\ target \in Allowed[seen.approval] /\ Write(r, Transitioned(seen, target))
            /\ sessions[r].pc \in {"approving", "rejecting"}
    BY <1>3, <2>1 DEF CommitApprove, CommitReject
  <2>3. PICK edited \in Rows : edited = Transitioned(seen, target) /\ edited.approval = target
    BY <2>1, <2>2, TransitionedRow DEF ApprovalStatus
  <2>4. target \in ApprovalStatus
    BY DEF ApprovalStatus
  <2> QED
    BY <2>1, <2>2, <2>3, <2>4, TransitionsFollow
<1>4. ASSUME NEW r \in Requests, CommitSubmit(r) PROVE \A o \in Orders : Follows(o)
  <2>1. PICK seen \in Rows : seen = sessions[r].seen
    BY DEF IInv, TypeOK, Sessions
  <2>2. PICK p \in Placements : p = PlacementOf(r)
    BY <1>4 DEF CommitSubmit, IInv, SessionTrail, TypeOK
  <2>3. PICK edited : edited = [Transitioned(seen, "submitted") EXCEPT !.kalshiId = p]
    OBVIOUS
  <2>4. edited \in Rows /\ edited.approval = "submitted"
    BY <2>3, TransitionedRow DEF Rows, ApprovalStatus
  <2>5. /\ "submitted" \in Allowed[seen.approval] /\ Write(r, edited)
        /\ sessions[r].pc = "accepted"
    BY <1>4, <2>1, <2>2, <2>3 DEF CommitSubmit
  <2>6. "submitted" \in ApprovalStatus
    BY DEF ApprovalStatus
  <2> QED
    BY <2>1, <2>4, <2>5, <2>6, TransitionsFollow
\* A simulated fill leaves the approval status alone, whatever the session has seen.
<1>5. ASSUME NEW r \in Requests, CommitPaper(r) PROVE \A o \in Orders : Follows(o)
  <2> PICK x, seen : x = sessions[r].order /\ seen = sessions[r].seen
    OBVIOUS
  <2>1. x \in Orders /\ orders[x] \in Rows /\ seen \in Rows
    BY <1>5 DEF IInv, TypeOK, Sessions, SessionTrail, CommitPaper
  <2>2. PICK fill \in {"filled", "partially_filled"} :
            Write(r, [seen EXCEPT !.status = fill, !.kalshiId = NoPlacement])
    BY <1>5 DEF CommitPaper
  <2>3. PICK edited : edited = [seen EXCEPT !.status = fill, !.kalshiId = NoPlacement]
    OBVIOUS
  <2>4. edited \in Rows /\ edited.approval = seen.approval
    BY <2>1, <2>3 DEF Rows, ApprovalStatus
  <2> PICK row : row = Flush(orders[x], seen, edited)
    OBVIOUS
  <2>5. row.approval = orders[x].approval
    BY <2>1, <2>4, FlushedRow
  <2>6. orders'[x] = row /\ \A o \in Orders : o # x => orders'[o] = orders[o]
    BY <2>1, <2>2, <2>3 DEF Write, IInv, TypeOK
  <2> QED
    BY <2>5, <2>6 DEF Follows
<1>6. ASSUME NEW r \in Requests, Progress(r) \/ Abort(r) PROVE \A o \in Orders : Follows(o)
  <2>1. CASE LoadOrder(r) \/ ReadMode(r) \/ Post(r) \/ Timeout(r) \/ Abort(r)
    BY <1>1, <2>1 DEF LoadOrder, ReadMode, Post, Timeout, Abort
  <2> QED
    BY <1>2, <1>3, <1>4, <1>5, <1>6, <2>1 DEF Progress
<1>7. CASE \/ \E r \in Requests, o \in Orders : Arrive(r, o)
           \/ \E p \in transit : Network(p)
    BY <1>1, <1>7 DEF Arrive, BeginPreview, BeginApprove, BeginReject, BeginExecute,
       Network, ExchangeAccept, ExchangeRefuse, LosePost
<1>8. CASE \/ \E enabled \in BOOLEAN : SetKillSwitch(enabled)
           \/ \E mode \in {"paper", "disabled"} : SetExecutionMode(mode)
           \/ ShowStatus \/ Restart
           \/ UNCHANGED vars
    BY <1>1, <1>8 DEF SetKillSwitch, SetExecutionMode, ShowStatus, Restart, vars
<1> QED
    BY <1>6, <1>7, <1>8 DEF Next

\* Every handler of its own follows the transition table: with one request at a time
\* the approval status of no order leaves it, through failures and restarts.
THEOREM SerialLifecycle ==
    ASSUME MaxConcurrent = 1
    PROVE  Spec => LifecycleFollowsTable
<1>1. IInv /\ SerialInv /\ [Next]_vars =>
        [\A o \in Orders :
            LET from == orders[o].approval
                to == orders'[o].approval
            IN  from # to => IF from = "absent"
                             THEN to \in Allowed["proposed"]
                             ELSE to \in Allowed[from]]_vars
    BY StepsFollow DEF Follows
<1> QED
    BY <1>1, SerialInvariance, PTL DEF Spec, LifecycleFollowsTable

\* With one request at a time, a POST leaves only while the stored order, not just
\* the one the session has loaded, is approved: also the POST of a retry.
THEOREM SerialPostsAreApproved ==
    ASSUME MaxConcurrent = 1
    PROVE  Spec => ApprovedAtPost
<1>1. IInv /\ SerialInv /\ [Next]_vars =>
        [\A p \in transit' \ transit : orders[p.order].approval = "approved"]_vars
  <2> SUFFICES ASSUME IInv, SerialInv, [Next]_vars, NEW p \in transit' \ transit
               PROVE  orders[p.order].approval = "approved"
    OBVIOUS
  <2>1. PICK r \in Requests : Post(r) /\ sessions[r].pc = "posting"
    BY OnlyPostersPost
  <2>2. PICK n : n = sessions[r].attempt + 1
    OBVIOUS
  <2>3. p = [PlacementOf(r) EXCEPT !.attempt = n]
    BY <2>1, <2>2 DEF Post
  <2>4. p.order = sessions[r].order
    BY <2>3 DEF PlacementOf
  <2>5. sessions[r].seen.approval = "approved"
    BY <2>1 DEF IInv, SessionTrail
  <2>6. orders[sessions[r].order].approval = sessions[r].seen.approval
    BY <2>1 DEF SerialInv, SeenIsStored
  <2> QED
    BY <2>4, <2>5, <2>6
<1> QED
    BY <1>1, SerialInvariance, PTL DEF Spec, ApprovedAtPost

-----------------------------------------------------------------------------
(* How a request wears out: what one step may make of its session. *)

\* From s to t a session goes on with the order and the attempt it has.
Onward(s, t) ==
    /\ t.order = s.order
    /\ \/ s.pc = "switch_read" /\ t.pc = "loaded" /\ t.attempt = 0
       \/ s.pc = "loaded" /\ t.pc \in {"paper", "posting"} /\ t.attempt = s.attempt
       \/ s.pc = "posting" /\ t.pc = "awaiting" /\ t.attempt = s.attempt + 1
       \/ s.pc = "awaiting" /\ t.pc = "accepted" /\ t.attempt = s.attempt
       \/ s.pc \in {"awaiting", "accepted"} /\ t.pc = "posting" /\ t.attempt = s.attempt

\* A session begins, goes on or ends; execute_order begins only with trading enabled.
Moves(s, t) ==
    \/ s.pc = "new" /\ t.pc \in {"previewing", "approving", "rejecting"}
    \/ s.pc = "new" /\ t.pc = "switch_read" /\ killSwitch
    \/ Onward(s, t)
    \/ s.pc \notin {"new", "done"} /\ t = Finished

\* The begin of a request.
LEMMA BeginMoves ==
    ASSUME TypeOK, NEW r \in Requests, NEW o \in Orders, Arrive(r, o), NEW q \in Requests
    PROVE  sessions'[q] = sessions[q] \/ Moves(sessions[q], sessions'[q])
<1>1. PICK pc, row :
          /\ pc \in {"previewing", "approving", "rejecting", "switch_read"}
          /\ Begin(r, Session(pc, o, row)) /\ (pc = "switch_read" => killSwitch)
  <2>1. \/ \E row : \/ Begin(r, Session("previewing", o, row))
                   \/ Begin(r, Session("approving", o, row))
                   \/ Begin(r, Session("rejecting", o, row))
        \/ killSwitch /\ \E row : Begin(r, Session("switch_read", o, row))
    BY Zenon DEF Arrive, BeginPreview, BeginApprove, BeginReject, BeginExecute
  <2> QED
    BY <2>1
<1>2. /\ sessions[r].pc = "new"
      /\ sessions'[r].pc = pc
      /\ \A x \in Requests : x # r => sessions'[x] = sessions[x]
    BY <1>1 DEF Begin, CanBegin, Session, TypeOK
<1> QED
    BY <1>1, <1>2 DEF Moves

\* The steps of a handler.
LEMMA HandlerMoves ==
    ASSUME IInv, NEW r \in Requests, Progress(r) \/ Abort(r), NEW q \in Requests
    PROVE  sessions'[q] = sessions[q] \/ Moves(sessions[q], sessions'[q])
<1>0. TypeOK /\ SessionTrail(r) /\ sessions[r] \in Sessions
    BY DEF IInv, TypeOK
<1>1. CASE Finish(r) /\ sessions[r].pc \notin {"new", "done"}
    BY <1>0, <1>1, FinishTyped DEF Moves
<1>2. ASSUME NEW pc \in PCs,
             \/ sessions' = [sessions EXCEPT ![r].pc = pc]
             \/ sessions' = [sessions EXCEPT ![r].pc = pc, ![r].attempt = sessions[r].attempt + 1]
      PROVE  /\ sessions'[r].pc = pc
             /\ sessions'[r].order = sessions[r].order
             /\ \A x \in Requests : x # r => sessions'[x] = sessions[x]
    BY <1>0, <1>2 DEF TypeOK, Sessions
<1>3. CASE LoadOrder(r) /\ ~Finish(r)
  <2>1. sessions[r].pc = "switch_read"
    BY <1>3 DEF LoadOrder
  <2>2. /\ sessions'[r] = Session("loaded", sessions[r].order, orders[sessions[r].order])
        /\ \A x \in Requests : x # r => sessions'[x] = sessions[x]
    BY <1>0, <1>3 DEF LoadOrder, TypeOK
  <2> QED
    BY <2>1, <2>2 DEF Moves, Onward, Session
<1>4. CASE ReadMode(r) /\ ~Finish(r)
  <2>1. PICK next \in {"paper", "posting"} : sessions' = [sessions EXCEPT ![r].pc = next]
    BY <1>4, Zenon DEF ReadMode, Route
  <2>2. sessions[r].pc = "loaded" /\ sessions'[r].attempt = sessions[r].attempt
    BY <1>0, <1>4, <2>1 DEF ReadMode, TypeOK, Sessions
  <2> QED
    BY <1>2, <2>1, <2>2 DEF Moves, Onward, PCs
<1>5. CASE Post(r)
  <2>1. /\ sessions[r].pc = "posting"
        /\ sessions' = [sessions EXCEPT ![r].pc = "awaiting",
                                        ![r].attempt = sessions[r].attempt + 1]
    BY <1>5 DEF Post
  <2>2. sessions'[r].attempt = sessions[r].attempt + 1
    BY <1>0, <2>1 DEF TypeOK, Sessions
  <2> QED
    BY <1>2, <2>1, <2>2 DEF Moves, Onward, PCs
<1>6. CASE Timeout(r) /\ ~Finish(r)
  <2>1. /\ sessions[r].pc \in {"awaiting", "accepted"}
        /\ sessions' = [sessions EXCEPT ![r].pc = "posting"]
    BY <1>6 DEF Timeout
  <2>2. sessions'[r].attempt = sessions[r].attempt
    BY <1>0, <2>1 DEF TypeOK, Sessions
  <2> QED
    BY <1>2, <2>1, <2>2 DEF Moves, Onward, PCs
<1>7. CASE \/ CommitPreview(r) \/ CommitApprove(r) \/ CommitReject(r)
           \/ CommitPaper(r) \/ CommitSubmit(r) \/ Abort(r)
  <2>1. Finish(r) /\ sessions[r].pc \notin {"new", "done"}
    BY <1>7 DEF CommitPreview, CommitApprove, CommitReject, CommitPaper, CommitSubmit,
        Abort, InProgress
  <2> QED
    BY <1>1, <2>1
<1>8. CASE Finish(r) /\ (LoadOrder(r) \/ ReadMode(r) \/ Timeout(r))
    BY <1>1, <1>8 DEF LoadOrder, ReadMode, Timeout
<1> QED
    BY <1>3, <1>4, <1>5, <1>6, <1>7, <1>8 DEF Progress

\* The answers of the exchange.
LEMMA AnswersMove ==
    ASSUME IInv, NEW p \in transit, Network(p), NEW q \in Requests
    PROVE  sessions'[q] = sessions[q] \/ Moves(sessions[q], sessions'[q])
<1>0. TypeOK /\ p.req \in Requests /\ sessions[p.req] \in Sessions
    BY DEF IInv, TypeOK, Placements
<1>1. CASE sessions' = sessions
    BY <1>1
<1>2. CASE Awaited(p) /\ sessions' = [sessions EXCEPT ![p.req].pc = "accepted"]
  <2>1. sessions[p.req].pc = "awaiting"
    BY <1>2 DEF Awaited
  <2>2. /\ sessions'[p.req].pc = "accepted"
        /\ sessions'[p.req].order = sessions[p.req].order
        /\ sessions'[p.req].attempt = sessions[p.req].attempt
        /\ \A x \in Requests : x # p.req => sessions'[x] = sessions[x]
    BY <1>0, <1>2 DEF TypeOK, Sessions
  <2> QED
    BY <2>1, <2>2 DEF Moves, Onward
<1>3. CASE Awaited(p) /\ Finish(p.req)
    BY <1>0, <1>3, FinishTyped DEF Moves, Awaited
<1> QED
    BY <1>1, <1>2, <1>3 DEF Network, ExchangeAccept, ExchangeRefuse, LosePost

\* Whatever the step, a session stays as it is or moves.
LEMMA SessionsMove ==
    ASSUME IInv, [Next]_vars, NEW q \in Requests
    PROVE  sessions'[q] = sessions[q] \/ Moves(sessions[q], sessions'[q])
<1>1. CASE \E r \in Requests, o \in Orders : Arrive(r, o)
    BY <1>1, BeginMoves DEF IInv
<1>2. CASE \E r \in Requests : Progress(r) \/ Abort(r)
    BY <1>2, HandlerMoves
<1>3. CASE \E p \in transit : Network(p)
    BY <1>3, AnswersMove
<1>4. CASE \/ \E enabled \in BOOLEAN : SetKillSwitch(enabled)
           \/ \E mode \in {"paper", "disabled"} : SetExecutionMode(mode)
           \/ ShowStatus
           \/ UNCHANGED vars
    BY <1>4 DEF SetKillSwitch, SetExecutionMode, ShowStatus, vars
<1>5. CASE Restart
    BY <1>5 DEF Restart, InProgress, Moves
<1> QED
    BY <1>1, <1>2, <1>3, <1>4, <1>5 DEF Next

\* How many steps request r can still take.
StepsLeft(r) ==
    LET pc == sessions[r].pc
        retries == 3 * (MaxAttempts - sessions[r].attempt)
    IN  CASE pc = "new" -> 3 * MaxAttempts + 4
          [] pc = "switch_read" -> 3 * MaxAttempts + 3
          [] pc = "loaded" -> 3 * MaxAttempts + 2
          [] pc = "awaiting" -> retries + 3
          [] pc = "accepted" -> retries + 2
          [] pc = "posting" -> retries + 1
          [] pc \in {"previewing", "approving", "rejecting", "paper"} -> 1
          [] pc = "done" -> 0

\* A request can take no more steps than those of an order that is sent until the
\* retries are used up.
LEMMA StepsLeftBounded ==
    ASSUME IInv, NEW r \in Requests
    PROVE  StepsLeft(r) \in 0..(3 * MaxAttempts + 4)
<1>1. /\ sessions[r].pc \in PCs /\ sessions[r].attempt \in 0..MaxAttempts
      /\ sessions[r].pc \in {"awaiting", "accepted"} => sessions[r].attempt > 0
    BY DEF IInv, TypeOK, Sessions, SessionTrail
<1> QED
    BY <1>1, AttemptsAssumption DEF StepsLeft, PCs

\* Each move takes one of them.
LEMMA MovesWearOut ==
    ASSUME IInv, IInv', NEW r \in Requests, Moves(sessions[r], sessions'[r])
    PROVE  StepsLeft(r)' < StepsLeft(r)
<1> DEFINE s == sessions[r]
           t == sessions'[r]
<1>1. /\ s.pc \in PCs /\ s.attempt \in 0..MaxAttempts
      /\ s.pc \in {"awaiting", "accepted"} => s.attempt > 0
      /\ s.pc = "loaded" => s.attempt = 0
    BY DEF IInv, TypeOK, Sessions, SessionTrail
<1>2. /\ t.pc \in PCs /\ t.attempt \in 0..MaxAttempts
      /\ t.pc \in {"awaiting", "accepted"} => t.attempt > 0
    BY DEF IInv, TypeOK, Sessions, SessionTrail
<1>3. Finished.pc = "done"
    BY FinishedType
<1>4. Moves(s, t)
    OBVIOUS
<1> HIDE DEF s, t
<1>5. CASE Onward(s, t)
    BY <1>1, <1>2, <1>5, AttemptsAssumption DEF Onward, StepsLeft, s, t, PCs
<1>6. CASE ~Onward(s, t)
    BY <1>1, <1>2, <1>3, <1>4, <1>6, AttemptsAssumption DEF Moves, StepsLeft, s, t, PCs
<1> QED
    BY <1>5, <1>6

\* No request runs for ever: whatever the others, the exchange and the operators do,
\* a step that touches its session is one of at most 3 * MaxAttempts + 4, and no step
\* gives it another.  It is what the retry loop of KalshiRestClient._request owes to
\* RequestsEnd; that the steps are taken is left to the fairness.
THEOREM RequestsWearOut ==
    Spec => /\ [](\A r \in Requests : StepsLeft(r) \in 0..(3 * MaxAttempts + 4))
            /\ [][\A r \in Requests :
                    sessions'[r] # sessions[r] => StepsLeft(r)' < StepsLeft(r)]_vars
<1>1. IInv => \A r \in Requests : StepsLeft(r) \in 0..(3 * MaxAttempts + 4)
    BY StepsLeftBounded
<1>2. IInv /\ IInv' /\ [Next]_vars
        => [\A r \in Requests :
              sessions'[r] # sessions[r] => StepsLeft(r)' < StepsLeft(r)]_vars
    BY SessionsMove, MovesWearOut
<1> QED
    BY <1>1, <1>2, Invariance, PTL DEF Spec
-----------------------------------------------------------------------------
(* What a request sends. *)

\* The POSTs of request r that travel or have reached the exchange.
SentBy(r) == {p \in transit \cup exchange : p.req = r}

\* A request sends one order, no more often than there are attempts; each POST reaches
\* the exchange once at most, and of each order only one if the exchange dedupes.
RetriesStayBounded ==
    /\ \A r \in Requests :
          /\ \A p, q \in SentBy(r) : p.order = q.order
          /\ IsFiniteSet(SentBy(r)) /\ Cardinality(SentBy(r)) <= MaxAttempts
    /\ transit \cap exchange = {}
    /\ ExchangeDedupes => \A p, q \in exchange : p.order = q.order => p = q

\* Its inductive form: while a request lasts, what it has sent is of its order, and of
\* no attempt that is still to come.
SendsInTurn ==
    /\ \A r \in Requests : \A p \in SentBy(r) :
          /\ sessions[r].pc # "new"
          /\ InProgress(r) => /\ sessions[r].pc \in {"posting", "awaiting", "accepted"}
                              /\ p.order = sessions[r].order
                              /\ p.attempt <= sessions[r].attempt
    /\ \A p, q \in transit \cup exchange : p.req = q.req => p.order = q.order
    /\ transit \cap exchange = {}
    /\ ExchangeDedupes => \A p, q \in exchange : p.order = q.order => p = q

\* What travels is posted, lost or taken by the exchange, and taken only once.
LEMMA TransitMoves ==
    ASSUME IInv, [Next]_vars
    PROVE  \/ transit' \subseteq transit /\ exchange' = exchange
           \/ \E p \in transit : /\ transit' = transit \ {p} /\ exchange' = exchange \cup {p}
                                 /\ ExchangeDedupes => \A q \in exchange : q.order # p.order
           \/ \E r \in Requests : Post(r)
<1>1. CASE \E r \in Requests, o \in Orders : Arrive(r, o)
    BY <1>1 DEF Arrive, BeginPreview, BeginApprove, BeginReject, BeginExecute
<1>2. CASE \E r \in Requests : Progress(r) \/ Abort(r)
    BY <1>2, Zenon DEF Progress, CommitPreview, CommitApprove, CommitReject, LoadOrder,
        ReadMode, CommitPaper, Timeout, CommitSubmit, Abort
<1>3. CASE \E p \in transit : Network(p)
    BY <1>3 DEF Network, ExchangeAccept, ExchangeRefuse, LosePost
<1>4. CASE \/ \E enabled \in BOOLEAN : SetKillSwitch(enabled)
           \/ \E mode \in {"paper", "disabled"} : SetExecutionMode(mode)
           \/ ShowStatus
           \/ Restart
           \/ UNCHANGED vars
    BY <1>4 DEF SetKillSwitch, SetExecutionMode, ShowStatus, Restart, vars
<1> QED
    BY <1>1, <1>2, <1>3, <1>4 DEF Next

\* A POST is of the session's order and of an attempt that was not yet made.
LEMMA PostsAreNew ==
    ASSUME IInv, NEW r \in Requests, Post(r)
    PROVE  \E p \in Placements :
              /\ p.req = r /\ p.order = sessions[r].order
              /\ p.attempt = sessions[r].attempt + 1
              /\ sessions[r].pc = "posting"
              /\ sessions'[r].pc = "awaiting"
              /\ sessions'[r].order = sessions[r].order
              /\ sessions'[r].attempt = p.attempt
              /\ \A q \in Requests : q # r => sessions'[q] = sessions[q]
              /\ transit' = transit \cup {p}
              /\ exchange' = exchange
<1>1. /\ sessions[r] \in Sessions /\ sessions[r].pc = "posting"
      /\ sessions[r].order \in Orders /\ sessions[r].attempt < MaxAttempts
    BY DEF IInv, TypeOK, Post, SessionTrail
<1> DEFINE n == sessions[r].attempt + 1
           p == [PlacementOf(r) EXCEPT !.attempt = n]
<1>2. n \in 1..MaxAttempts
    BY <1>1, AttemptsAssumption DEF Sessions
<1>3. /\ p \in Placements /\ p.req = r /\ p.order = sessions[r].order
      /\ p.attempt = sessions[r].attempt + 1
    BY <1>1, <1>2 DEF PlacementOf, Placements
<1>4. /\ sessions' = [sessions EXCEPT ![r].pc = "awaiting", ![r].attempt = n]
      /\ transit' = transit \cup {p}
      /\ exchange' = exchange
    BY DEF Post
<1> HIDE DEF p, n
<1>5. /\ sessions'[r].pc = "awaiting"
      /\ sessions'[r].order = sessions[r].order
      /\ sessions'[r].attempt = n
      /\ \A q \in Requests : q # r => sessions'[q] = sessions[q]
    BY <1>1, <1>4 DEF IInv, TypeOK, Sessions
<1> QED
    BY <1>1, <1>3, <1>4, <1>5, Zenon DEF n

\* Sessions that move keep what they have sent behind them.
LEMMA MovesKeepTurn ==
    ASSUME IInv, IInv', SendsInTurn, [Next]_vars, NEW r \in Requests, NEW p \in SentBy(r)
    PROVE  /\ sessions'[r].pc # "new"
           /\ InProgress(r)' => /\ sessions'[r].pc \in {"posting", "awaiting", "accepted"}
                                /\ p.order = sessions'[r].order
                                /\ p.attempt <= sessions'[r].attempt
<1>1. /\ sessions[r].pc # "new"
      /\ InProgress(r) => /\ sessions[r].pc \in {"posting", "awaiting", "accepted"}
                          /\ p.order = sessions[r].order
                          /\ p.attempt <= sessions[r].attempt
    BY DEF SendsInTurn
<1>2. CASE sessions'[r] = sessions[r]
    BY <1>1, <1>2 DEF InProgress
<1>3. p \in Placements /\ sessions[r] \in Sessions /\ sessions'[r] \in Sessions
    BY DEF SentBy, IInv, TypeOK
<1>4. p.attempt \in Nat /\ sessions[r].attempt \in Nat /\ sessions'[r].attempt \in Nat
    BY <1>3, AttemptsAssumption DEF Placements, Sessions
<1>5. CASE Onward(sessions[r], sessions'[r])
    BY <1>1, <1>4, <1>5 DEF Onward, InProgress
<1>6. CASE sessions'[r] = Finished
    BY <1>6, FinishedType DEF InProgress
<1> QED
    BY <1>1, <1>2, <1>5, <1>6, SessionsMove DEF Moves

\* Every step keeps the turn.
LEMMA TurnKept ==
    ASSUME IInv, IInv', SendsInTurn, [Next]_vars
    PROVE  SendsInTurn'
<1>1. CASE \E r \in Requests : Post(r)
  <2>1. PICK r \in Requests : Post(r)
    BY <1>1
  <2>2. PICK p \in Placements :
              /\ p.req = r /\ p.order = sessions[r].order
              /\ p.attempt = sessions[r].attempt + 1
              /\ sessions[r].pc = "posting"
              /\ sessions'[r].pc = "awaiting"
              /\ sessions'[r].order = sessions[r].order
              /\ sessions'[r].attempt = p.attempt
              /\ \A q \in Requests : q # r => sessions'[q] = sessions[q]
              /\ transit' = transit \cup {p}
              /\ exchange' = exchange
    BY <2>1, PostsAreNew
  <2>3. p.attempt \in Nat
    BY AttemptsAssumption DEF Placements
  <2>4. \A q \in SentBy(r) : q.order = p.order /\ q.attempt <= sessions[r].attempt
    BY <2>2 DEF SendsInTurn, InProgress
  <2>5. sessions[r].attempt \in Nat
    BY AttemptsAssumption DEF IInv, TypeOK, Sessions
  <2>6. p \notin SentBy(r)
    BY <2>2, <2>4, <2>5
  <2>7. p \notin transit \cup exchange
    BY <2>2, <2>6 DEF SentBy
  <2>8. ASSUME NEW q \in Requests, NEW x \in SentBy(q)'
        PROVE  /\ sessions'[q].pc # "new"
               /\ InProgress(q)' => /\ sessions'[q].pc \in {"posting", "awaiting", "accepted"}
                                    /\ x.order = sessions'[q].order
                                    /\ x.attempt <= sessions'[q].attempt
    <3>1. CASE x = p
        BY <2>2, <2>3, <2>8, <3>1 DEF SentBy
    <3>2. CASE x # p
        <4>1. x \in SentBy(q)
            BY <2>2, <2>8, <3>2 DEF SentBy
        <4> QED
            BY <4>1, MovesKeepTurn
    <3> QED
        BY <3>1, <3>2
  <2>9. \A x, y \in transit' \cup exchange' : x.req = y.req => x.order = y.order
    BY <2>2, <2>4 DEF SendsInTurn, SentBy
  <2> QED
    BY <2>2, <2>7, <2>8, <2>9 DEF SendsInTurn
<1>2. ASSUME transit' \cup exchange' \subseteq transit \cup exchange,
             transit' \cap exchange' = {},
             ExchangeDedupes => \A p, q \in exchange' : p.order = q.order => p = q
      PROVE  SendsInTurn'
  <2>1. \A r \in Requests : SentBy(r)' \subseteq SentBy(r)
    BY <1>2 DEF SentBy
  <2>2. \A r \in Requests : \A p \in SentBy(r)' :
          /\ sessions'[r].pc # "new"
          /\ InProgress(r)' => /\ sessions'[r].pc \in {"posting", "awaiting", "accepted"}
                               /\ p.order = sessions'[r].order
                               /\ p.attempt <= sessions'[r].attempt
    BY <2>1, MovesKeepTurn
  <2>3. \A p, q \in transit' \cup exchange' : p.req = q.req => p.order = q.order
    BY <1>2 DEF SendsInTurn
  <2> QED
    BY <1>2, <2>2, <2>3 DEF SendsInTurn
<1>3. CASE transit' \subseteq transit /\ exchange' = exchange
    BY <1>2, <1>3 DEF SendsInTurn
<1>4. CASE \E p \in transit : /\ transit' = transit \ {p} /\ exchange' = exchange \cup {p}
                              /\ ExchangeDedupes => \A q \in exchange : q.order # p.order
    BY <1>2, <1>4 DEF SendsInTurn
<1> QED
    BY <1>1, <1>3, <1>4, TransitMoves

\* The POSTs of one request are told apart by their attempts.
LEMMA AttemptsBoundPosts ==
    ASSUME IInv, SendsInTurn, NEW r \in Requests
    PROVE  IsFiniteSet(SentBy(r)) /\ Cardinality(SentBy(r)) <= MaxAttempts
<1>1. CASE SentBy(r) = {}
    BY <1>1, FS_EmptySet, AttemptsAssumption
<1>2. CASE SentBy(r) # {}
  <2>1. PICK p \in SentBy(r) : TRUE
    BY <1>2
  <2> DEFINE f == [n \in 1..MaxAttempts |-> [p EXCEPT !.attempt = n]]
             S == {f[n] : n \in 1..MaxAttempts}
  <2>2. p \in Placements
    BY DEF SentBy, IInv, TypeOK
  <2>3. ASSUME NEW q \in SentBy(r) PROVE q \in S
    <3>1. q \in Placements /\ p.req = q.req /\ p.order = q.order
        BY DEF SentBy, IInv, TypeOK, SendsInTurn
    <3>2. q.attempt \in 1..MaxAttempts
        BY <3>1 DEF Placements
    <3>3. q = f[q.attempt]
        BY <2>2, <3>1, <3>2 DEF Placements
    <3> QED
        BY <3>2, <3>3
  <2>4. IsFiniteSet(1..MaxAttempts) /\ Cardinality(1..MaxAttempts) = MaxAttempts
    BY FS_Interval, AttemptsAssumption
  <2>5. IsFiniteSet(S) /\ Cardinality(S) <= MaxAttempts
    <3>1. f \in Surjection(1..MaxAttempts, S)
        BY DEF Surjection
    <3> QED
        BY <2>4, <3>1, FS_Surjection
  <2>6. SentBy(r) \subseteq S
    BY <2>3
  <2>7. /\ IsFiniteSet(SentBy(r)) /\ Cardinality(SentBy(r)) <= Cardinality(S)
        /\ Cardinality(S) \in Nat /\ Cardinality(SentBy(r)) \in Nat
    BY <2>5, <2>6, FS_Subset, FS_CardinalityType
  <2> QED
    BY <2>5, <2>7, AttemptsAssumption
<1> QED
    BY <1>1, <1>2

\* However its POSTs are delayed, lost or answered late, a request places one order,
\* MaxAttempts times at most, and each POST once; with an exchange that refuses a
\* client_order_id it has seen, an order is placed once whoever executes it how often.
THEOREM RetriesAreOfOneOrder == Spec => []RetriesStayBounded
<1>1. Init => SendsInTurn
    BY DEF Init, SendsInTurn, SentBy
<1>2. IInv /\ IInv' /\ SendsInTurn /\ [Next]_vars => SendsInTurn'
    BY TurnKept
<1>3. ASSUME IInv, SendsInTurn PROVE RetriesStayBounded
  <2>1. \A r \in Requests : IsFiniteSet(SentBy(r)) /\ Cardinality(SentBy(r)) <= MaxAttempts
    BY <1>3, AttemptsBoundPosts
  <2>2. \A r \in Requests : \A p, q \in SentBy(r) : p.order = q.order
    BY <1>3 DEF SendsInTurn, SentBy
  <2> QED
    BY <1>3, <2>1, <2>2 DEF SendsInTurn, RetriesStayBounded
<1> QED
    BY <1>1, <1>2, <1>3, Invariance, PTL DEF Spec

-----------------------------------------------------------------------------
(* The kill switch. *)

\* execute_order is past the kill switch.
Executing(r) ==
    sessions[r].pc \in {"switch_read", "loaded", "paper", "posting", "awaiting", "accepted"}

\* Trading is switched off, and what was under way at that time has come to an end.
Halted == ~killSwitch /\ transit = {} /\ \A r \in Requests : ~Executing(r)

\* From then on nothing is placed or simulated until somebody switches it on again.
SwitchHolds ==
    [][Halted => /\ UNCHANGED <<transit, exchange, paperOrders>>
                 /\ ~killSwitch' => Halted']_vars

\* Only a session past the switch sends, simulates or hears from the exchange.
LEMMA HaltedStaysQuiet ==
    ASSUME IInv, Halted, [Next]_vars
    PROVE  /\ UNCHANGED <<transit, exchange, paperOrders>>
           /\ \A r \in Requests : ~Executing(r)'
<1>1. \A r \in Requests : ~Executing(r)'
  <2> SUFFICES ASSUME NEW r \in Requests PROVE ~Executing(r)'
    OBVIOUS
  <2>1. ~Executing(r) /\ ~killSwitch
    BY DEF Halted
  <2>2. CASE sessions'[r] = sessions[r]
    BY <2>1, <2>2 DEF Executing
  <2>3. CASE Moves(sessions[r], sessions'[r])
    BY <2>1, <2>3, FinishedType DEF Moves, Onward, Executing
  <2> QED
    BY <2>2, <2>3, SessionsMove
<1>2. CASE \E r \in Requests, o \in Orders : Arrive(r, o)
    BY <1>1, <1>2 DEF Arrive, BeginPreview, BeginApprove, BeginReject, BeginExecute
<1>3. CASE \E r \in Requests : Progress(r) \/ Abort(r)
  <2>1. PICK r \in Requests : Progress(r) \/ Abort(r)
    BY <1>3
  <2>2. ~Executing(r)
    BY DEF Halted
  <2>3. CommitPreview(r) \/ CommitApprove(r) \/ CommitReject(r) \/ Abort(r)
    BY <2>1, <2>2 DEF Executing, Progress, LoadOrder, ReadMode, CommitPaper, Post, Timeout,
        CommitSubmit
  <2> QED
    BY <1>1, <2>3 DEF CommitPreview, CommitApprove, CommitReject, Abort
<1>4. CASE \E p \in transit : Network(p)
    BY <1>4 DEF Halted
<1>5. CASE \/ \E enabled \in BOOLEAN : SetKillSwitch(enabled)
           \/ \E mode \in {"paper", "disabled"} : SetExecutionMode(mode)
           \/ ShowStatus
           \/ Restart
           \/ UNCHANGED vars
    BY <1>1, <1>5 DEF SetKillSwitch, SetExecutionMode, ShowStatus, Restart, vars
<1> QED
    BY <1>2, <1>3, <1>4, <1>5 DEF Next

\* The kill switch is read once, at the start of execute_order, so that orders already
\* past it go on.  Once these have ended it keeps what it promises: no POST, no order
\* at the exchange and no simulated fill until trading is enabled again, through
\* approvals, changes of the mode and restarts under any settings.
THEOREM KillSwitchHolds == Spec => SwitchHolds
<1>1. IInv /\ [Next]_vars
        => [Halted => /\ UNCHANGED <<transit, exchange, paperOrders>>
                      /\ ~killSwitch' => Halted']_vars
    BY HaltedStaysQuiet DEF Halted
<1> QED
    BY <1>1, Invariance, PTL DEF Spec, SwitchHolds
=============================================================================
