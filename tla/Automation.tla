----------------------------- MODULE Automation -----------------------------
(***************************************************************************)
(* Selective automation: the execution-engine loop and the API route       *)
(* POST /automation/evaluate scan the active signals, decide for each of   *)
(* them whether a policy allows an automatic order, and take that order    *)
(* through preview, approval and submission, while operators pause, resume *)
(* and reconfigure them and a person works on the same orders.             *)
(*                                                                         *)
(* evaluate_signal commits up to five times.  What others see between two  *)
(* commits, and what survives a crash there, is what this module is about, *)
(* so every commit is an action, and so is every group of reads after      *)
(* which the handler acts on values that others may have changed since.    *)
(*                                                                         *)
(* Event, alert and audit rows are left out: nothing modelled reads them.  *)
(* A POST travels apart from its sender: the exchange may accept it after  *)
(* the sender has given it up, sent it again or crashed.  Requests of      *)
(* people that overlap on one order are the subject of OrderExecution.     *)
(***************************************************************************)
EXTENDS Naturals, Sequences, FiniteSets

CONSTANTS
    Signals,            \* signals by age: the larger, the newer
    AutoEligible,       \* those whose recommended action is buy_yes or buy_no
    Policies,           \* automation policies, by name
    PolicySettings,     \* what an operator may set a policy to
    Evaluators,         \* processes that may run evaluate_pending_signals
    Loop,               \* the evaluator that is the execution-engine loop
    ScanLimit,          \* limit of the query for active signals
    FailureThreshold,   \* anomaly_failure_threshold
    MaxOrders,          \* max_orders_per_window
    MaxAttempts,        \* POSTs of one submission: max_retries + 1
    ExchangeDedupes,    \* the exchange refuses a client_order_id it has seen
    MaxDisturbances,    \* bound on what happens around the evaluations
    Configurations,     \* databases a behaviour may start from
    NoPolicy,           \* no policy matched; key of an order with a random id
    NoSignal            \* an evaluator between two signals

PolicyRow == [enabled : BOOLEAN, optIn : BOOLEAN, dryRun : BOOLEAN]

ASSUME SignalsAssumption ==
    Signals \subseteq Nat /\ NoSignal \notin Signals /\ AutoEligible \subseteq Signals
ASSUME PoliciesAssumption ==
    NoPolicy \notin Policies /\ PolicySettings \subseteq PolicyRow
\* Rows that operators and the other services may have written.
Database ==
    [signals : [Signals -> {"future", "active", "retired"}],
     policies : [Policies -> PolicySettings],
     control : BOOLEAN, killSwitch : BOOLEAN,
     mode : {"disabled", "paper", "live"},
     health : {"none", "healthy", "degraded", "several"}]

ASSUME ConfigurationsAssumption == Configurations \subseteq Database
ASSUME EvaluatorsAssumption == Loop \in Evaluators /\ IsFiniteSet(Evaluators)
ASSUME LimitsAssumption ==
    /\ ScanLimit \in Nat \ {0}
    /\ FailureThreshold \in Nat \ {0}
    /\ MaxOrders \in Nat
    /\ MaxAttempts \in Nat \ {0}
    /\ MaxDisturbances \in Nat
    /\ ExchangeDedupes \in BOOLEAN

VARIABLES
    signals,        \* has the signal engine created, or deleted, the row
    policies,       \* AutomationPolicyRecord rows
    control,        \* is_enabled of the selective_automation row
    killSwitch,     \* is_enabled of the global_trading row
    mode,           \* the execution mode in force
    activePauses,   \* number of AutomationPauseRecord rows with is_active
    requests,       \* pause and resume requests between read and commit;
                    \* resumes have all read the same, the one active pause
    health,         \* ServiceHealthEvent rows
    failures,       \* AutomationFailureRecord rows of the anomaly window
    recentRuns,     \* submitted and dry-run rows of the anomaly window
    runs,           \* AutomationRunRecord rows of each signal, oldest first;
                    \* those of a deleted signal are gone, their orders stay
    evaluators,     \* where each evaluator is
    transit,        \* POSTs on their way to the exchange
    exchange,       \* POSTs the exchange accepted: the orders it holds
    disturbances    \* how much has happened around the evaluations

operatorVars == <<policies, control, killSwitch, mode, activePauses, requests>>
windowVars == <<failures, recentRuns>>
worldVars == <<signals, operatorVars, health, windowVars, disturbances>>
postVars == <<transit, exchange>>
vars == <<worldVars, runs, evaluators, postVars>>

-----------------------------------------------------------------------------
(* Data *)

Decisions ==
    {"automation_allowed", "automation_blocked", "automation_paused",
     "automation_disabled_due_to_anomaly", "manual_review_required"}

RunStatus == Decisions \cup {"submitted", "dry_run_submitted"}

\* Runs with these statuses end the evaluation of their signal.
Settled == {"submitted", "dry_run_submitted", "manual_review_required",
            "automation_blocked", "automation_paused"}

\* The order of a run.  key is the policy its client_order_id is derived
\* from (together with the signal), or NoPolicy while that is a random uuid;
\* screened says that the preview passed, by who approved it, paper that
\* automation simulated it.
OrderRows ==
    [approval : {"absent", "blocked", "pending_approval", "approved",
                 "rejected", "submitted"},
     screened : BOOLEAN,
     by : {"none", "automation", "human"},
     key : Policies \cup {NoPolicy},
     paper : BOOLEAN]

Preview(passed) ==
    [approval |-> IF passed THEN "pending_approval" ELSE "blocked",
     screened |-> passed, by |-> "none", key |-> NoPolicy, paper |-> FALSE]

NoOrder == [Preview(FALSE) EXCEPT !.approval = "absent"]

Runs == [status : RunStatus, order : OrderRows]

\* An order, named by the run it belongs to.
OrderIds == Signals \X (1..(1 + Cardinality(Evaluators)))

\* A POST of an order.  attempt tells it from others of the same order: its
\* number in the retry loop, or that of the disturbance a person's POST is.
Placements ==
    LET By(who, attempts) == [order : OrderIds, key : Policies \cup {NoPolicy},
                              by : {who}, attempt : attempts]
    IN  By("automation", 1..MaxAttempts) \cup By("human", 1..MaxDisturbances)

Sent == transit \cup exchange

Guards == [enabled : BOOLEAN, paused : BOOLEAN, trading : BOOLEAN]

NoGuards == [enabled |-> FALSE, paused |-> FALSE, trading |-> FALSE]

PCs == {"idle", "dead", "alarmed", "scanning", "selected", "guarded",
        "decided", "previewed", "unscreened", "dry_run", "approving", "approved",
        "executing", "simulating", "posting", "awaiting", "answered",
        "executed", "failed"}

\* paused: what an alarmed evaluator saw; row: the approval_status in the
\* session; policy and dryRun: columns of the policy row in the session;
\* attempt: the POSTs sent so far.
EvaluatorStates ==
    [pc : PCs, todo : SUBSET Signals, signal : Signals \cup {NoSignal},
     run : 0..(1 + Cardinality(Evaluators)),
     policy : Policies \cup {NoPolicy}, optIn : BOOLEAN, dryRun : BOOLEAN,
     guards : Guards, decision : Decisions,
     row : {"none", "approved", "rejected", "submitted"},
     attempt : 0..MaxAttempts]

At(pc, todo) ==
    [pc |-> pc, todo |-> todo, signal |-> NoSignal, run |-> 0,
     policy |-> NoPolicy, optIn |-> FALSE, dryRun |-> FALSE,
     guards |-> NoGuards, decision |-> "manual_review_required",
     row |-> "none", attempt |-> 0]

OrderOf(id) == runs[id[1]][id[2]].order

CurrentRun(e) == runs[evaluators[e].signal][evaluators[e].run]

\* client_order_id is unique: no other order has the id derived from k.
KeyFree(s, i, k) ==
    \A j \in DOMAIN runs[s] : j # i => runs[s][j].order.key # k

Saturated(n, max) == IF n < max THEN n + 1 ELSE n

\* Bound: operators, people, failures and the world act so often in all.
Disturb ==
    /\ disturbances < MaxDisturbances
    /\ disturbances' = disturbances + 1

-----------------------------------------------------------------------------
(* How an evaluator moves on *)

Become(e, state) == evaluators' = [evaluators EXCEPT ![e] = state]

GoTo(e, pc) == evaluators' = [evaluators EXCEPT ![e].pc = pc]

\* An exception leaves evaluate_pending_signals: it ends the loop, which has
\* no handler for it, or the API request.
Raise(e) == Become(e, At(IF e = Loop THEN "dead" ELSE "idle", {}))

NextSignal(e) ==
    LET todo == evaluators[e].todo \ {evaluators[e].signal}
    IN  Become(e, IF todo = {} THEN At("idle", {}) ELSE At("scanning", todo))

SetRun(e, run) ==
    runs' = [runs EXCEPT ![evaluators[e].signal][evaluators[e].run] = run]

SetStatus(e, status) == SetRun(e, [CurrentRun(e) EXCEPT !.status = status])

SetOrder(e, order) == SetRun(e, [CurrentRun(e) EXCEPT !.order = order])

\* Variant: the look-up of earlier runs takes the latest one.
LatestRecorded(s) ==
    IF signals[s] = "retired" \/ runs[s] = << >> THEN << >>
    ELSE <<runs[s][Len(runs[s])]>>

\* The foreign key of the run: deleting a signal deletes its runs.
Recorded(s) == IF signals[s] = "retired" THEN << >> ELSE runs[s]

SignalExists(e) == signals[evaluators[e].signal] # "retired"

CountFailure ==
    /\ failures' = Saturated(failures, FailureThreshold)
    /\ UNCHANGED recentRuns

CountOrder ==
    /\ recentRuns' = Saturated(recentRuns, MaxOrders + 1)
    /\ UNCHANGED failures

\* detect.  Two health events, of any service, make its query raise.
Detectable == failures >= FailureThreshold \/ health # "several"

Anomalous ==
    \/ failures >= FailureThreshold
    \/ health = "degraded"
    \/ recentRuns > MaxOrders

\* The newest active signals, ScanLimit of them.
Scan ==
    {s \in Signals :
        /\ signals[s] = "active"
        /\ Cardinality({t \in Signals : signals[t] = "active" /\ t > s})
                < ScanLimit}

-----------------------------------------------------------------------------
(* evaluate_pending_signals *)

BeginTick(e) ==
    /\ evaluators[e].pc = "idle"
    /\ IF ~Detectable \/ (Anomalous /\ activePauses > 1)
       THEN Raise(e)
       ELSE IF Anomalous
       THEN Become(e, [At("alarmed", {}) EXCEPT
                            !.guards.paused = activePauses = 1])
       ELSE Scan # {} /\ Become(e, At("scanning", Scan))
    /\ UNCHANGED <<worldVars, runs, postVars>>

\* _pause_due_to_anomaly commits, then the signals are listed.
CommitAnomalyPause(e) ==
    /\ evaluators[e].pc = "alarmed"
    /\ activePauses' = IF evaluators[e].guards.paused
                       THEN activePauses ELSE activePauses + 1
    /\ Become(e, IF Scan = {} THEN At("idle", {}) ELSE At("scanning", Scan))
    /\ UNCHANGED <<signals, policies, control, killSwitch, mode, requests,
                   health, windowVars, disturbances, runs, postVars>>

-----------------------------------------------------------------------------
(* evaluate_signal *)

\* Earlier runs are looked up expecting one row at most, then the policy:
\* some enabled one whose allowlists match, or none.
Select(e, s) ==
    LET todo == evaluators[e].todo
        earlier == Recorded(s)
        chosen == [At("selected", todo) EXCEPT !.signal = s]
    IN  /\ evaluators[e].pc = "scanning"
        /\ s \in todo /\ \A t \in todo : t <= s
        /\ IF Len(earlier) > 1 THEN Raise(e)
           ELSE IF Len(earlier) = 1 /\ earlier[1].status \in Settled
           THEN Become(e, IF todo = {s} THEN At("idle", {})
                          ELSE At("scanning", todo \ {s}))
           ELSE \/ Become(e, chosen)
                \/ \E p \in Policies :
                    /\ policies[p].enabled
                    /\ Become(e, [chosen EXCEPT
                                    !.policy = p,
                                    !.optIn = policies[p].optIn,
                                    !.dryRun = policies[p].dryRun])
        /\ UNCHANGED <<worldVars, runs, postVars>>

\* The control row, the pause and the kill switch.  The rows stay in the
\* session, and in use, until the signal is done: later look-ups of the kill
\* switch in this session return the values read here.
ReadGuards(e) ==
    /\ evaluators[e].pc = "selected"
    /\ IF activePauses > 1
       THEN Raise(e)
       ELSE evaluators' = [evaluators EXCEPT
                ![e].pc = "guarded",
                ![e].guards = [enabled |-> control,
                               paused |-> activePauses = 1,
                               trading |-> killSwitch]]
    /\ UNCHANGED <<worldVars, runs, postVars>>

\* Variant: decide does not look at the pause.
DecisionUnlessOff(state, clears) ==
    IF Anomalous THEN "automation_disabled_due_to_anomaly"
    ELSE IF ~state.guards.enabled THEN "manual_review_required"
    ELSE IF ~state.guards.trading THEN "automation_blocked"
    ELSE IF health = "healthy" /\ state.policy # NoPolicy /\ state.optIn /\ clears
    THEN "automation_allowed"
    ELSE "manual_review_required"

\* AutomationPolicyEngine.decide; clears stands for the thresholds and caps.
Decision(state, clears) ==
    IF Anomalous THEN "automation_disabled_due_to_anomaly"
    ELSE IF ~state.guards.enabled THEN "manual_review_required"
    ELSE IF state.guards.paused THEN "automation_paused"
    ELSE IF ~state.guards.trading THEN "automation_blocked"
    ELSE IF health = "healthy" /\ state.policy # NoPolicy /\ state.optIn /\ clears
    THEN "automation_allowed"
    ELSE "manual_review_required"

\* Columns no later step reads are forgotten.
Decided(state, decision) ==
    LET kept == [At("decided", state.todo) EXCEPT
                    !.signal = state.signal,
                    !.decision = decision,
                    !.guards.trading = state.guards.trading]
    IN  IF decision = "automation_allowed"
        THEN [kept EXCEPT !.policy = state.policy, !.dryRun = state.dryRun]
        ELSE kept

Decide(e) ==
    /\ evaluators[e].pc = "guarded"
    /\ IF health = "several"
       THEN Raise(e)
       ELSE \E clears \in BOOLEAN :
                Become(e, Decided(evaluators[e], Decision(evaluators[e], clears)))
    /\ UNCHANGED <<worldVars, runs, postVars>>

\* The signal's action is not one automation may take.
CommitIneligible(e) ==
    LET s == evaluators[e].signal
    IN  /\ evaluators[e].pc = "decided"
        /\ SignalExists(e)
        /\ s \notin AutoEligible
        /\ runs' = [runs EXCEPT ![s] = Append(@,
                        [status |-> "manual_review_required",
                         order |-> NoOrder])]
        /\ NextSignal(e)
        /\ UNCHANGED <<worldVars, postVars>>

\* create_preview_from_signal commits the run with its decision, the order
\* and its screening.  The risk engine looks the kill switch up again, and
\* gets the row of this session; its other rules are open.
CommitPreview(e) ==
    LET state == evaluators[e]
        s == state.signal
    IN  /\ state.pc = "decided"
        /\ SignalExists(e)
        /\ s \in AutoEligible
        /\ \E passed \in BOOLEAN :
            /\ passed => state.guards.trading
            /\ runs' = [runs EXCEPT ![s] = Append(@,
                            [status |-> state.decision,
                             order |-> Preview(passed)])]
        /\ evaluators' = [evaluators EXCEPT
                ![e].pc = "previewed",
                ![e].run = Len(runs[s]) + 1]
        /\ UNCHANGED <<worldVars, postVars>>

\* Variant: nobody checks that the preview is still eligible.
AfterAnyPreview(state, approval) ==
    IF state.dryRun THEN "dry_run" ELSE "approving"

\* Where an allowed run goes after its preview.
AfterPreview(state, approval) ==
    IF approval # "pending_approval" THEN "unscreened"
    ELSE IF state.dryRun THEN "dry_run"
    ELSE "approving"

\* The order is refreshed after its commit.  A run that is not allowed is
\* done: what its last commit adds is the link to the order.
Refresh(e) ==
    LET state == evaluators[e]
    IN  /\ state.pc = "previewed"
        /\ IF state.decision = "automation_allowed"
           THEN GoTo(e, AfterPreview(state, CurrentRun(e).order.approval))
           ELSE SignalExists(e) /\ NextSignal(e)
        /\ UNCHANGED <<worldVars, runs, postVars>>

CommitRecheckFailure(e) ==
    /\ evaluators[e].pc = "unscreened"
    /\ SignalExists(e)
    /\ SetStatus(e, "manual_review_required")
    /\ CountFailure
    /\ NextSignal(e)
    /\ UNCHANGED <<signals, operatorVars, health, disturbances, postVars>>

\* Variant: the dry run does not return.
DryRunFallsThrough(e) ==
    LET state == evaluators[e]
    IN  /\ state.pc = "dry_run"
        /\ SignalExists(e)
        /\ SetRun(e, [CurrentRun(e) EXCEPT
                !.status = "dry_run_submitted",
                !.order.key = state.policy])
        /\ CountOrder
        /\ GoTo(e, "approving")
        /\ UNCHANGED <<signals, operatorVars, health, disturbances, postVars>>

\* The deterministic client_order_id replaces the random one.
CommitDryRun(e) ==
    LET state == evaluators[e]
    IN  /\ state.pc = "dry_run"
        /\ SignalExists(e)
        /\ IF KeyFree(state.signal, state.run, state.policy)
           THEN /\ SetRun(e, [CurrentRun(e) EXCEPT
                        !.status = "dry_run_submitted",
                        !.order.key = state.policy])
                /\ CountOrder
                /\ NextSignal(e)
           ELSE /\ Raise(e)
                /\ UNCHANGED <<runs, windowVars>>
        /\ UNCHANGED <<signals, operatorVars, health, disturbances, postVars>>

\* Variant: client_order_id is not unique.
ApprovalWithoutUniqueKey(e) ==
    LET state == evaluators[e]
    IN  /\ state.pc = "approving"
        /\ SignalExists(e)
        /\ SetOrder(e, [CurrentRun(e).order EXCEPT
                !.approval = "approved",
                !.by = "automation",
                !.key = state.policy])
        /\ GoTo(e, "approved")
        /\ UNCHANGED <<worldVars, postVars>>

\* approve_order looks at the row in the session, and its commit writes the
\* status and the client_order_id whatever the stored row says by now.  A
\* violated unique constraint leaves the session unusable for the handler of
\* submission failures, whose own flush raises.
CommitApproval(e) ==
    LET state == evaluators[e]
    IN  /\ state.pc = "approving"
        /\ SignalExists(e)
        /\ IF KeyFree(state.signal, state.run, state.policy)
           THEN /\ SetOrder(e, [CurrentRun(e).order EXCEPT
                        !.approval = "approved",
                        !.by = "automation",
                        !.key = state.policy])
                /\ GoTo(e, "approved")
           ELSE /\ Raise(e)
                /\ UNCHANGED runs
        /\ UNCHANGED <<worldVars, postVars>>

\* approve refreshes the row after its commit.
Reload(e) ==
    /\ evaluators[e].pc = "approved"
    /\ evaluators' = [evaluators EXCEPT
            ![e].pc = "executing",
            ![e].row = CurrentRun(e).order.approval]
    /\ UNCHANGED <<worldVars, runs, postVars>>

\* Where execute_order goes.
Route(row) ==
    IF mode = "paper" THEN "simulating"
    ELSE IF mode = "live" /\ row = "approved" THEN "posting"
    ELSE "failed"

Execute(e) ==
    /\ evaluators[e].pc = "executing"
    /\ GoTo(e, IF evaluators[e].guards.trading
               THEN Route(evaluators[e].row) ELSE "failed")
    /\ UNCHANGED <<worldVars, runs, postVars>>

CommitPaper(e) ==
    /\ evaluators[e].pc = "simulating"
    /\ SetOrder(e, [CurrentRun(e).order EXCEPT !.paper = TRUE])
    /\ GoTo(e, "executed")
    /\ UNCHANGED <<worldVars, postVars>>

PlacementBy(e) ==
    [order |-> <<evaluators[e].signal, evaluators[e].run>>,
     key |-> CurrentRun(e).order.key,
     by |-> "automation",
     attempt |-> evaluators[e].attempt]

\* One attempt of the retry loop in KalshiRestClient._request.
Post(e) ==
    LET attempt == evaluators[e].attempt + 1
    IN  /\ evaluators[e].pc = "posting"
        /\ attempt <= MaxAttempts
        /\ evaluators' = [evaluators EXCEPT ![e].pc = "awaiting",
                                            ![e].attempt = attempt]
        /\ transit' = transit \cup {[PlacementBy(e) EXCEPT !.attempt = attempt]}
        /\ UNCHANGED <<worldVars, runs, exchange>>

\* Variant: the last attempt is not counted, the loop starts over.
TimeoutStartsOver(e) ==
    /\ evaluators[e].pc = "awaiting"
    /\ evaluators' = [evaluators EXCEPT ![e].pc = "posting", ![e].attempt = 0]
    /\ UNCHANGED <<worldVars, runs, postVars>>

\* No answer in time, or the connection broke: once more, or give up.
Timeout(e) ==
    /\ evaluators[e].pc = "awaiting"
    /\ GoTo(e, IF evaluators[e].attempt < MaxAttempts THEN "posting" ELSE "failed")
    /\ UNCHANGED <<worldVars, runs, postVars>>

\* OrderService.submit commits the order, then the runner commits the run.
CommitOrder(e) ==
    /\ evaluators[e].pc = "answered"
    /\ SetOrder(e, [CurrentRun(e).order EXCEPT !.approval = "submitted"])
    /\ GoTo(e, "executed")
    /\ UNCHANGED <<worldVars, postVars>>

CommitSubmitted(e) ==
    /\ evaluators[e].pc = "executed"
    /\ SignalExists(e)
    /\ SetStatus(e, "submitted")
    /\ CountOrder
    /\ NextSignal(e)
    /\ UNCHANGED <<signals, operatorVars, health, disturbances, postVars>>

\* Any exception of approve_order or execute_order that left the session
\* usable.  The order stays as it is.
CommitSubmissionFailure(e) ==
    /\ evaluators[e].pc = "failed"
    /\ SignalExists(e)
    /\ SetStatus(e, "manual_review_required")
    /\ CountFailure
    /\ NextSignal(e)
    /\ UNCHANGED <<signals, operatorVars, health, disturbances, postVars>>

\* The signal was deleted meanwhile, and the run with it: the run cannot be
\* inserted, or its update finds no row, and the handler of submission
\* failures cannot flush either.  A paper order may still name the signal.
LoseRun(e) ==
    /\ evaluators[e].pc \in {"decided", "previewed", "unscreened", "dry_run",
                             "approving", "simulating", "executed", "failed"}
    /\ ~SignalExists(e)
    /\ Raise(e)
    /\ UNCHANGED <<worldVars, runs, postVars>>

\* A database error or a crash: what is not committed is gone.
Abort(e) ==
    /\ evaluators[e].pc \notin {"idle", "dead"}
    /\ Disturb
    /\ Raise(e)
    /\ UNCHANGED <<signals, operatorVars, health, windowVars, runs, postVars>>

\* The platform starts the loop again.
Restart(e) ==
    /\ evaluators[e].pc = "dead"
    /\ Become(e, At("idle", {}))
    /\ UNCHANGED <<worldVars, runs, postVars>>

-----------------------------------------------------------------------------
(* The exchange, and the way to it.  A POST that is lost, or refused without *)
(* anybody hearing of it, stays in transit for ever.                       *)

\* uuid5 of signal, policy and ticker, or the uuid4 of this order.
ClientId(p) ==
    IF p.key = NoPolicy THEN p.order ELSE <<p.order[1], p.key>>

\* An exchange that dedupes refuses a client_order_id it has seen.
Acceptable(p) ==
    ExchangeDedupes => \A q \in exchange : ClientId(q) # ClientId(p)

Place(p) ==
    /\ p \in transit
    /\ Acceptable(p)
    /\ transit' = transit \ {p}
    /\ exchange' = exchange \cup {p}

\* e still waits for the answer to this very attempt.
Awaits(e, p) == evaluators[e].pc = "awaiting" /\ PlacementBy(e) = p

\* The answer arrives; or it cannot be read, which counts as a failure.
AcceptAndAnswer(e, p) ==
    /\ Awaits(e, p)
    /\ Place(p)
    /\ \E outcome \in {"answered", "failed"} : GoTo(e, outcome)
    /\ UNCHANGED <<worldVars, runs>>

\* The POST of a person is answered, and submit commits the order.
AcceptForHuman(p) ==
    LET s == p.order[1]
        i == p.order[2]
    IN  /\ Place(p)
        /\ p.by = "human"
        /\ runs[s][i].order.approval = "approved"
        /\ runs' = [runs EXCEPT ![s][i].order.approval = "submitted"]
        /\ UNCHANGED <<worldVars, evaluators>>

\* The answer is lost, or nobody waits for it any more.
AcceptUnheard(p) ==
    /\ Place(p)
    /\ UNCHANGED <<worldVars, runs, evaluators>>

\* An error status ends the submission: it is raised, and not retried.
Refuse(e, p) ==
    /\ p \in transit
    /\ Awaits(e, p)
    /\ transit' = transit \ {p}
    /\ GoTo(e, "failed")
    /\ UNCHANGED <<worldVars, runs, exchange>>

-----------------------------------------------------------------------------
(* Operators, the person at the order queue, and the world *)

SetPolicy(p, row) ==
    /\ Disturb
    /\ policies' = [policies EXCEPT ![p] = row]
    /\ UNCHANGED <<signals, control, killSwitch, mode, activePauses, requests,
                   health, windowVars, runs, evaluators, postVars>>

EnableOrDisable(enabled) ==
    /\ Disturb
    /\ control' = enabled
    /\ UNCHANGED <<signals, policies, killSwitch, mode, activePauses, requests,
                   health, windowVars, runs, evaluators, postVars>>

SetKillSwitch(enabled) ==
    /\ Disturb
    /\ killSwitch' = enabled
    /\ UNCHANGED <<signals, policies, control, mode, activePauses, requests,
                   health, windowVars, runs, evaluators, postVars>>

\* The routes offer no way back to live.
SetExecutionMode(m) ==
    /\ Disturb
    /\ mode' = m
    /\ UNCHANGED <<signals, policies, control, killSwitch, activePauses,
                   requests, health, windowVars, runs, evaluators, postVars>>

\* pause and resume read the active pause, one row at most, and commit later.
BeginPause ==
    /\ Disturb
    /\ activePauses = 0
    /\ requests' = [requests EXCEPT !.pauses = @ + 1]
    /\ UNCHANGED <<signals, policies, control, killSwitch, mode, activePauses,
                   health, windowVars, runs, evaluators, postVars>>

CommitPause ==
    /\ requests.pauses > 0
    /\ activePauses' = activePauses + 1
    /\ requests' = [requests EXCEPT !.pauses = @ - 1]
    /\ UNCHANGED <<disturbances, signals, policies, control, killSwitch, mode, health,
                   windowVars, runs, evaluators, postVars>>

\* Variant: resume does not check that there is a pause.
ResumeUnpaused ==
    /\ Disturb
    /\ requests' = [requests EXCEPT !.resume = TRUE]
    /\ UNCHANGED <<signals, policies, control, killSwitch, mode, activePauses,
                   health, windowVars, runs, evaluators, postVars>>

BeginResume ==
    /\ Disturb
    /\ activePauses = 1
    /\ requests' = [requests EXCEPT !.resume = TRUE]
    /\ UNCHANGED <<signals, policies, control, killSwitch, mode, activePauses,
                   health, windowVars, runs, evaluators, postVars>>

\* The first of several resumes ends their pause, the others write that again.
CommitResume ==
    /\ requests.resume
    /\ activePauses' = activePauses - 1
    /\ requests' = [requests EXCEPT !.resume = FALSE]
    /\ UNCHANGED <<disturbances, signals, policies, control, killSwitch, mode, health,
                   windowVars, runs, evaluators, postVars>>

EditOrder(s, i, order) ==
    /\ Disturb
    /\ runs' = [runs EXCEPT ![s][i].order = order]
    /\ UNCHANGED <<signals, operatorVars, health, windowVars, evaluators>>

HumanApprove(s, i) ==
    LET order == runs[s][i].order
    IN  /\ order.approval = "pending_approval"
        /\ EditOrder(s, i, [order EXCEPT !.approval = "approved",
                                         !.by = "human"])
        /\ UNCHANGED postVars

HumanReject(s, i) ==
    LET order == runs[s][i].order
    IN  /\ order.approval \in {"pending_approval", "blocked"}
        /\ EditOrder(s, i, [order EXCEPT !.approval = "rejected"])
        /\ UNCHANGED postVars

\* The execute route, which asks only that the order is approved, sends it;
\* a retry is one more execution.  In paper mode it changes nothing kept here.
HumanExecute(s, i) ==
    LET order == runs[s][i].order
    IN  /\ order.approval = "approved"
        /\ killSwitch /\ mode = "live"
        /\ Disturb
        /\ transit' = transit \cup
                {[order |-> <<s, i>>, key |-> order.key, by |-> "human",
                  attempt |-> disturbances + 1]}
        /\ UNCHANGED <<signals, operatorVars, health, windowVars, runs,
                       evaluators, exchange>>

IsNext(s) ==
    /\ signals[s] = "future"
    /\ \A t \in Signals : t < s => signals[t] # "future"

\* The signal engine creates the first signal of a market.
Arrive(s) ==
    /\ Disturb
    /\ IsNext(s)
    /\ signals' = [signals EXCEPT ![s] = "active"]
    /\ UNCHANGED <<operatorVars, health, windowVars, runs, evaluators, postVars>>

\* replace_signal deletes the signal of a market when it scores the market
\* again; the new one need not be among Signals.
Replace(s) ==
    /\ Disturb
    /\ signals[s] = "active"
    /\ \/ signals' = [signals EXCEPT ![s] = "retired"]
       \/ \E t \in Signals :
            /\ IsNext(t)
            /\ signals' = [signals EXCEPT ![s] = "retired", ![t] = "active"]
    /\ UNCHANGED <<operatorVars, health, windowVars, runs, evaluators, postVars>>

\* Market stream and enrichment append health events; none is ever deleted.
ReportHealth(status) ==
    /\ Disturb
    /\ health # "several"
    /\ health' = IF health = "none" THEN status ELSE "several"
    /\ UNCHANGED <<signals, operatorVars, windowVars, runs, evaluators, postVars>>

\* Rows grow older than the anomaly window.
SlideWindow(f, n) ==
    /\ Disturb
    /\ failures' = f
    /\ recentRuns' = n
    /\ UNCHANGED <<signals, operatorVars, health, runs, evaluators, postVars>>

-----------------------------------------------------------------------------

Init ==
    /\ \E c \in Configurations :
        /\ signals = c.signals
        /\ policies = c.policies
        /\ control = c.control
        /\ killSwitch = c.killSwitch
        /\ mode = c.mode
        /\ health = c.health
    /\ activePauses = 0
    /\ requests = [pauses |-> 0, resume |-> FALSE]
    /\ failures = 0
    /\ recentRuns = 0
    /\ runs = [s \in Signals |-> << >>]
    /\ evaluators = [e \in Evaluators |-> At("idle", {})]
    /\ transit = {}
    /\ exchange = {}
    /\ disturbances = 0

Evaluate(e) ==
    \/ CommitAnomalyPause(e)
    \/ \E s \in Signals : Select(e, s)
    \/ ReadGuards(e)
    \/ Decide(e)
    \/ CommitIneligible(e)
    \/ CommitPreview(e)
    \/ Refresh(e)
    \/ CommitRecheckFailure(e)
    \/ CommitDryRun(e)
    \/ CommitApproval(e)
    \/ Reload(e)
    \/ Execute(e)
    \/ CommitPaper(e)
    \/ Post(e)
    \/ Timeout(e)
    \/ CommitOrder(e)
    \/ CommitSubmitted(e)
    \/ CommitSubmissionFailure(e)
    \/ LoseRun(e)

\* An act that changes nothing is a stuttering step and does not count.
Operate ==
    \/ \E p \in Policies : \E row \in PolicySettings \ {policies[p]} :
            SetPolicy(p, row)
    \/ EnableOrDisable(~control)
    \/ SetKillSwitch(~killSwitch)
    \/ \E m \in {"paper", "disabled"} \ {mode} : SetExecutionMode(m)
    \/ BeginPause
    \/ CommitPause
    \/ BeginResume
    \/ CommitResume

Human(s, i) == HumanApprove(s, i) \/ HumanReject(s, i) \/ HumanExecute(s, i)

Network(p) ==
    \/ AcceptForHuman(p) \/ AcceptUnheard(p)
    \/ \E e \in Evaluators : AcceptAndAnswer(e, p) \/ Refuse(e, p)

World ==
    \/ \E s \in Signals : Arrive(s) \/ Replace(s)
    \/ \E status \in {"healthy", "degraded"} : ReportHealth(status)
    \/ \E f \in 0..failures, n \in 0..recentRuns :
            <<f, n>> # <<failures, recentRuns>> /\ SlideWindow(f, n)

Next ==
    \/ \E e \in Evaluators : BeginTick(e) \/ Evaluate(e) \/ Abort(e) \/ Restart(e)
    \/ \E p \in transit : Network(p)
    \/ Operate
    \/ \E s \in Signals : \E i \in DOMAIN runs[s] : Human(s, i)
    \/ World

Spec == Init /\ [][Next]_vars

\* An evaluation that has begun goes on: database calls and POSTs return or
\* raise.  Nobody has to start one.
FairSpec == Spec /\ \A e \in Evaluators : WF_vars(Evaluate(e))

-----------------------------------------------------------------------------
(* Properties *)

TypeOK ==
    /\ signals \in [Signals -> {"future", "active", "retired"}]
    /\ policies \in [Policies -> PolicySettings]
    /\ control \in BOOLEAN
    /\ killSwitch \in BOOLEAN
    /\ mode \in {"disabled", "paper", "live"}
    /\ activePauses \in Nat
    /\ requests \in [pauses : Nat, resume : BOOLEAN]
    /\ health \in {"none", "healthy", "degraded", "several"}
    /\ failures \in 0..FailureThreshold
    /\ recentRuns \in 0..(MaxOrders + 1)
    /\ runs \in [Signals -> Seq(Runs)]
    /\ evaluators \in [Evaluators -> EvaluatorStates]
    /\ Sent \subseteq Placements
    /\ disturbances \in 0..MaxDisturbances

\* However often ticks, requests, crashes and restarts repeat the evaluation
\* of a signal, it gets at most one run, and so one preview in the queue,
\* more than there are evaluators: the look-up of earlier runs raises as
\* soon as it finds two.
RunsBounded ==
    \A s \in Signals : Len(runs[s]) <= 1 + Cardinality(Evaluators)

\* Automation places one order record at most for a signal under a policy,
\* although evaluations overlap, are repeated after crashes that hide whether
\* the order was placed, and leave POSTs behind that arrive late: the
\* client_order_id is committed, under its unique constraint, before the first
\* POST.  An exchange that accepts repeats may hold that record once for each
\* POST of its retry loop; one that dedupes holds it once.
OnePlacementPerKey ==
    \A p, q \in exchange :
        /\ p.by = "automation" /\ q.by = "automation"
        /\ p.order[1] = q.order[1]
        /\ p.key = q.key
        => p.order = q.order /\ (ExchangeDedupes => p = q)

\* Automation placed the order id.
Placed(id) == \E p \in exchange : p.order = id /\ p.by = "automation"

\* A run that says submitted has an order that automation placed at the
\* exchange or simulated, and a dry run has one that it did neither with,
\* nor approved, even when the policy changed while it was evaluated.
RunsTellTheTruth ==
    \A s \in Signals : \A i \in DOMAIN runs[s] :
        LET run == runs[s][i]
        IN  /\ run.status = "submitted" => Placed(<<s, i>>) \/ run.order.paper
            /\ run.status = "dry_run_submitted"
                    => /\ ~Placed(<<s, i>>)
                       /\ ~run.order.paper
                       /\ run.order.by # "automation"

\* Automation is off: paused, disabled, or trading stopped.
Stopped == activePauses > 0 \/ ~control \/ ~killSwitch

Permitted(guards) == guards.enabled /\ ~guards.paused /\ guards.trading

\* e read its guards before the stop and may still place an order.
InFlight(e) ==
    \/ evaluators[e].pc = "guarded" /\ Permitted(evaluators[e].guards)
    \/ /\ evaluators[e].pc \in {"decided", "previewed"}
       /\ evaluators[e].decision = "automation_allowed"
    \/ evaluators[e].pc \in {"dry_run", "approving", "approved", "executing",
                             "simulating", "posting", "awaiting"}

Quiet == \A e \in Evaluators : ~InFlight(e)

\* Once automation is stopped and the evaluations under way have drained, no
\* step approves, simulates or sends anything by itself, and none brings an
\* evaluation back that could, until the stop is lifted.  All that may still
\* reach the exchange is what was sent before: a POST that its evaluator gave
\* up on, or left behind in a crash, cannot be called back.
StopHolds ==
    [][Stopped /\ Quiet
        => /\ Quiet'
           /\ \A p \in Sent' \ Sent : p.by = "human"]_vars

\* And they do drain: a lasting stop ends in quiet.
StopDrains == <>[]Stopped => <>[]Quiet

\* The execution check of the kill switch lets nothing pass while the switch
\* is engaged.
KillSwitchBlocks ==
    [][\A e \in Evaluators :
        evaluators[e].pc = "executing" /\ ~killSwitch
            => evaluators'[e].pc \notin {"posting", "simulating"}]_vars

\* What automation gives back to manual review waits in the manual queue:
\* nobody has approved it but a person.
FallbackIsInQueue ==
    \A s \in Signals : \A i \in DOMAIN runs[s] :
        runs[s][i].status = "manual_review_required"
            => runs[s][i].order.by # "automation"

\* The approval gate of the orders that automation previews.
Stage ==
    [o \in OrderIds |->
        IF o[2] \notin DOMAIN runs[o[1]] THEN "none"
        ELSE IF OrderOf(o).approval = "absent" THEN "none"
        ELSE IF ~OrderOf(o).screened THEN "screened_out"
        ELSE IF OrderOf(o).by = "none" THEN "awaiting"
        ELSE "cleared"]

Gate == INSTANCE ApprovalGate WITH Orders <- OrderIds, stage <- Stage

\* The orders of automation go through the same gate as those of a person:
\* screened once, cleared only if that passed, placed only when cleared.
ImplementsGate == Gate!Spec

-----------------------------------------------------------------------------
(* The inductive invariant *)

Deciding == {"selected", "guarded", "decided"}
Unapproved == {"previewed", "unscreened", "dry_run", "approving"}
Approved == {"approved", "executing", "simulating", "posting", "awaiting",
             "answered", "executed", "failed"}

\* A request to resume has a pause to end.
ResumeHasPause == requests.resume => activePauses > 0

\* An approval comes after a passed screening; what automation approved has
\* the derived id; nothing else was simulated by automation.
OrderConsistent(order) ==
    /\ order.by # "none"
        => order.screened /\ order.approval \in {"approved", "rejected", "submitted"}
    /\ order.approval = "pending_approval" => order.screened /\ order.by = "none"
    /\ order.approval = "absent" => ~order.screened
    /\ order.approval \in {"approved", "submitted"} => order.by # "none"
    /\ order.by = "automation" => order.key \in Policies
    /\ order.paper => order.by = "automation"

RunConsistent(run, id) ==
    /\ OrderConsistent(run.order)
    /\ run.status = "submitted" => Placed(id) \/ run.order.paper
    /\ run.status = "dry_run_submitted" => run.order.by # "automation"

RunsConsistent ==
    \A s \in Signals : \A i \in DOMAIN runs[s] :
        RunConsistent(runs[s][i], <<s, i>>)

\* No two orders of a signal share a derived id.
KeysUnique ==
    \A s \in Signals : \A i \in DOMAIN runs[s], j \in DOMAIN runs[s] :
        runs[s][i].order.key = runs[s][j].order.key
            => i = j \/ runs[s][i].order.key = NoPolicy

\* What an evaluator knows of its run, wherever it stands.
Accords(state, run, id) ==
    /\ run.status \notin {"submitted", "dry_run_submitted"}
    /\ state.pc \in Unapproved
        => run.order.key = NoPolicy /\ run.order.by # "automation"
    /\ state.pc \in {"dry_run", "approving"} => run.order.screened
    /\ state.pc \in Approved => run.order.by = "automation"
    /\ state.pc = "answered" => Placed(id)
    /\ state.pc = "executed" => Placed(id) \/ run.order.paper

HasPolicy(state) ==
    \/ state.pc \in {"decided", "previewed"} /\ state.decision = "automation_allowed"
    \/ state.pc \in {"dry_run", "approving"}
    => state.policy \in Policies

RunOf(e) == <<evaluators[e].signal, evaluators[e].run>>

EvaluatorConsistent(e) ==
    /\ HasPolicy(evaluators[e])
    /\ evaluators[e].pc \in Deciding \cup Unapproved \cup Approved
        => evaluators[e].signal \in Signals
    /\ evaluators[e].pc \in Unapproved \cup Approved
        => /\ evaluators[e].run \in DOMAIN runs[evaluators[e].signal]
           /\ Accords(evaluators[e], CurrentRun(e), RunOf(e))

EvaluatorsConsistent == \A e \in Evaluators : EvaluatorConsistent(e)

\* A run belongs to one evaluator.
OwnersDistinct ==
    \A e, f \in Evaluators :
        /\ evaluators[e].pc \in Unapproved \cup Approved
        /\ evaluators[f].pc \in Unapproved \cup Approved
        /\ RunOf(e) = RunOf(f)
        => e = f

\* Evaluators that will add a run for s.
Pending(s) ==
    {e \in Evaluators : evaluators[e].pc \in Deciding /\ evaluators[e].signal = s}

RunsCounted ==
    \A s \in Signals :
        /\ Len(runs[s]) <= 1 + Cardinality(Evaluators)
        /\ signals[s] # "retired"
            => Len(runs[s]) + Cardinality(Pending(s)) <= 1 + Cardinality(Evaluators)

\* An order was approved before it is sent; one that automation sent keeps
\* its key.
PlacementConsistent(p) ==
    /\ p.order[2] \in DOMAIN runs[p.order[1]]
    /\ OrderOf(p.order).by # "none"
    /\ p.by = "automation"
        => OrderOf(p.order).by = "automation" /\ OrderOf(p.order).key = p.key

PlacementsConsistent == \A p \in Sent : PlacementConsistent(p)

IInv ==
    /\ TypeOK
    /\ ResumeHasPause
    /\ RunsConsistent
    /\ KeysUnique
    /\ EvaluatorsConsistent
    /\ OwnersDistinct
    /\ RunsCounted
    /\ PlacementsConsistent
=============================================================================
