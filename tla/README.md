# Kalshi Signal Desk: a verification project

Kalshi Signal Desk watches prediction markets, scores signals, notifies an
operator and, under guards, places orders at the Kalshi exchange. This
directory holds TLA+ models of the parts of it that decide what reaches the
exchange, the TLC configurations that check them on small instances, and
proofs, checked by TLAPS, of the theorems that matter most.

The models follow the code under `src/`. Paths below are relative to it;
`EE` is `services/execution-engine/src/execution_engine`, `API` is
`services/api/app`, `KC` is `packages/shared-py/src/kalshi_client`.

## Inventory

| component | state it keeps | operations | hard part |
|---|---|---|---|
| **Order path** (`EE/orders/service.py`, `EE/approvals/state_machine.py`, `API/services/execution.py`) | `orders`, `approval_requests`, `execution_audit_logs` rows; one database session per request | preview, approve, reject, execute, reconcile | every handler reads a row, awaits, and writes it back with no lock and no version: decisions overwrite each other, an approval is looked at only when loaded |
| **Execution mode, kill switch** (`API/services/execution.py`, `API/core/config.py`) | two `system_controls` rows, settings of the process | enable/disable paper, set the switch, read them before an execution | the mode row outlives the settings it was created from; both are read once per request |
| **Kalshi REST client** (`KC/rest.py`) | retry counter of the request being sent | POST with retries on timeout | a request that timed out may have been accepted; the retry repeats it |
| **Paper trading** (`EE/paper/service.py`) | paper orders, fills, positions, snapshots | simulated submission, replay | does not look at the approval; overwrites the live columns of the order |
| **Risk engine, previews** (`EE/risk/engine.py`, `EE/previews/service.py`) | reads positions, snapshots, control rows | evaluate, summary | exposure is read at the preview, written by a fill much later; single-row lookups over many rows |
| **Reconciliation** (`OrderService.reconcile`, `EE/reconciliation/service.py`) | orders, positions, fills | apply an update, record a fill, close | no identity or order of updates; nothing calls it |
| **Selective automation** (`EE/automation/*`, `EE/main.py`) | runs, pauses, failures, control row, deterministic client order ids | evaluate pending signals, enable, disable, pause, resume, anomaly pause | several commits per signal, re-evaluation on each tick, guards read once |
| **Notifier** (`services/notifier`) | Redis dedupe keys, alert events, deliveries | dispatch candidate, process queue, receipts | mark before send, one key for all endpoints, record after send |
| **Signal engine** (`services/signal-engine`) | active signals, alert candidates | run: score, replace, expire, deduplicate | look-up key differs from the stored key |
| **Market stream** (`services/market-stream`, `KC/ws.py`) | socket, subscriptions, snapshots | connect, subscribe, consume, reconnect | the error path clears the flag that keeps the reconnect loop running |
| **External enrichment** (`services/external-enrichment`) | events, mappings, provider health | poll, map, persist | partial failure of providers |
| **Deployment smoke checks** (`scripts/smoke`) | none of its own; asks the API for its mode and health | the critical checks of the runner, in order | what was asked at one time may have changed at the next |
| API shell, worker and scheduler loops, web applications, migrations, infrastructure | – | – | no protocol of their own; not modelled |

How they interact: the market stream persists snapshots, the signal engine
reads them and writes signals and alert candidates, the notifier delivers the
candidates, a person or the automation turns a signal into a preview, and the
order path takes the preview through approval to the exchange or to the paper
simulation. All of them meet in one database; none locks a row. The API serves
requests concurrently in one event loop, so handlers interleave at every
`await`; the services are separate processes.

What makes each part correct:

- *Order path*: nothing is sent for an order that was not screened and
  approved; what the database says was submitted was; the status follows the
  transition table; what the exchange holds is recorded.
- *Mode and kill switch*: only a process configured for live trading posts; an
  operator's override is not undone by a restart; an engaged switch stops new
  submissions.
- *REST client*: retries are bounded and every request ends.
- *Paper*: only approved orders are simulated; the live record is untouched;
  positions and fills agree.
- *Risk*: exposure stays within limits, also across concurrent previews.
- *Automation*: at most one submission per signal and policy, nothing while
  paused, every signal is finally decided.
- *Notifier*: no candidate is lost or delivered twice within the window.
- *Signal engine*: one active signal per market; unchanged signals are silent.
- *Market stream*: after a loss the stream is subscribed to everything again;
  what it stores is in order and refers to a known market.
- *Enrichment*: overlapping runs do not mix their entities; a mapping that an
  operator has overridden stays.
- *Smoke checks*: a deployment that passes cannot trade live unless it is
  meant to.

`PROJECT.json` lists the hazards of this code at their lines, each with the
properties that cover it or the reason why none does.

## Modules

| module | content |
|---|---|
| `ApprovalGate` | what the order path promises: screened once, cleared only after passing, placed only when cleared |
| `OrderExecution` | order path, control rows, live and paper submission, retries, crashes, restarts; its properties and inductive invariant |
| `MCOrderExecution` | instances for TLC |
| `OrderExecution_proofs` | theorems about `OrderExecution` |
| `Automation_proofs` | theorems about `Automation` |
| `Automation` | selective automation: evaluations, operators, people at the same orders, anomalies, the signals; implements `ApprovalGate` too |
| `MCAutomation` | instances for TLC |
| `RiskLedger` | positions, paper positions, portfolio snapshots, reconciliation, and the risk rules that read them |
| `Enrichment` | runs of the enrichment worker over entities, mappings and overrides |
| `SignalEngine` | runs of the signal engine over the signals table |
| `Notifier` | the notifier on those signals: dedupe keys, endpoints, provider, workers, Redis |
| `AlertPolicy`, `SignalScores` | the figures of a market, their scores, the gates of the engine and the delivery policy with quiet hours |
| `MarketStream` | the life of the market-stream service, its connection and its persistence |
| `TradingDesk` | `RiskLedger` on the snapshots that `MarketStream` stores |
| `DeploymentSmoke` | the smoke runner against deployments whose mode may change |
| `MCSharedTables`, `MCFeedAndAlerts`, `MCTradingDesk`, `MCOneAtATime`, `MCNotifier`, `MCAlertPolicy`, `MCMarketStream` | instances for TLC |
| `RiskLedger_proofs`, `Enrichment_proofs`, `Notifier_proofs`, `AlertPolicy_proofs` | theorems about these modules |
| `MarketStream_proofs` | theorems about `MarketStream`, `TradingDesk` and `MCFeedAndAlerts` |
| `SharedTables_proofs` | theorems about `DeploymentSmoke` and `MCSharedTables` |

### `OrderExecution`

One action per stretch of a handler between two awaits that matter.

| variable | code |
|---|---|
| `orders` | `approval_status`, `status` and `kalshi_order_id` of each `OrderRecord`; `absent` is no row |
| `audit` | (event_type, status) of the order's `ExecutionAuditRecord`s |
| `paperOrders` | `PaperOrderRecord`s |
| `killSwitch`, `modeRow` | the control rows `global_trading` and `execution_mode` |
| `settings` | mode after `resolved_execution_mode`, and `KALSHI_ENABLE_TRADING` |
| `sessions` | each request: where its handler stands, the row in its session, its attempt |
| `transit`, `exchange` | POSTs on their way, POSTs the exchange accepted |

| actions | code |
|---|---|
| `BeginPreview`, `CommitPreview` | `evaluate`, then the commit of `create_preview_order` |
| `BeginApprove`/`CommitApprove`, `BeginReject`/`CommitReject` | `approve_order`, `reject_order` up to the check; transition, audit and commit |
| `BeginExecute`, `LoadOrder`, `ReadMode` | `execute_order`: switch, order, mode, and where it branches |
| `CommitPaper` | `PaperExecutionService.submit_order` |
| `Post`, `Timeout`, `CommitSubmit` | the retry loop of `_request`, and what `submit` does with the answer |
| `ExchangeAccept`, `ExchangeRefuse`, `LosePost` | the exchange and the network (external) |
| `SetKillSwitch`, `SetExecutionMode`, `ShowStatus` | the operator's routes; a status read creates the mode row too |
| `Abort`, `Restart` | an exception rolls a session back; a process dies and returns under other settings |

Three points carry the model. A handler works on the row *its session* loaded
(`seen`), also in its late checks: `SessionLocal` sets `expire_on_commit` to
false, so the commit in `get_execution_mode` refreshes nothing. A commit
writes only the columns the handler changed (`Flush`), so two commits merge
column by column. And a POST that was given up on is still in `transit`: it
may be accepted after a retry, after a crash, or after the order was rejected.

Left out: prices, counts and payloads (no property tells them apart), the
verdict of the risk rules other than the kill switch (open in
`BeginPreview`), paper positions and snapshots, read-only listings, and
`reconcile`, which nothing in the repository calls.

### `Automation`

`evaluate_signal` commits up to five times: the anomaly pause of its tick, the
run with its preview, the approval, the submission, the final status. One
action per commit, and one per group of reads after which the handler acts on
values that others may have changed.

| variable | code |
|---|---|
| `signals` | `signals` rows: not created yet, active, deleted by `replace_signal` |
| `policies`, `control`, `killSwitch`, `mode` | `AutomationPolicyRecord`s, the control rows, the mode in force |
| `activePauses`, `requests` | active `AutomationPauseRecord`s; pause and resume requests between read and commit |
| `health` | `ServiceHealthEvent`s: none, one, or several (the look-ups expect one) |
| `failures`, `recentRuns` | what the anomaly window counts, up to its thresholds |
| `runs` | per signal, its `AutomationRunRecord`s with their `OrderRecord`s |
| `evaluators` | where each process is, and what its session holds |
| `transit`, `exchange` | POSTs on their way, POSTs the exchange accepted: of which order, under which key, whose, which attempt |
| `disturbances` | how much has happened around the evaluations (bound) |

| actions | code |
|---|---|
| `BeginTick`, `CommitAnomalyPause` | `detect`, `_pause_due_to_anomaly`, the query for signals |
| `Select`, `ReadGuards`, `Decide` | earlier runs and policy; control, pause and switch; health, anomaly and `decide` |
| `CommitIneligible`, `CommitPreview`, `Refresh`, `CommitRecheckFailure`, `CommitDryRun` | the preview, the refresh of its order, and the ways a run ends before approval |
| `CommitApproval`, `Reload`, `Execute` | `approve_order`, the refresh after its commit, `execute_order` up to its branch |
| `CommitPaper` | simulation |
| `Post`, `Timeout`, `CommitOrder` | the retry loop of `_request`, commit of `submit` |
| `AcceptAndAnswer`, `AcceptForHuman`, `AcceptUnheard`, `Refuse` | the exchange and the network (external) |
| `CommitSubmitted`, `CommitSubmissionFailure` | the last commit of the run |
| `LoseRun`, `Abort`, `Restart` | the run was deleted with its signal; errors and crashes; the platform starts the loop again |
| `SetPolicy` … `CommitResume` | the operator's routes |
| `HumanApprove`, `HumanReject`, `HumanExecute` | a person at the same orders |
| `Arrive`, `Replace`, `ReportHealth`, `SlideWindow` | signal engine, health writers, time |

Five points carry the model. A POST travels apart from its sender, as in
`OrderExecution`: each attempt is one of its own, and one that was given up on,
repeated or left behind in a crash may still be accepted, whatever has been
stopped meanwhile. An uncaught exception ends the loop (`Raise`):
`run_loop` has no handler, and three look-ups expect one row where there may be
more (`Select`, active pauses, health events). Rows read for the guards stay
referenced until the signal is done, so the execution check of the kill switch
sees the value of `ReadGuards`. The approval commit writes over what a person
decided after the preview, and the deterministic `client_order_id` under its
unique constraint (`KeyFree`): that constraint is the only thing that keeps two
evaluations apart. A failed flush leaves the session unusable, so the `except`
branch of the submission itself raises.

Grouped reads: earlier runs and policy, the three guards, and health, anomaly
and decision are one step each. Left out: event and alert rows, the
listings, thresholds and caps of `decide` (`clears` is open), the strategies
and allowlists (any enabled policy may match), failure types that nothing
writes (`rate_limit`, `order_rejected`, `reconciliation_mismatch`), the link
from run to order, `order.status`. Requests of people that overlap on one order
are in `OrderExecution`; here a person's request is one step, its POST apart.

`AutoEligible` are signals whose action is `buy_yes` or `buy_no`. The signal
engine writes neither (it writes `consider_yes`, `consider_no`, `watch`); rows
like those of `tests/test_automation_phase7.py` come from elsewhere.

### `RiskLedger`

A handler is a session of two steps: the reads it decides on, and the commit of
the columns it assigned, computed from what it read. A paper execution has three:
between the two it flushes its position, which locks the row (`RowIsFree`), and
captures the portfolio from inside its transaction (`WritePaper`), where the
rows others have not committed are not to be seen.

| variable | code |
|---|---|
| `books` | `positions` and `paper_positions` rows: contracts, exposure, whether open, how long ago closed at a loss |
| `orders`, `onExchange`, `updates` | how far an order's approval has come; what the exchange works on and has reported |
| `snapshots`, `portfolio`, `paperFills` | `market_snapshots`, `paper_portfolio_snapshots` (`missed` is history: what was committed between a capture and its commit), `paper_fills` |
| `sessions` | requests between their reads and their commit |
| `applied`, `raced`, `careful` | history: updates committed, rows written over a newer value, no preview or update overlapped another |

| actions | code |
|---|---|
| `BeginPreview`, `CommitPreview` | `DeterministicRiskEngine.evaluate`, `create_preview_order` |
| `Place` | approval and submission, whose races are in `OrderExecution` |
| `ExchangeFill`, `ExchangeCancel` | the exchange (external) |
| `BeginReconcile`, `CommitReconcile` | `OrderService.reconcile` |
| `ClosePosition`, `Age` | `mark_position_closed`; time |
| `BeginPaper`, `WritePaper`, `CommitPaper` | `PaperExecutionService.submit_order` |
| `Observe` | a snapshot of the market stream |

Left out: `order.status`. `reconcile` writes into it whatever string the update
says (`EE/orders/service.py:182`), and no decision reads it.

### `MarketStream`

The service is one task with a heartbeat beside it. Each call of the persistence
layer commits on its own, so a handler, and the bootstrap, is as many steps as
it has calls, and a crash, or a preview of the desk, may fall between them.
`close()` clears the flag the loop of `run_forever` runs on, so a lost
connection ends the process (`AfterError`); it is the platform that starts it
again.

| actions | code |
|---|---|
| `Restart`, `BootstrapRow`, `RequestBooks`, `BootstrapBook`, `Subscribe`, `RunForever`, `StartFails` | `main._run`, `MarketStreamService.start` |
| `Connect`, `Resubscribe`, `LoseConnection`, `LoopOrLeave` | `KalshiWebSocketClient.run_forever` |
| `Receive`, `HandleRow`, `HandleEvent`, `HandleSnapshot`, `HandleCache` | `_consume`, `handle_event` |
| `Heartbeat`, `HeartbeatFails`, `StopHeartbeat`, `RecordStopped`, `Crash` | the heartbeat task, `stop()` |

### `Enrichment`

`run_once` of two runs that may overlap, by the worker and by
`POST /enrichments/sync`: entities are written provider by provider, mappings
replaced, features computed. A unique constraint and the order of the locks
decide who waits for whom (`MayLock`). Overrides are an operator's.
The forecast adapter makes up a placeholder when no platform is configured
(`external_enrichment/providers/forecast.py:50`), so every run has an entity of it.

### `SignalEngine`, `Notifier`

`SignalEngine` has a run as three steps: what it reads, the rows it deletes and
inserts, the commit (`started` and `overlapped` are history). A row knows the rows
its run wrote before it (`after`): with the number of the run this is its
`created_at`. A run on an empty `kalshi_markets` seeds markets of its own
(`repository.py:106`, `DemoMarkets`).
`Notifier` adds two workers on these signals, each with its place among
candidates and endpoints, the marks in Redis, and the delivery rows the dedupe
check falls back on. A poll takes up the `PollLimit` newest candidates and no
others (`NewestFirst`; 20 in `delivery.py:151`), so an older one waits until newer
ones are gone. A second device, or a second row of quiet hours that two
overlapping requests leave (`SavePreferences`, `SaveTwice`), makes the look-up of
one row raise and ends the worker. A delivery row refers to its signal, so its flush waits for
a run that is deleting it (`locks`). The provider is tried several times, and
the answer of a try may be lost (`Tried`, `Lost`). `guarded` and `sends` are
history: the keys that Redis has guarded through their window so far, and what
has arrived for them.

### `SignalScores`, `AlertPolicy`

Pure arithmetic: the figures of a market, the features the two services make of
them, and the weighted sums, in hundredths of a percent. `AlertPolicy` runs the
two gates of the engine and `decide_delivery_policy` over hours that pass and
preferences that change. Figures are parameters: any market that the code may
have read.

### `TradingDesk`, `DeploymentSmoke`

`TradingDesk` is `RiskLedger` through `INSTANCE ... WITH`, its snapshots those of
`MarketStream`. `DeploymentSmoke` is the runner's critical checks, one step
each, against an API whose deployment and stored mode change between them;
`cleared` is history: the invocations that passed, with what they asked for.

`MCSharedTables`, `MCFeedAndAlerts` and `MCOneAtATime` put components that share no state side by
side: `part` says which one a behaviour is about, and the others stay as they
begin. This is one state space per component, not their product.

## What is checked

| run | instance | result |
|---|---|---|
| `order_races` | 1 order, 5 requests, 3 at a time, 2 attempts, an exchange that accepts duplicates, restarts between three environments | `TypeOK`, `PlacedOnlyAfterApproval`, `SubmissionIsBacked`, `ImplementsGate`, `LiveOnlyPosts`, `OverrideOutlivesRestarts` hold |
| `one_at_a_time` | orders: the same code with one request at a time, 4 requests, 2 attempts, an exchange that refuses duplicates; alerts: 2 markets of a key each, 1 engine with 2 runs, 1 worker whose polls take 1 candidate, 1 mishap | `LifecycleFollowsTable`, `ApprovedAtPost`, `RequestsEnd` and `AlertsAnswered` hold |
| `order_decision_race` | 3 requests at a time | `LifecycleFollowsTable` fails: a rejected order becomes approved |
| `order_unrecorded` | one request at a time, 1 attempt | `EventuallyRecorded` fails: an accepted order whose answer is lost stays unknown |
| `automation_races` | 1 signal, 1 policy, the loop and an API evaluation, policies switched between live and dry run, 2 disturbances, 1 attempt, an exchange that accepts duplicates | `TypeOK`, `RunsBounded`, `OnePlacementPerKey`, `RunsTellTheTruth`, `StopHolds`, `ImplementsGate` hold |
| `automation_serial` | the loop alone, 2 signals of which one is eligible, every policy setting, live, paper and disabled mode, dry runs, degraded health, 4 disturbances, 2 attempts | `StopDrains` holds |
| `automation_kill_switch` | as `automation_races`, ready to trade | `KillSwitchBlocks` fails: the switch, engaged after the guards, does not stop the execution |
| `automation_fallback` | as `automation_races`, ready to trade | `FallbackIsInQueue` fails: a failed submission leaves an approved order outside the queue |
| `shared_tables` | books: 2 orders on 1 market, 2 sessions; mappings: 2 providers, 2 targets, 2 runs; signals: 2 engines; policy: figures at their extremes, a day of 6 hours; smoke: staging and production revisions | books, mappings, signals, policies and the smoke runner keep their 13 invariants and 2 action properties |
| `feed_and_alerts` | stream: 1 market, 2 messages, 2 failures; alerts: 2 engines, 2 workers, 2 endpoints, 2 tries, 1 mishap | `SubscriptionsReplayed`, `HistoryIsSound`, `StoppedIsFinal`, `FeedRecovers` and `AtMostOncePerWindow`, `SendsAreCurrent` hold: the stream recovers as far as the platform starts it again |
| `stream_reconnect` | the stream, 1 failure | `ReconnectsItself` fails: a lost connection ends the process |
| `desk_previews` | the stream and one order on the market it watches | `PreviewsAnswer` fails: with a second snapshot of the market every preview raises |

The six failures are findings, with the sentence of the documentation or the
assertion of the code they contradict, in `PROJECT.json`. The pair
`one_at_a_time` / `order_decision_race` shows that the transition table is
enforced by every handler alone and by no two of them together.

**Bounds.** `Requests` is finite because a request is one-shot: five are
enough for a preview, an approval, a rejection and two executions of one
order, and three at a time let two decisions or two submissions overlap with
an operator or a restart between any two of their steps. Orders do not share
state except through the control rows and the bound on requests, so one is
enough; the theorems have no such bound. `MaxAttempts` is `max_retries + 1`
(`KC/config.py`); two let a retry overlap its late predecessor.
`order_races` is symmetric in the requests; the runs with liveness properties
use no symmetry.

In `Automation` a signal shares nothing with another but the anomaly counters
and the order of the scan, so the races run has one signal, and the second
signal, the one that is not eligible, comes in `automation_serial`.
`MaxAttempts` is 1 where evaluations overlap and 2 in the other instances: with
one attempt a POST given up on is in transit without a successor, with two it
overlaps its successor. `MaxDisturbances` bounds the acts of operators, people, crashes and the world:
two are enough for a pause and a resume, for a crash between two commits
followed by a restart (restarts are free) and a policy change, or for a person
who approves and executes. Evaluations are not bounded: ticks repeat for ever.
`FailureThreshold` 1 and `MaxOrders` 0 make the first failure and the first
submission an anomaly, so that the anomaly pause meets everything else; the
serial run has 2 and 1. `Configurations` are the databases a behaviour starts
from: ready to trade (`Trading`), or the modes, a dry run and degraded health
(`Modes`). Deadlock is not checked in these runs: with the disturbances used up
and no active signal there is nothing left to do.

In `shared_tables`, `MaxApplied` 2 bounds the updates reported and the updates
applied, repeated ones included: two fills of one order, or a fill applied
twice, or a fill and a cancellation. Two orders, one of two contracts and one at
the market price, and limits of 2 bring every rule to its limit. `MaxPaper` 3
lets two paper executions overlap on rows that a third has written. `MaxRuns` 3 has a third run find what two
overlapping ones left, with one override at any time (`MaxOverrides`).
`MaxEngineRuns` 4 (2 in `feed_and_alerts`) gives each engine two runs. The day
has 6 hours, in which quiet hours go over midnight, lie within a day or are
empty. In `feed_and_alerts`, `MaxFailures` 2 has a second failure strike while
the service recovers from the first, `MaxClock` 2 gives two messages, and
`MaxMishaps` 1 one crash, outage, second device or second row of quiet hours.
`one_at_a_time` has two markets, so that with `PollLimit` 1 a newer candidate
crowds out the older one, and one worker: two of them exceed what can be explored
with liveness, and their overlap is in `feed_and_alerts`. Every set of model values that
is interchangeable in the safety run is symmetric (`Sessions`); the run with
liveness properties has no symmetry. Deadlock is not checked where the bounds
use up what can happen.

**Fairness.** `FairSpec` of `OrderExecution` asks only that a handler whose next
step is enabled takes it (`WF` of `Progress` per request): the event loop runs
ready coroutines, database calls return or raise, and an unanswered POST times
out (`timeout_seconds` of the client). Nothing is asked of users, operators or
the network, and a POST may be lost for ever. `FairSpec` of `Automation` asks
the same of an evaluation that has begun (`WF` of `Evaluate` per evaluator); no
tick has to begin, no dead loop to be restarted, no request to be made, and no
pause request to commit. `StreamFairness` has the task take its steps and the
platform start a process that ended (ECS keeps `desired_count` tasks:
`infra/ecs/service-catalog.yaml`, `docs/deployment/ecs-fargate.md`).
`PipelineFairness` has the transactions of the engine go on, a worker go on and
poll again, and the TTL of a mark pass. `AlertsAnswered` assumes that Redis
comes back for good (`<>[]redis`), that the user has one device and one row of
quiet hours at most (`OneRowEach`: neither `_primary_device` nor
`_quiet_hour_policy` survives a second), and that the candidate stays among the
newest (`Offered`): nothing in the code looks at an older one while `PollLimit`
newer ones stand.

## What is proved

Eight modules, each for every value of the constants that satisfies the
assumptions of the modules it is about: no theorem depends on the instances of
the runs. Of the 39 properties the passing runs check, the theorems state 35. The
other four are liveness properties; for three of them the half that is a safety
property is proved: `RequestsWearOut`, `EvaluationsWearOut` and `PollsWearOut`
say that what has begun has only so many steps to take, whatever happens around
it. Where the code gives less than one would expect, a theorem says what it
does give: `KillSwitchHolds` for a switch that an execution reads once,
`OverlapsOnlyAdd` for runs of the engine that overlap, `TwoSnapshotsRefuse` for
the refuted `PreviewsAnswer`.

### `OrderExecution_proofs`

For every value of the constants that satisfies the
assumptions in `OrderExecution`:

| theorem | statement |
|---|---|
| `Invariance` | `Spec => []IInv` |
| `TypeCorrect` | `Spec => []TypeOK` |
| `PlacementsAreApproved` | `Spec => []PlacedOnlyAfterApproval` |
| `SubmissionsAreBacked` | `Spec => []SubmissionIsBacked` |
| `OrderPathImplementsGate` | `Spec => ImplementsGate` |
| `OnlyLiveProcessesPost` | `Spec => LiveOnlyPosts` |
| `OverridesLast` | `Spec => OverrideOutlivesRestarts` |
| `SerialLifecycle` | `MaxConcurrent = 1` implies `Spec => LifecycleFollowsTable` |
| `SerialPostsAreApproved` | `MaxConcurrent = 1` implies `Spec => ApprovedAtPost` |
| `RequestsWearOut` | `Spec`: a request has `3 * MaxAttempts + 4` steps to take at most, and fewer after each |
| `RetriesAreOfOneOrder` | `Spec => []RetriesStayBounded` |
| `KillSwitchHolds` | `Spec => SwitchHolds` |

The assumptions: `NoOrder` is not an order, there is at least one attempt,
`MaxConcurrent` is a natural number, `ExchangeDedupes` is Boolean, environments
are settings. Nothing is assumed of `NoPlacement`, and no set has to be finite.

*Why an invariant is needed.* `PlacedOnlyAfterApproval` speaks of POSTs and
audit rows; a step that sends a POST looks at neither, but at a row loaded
earlier. `IInv` ties them together: what an approval status says of the trail
(`Trail`) holds of the stored rows (`RowsTrail`) and of the rows in the
sessions (`SessionTrail`), wherever the handler stands; a stored or loaded
`approved` has its approval on record even when the stored row has changed
since, because the trail only grows. `PreviewsDisjoint` says that a row being
created belongs to one request, which is what keeps `Screen` of the gate a
one-time step. `SessionTrail` also bounds the attempt counter, without which
`TypeOK` is not inductive.

*How the proof is laid out.* Steps that leave rows and trail alone go through
`QuietStep`; commits through `CommitKeeps`, with one lemma per handler that
computes the row it writes (`FlushedRow`, `TransitionedRow`); sessions that
move on with the row they hold through `MovedKeeps`. The refinement maps the
audit trail to the stage of the gate: `CommitPreview` is `Screen`,
`CommitApprove` is `Clear` or stutters, `ExchangeAccept` is `Place`, and
everything else stutters. `OnlyLiveProcessesPost` has an invariant of its own,
`PostersMayPost`.

*One request at a time.* `SerialLifecycle` and `SerialPostsAreApproved` are false
without their hypothesis: `order_decision_race` shows it for the first. They need that the
row a session has loaded is the stored one (`SeenIsStored`), which holds just
because no other request is in progress; `SerialInv` is both. A guard on the
loaded row is then a guard on the stored one, and each handler's write follows
the table.

*Retries, and the switch.* `RequestsWearOut` counts the steps a session has left
(`StepsLeft`): a retry spends an attempt, and nothing gives one back. `Moves`
says what one step may make of a session, and the lemmas go through the actions
once for it. `RetriesStayBounded` says that what a request sends is of one order,
`MaxAttempts` POSTs at most, each of which arrives once at most. Its inductive
form (`SendsInTurn`) is that no POST of a request is of an attempt still to come.
`SwitchHolds` is what the kill switch does promise although
`execute_order` reads it once, at its start: when trading is off and the
executions begun before have ended (`Halted`), nothing is sent, placed or
simulated, and it stays so until somebody switches trading on.

### `Automation_proofs`

For every value of the constants that satisfies the
assumptions in `Automation`:

| theorem | statement |
|---|---|
| `AutomationInvariance` | `Spec => []IInv` |
| `AutomationTypeCorrect` | `Spec => []TypeOK` |
| `SpecRunsBounded` | `Spec => []RunsBounded` |
| `SpecOnePlacementPerKey` | `Spec => []OnePlacementPerKey` |
| `SpecRunsTellTheTruth` | `Spec => []RunsTellTheTruth` |
| `SpecStopHolds` | `Spec => StopHolds` |
| `AutomationImplementsGate` | `Spec => ImplementsGate` |
| `EvaluationsWearOut` | finitely many signals imply, for `Spec`: an evaluation has `(11 + 2 * MaxAttempts) * ScanLimit + 2` steps to take at most, and fewer after each |

The assumptions: signals are natural numbers, `NoSignal` and `NoPolicy` are
none of them, policies have rows, limits are numbers, and there are finitely
many evaluators, the loop among them. Signals and policies may be infinitely
many, and `ExchangeDedupes` is either.

*Why an invariant is needed.* None of the properties looks at the evaluators,
and every commit of theirs depends on where they stand. `Accords` says what an
evaluator may take for granted of the run it works on although others commit
in between: before its approval the run has the random id and is not approved
by automation, after it the approval is automation's, whatever a person did.
`OwnersDistinct` says that no other evaluator works on that run.
`KeysUnique` is the unique constraint, and `PlacementsConsistent` that a
placement keeps the key of its order, from which one placement per key
follows. `RunsCounted` strengthens `RunsBounded` by the evaluators that are
still to add a run (`Pending`): only so does a selection, which sees at most
one run, leave room for what the others will add. `OrderConsistent` relates
the columns of an order; that an order that is not there was not screened is
what keeps `Clear` of the gate from coming before `Screen`.

*How the proof is laid out.* One lemma for each way a step can change runs and
evaluators: `WorldStep` (neither), `QuietStep` (an evaluator moves),
`AppendStep` (it adds a run), `OwnerStep` (it commits its run), `HumanStep` (a
person edits an order). One lemma for each action then names the run and the
state it writes and cites one of these. The refinement maps orders to stages:
`CommitPreview` is `Screen`, `CommitApproval` and `HumanApprove` are `Clear`,
or stutter when the other came first, `AcceptAndAnswer`, `AcceptForHuman` and
`AcceptUnheard` are `Place`, and everything else stutters.

What two of the theorems say, and do not say. `SpecStopHolds`: after a stop, and
once the evaluations begun before have drained, automation *sends* nothing more
(`Sent`); a POST sent earlier may still be accepted, and nothing in the code
calls it back. It needs no more than the types: `QuietStays` goes through the
actions of one evaluator. `SpecOnePlacementPerKey`: whatever POSTs of automation the
exchange has accepted under one signal and policy, they are of one order record.
How many POSTs of that record it accepts is up to the exchange: one if it refuses a
repeated `client_order_id`, otherwise up to one for each attempt, because the
client sends again what timed out.

`EvaluationsWearOut` counts, for an evaluation under way, eleven steps and two for
each attempt for each signal that it still has on its list, and those that the
signal in its hands may still take (`StagesLeft`). The list is the newest `ScanLimit` signals at most,
which is `ScanIsBounded`. Its hypothesis is that the signals are finitely many,
as the rows of a table are.

### `RiskLedger_proofs`

| theorem | statement |
|---|---|
| `LedgerTypes` | `LedgerSpec => []LedgerTypeOK` |
| `ClosedForGood` | `LedgerSpec => ClosedStaysClosed` |
| `PortfolioIsCurrent` | `LedgerSpec => []PortfolioFollowsBooks` |
| `BooksHoldFills` | `LedgerSpec => []BooksMatchFills` |
| `CarefulStaysWithin` | `LedgerSpec => []ExposureWithinLimits` |

The assumptions: prices, limits and the loss are natural numbers, the default price
is not 0, orders count one contract at least. Orders, markets and sessions may be infinitely many, and
the bounds of the runs (`MaxApplied`, `MaxPaper`) play no part.

*Why invariants are needed.* A reconciliation reads a position row, and commits
sums computed from it later, when the row may have changed. `BaseInv` has what
holds of every session: the row it is about to write exists and is of its
market. The sum of the contracts alone is not inductive, because a commit over a
newer value may take back more than one fill: `BooksAreTallied` says that there
is a tally per row of all that was ever filled into it, which adds up to the
fills of the market, bounds the row and what sessions have read of it, and
equals the row unless a race was recorded. `PortfolioIsCurrent` says that the
newest portfolio snapshot lacks just what others committed between its capture and
its own commit (`missed`): it has the position of its own execution, because the
row is locked from the flush on, and nothing that was committed before. A stronger
statement is false: two executions that insert a position each capture without
the other's row. Its inductive form says so of the executions that have captured
and not committed yet. `CarefulInv` is for the limits. In
careful use there is one outstanding order (`OneAtATime`), what is still to be
filled of it has room within every limit at the price it was previewed at
(`HasRoom`), and what sessions have read is still so (`ReadsAreCurrent`): a
preview's decision then still holds when it is committed, and every fill
consumes the room it was given.

*How the proofs are laid out.* First the sums over finite sets: the operator of
the community modules is a `CHOOSE` of a recursive function, and what it does
for every finite set is proved from a smallest subset for which it would not.
Then what a commit does to the rows, the exposures and the tally, and one lemma
per action for each of the invariants.

### `Enrichment_proofs`

| theorem | statement |
|---|---|
| `EnrichInvariance` | `EnrichSpec => []EnrichInv` |
| `EnrichTypes` | `EnrichSpec => []EnrichTypeOK` |
| `RunsStayApart` | `EnrichSpec => []RunsDoNotMix` |
| `OverridesAlwaysWin` | `EnrichSpec => []OverridesWin` |

The assumptions: there is a provider, every entity resembles some market (or
`NoTarget`), ids are finitely many, and `MaxRuns` is a natural number. What a
run does depends on rows it read earlier in its transaction. The rows of
`external_sources`, which each run writes first, are its lock, and `HeldBack` is
what it buys: a transaction has written nothing, and read only overrides, before
it has the lock, and with the lock nothing that it has read changes, except that
overrides may be added. `ReadsOverrides` says that a run under way has read
every override that was posted in quiet, and `RowsAreSound` that a row is manual
whenever there is such an override and only if there is one of its market. Runs
that wait, create, delete and roll back change nothing that these look at; the
commit is proved row by row, for rows it rewrites and rows it adds.

### `Notifier_proofs`

The theorems are about `PipelineSpec`, the engine and the notifier together.

| theorem | statement |
|---|---|
| `PipelineInvariance` | `PipelineSpec => []PipelineInv` |
| `PipelineTypes` | `PipelineSpec => []PipelineTypeOK` |
| `OneSignalEach` | `PipelineSpec => []OneSignalPerMarket` |
| `DuplicatesAreForGood` | `PipelineSpec => DuplicatesStay` |
| `SendsStayCurrent` | `PipelineSpec => []SendsAreCurrent` |
| `SentAtMostOnce` | `PipelineSpec => []AtMostOncePerWindow` |
| `OverlapsOnlyAdd` | `PipelineSpec => SignalsOnlyExchanged /\ []SignalsBounded` |
| `PollsWearOut` | `PipelineSpec => PollsGoOn /\ []QueuesBounded /\ []TriesBounded /\ []NoneSkipped` |

The assumptions: there are an endpoint and an attempt, a poll takes up one
candidate at least, every key has a ticker,
`NoKey` and `NoSignal` are none of the values they stand beside, and
`MaxEngineRuns` and `MaxMishaps` are natural numbers. `EngineInv` says what a
run has deleted and inserted (`RunIsSound`), that the run's number tells its rows
from all others (`RunsAreNumbered`), and that without an overlap a run has
deleted all there was of the markets it has written (`AloneInOrder`).
`DuplicatesStay` rests on the second part of `RunIsSound`: a run deletes no more
than one row of a market, and inserts one for it. On the side of the notifier,
`LocksHold` is the foreign key: a row an uncommitted delivery refers to is
stored and no run deletes it. `GuardsHold` is the inductive form of
`AtMostOncePerWindow`: a guarded key has its mark, one worker at most is
sending it, and while one does nothing of it has arrived yet.

`OverlapsOnlyAdd` says what `OneSignalPerMarket` turns into when runs overlap: a
commit exchanges rows one for one or adds one, so that a market that has a signal
is never without, and has no more of them than there were runs, because a run
writes one row of a market (`RowsAreNamed`). `PollsWearOut` says that a poll is
one pass over the candidates it took up, `PollLimit` at most. A step stays with the candidate and
leaves fewer to take for it (`TriesLeft`), or commits it and takes it off the
list, or ends the poll; and no candidate is committed that was neither offered to
the provider, nor kept back by policy, nor leaves a row in the window
(`FirstAnswered` is the inductive form: so it is from the second endpoint on).

### `MarketStream_proofs`

| theorem | statement |
|---|---|
| `StreamInvariance` | `StreamSpec => []StreamInv` |
| `StreamTypes` | `StreamSpec => []StreamTypeOK` |
| `ConsumesSubscribed` | `StreamSpec => []SubscriptionsReplayed` |
| `HistoryStaysSound` | `StreamSpec => []HistoryIsSound` |
| `StoppedStaysFinal` | `StreamSpec => StoppedIsFinal` |
| `DeskImplementsLedger` | `DeskSpec => Ledger!LedgerSpec` |
| `DeskKeepsItsBooks` | `DeskFigures` implies `DeskSpec => []Ledger!BooksMatchFills /\ []Ledger!PortfolioFollowsBooks /\ []Ledger!ExposureWithinLimits /\ Ledger!ClosedStaysClosed` |
| `TwoSnapshotsRefuse` | `DeskFigures` implies `DeskSpec => RefusedForGood` |
| `SideBySideSafety` | `MCFeedAndAlerts`: `Spec => [](TypeOK /\ SubscriptionsReplayed /\ HistoryIsSound /\ AtMostOncePerWindow /\ SendsAreCurrent)` |

The assumptions: the watchlist is one of markets, figures are of their kinds,
bounds are natural numbers. `LifeIsSound` ties the stage of a process to its
connection, its subscriptions and its heartbeat: before `_consume` begins, all
of `wanted` has been sent on this link, and a new process has no heartbeat, so
that none is left to write over "stopped". `HandlingIsSound` and `MarketSound`
give the order of the history: the message being handled is the newest one, and
its snapshot, if it is still to come, is younger than every stored one.

`DeskImplementsLedger` is the refinement of `TradingDesk`: the history of the
stream, as the rules see it, takes the place of the ledger's own snapshots. A
step of the stream stores one snapshot of one market (`OneSnapshot`) and is then
`Observe`, or none and is a stutter; that there was room for it when it was begun
is `RoomKept`.

`DeskKeepsItsBooks` brings the theorems about the ledger to the desk. They are
proved for any constants and variables, so the proofs need not be repeated:
`LedgerFacts` is an instance of `RiskLedger_proofs` with the stream's history in
place of the snapshots. A prover does not know that two instances of one text
define the same; the lemmas `SameInit`, `SameNext` and so on show it operator by
operator. `DeskFigures` are the assumptions of `RiskLedger` about prices, counts,
markets and limits. `TwoSnapshotsRefuse` is what `PreviewsAnswer`, which a run
refutes, leaves: the history of a market only grows, and with two snapshots in it
no preview and no paper execution begins there any more, restarts or not.

`SideBySideSafety` is about what `feed_and_alerts` checks: a step of the two is a
step of one of them, and neither writes what the other has.

### `AlertPolicy_proofs`

| theorem | statement |
|---|---|
| `PolicyInvariance` | `PolicySpec => []PolicyInv` |
| `OnlyGatedWake` | `PolicySpec => []WakesOnlyForGated` |
| `CriticalsGoOut` | `PolicySpec => []CriticalGoesOut` |
| `QuietHoursClose` | `PolicySpec => []QuietHoursGoRound` |
| `AlertsNeedSources` | thresholds imply `PolicySpec => []NeedsSources` |
| `OpportunitiesLieBelow` | thresholds imply `PolicySpec => []OpportunityAboveMarket` |

The assumptions: the day has an hour at least, thresholds are percentages,
preferences and situations are of their kinds, and the sums over the lists of a
market are within their ranges. The gates are those of the scores, so the first
three theorems need only that a critical candidate was classified at night and
passed the strict gate (`CriticalIsGated`). The last two follow from the
weights, for every figure a market may have: they bound the weighted sums in
hundredths of a percent, the confidence of the exchange alone below 79 percent
and, with both sides of the book, below 62, and the priority of an opportunity
above the consensus below 82. Their hypotheses are that the thresholds are no
lower (`DaytimeConfidence >= 62`, `OvernightConfidence >= 79`, and
`CriticalPriority >= 82` for the second); the code's are 62, 82 and 86
(`services/signal-engine/src/signal_engine/config.py:14`), so an operator who
lowers one of them by environment leaves what is proved. `NeedsSources` has two
sides. An alert without any external source is of a market with one side of the
book missing (its spread counts below zero) and came through the gate of the day
only; and the arm of the night's gate for strong evidence of the exchange alone
(`rules.py:69`, `docs/architecture/overnight-alert-policy.md:14`) is dead. What
the document promises instead is not what the code does; so `NeedsSources` is no
promise of the repository's but the bound that its weights give.

### `SharedTables_proofs`

| theorem | statement |
|---|---|
| `SmokeInvariance` | `SmokeSpec => []SmokeInv` |
| `PassesRuleOutLive` | `SmokeSpec => []PassRulesOutLive` |
| `SharedTablesSafety` | `MCSharedTables`: `Spec` implies the safety properties that `shared_tables` checks, `NeedsSources` and `OpportunityAboveMarket` apart |

For any revisions, invocations and outages. A pass without `--allow-live` says
what the API answered at one moment; what makes it last is the row the check
leaves in the database. `SmokeInv` says that the stored mode is "paper" or
"disabled" from then on.

`SharedTablesSafety` puts the components of `MCSharedTables` together: a step of
the whole is a step of one part and leaves the others alone (`OnePartMoves`), so
the whole implements the specification of each (`EachKeepsItsSpec`), and the
types and the twelve properties of the parts hold of it. `NeedsSources` and
`OpportunityAboveMarket` depend on the thresholds, and their theorems are in
`AlertPolicy_proofs`.

### Only model-checked

- `RequestsEnd`, `StopDrains`, `FeedRecovers` and `AlertsAnswered`: liveness under
  fairness is out of the prover's reach, and so are `ENABLED` and induction over
  data. `FeedRecovers` has no proved half: a connection may be lost and made again
  any number of times, so no count of steps bounds it.
- `KillSwitchBlocks`, `FallbackIsInQueue`, `EventuallyRecorded`, `PreviewsAnswer` and
  `ReconnectsItself` are refuted by runs, and so is `LifecycleFollowsTable` with more
  than one request at a time.

## Not modelled

- `ReplayService.start` (one atomic read and record of a summary),
  `PUT /risk/limits` (stores limits that the engine never reads,
  `API/services/execution.py:43`), `POST /notifications/test` (the same dispatch
  for a candidate without a signal), the creation of endpoints, and
  `ReconciliationService.record_fill` (no caller; inserts a row nothing reads).
- The API shell, the worker and scheduler stubs and the web applications keep no
  state of their own; `packages/kalshi-client` is an older copy of the client
  that the services import from `packages/shared-py`.
- Texts: explanations, titles, payloads, event rows, metrics.

Met on the way, without a property of its own:

- `get_execution_mode` reads `EXECUTION_MODE` only when it creates the mode row,
  so setting it to `live` (`docs/deployment/env-vars.md:22`,
  `docs/deployment/go-live-checklist.md:8`) has no effect once a row exists.
- The category limit never binds for a market with a `series_ticker`
  (`EE/risk/engine.py:214`): positions are stored under the category `general`
  (`CategoryExposure`).
- The smoke check of the kill switch reads the column `enabled` of
  `global_kill_switch`, the code writes `is_enabled` of `global_trading`; the
  check is never critical. `--skip-kalshi` does not change the outcome, and
  `paper.status_code` (`scripts/smoke/checks.py:160`) raises when the API cannot
  be reached.
- `recent_automated_orders` uses `func.datetime`, which only SQLite has
  (`EE/automation/guards.py:67`; no caller).
- The recency of external features is frozen when they are computed, so old
  features count as fresh until the next run of the worker (`Recency`).
- `execute_order` hands an order to the paper service before it looks at its
  approval (`API/services/execution.py:234`), so that a blocked, rejected or pending
  order is filled on paper, although "approval ... run[s] normally" in that mode
  (`docs/architecture/execution-modes.md:6`). `ReadMode` and `CommitPaper` have it
  as it is; none of it reaches the exchange (`LiveOnlyPosts`).
- "Kalshi-only evidence [that] is exceptionally strong"
  (`docs/architecture/overnight-alert-policy.md:14`) never qualifies at night: the
  confidence threshold is out of the weights' reach (`NeedsSources`).
- A signal of the night that fails the overnight gate is alerted all the same when
  it passes that of the day (`policies/rules.py:82`), against "only qualifies when
  all of these pass" (line 7 of that document).

## Plan

Everything the runs check as a safety property is stated by a theorem. What would
come next: how much a race may cost (a market's book lacks no more fills than
there were writes over a newer row; the ledger records that there was one, not how
many), and the liveness properties, with a prover that can do them. Left to model:
nothing of the list in "Not modelled" changes state that another part reads.
