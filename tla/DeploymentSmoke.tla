--------------------------- MODULE DeploymentSmoke ---------------------------
(***************************************************************************)
(* The checks after a deployment: the runner (scripts/smoke/checks.py),    *)
(* the report of the API it asks for (app/services/health.py) and the      *)
(* execution mode that both look at.  The runner is a sequence of          *)
(* requests; revisions are deployed, services fail and return, orders are  *)
(* executed and operators change the mode in between.                      *)
(*                                                                         *)
(* Only what decides the outcome is here.  The manifest, the workers, the  *)
(* websocket, the notification, automation and kill switch endpoints are   *)
(* not critical, and whatever they answer the outcome is the same.         *)
(***************************************************************************)
EXTENDS Naturals, FiniteSets

CONSTANTS
    Revisions,     \* settings the API may be deployed with
    Invocations,   \* arguments the runner is called with
    MaxDown        \* bound: services that are down at a time

ExecutionModes == {"disabled", "paper", "live"}
Services == {"web", "api", "database", "redis", "kalshi"}

\* APISettings.  requested: EXECUTION_MODE, "other" for an unknown one; confirmed:
\* EXECUTION_LIVE_CONFIRMATION; kalshi: SMOKE_TEST_ENABLE_KALSHI.
Settings == [environment : {"local", "staging", "production"},
             requested : ExecutionModes \cup {"other"}, confirmed : BOOLEAN, kalshi : BOOLEAN]

\* SmokeConfig, with "any" if no mode is expected.
SmokeConfigs == [expected : ExecutionModes \cup {"any"}, allowLive : BOOLEAN]

ASSUME RevisionsAssumption == Revisions \subseteq Settings
ASSUME InvocationsAssumption == Invocations \subseteq SmokeConfigs

VARIABLES
    revision,   \* settings of the API that is deployed
    modeRow,    \* reason column of the execution_mode control row, "none" without a row
    captures,   \* paper_portfolio_snapshots rows, counted up to two
    up,         \* services that answer
    smoke,      \* the runner
    cleared     \* history: a run without --allow-live has passed

smokeVars == <<revision, modeRow, captures, up, smoke, cleared>>

-----------------------------------------------------------------------------
\* resolved_execution_mode
Resolved ==
    IF revision.requested = "live" /\ ~revision.confirmed THEN "disabled"
    ELSE IF revision.requested = "other" THEN "paper" ELSE revision.requested

\* get_execution_mode: the first to ask writes the row, and from then on the
\* settings are not asked.
ExecutionMode == IF modeRow = "none" THEN Resolved ELSE modeRow

\* As if the row were only written by the operators.
AskModeOnly == UNCHANGED modeRow
AskMode == modeRow' = ExecutionMode

\* What execute_order asks of an order that is to go to the exchange.
MayTradeLive == ExecutionMode = "live" /\ Resolved = "live"

Answering(S) == S \subseteq up

-----------------------------------------------------------------------------
(* The runner. *)

Runner == [pc : {"idle", "web", "health", "report", "markets", "mode", "summary"},
           config : SmokeConfigs, failed : BOOLEAN]
Continue(pc, failure) == smoke' = [smoke EXCEPT !.pc = pc, !.failed = @ \/ failure]

Start(config) ==
    /\ smoke.pc = "idle"
    /\ smoke' = [pc |-> "web", config |-> config, failed |-> FALSE]
    /\ UNCHANGED <<revision, modeRow, captures, up, cleared>>

WebChecks ==
    /\ smoke.pc = "web"
    /\ Continue("health", ~Answering({"web"}))
    /\ UNCHANGED <<revision, modeRow, captures, up, cleared>>

\* /api/health/ready is satisfied with "degraded", which is all it says of a
\* database or a Redis that is down.
HealthChecks ==
    /\ smoke.pc = "health"
    /\ Continue("report", ~Answering({"api"}))
    /\ UNCHANGED <<revision, modeRow, captures, up, cleared>>

\* mode_safety looks at the settings, not at the row.  Its other branch, for
\* production, asks for a mode "live" in which live trading is not enabled: the two
\* are the same.
ModeSafety == ~(revision.environment = "staging" /\ Resolved = "live")

\* get_smoke_report recommends a rollback.
RollbackRecommended ==
    \/ ~Answering({"database", "redis"})
    \/ ~ModeSafety
    \/ revision.kalshi /\ ~Answering({"kalshi"})

\* The recommendation counts, even if the runner does not require what failed
\* (--skip-kalshi).  Without a report the rest is not asked.
DeploymentReport ==
    /\ smoke.pc = "report"
    /\ IF Answering({"api"}) THEN Continue("markets", RollbackRecommended)
       ELSE Continue("summary", TRUE)
    /\ UNCHANGED <<revision, modeRow, captures, up, cleared>>

MarketsCheck ==
    /\ smoke.pc = "markets"
    /\ Continue("mode", ~Answering({"api", "database"}))
    /\ UNCHANGED <<revision, modeRow, captures, up, cleared>>

ModeAccepted(config) ==
    /\ config.expected \in {"any", ExecutionMode}
    /\ ExecutionMode = "live" => config.allowLive

\* /api/paper/status asks for the mode, then for the newest capture of the portfolio:
\* scalar_one_or_none raises on a second one.
ModeBoundary ==
    /\ smoke.pc = "mode"
    /\ Answering({"api"})
    /\ IF Answering({"database"})
       THEN AskMode /\ Continue("summary", captures > 1 \/ ~ModeAccepted(smoke.config))
       ELSE Continue("summary", TRUE) /\ UNCHANGED modeRow
    /\ UNCHANGED <<revision, captures, up, cleared>>

\* The only answer the runner does not expect to be missing.
RunnerRaises ==
    /\ smoke.pc = "mode" /\ ~Answering({"api"})
    /\ smoke' = [smoke EXCEPT !.pc = "idle"]
    /\ UNCHANGED <<revision, modeRow, captures, up, cleared>>

\* "PASS" if no critical check failed.
Summarize ==
    /\ smoke.pc = "summary"
    /\ smoke' = [smoke EXCEPT !.pc = "idle"]
    /\ cleared' = (cleared \/ (~smoke.failed /\ ~smoke.config.allowLive))
    /\ UNCHANGED <<revision, modeRow, captures, up>>

-----------------------------------------------------------------------------
(* What goes on meanwhile. *)

\* Tasks of the new settings replace those of the old ones; the database stays.
Deploy(settings) ==
    /\ revision' = settings
    /\ UNCHANGED <<modeRow, captures, up, smoke, cleared>>

\* POST /paper/enable and POST /paper/disable; there is no such request for "live".
SetExecutionMode(mode) ==
    /\ Answering({"api", "database"})
    /\ modeRow' = mode
    /\ UNCHANGED <<revision, captures, up, smoke, cleared>>

\* An order is executed; on paper it leaves a capture of the portfolio.
ExecuteOrder ==
    /\ Answering({"api", "database"})
    /\ AskMode
    /\ captures' = IF ExecutionMode = "paper" /\ captures < 2 THEN captures + 1 ELSE captures
    /\ UNCHANGED <<revision, up, smoke, cleared>>

GoesDown(service) ==
    /\ service \in up /\ Cardinality(Services \ up) < MaxDown
    /\ up' = up \ {service}
    /\ UNCHANGED <<revision, modeRow, captures, smoke, cleared>>

ComesBack(service) ==
    /\ service \notin up
    /\ up' = up \cup {service}
    /\ UNCHANGED <<revision, modeRow, captures, smoke, cleared>>

-----------------------------------------------------------------------------
SmokeInit ==
    /\ revision \in Revisions
    /\ modeRow = "none"
    /\ captures = 0
    /\ up = Services
    /\ smoke = [pc |-> "idle", config |-> [expected |-> "any", allowLive |-> FALSE],
                failed |-> FALSE]
    /\ cleared = FALSE

SmokeNext ==
    \/ \E config \in Invocations : Start(config)
    \/ WebChecks \/ HealthChecks \/ DeploymentReport \/ MarketsCheck \/ ModeBoundary
    \/ RunnerRaises \/ Summarize
    \/ \E settings \in Revisions : Deploy(settings)
    \/ \E mode \in {"paper", "disabled"} : SetExecutionMode(mode)
    \/ ExecuteOrder
    \/ \E service \in Services : GoesDown(service) \/ ComesBack(service)

SmokeSpec == SmokeInit /\ [][SmokeNext]_smokeVars

-----------------------------------------------------------------------------
(* Properties. *)

\* Every variable holds values of its kind.
SmokeTypeOK ==
    /\ revision \in Revisions
    /\ modeRow \in ExecutionModes \cup {"none"}
    /\ captures \in 0..2
    /\ up \subseteq Services
    /\ smoke \in Runner
    /\ cleared \in BOOLEAN

\* A run that passes without --allow-live rules live orders out for good, whatever
\* is deployed or done after the runner looked (checks.py, _api_checks): it left the
\* mode it found in the database, where no later settings replace it and no request
\* writes "live".
PassRulesOutLive == cleared => ~MayTradeLive
=============================================================================
