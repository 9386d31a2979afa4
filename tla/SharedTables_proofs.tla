-------------------------- MODULE SharedTables_proofs --------------------------
(***************************************************************************)
(* Proofs about MCSharedTables: what the smoke runner let pass stays so,   *)
(* for any revisions, arguments of the runner and outages; and the         *)
(* components of MCSharedTables next to each other keep what each promises *)
(* alone.                                                                  *)
(***************************************************************************)
EXTENDS MCSharedTables, RiskLedger_proofs, Enrichment_proofs, Notifier_proofs,
        AlertPolicy_proofs

-----------------------------------------------------------------------------
(* The smoke runner. *)

\* A verdict of "PASS" without --allow-live, given or about to be.
RuledOut ==
    cleared \/ (smoke.pc = "summary" /\ ~smoke.failed /\ ~smoke.config.allowLive)

\* The stored mode is what makes it last: a row that is not "live" never becomes so.
SmokeInv == SmokeTypeOK /\ (RuledOut => modeRow \in {"paper", "disabled"})

-----------------------------------------------------------------------------
\* The settings resolve to a mode.
LEMMA ResolvedMode ==
    ASSUME SmokeTypeOK
    PROVE  Resolved \in ExecutionModes /\ ExecutionMode \in ExecutionModes
<1>1. revision \in Settings
    BY RevisionsAssumption DEF SmokeTypeOK
<1>2. Resolved \in ExecutionModes
    BY <1>1 DEF Settings, Resolved, ExecutionModes
<1> QED
    BY <1>2 DEF SmokeTypeOK, ExecutionMode

\* A step of the runner changes its place and what it has found.
LEMMA RunnerContinues ==
    ASSUME SmokeTypeOK, NEW pc \in {"idle", "web", "health", "report", "markets", "mode", "summary"},
           NEW failure \in BOOLEAN, Continue(pc, failure)
    PROVE  /\ smoke' \in Runner
           /\ smoke'.pc = pc /\ smoke'.config = smoke.config
           /\ smoke'.failed = (smoke.failed \/ failure)
<1>1. smoke \in Runner
    BY DEF SmokeTypeOK
<1>2. (smoke.failed \/ failure) \in BOOLEAN
    BY <1>1 DEF Runner
<1>3. smoke' = [smoke EXCEPT !.pc = pc, !.failed = (smoke.failed \/ failure)]
    BY <1>1 DEF Continue, Runner
<1> QED
    BY <1>1, <1>2, <1>3 DEF Runner

\* The mode a request asks for: it writes the row only if there is none.
LEMMA AskedMode ==
    ASSUME SmokeTypeOK, AskMode
    PROVE  /\ modeRow' \in ExecutionModes
           /\ modeRow' = ExecutionMode
           /\ modeRow # "none" => modeRow' = modeRow
BY ResolvedMode DEF AskMode, ExecutionMode

\* The invariant holds at the start.
LEMMA InitSmokeInv == SmokeInit => SmokeInv
<1> SUFFICES ASSUME SmokeInit PROVE SmokeInv
    OBVIOUS
<1>1. smoke \in Runner /\ smoke.pc = "idle"
    BY DEF SmokeInit, Runner, SmokeConfigs
<1>2. captures \in 0..2
    BY DEF SmokeInit
<1>3. SmokeTypeOK
    BY <1>1, <1>2, Zenon DEF SmokeInit, SmokeTypeOK
<1> QED
    BY <1>1, <1>3 DEF SmokeInv, SmokeInit, RuledOut

\* The checks before that of the mode leave a verdict only if they failed.
LEMMA ChecksKeepInv ==
    ASSUME SmokeInv,
           WebChecks \/ HealthChecks \/ DeploymentReport \/ MarketsCheck
    PROVE  SmokeInv'
<1> USE DEF SmokeInv
<1>1. PICK pc \in {"health", "report", "markets", "mode", "summary"}, failure \in BOOLEAN :
          Continue(pc, failure) /\ (pc = "summary" => failure)
  <2>1. CASE WebChecks
    BY <2>1 DEF WebChecks
  <2>2. CASE HealthChecks
    BY <2>2 DEF HealthChecks
  <2>3. CASE MarketsCheck
    BY <2>3 DEF MarketsCheck
  <2>4. CASE DeploymentReport /\ Answering({"api"})
    <3>1. Continue("markets", RollbackRecommended) /\ RollbackRecommended \in BOOLEAN
        BY <2>4 DEF DeploymentReport, RollbackRecommended
    <3> QED
        BY <3>1
  <2>5. CASE DeploymentReport /\ ~Answering({"api"})
    BY <2>5 DEF DeploymentReport
  <2> QED
    BY <2>1, <2>2, <2>3, <2>4, <2>5
<1>2. smoke' \in Runner /\ (smoke'.pc = "summary" => smoke'.failed)
    BY <1>1, RunnerContinues
<1>3. UNCHANGED <<revision, modeRow, captures, up, cleared>>
    BY DEF WebChecks, HealthChecks, DeploymentReport, MarketsCheck
<1> QED
    BY <1>2, <1>3 DEF SmokeTypeOK, RuledOut

\* The check of the mode leaves the mode it accepted in the database.
LEMMA BoundaryKeepsInv ==
    ASSUME SmokeInv, ModeBoundary
    PROVE  SmokeInv'
<1> USE DEF SmokeInv
<1>1. UNCHANGED <<revision, captures, up, cleared>>
    BY DEF ModeBoundary
<1>2. CASE ~Answering({"database"})
  <2>1. Continue("summary", TRUE) /\ UNCHANGED modeRow
    BY <1>2 DEF ModeBoundary
  <2>2. smoke' \in Runner /\ smoke'.failed
    BY <2>1, RunnerContinues
  <2> QED
    BY <1>1, <2>1, <2>2 DEF SmokeTypeOK, RuledOut
<1>3. CASE Answering({"database"})
  <2> DEFINE failure == captures > 1 \/ ~ModeAccepted(smoke.config)
  <2>1. AskMode /\ Continue("summary", failure)
    BY <1>3 DEF ModeBoundary
  <2>2. failure \in BOOLEAN
    OBVIOUS
  <2>3. /\ smoke' \in Runner /\ smoke'.config = smoke.config
        /\ smoke'.failed = (smoke.failed \/ failure)
    BY <2>1, <2>2, RunnerContinues
  <2>4. modeRow' \in ExecutionModes
    BY <2>1, AskedMode
  <2>5. ASSUME cleared PROVE modeRow' \in {"paper", "disabled"}
    BY <2>1, <2>5, AskedMode DEF RuledOut
  <2>6. ASSUME ~smoke'.failed, ~smoke'.config.allowLive PROVE modeRow' \in {"paper", "disabled"}
    <3>1. ModeAccepted(smoke.config) /\ ~smoke.config.allowLive
        BY <2>3, <2>6
    <3>2. ExecutionMode # "live"
        BY <3>1 DEF ModeAccepted
    <3> QED
        BY <2>1, <2>4, <3>2, AskedMode DEF ExecutionModes
  <2> QED
    BY <1>1, <2>3, <2>4, <2>5, <2>6 DEF SmokeTypeOK, RuledOut
<1> QED
    BY <1>2, <1>3

\* Every step keeps the invariant.
LEMMA StepSmokeInv ==
    ASSUME SmokeInv, [SmokeNext]_smokeVars
    PROVE  SmokeInv'
<1>0. SmokeTypeOK /\ smoke \in Runner
    BY DEF SmokeInv, SmokeTypeOK
<1>1. ASSUME NEW config \in Invocations, Start(config) PROVE SmokeInv'
  <2>1. smoke' \in Runner /\ smoke'.pc = "web"
    BY <1>1, InvocationsAssumption DEF Start, Runner
  <2> QED
    BY <1>1, <2>1 DEF Start, SmokeInv, SmokeTypeOK, RuledOut
<1>2. CASE WebChecks \/ HealthChecks \/ DeploymentReport \/ MarketsCheck
    BY <1>2, ChecksKeepInv
<1>3. CASE ModeBoundary
    BY <1>3, BoundaryKeepsInv
<1>4. CASE RunnerRaises \/ Summarize
  <2>1. smoke' \in Runner /\ smoke'.pc = "idle"
    BY <1>0, <1>4 DEF RunnerRaises, Summarize, Runner
  <2>2. UNCHANGED <<revision, modeRow, captures, up>>
    BY <1>4 DEF RunnerRaises, Summarize
  <2>3. cleared' \in BOOLEAN
    BY <1>0, <1>4, Zenon DEF RunnerRaises, Summarize, SmokeTypeOK
  <2>4. cleared' => RuledOut
    BY <1>4, Zenon DEF RunnerRaises, Summarize, RuledOut
  <2> QED
    BY <2>1, <2>2, <2>3, <2>4 DEF SmokeInv, SmokeTypeOK, RuledOut
<1>5. ASSUME NEW settings \in Revisions, Deploy(settings) PROVE SmokeInv'
    BY <1>5 DEF Deploy, SmokeInv, SmokeTypeOK, RuledOut
<1>6. ASSUME NEW stored \in {"paper", "disabled"}, SetExecutionMode(stored) PROVE SmokeInv'
    BY <1>6 DEF SetExecutionMode, SmokeInv, SmokeTypeOK, RuledOut, ExecutionModes
<1>7. CASE ExecuteOrder
  <2>1. modeRow' \in ExecutionModes /\ (modeRow # "none" => modeRow' = modeRow)
    BY <1>0, <1>7, AskedMode DEF ExecuteOrder
  <2>2. UNCHANGED <<revision, up, smoke, cleared>> /\ captures' \in 0..2
    BY <1>0, <1>7 DEF ExecuteOrder, SmokeTypeOK
  <2> QED
    BY <2>1, <2>2 DEF SmokeInv, SmokeTypeOK, RuledOut
<1>8. ASSUME NEW service \in Services, GoesDown(service) \/ ComesBack(service) PROVE SmokeInv'
    BY <1>8 DEF GoesDown, ComesBack, SmokeInv, SmokeTypeOK, RuledOut
<1>9. CASE UNCHANGED smokeVars
    BY <1>9 DEF smokeVars, SmokeInv, SmokeTypeOK, RuledOut
<1> QED
    BY <1>1, <1>2, <1>3, <1>4, <1>5, <1>6, <1>7, <1>8, <1>9 DEF SmokeNext

\* The runner, the rows and the history keep their types, and a passed run leaves a
\* mode row that is not "live".
THEOREM SmokeInvariance == SmokeSpec => []SmokeInv
BY InitSmokeInv, StepSmokeInv, PTL DEF SmokeSpec

\* A run that passes without --allow-live rules live orders out for good.
THEOREM PassesRuleOutLive == SmokeSpec => []PassRulesOutLive
<1>1. SmokeInv => PassRulesOutLive
    BY DEF SmokeInv, RuledOut, PassRulesOutLive, MayTradeLive, ExecutionMode
<1> QED
    BY <1>1, SmokeInvariance, PTL

-----------------------------------------------------------------------------
(* The components side by side. *)

\* A step of one component leaves the others as they are.
LEMMA OnePartMoves ==
    [Next]_<<part, ledgerVars, enrichVars, signalVars, locks, policyVars, smokeVars>> =>
        /\ [LedgerNext]_ledgerVars /\ [EnrichNext]_enrichVars
        /\ [SignalNext]_<<signalVars, locks>> /\ [PolicyNext]_policyVars
        /\ [SmokeNext]_smokeVars
<1> SUFFICES ASSUME Next
             PROVE  /\ [LedgerNext]_ledgerVars /\ [EnrichNext]_enrichVars
                    /\ [SignalNext]_<<signalVars, locks>> /\ [PolicyNext]_policyVars
                    /\ [SmokeNext]_smokeVars
    OBVIOUS
<1>1. CASE part = "books" /\ LedgerNext /\ Unchanged(Parts \ {part})
    BY <1>1 DEF Unchanged, Parts
<1>2. CASE part = "mappings" /\ EnrichNext /\ Unchanged(Parts \ {part})
    BY <1>2 DEF Unchanged, Parts
<1>3. CASE part = "signals" /\ SignalNext /\ Unchanged(Parts \ {part})
    BY <1>3 DEF Unchanged, Parts
<1>4. CASE part = "policy" /\ PolicyNext /\ Unchanged(Parts \ {part})
    BY <1>4 DEF Unchanged, Parts
<1>5. CASE part = "smoke" /\ SmokeNext /\ Unchanged(Parts \ {part})
    BY <1>5 DEF Unchanged, Parts
<1> QED BY <1>1, <1>2, <1>3, <1>4, <1>5 DEF Next

\* A behaviour of the components side by side is a behaviour of each.
LEMMA EachKeepsItsSpec ==
    Spec => /\ LedgerSpec /\ EnrichSpec /\ PolicySpec /\ SmokeSpec
            /\ SignalInit /\ [][SignalNext]_<<signalVars, locks>>
<1>1. Init => LedgerInit /\ EnrichInit /\ SignalInit /\ PolicyInit /\ SmokeInit
    BY DEF Init
<1> QED BY <1>1, OnePartMoves, PTL DEF Spec, LedgerSpec, EnrichSpec, PolicySpec, SmokeSpec

\* The runs of the engine keep their invariant without the notifier.
LEMMA EngineAlone == Spec => []EngineInv
<1>1. EngineInv /\ [SignalNext]_<<signalVars, locks>> => EngineInv'
    <2>1. EngineInv /\ UNCHANGED <<signalVars, locks>> => EngineInv'
        BY EngineUntouched DEF signalVars
    <2> QED BY <2>1, SignalStep
<1> QED BY <1>1, InitEngineInv, EachKeepsItsSpec, PTL

\* Next to each other the components keep the types of all that they write and what they
\* promise: the books and their closed positions, the mappings, the signals of markets,
\* the alerts that wake somebody, and a deployment that passed its smoke test on paper.
THEOREM SharedTablesSafety ==
    Spec => [](/\ TypeOK
               /\ BooksMatchFills /\ PortfolioFollowsBooks /\ ExposureWithinLimits
               /\ RunsDoNotMix /\ OverridesWin /\ OneSignalPerMarket
               /\ WakesOnlyForGated /\ CriticalGoesOut /\ QuietHoursGoRound
               /\ PassRulesOutLive)
            /\ ClosedStaysClosed /\ DuplicatesStay
<1>1. Spec => []TypeOK
    <2>1. LedgerTypeOK /\ EnrichTypeOK /\ EngineInv /\ PolicyInv /\ SmokeInv => TypeOK
        BY DEF TypeOK, EngineInv, PolicyInv, SmokeInv
    <2> QED BY <2>1, EachKeepsItsSpec, EngineAlone, LedgerTypes, EnrichTypes, PolicyInvariance,
               SmokeInvariance, PTL
<1>2. Spec => [](BooksMatchFills /\ PortfolioFollowsBooks /\ ExposureWithinLimits)
    BY EachKeepsItsSpec, BooksHoldFills, PortfolioIsCurrent, CarefulStaysWithin, PTL
<1>3. Spec => [](RunsDoNotMix /\ OverridesWin)
    BY EachKeepsItsSpec, RunsStayApart, OverridesAlwaysWin, PTL
<1>4. Spec => []OneSignalPerMarket
    BY EngineAlone, OneEach, PTL
<1>5. Spec => [](WakesOnlyForGated /\ CriticalGoesOut /\ QuietHoursGoRound)
    BY EachKeepsItsSpec, OnlyGatedWake, CriticalsGoOut, QuietHoursClose, PTL
<1>6. Spec => []PassRulesOutLive
    BY EachKeepsItsSpec, PassesRuleOutLive, PTL
<1>7. Spec => ClosedStaysClosed
    BY EachKeepsItsSpec, ClosedForGood
<1>8. Spec => DuplicatesStay
    <2>1. EngineInv /\ EngineInv' /\ [SignalNext]_<<signalVars, locks>> =>
            [\A t \in Tickers :
                Cardinality(SignalsOf(t)) >= 2 =>
                    Cardinality({row \in signals' : row.ticker = t}) >= 2]_signals
        BY TwoStayTwo DEF signalVars
    <2> QED BY <2>1, EachKeepsItsSpec, EngineAlone, PTL DEF DuplicatesStay
<1> QED BY <1>1, <1>2, <1>3, <1>4, <1>5, <1>6, <1>7, <1>8, PTL
=============================================================================
