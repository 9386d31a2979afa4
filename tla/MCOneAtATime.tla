----------------------------- MODULE MCOneAtATime -----------------------------
(***************************************************************************)
(* What comes to an end, and what is kept, where nothing overlaps:         *)
(* OrderExecution with one request at a time, and Notifier with one engine *)
(* and one worker.  Side by side for TLC: they share no state, a behaviour *)
(* is one of either part, and the other stays as it begins.                *)
(***************************************************************************)
EXTENDS MCOrderExecution, MCNotifier

VARIABLE part

OneAtATimeInit ==
    /\ part \in {"orders", "alerts"}
    /\ Init /\ PipelineInit
    /\ part # "orders" => settings = Live

Orderly(A) == part = "orders" /\ A /\ UNCHANGED <<part, pipelineVars>>
Alerting(A) == part = "alerts" /\ A /\ UNCHANGED <<part, vars>>
allVars == <<part, vars, pipelineVars>>

\* The fairness of each part, for the one that is under way.
OneAtATimeFairness ==
    /\ \A r \in Requests : WF_allVars(Orderly(Progress(r)))
    /\ WF_allVars(Alerting(EngineSteps))
    /\ \A w \in Workers : WF_allVars(Alerting(WorkerStep(w)))
    /\ \A k \in Keys : WF_allVars(Alerting(ExpireMark(k)))

OneAtATimeSpec ==
    OneAtATimeInit /\ [][Orderly(Next) \/ Alerting(PipelineNext)]_allVars /\ OneAtATimeFairness
=============================================================================
