---------------------------- MODULE MCFeedAndAlerts ----------------------------
(***************************************************************************)
(* MarketStream and Notifier (with SignalEngine) side by side for TLC.     *)
(* They share no state: a behaviour is one of either part, the other stays *)
(* as it begins.                                                           *)
(***************************************************************************)
EXTENDS MCMarketStream, Notifier, TLC

VARIABLE part

OneTicker == [k \in Keys |-> "m"]

Init ==
    /\ part \in {"feed", "alerts"}
    /\ StreamInit /\ PipelineInit

Feed(A) == part = "feed" /\ A /\ UNCHANGED <<part, pipelineVars>>
Alerts(A) == part = "alerts" /\ A /\ UNCHANGED <<part, streamVars>>
allVars == <<part, streamVars, pipelineVars>>

Next == Feed(StreamNext) \/ Alerts(PipelineNext)

\* StreamFairness and PipelineFairness, each for the part that is under way.
Fairness ==
    /\ WF_allVars(Feed(Life)) /\ WF_allVars(Feed(Loop)) /\ WF_allVars(Feed(Handler))
    /\ WF_allVars(Alerts(EngineSteps))
    /\ \A w \in Workers : WF_allVars(Alerts(WorkerStep(w)))
    /\ \A k \in Keys : WF_allVars(Alerts(ExpireMark(k)))

Spec == Init /\ [][Next]_allVars /\ Fairness

\* Every variable of the part that runs holds values of its kind.
TypeOK ==
    /\ part = "feed" => StreamTypeOK
    /\ part = "alerts" => PipelineTypeOK

\* Whatever is lost, fails or crashes, a fully subscribed market stream is consumed
\* again, by a process that the platform started (infra/ecs/service-catalog.yaml: ECS keeps
\* desired_count of them), never by the one that lost its connection.
FeedRecovers == part = "feed" => StreamRecovers
=============================================================================
