-------------------------- MODULE MCOrderExecution --------------------------
(***************************************************************************)
(* Instances of OrderExecution for TLC.                                    *)
(***************************************************************************)
EXTENDS OrderExecution, TLC

\* Requests are interchangeable: no action and no property tells them apart.
RequestSymmetry == Permutations(Requests)
\* The three kinds of process that can post, simulate, or do neither.
Live == [resolved |-> "live", clientTrading |-> TRUE]
LiveNoTrading == [resolved |-> "live", clientTrading |-> FALSE]
Paper == [resolved |-> "paper", clientTrading |-> TRUE]

LiveOnly == {Live}
LiveOrPaper == {Live, Paper}
LiveToPaper == {Live, LiveNoTrading, Paper}
=============================================================================
