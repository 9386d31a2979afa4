------------------------------ MODULE MCNotifier ------------------------------
(* The pipeline from the signal engine to the provider alone, over two markets. *)
EXTENDS Notifier

TwoTickers == [k \in Keys |-> IF k = "k" THEN "m" ELSE "n"]
=============================================================================
