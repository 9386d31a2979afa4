---------------------------- MODULE ApprovalGate ----------------------------
(***************************************************************************)
(* What the execution engine promises about any order, whatever requests,  *)
(* retries, crashes and restarts happen around it: a proposal is screened  *)
(* once by the risk engine, a person may clear it only when the screening  *)
(* let it through, and the exchange holds an order for it only if it was   *)
(* cleared first.  Nothing is said of how often a cleared order is placed. *)
(* docs/architecture/manual-approval-flow.md:7-12 lists the same steps.    *)
(***************************************************************************)
CONSTANTS
    Orders,         \* order previews, one per client_order_id
    Placements      \* what the exchange can ever hold; p.order is its order

VARIABLES
    stage,          \* how far each order came through the gate
    exchange        \* the placements the exchange accepted

Stages == {"none", "screened_out", "awaiting", "cleared"}

Init ==
    /\ stage = [o \in Orders |-> "none"]
    /\ exchange = {}

\* The deterministic preview decides, once, whether approval is possible.
Screen(o) ==
    /\ stage[o] = "none"
    /\ \E verdict \in {"screened_out", "awaiting"} :
            stage' = [stage EXCEPT ![o] = verdict]
    /\ UNCHANGED exchange

\* A person approves an order that passed the screening.
Clear(o) ==
    /\ stage[o] = "awaiting"
    /\ stage' = [stage EXCEPT ![o] = "cleared"]
    /\ UNCHANGED exchange

\* The exchange accepts a placement of a cleared order, and never drops one.
Place(p) ==
    /\ stage[p.order] = "cleared"
    /\ exchange' = exchange \cup {p}
    /\ UNCHANGED stage

Next ==
    \/ \E o \in Orders : Screen(o) \/ Clear(o)
    \/ \E p \in Placements : Place(p)

Spec == Init /\ [][Next]_<<stage, exchange>>
=============================================================================
