---------------------------- MODULE MCSharedTables ----------------------------
(***************************************************************************)
(* RiskLedger, Enrichment and SignalEngine side by side for TLC: three     *)
(* sets of tables that overlapping transactions write; and AlertPolicy and *)
(* DeploymentSmoke.                                                        *)
(* They share no state: a behaviour is one of a single component, the      *)
(* others stay as they begin.                                              *)
(***************************************************************************)
EXTENDS RiskLedger, Enrichment, SignalEngine, MCAlertPolicy, DeploymentSmoke, TLC

VARIABLE part

\* One order of two contracts at a limit of 1 and a market order for one.
OneMarketOf == [o \in Orders |-> "m"]
Counts == [o \in Orders |-> IF o = 1 THEN 2 ELSE 1]
Prices == [o \in Orders |-> IF o = 1 THEN 1 ELSE 0]
PoorMarket == {[spread |-> "wide", liquidity |-> "thin", closes |-> "soon"]}

TwoProviders == <<"p", "q">>
\* What the first provider sends resembles one market, the second's another or none.
Resembling == [e \in [source : {"p", "q"}, id : Ids] |->
                  IF e.source = "p" THEN {"t"} ELSE {"u", NoTarget}]

OneKey == [k \in Keys |-> "m"]

\* Staging on paper and, by mistake, live; production live, unconfirmed and off.
SomeRevisions ==
    {[environment |-> "staging", requested |-> r, confirmed |-> TRUE, kalshi |-> TRUE] :
        r \in {"other", "live"}}
    \cup {[environment |-> "production", requested |-> "live", confirmed |-> c, kalshi |-> FALSE] :
        c \in BOOLEAN}
    \cup {[environment |-> "production", requested |-> "disabled", confirmed |-> FALSE,
           kalshi |-> FALSE]}
SomeInvocations == {c \in SmokeConfigs : c.expected \in {"any", "paper"}}

Parts == {"books", "mappings", "signals", "policy", "smoke"}

Init ==
    /\ part \in Parts
    /\ LedgerInit /\ EnrichInit /\ SignalInit /\ PolicyInit /\ SmokeInit
    /\ part # "books" => mode = "live"
    /\ part # "policy" => rule = CHOOSE r \in Rules : TRUE
    /\ part # "smoke" => revision = CHOOSE r \in Revisions : TRUE

Unchanged(P) ==
    /\ UNCHANGED part
    /\ "books" \in P => UNCHANGED ledgerVars
    /\ "mappings" \in P => UNCHANGED enrichVars
    /\ "signals" \in P => UNCHANGED <<signalVars, locks>>
    /\ "policy" \in P => UNCHANGED policyVars
    /\ "smoke" \in P => UNCHANGED smokeVars

Next ==
    \/ part = "books" /\ LedgerNext /\ Unchanged(Parts \ {part})
    \/ part = "mappings" /\ EnrichNext /\ Unchanged(Parts \ {part})
    \/ part = "signals" /\ SignalNext /\ Unchanged(Parts \ {part})
    \/ part = "policy" /\ PolicyNext /\ Unchanged(Parts \ {part})
    \/ part = "smoke" /\ SmokeNext /\ Unchanged(Parts \ {part})

Spec ==
    Init /\ [][Next]_<<part, ledgerVars, enrichVars, signalVars, locks, policyVars, smokeVars>>

\* Every variable of the component that runs holds values of its kind.
TypeOK ==
    /\ part = "books" => LedgerTypeOK
    /\ part = "mappings" => EnrichTypeOK
    /\ part = "signals" => SignalTypeOK
    /\ part = "policy" => PolicyTypeOK
    /\ part = "smoke" => SmokeTypeOK

Symmetry == Permutations(Sessions)
=============================================================================
