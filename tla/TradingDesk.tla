------------------------------ MODULE TradingDesk ------------------------------
(***************************************************************************)
(* The market stream feeding the risk rules: RiskLedger on the snapshots   *)
(* that MarketStream has stored, instead of snapshots of its own.  The two *)
(* run in processes of their own and meet in the market_snapshots table.   *)
(***************************************************************************)
EXTENDS MarketStream

CONSTANTS
    Orders, MarketOf, CountOf, PriceOf, DefaultPrice, FillPrices, Catalogued, MarketLimit,
    CategoryLimit, PositionLimit, LossLimit, Loss, Sessions, MaxApplied, MaxPaper,
    NoOrder, NoUpdate

VARIABLES
    mode, orders, onExchange, updates, books, portfolio, sessions, applied, paperFills,
    raced, careful

deskVars == <<mode, orders, onExchange, updates, books, portfolio, sessions, applied,
              paperFills, raced, careful>>

\* A snapshot as the rules look at it.
Conditions(snapshot) == [spread |-> snapshot.spread, liquidity |-> snapshot.liquidity,
                         closes |-> snapshot.closes]
Observed == [m \in Markets |-> [i \in DOMAIN stored[m] |-> Conditions(stored[m][i])]]

Ledger == INSTANCE RiskLedger WITH
    snapshots <- Observed,
    MarketStates <- {Conditions(snapshot) : snapshot \in Snapshots},
    MaxSnapshots <- MaxStored

DeskInit == StreamInit /\ Ledger!LedgerInit

DeskNext ==
    \/ StreamNext /\ UNCHANGED deskVars
    \/ UNCHANGED streamVars /\ Ledger!LedgerSteps

DeskSpec == DeskInit /\ [][DeskNext]_<<streamVars, deskVars>>

-----------------------------------------------------------------------------
(* Properties. *)

\* Whatever the stream has stored of its market, a preview of an order gets an
\* answer from the rules (docs/architecture/risk-engine.md: "Each preview returns:
\* pass or fail").
PreviewsAnswer ==
    \A o \in Orders : orders[o] = "absent" => Ledger!Answers(MarketOf[o])
=============================================================================
