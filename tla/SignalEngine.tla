----------------------------- MODULE SignalEngine -----------------------------
(***************************************************************************)
(* The signal engine's run over the markets (signal_engine/service.py and  *)
(* consumers/repository.py): one transaction that replaces, market by      *)
(* market, the signal it keeps for each.  The loop of the service and POST *)
(* /signals/run execute it at the same time.  Under READ COMMITTED a run   *)
(* reads what is committed, and to delete a row it waits for the others    *)
(* that hold it: a run that deletes it too, and a delivery of the notifier *)
(* that refers to it (notification_deliveries.signal_id).                  *)
(*                                                                         *)
(* Scoring is reduced to its outcome: whether there is a notification      *)
(* candidate, and under which dedupe key.  AlertPolicy says how it comes.  *)
(***************************************************************************)
EXTENDS Naturals, FiniteSets

CONSTANTS
    Tickers,        \* markets, and those among them that a run makes up
    DemoMarkets,
    Keys,           \* dedupe keys: ticker, overnight or day, confidence
    TickerOf,
    Engines,        \* the loop of the service, a request of POST /signals/run
    MaxEngineRuns,  \* bound: runs begun
    NoKey, NoSignal

ASSUME DemoAssumption == DemoMarkets \subseteq Tickers /\ DemoMarkets # {}
ASSUME RunsAssumption == MaxEngineRuns \in Nat
ASSUME KeysAssumption ==
    /\ TickerOf \in [Keys -> Tickers]
    /\ NoKey \notin Keys

VARIABLES
    listed,      \* the markets of kalshi_markets
    signals,     \* the committed rows of signals
    engines,     \* engine -> its place and what its transaction has done
    locks,       \* <<worker, row>>: an uncommitted delivery refers to the row
    started,     \* engine runs begun so far
    overlapped   \* history: two runs were under way at once

signalVars == <<listed, signals, engines, started, overlapped>>

-----------------------------------------------------------------------------
\* A row is named by the run that wrote it; after: the markets that run had written
\* before; key: its notification candidate.
SignalRows == [run : 1..MaxEngineRuns, after : SUBSET Tickers, ticker : Tickers,
               key : Keys \cup {NoKey}]
ASSUME NoSignalAssumption == NoSignal \notin SignalRows

NoTicker == "none"
EngineStates == [pc : {"idle", "markets", "replace"}, run : 0..MaxEngineRuns,
                 seeded : SUBSET Tickers, todo : SUBSET Tickers, ticker : Tickers \cup {NoTicker},
                 seen : SignalRows \cup {NoSignal},
                 deleted : SUBSET SignalRows, inserted : SUBSET SignalRows]
NoEngine == [pc |-> "idle", run |-> 0, seeded |-> {}, todo |-> {}, ticker |-> NoTicker,
             seen |-> NoSignal, deleted |-> {}, inserted |-> {}]

SignalsOf(t) == {row \in signals : row.ticker = t}

\* Another transaction has deleted the row and not yet committed.
DeletedBesides(e, row) == \E f \in Engines \ {e} : row \in engines[f].deleted
\* As if a delivery did not refer to the signal.
ReferencedNever(row) == FALSE
Referenced(row) == \E lock \in locks : lock[2] = row

-----------------------------------------------------------------------------
\* market-stream stores a market that it had not: it waits for a run that inserts it.
ListMarket(t) ==
    /\ t \notin listed /\ \A e \in Engines : t \notin engines[e].seeded
    /\ listed' = listed \cup {t}
    /\ UNCHANGED <<signals, engines, locks, started, overlapped>>

\* seed_demo_data: a run that finds no market inserts two of its own, with prices, to
\* be committed with the signals on them.  It waits for another one that is at it.
Seeds == IF listed = {} THEN DemoMarkets ELSE {}
BeginEngine(e) ==
    /\ engines[e].pc = "idle" /\ started < MaxEngineRuns
    /\ Seeds # {} => \A f \in Engines : engines[f].seeded = {}
    /\ started' = started + 1
    /\ engines' = [engines EXCEPT ![e] = [NoEngine EXCEPT
                      !.pc = "markets", !.run = started', !.seeded = Seeds,
                      !.todo = listed \cup Seeds]]
    /\ overlapped' = (overlapped \/ \E f \in Engines \ {e} : engines[f].pc # "idle")
    /\ UNCHANGED <<listed, signals, locks>>

\* replace_signal looks for the row of the market; it raises on a second one.
FindSignal(e, t) ==
    /\ engines[e].pc = "markets" /\ t \in engines[e].todo
    /\ Cardinality(SignalsOf(t)) <= 1
    /\ \E row \in IF SignalsOf(t) = {} THEN {NoSignal} ELSE SignalsOf(t) :
          engines' = [engines EXCEPT ![e].pc = "replace", ![e].ticker = t, ![e].seen = row]
    /\ UNCHANGED <<listed, signals, locks, started, overlapped>>

\* apply_signal_policy: a candidate, or none.  recent_alerts, which should stop a
\* repeated one, is empty: the key it looks for is never a candidate's.
CandidateKeys(t) == {k \in Keys : TickerOf[k] = t} \cup {NoKey}

\* As if the new signal came beside the one found, or instead of all of the market.
NothingOutgoing(e) == {}
AllOfMarket(e) == SignalsOf(engines[e].ticker)

\* The row that the query found, if it is still there.
Outgoing(e) == {engines[e].seen} \cap signals

\* The row found is deleted, if it is still there, and the new one is inserted.
ReplaceSignal(e) ==
    LET run == engines[e]
    IN  /\ run.pc = "replace"
        /\ ~DeletedBesides(e, run.seen) /\ ~Referenced(run.seen)
        /\ \E k \in CandidateKeys(run.ticker) :
              engines' = [engines EXCEPT
                  ![e].pc = "markets", ![e].ticker = NoTicker, ![e].seen = NoSignal,
                  ![e].todo = @ \ {run.ticker},
                  ![e].deleted = @ \cup Outgoing(e),
                  ![e].inserted = @ \cup {[run |-> run.run, ticker |-> run.ticker, key |-> k,
                                          after |-> {row.ticker : row \in run.inserted}]}]
        /\ UNCHANGED <<listed, signals, locks, started, overlapped>>

CommitEngine(e) ==
    /\ engines[e].pc = "markets" /\ engines[e].todo = {}
    /\ signals' = (signals \ engines[e].deleted) \cup engines[e].inserted
    /\ listed' = listed \cup engines[e].seeded
    /\ engines' = [engines EXCEPT ![e] = NoEngine]
    /\ UNCHANGED <<locks, started, overlapped>>

\* A query raises, the deadlock of two runs is resolved, the strategy's slug is taken
\* (get_or_create_strategy of two first runs), the process dies.
FailEngine(e) ==
    /\ engines[e].pc # "idle"
    /\ engines' = [engines EXCEPT ![e] = NoEngine]
    /\ UNCHANGED <<listed, signals, locks, started, overlapped>>

-----------------------------------------------------------------------------
SignalInit ==
    /\ listed = {}
    /\ signals = {}
    /\ engines = [e \in Engines |-> NoEngine]
    /\ locks = {}
    /\ started = 0
    /\ overlapped = FALSE

EngineStep(e) ==
    \/ \E t \in Tickers : FindSignal(e, t)
    \/ ReplaceSignal(e) \/ CommitEngine(e) \/ FailEngine(e)

SignalNext ==
    \/ \E e \in Engines : BeginEngine(e) \/ EngineStep(e)
    \/ \E t \in Tickers : ListMarket(t)

-----------------------------------------------------------------------------
(* Properties. *)

\* Every variable holds values of its kind.
SignalTypeOK ==
    /\ listed \subseteq Tickers
    /\ signals \subseteq SignalRows
    /\ engines \in [Engines -> EngineStates]
    /\ started \in 0..MaxEngineRuns
    /\ overlapped \in BOOLEAN

\* As long as no run of the engine overlaps another one, a market has one signal
\* at most; nothing but the order of the runs sees to it.
OneSignalPerMarket ==
    ~overlapped => \A t \in Tickers : Cardinality(SignalsOf(t)) <= 1

\* Two signals of a market are never one again: the run that meets them raises,
\* and one that had seen a single row leaves as many as it found.
DuplicatesStay ==
    [][\A t \in Tickers :
          Cardinality(SignalsOf(t)) >= 2 =>
              Cardinality({row \in signals' : row.ticker = t}) >= 2]_signals
=============================================================================
