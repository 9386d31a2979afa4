--------------------------- MODULE Notifier_proofs ---------------------------
(***************************************************************************)
(* Proofs about the signal engine and the notifier: what their             *)
(* transactions keep of the signals, what a delivery refers to, and what   *)
(* arrives at the provider.                                                *)
(***************************************************************************)
EXTENDS Notifier, FiniteSetTheorems, WellFoundedInduction, TLAPS

-----------------------------------------------------------------------------
(* The inductive invariant of the engine. *)

Engaged(e) == engines[e].pc # "idle"

\* What a run has deleted and inserted: one row of a market at most, a new one for
\* each that is deleted, and none of a market that it has not come to.
RunIsSound(e) ==
    /\ Engaged(e) => engines[e].run \in 1..started
    /\ ~Engaged(e) => engines[e].inserted = {} /\ engines[e].deleted = {}
    /\ \A row \in engines[e].inserted :
          row.run = engines[e].run /\ row.ticker \notin engines[e].todo
    /\ \A row, other \in engines[e].inserted : row.ticker = other.ticker => row = other
    /\ \A row, other \in engines[e].deleted : row.ticker = other.ticker => row = other
    /\ \A row \in engines[e].deleted :
          \E new \in engines[e].inserted : new.ticker = row.ticker
    /\ engines[e].pc = "replace" =>
          /\ engines[e].ticker \in engines[e].todo
          /\ engines[e].seen = NoSignal \/ engines[e].seen.ticker = engines[e].ticker
    /\ IsFiniteSet(engines[e].inserted)

\* Runs are told apart by their numbers, and so are the rows they write.
RunsAreNumbered ==
    /\ \A e, f \in Engines : e # f /\ Engaged(e) /\ Engaged(f) => engines[e].run # engines[f].run
    /\ \A row \in signals : row.run <= started
    /\ \A e \in Engines, row \in signals : Engaged(e) => row.run # engines[e].run

\* Without an overlap the run that is under way has deleted all there was of the
\* markets it has written.
AloneInOrder ==
    ~overlapped =>
        /\ \A e, f \in Engines : e # f => ~Engaged(e) \/ ~Engaged(f)
        /\ \A row, other \in signals : row.ticker = other.ticker => row = other
        /\ \A e \in Engines :
              /\ \A row \in engines[e].inserted :
                    SignalsOf(row.ticker) \subseteq engines[e].deleted
              /\ engines[e].pc = "replace" =>
                    SignalsOf(engines[e].ticker) \subseteq {engines[e].seen}

EngineInv ==
    /\ SignalTypeOK
    /\ IsFiniteSet(signals)
    /\ \A e \in Engines : RunIsSound(e)
    /\ RunsAreNumbered
    /\ AloneInOrder

-----------------------------------------------------------------------------
(* The inductive invariant of the notifier. *)

\* A worker that is not idle has candidates to offer.
WorkerIsSound(w) ==
    /\ workers[w].pc # "idle" => workers[w].queue # {}
    /\ \A row \in workers[w].queue : row.key # NoKey
    /\ workers[w].pc \in {"send", "commit"} => <<w, Current(w)>> \in locks

\* A row that an uncommitted delivery refers to is there, and nobody deletes it.
LocksHold ==
    \A lock \in locks :
        lock[2] \in signals /\ \A e \in Engines : lock[2] \notin engines[e].deleted

Sending(w, k) == workers[w].pc = "send" /\ Key(w) = k

\* A key is guarded by its mark: while one worker sends it no other one does, and
\* nothing has arrived of it yet.
GuardsHold ==
    \A k \in Keys :
        /\ sends[k] <= 1
        /\ k \notin guarded => sends[k] = 0
        /\ k \in guarded =>
              /\ redis /\ k \in marks
              /\ \A v, w \in Workers : Sending(v, k) /\ Sending(w, k) => v = w
              /\ \A w \in Workers : Sending(w, k) => sends[k] = 0

PipelineInv ==
    /\ EngineInv
    /\ PipelineTypeOK
    /\ \A w \in Workers : WorkerIsSound(w)
    /\ LocksHold
    /\ GuardsHold

-----------------------------------------------------------------------------
(* Facts about numbers and sets. *)

\* Natural numbers have a least one among them.
LEMMA LeastNumber ==
    ASSUME NEW T \in SUBSET Nat, T # {}
    PROVE  \E x \in T : \A y \in T : x <= y
<1> DEFINE less == OpToRel(<, Nat)
<1>1. IsWellFoundedOn(less, Nat)
    BY NatLessThanWellFounded
<1>2. \A x, y \in Nat : <<y, x>> \in less <=> y < x
    BY DEF OpToRel
<1> HIDE DEF less
<1>3. PICK x \in T : \A y \in T : ~ (<<y, x>> \in less)
    BY <1>1, WFMin
<1>4. ASSUME NEW y \in T PROVE x <= y
    <2>1. ~ (<<y, x>> \in less) /\ x \in Nat /\ y \in Nat
        BY <1>3
    <2>2. ~ (y < x)
        BY <2>1, <1>2
    <2> QED BY <2>1, <2>2
<1> QED BY <1>4

\* Among some signals there is a newest one.
LEMMA NewestOf ==
    ASSUME NEW S \in SUBSET SignalRows, S # {}
    PROVE  \E row \in S : \A s \in S : s.run <= row.run
<1> DEFINE T == {MaxEngineRuns - s.run : s \in S}
<1>1. \A s \in S : s.run \in 1..MaxEngineRuns
    BY DEF SignalRows
<1>2. T \subseteq Nat /\ T # {}
    BY <1>1, RunsAssumption
<1>3. PICK x \in T : \A y \in T : x <= y
    BY <1>2, LeastNumber
<1>4. PICK row \in S : x = MaxEngineRuns - row.run
    BY <1>3
<1>5. ASSUME NEW s \in S PROVE s.run <= row.run
    <2>1. x <= MaxEngineRuns - s.run
        BY <1>3
    <2>2. s.run \in 1..MaxEngineRuns /\ row.run \in 1..MaxEngineRuns
        BY <1>1
    <2> QED BY <2>1, <2>2, <1>4, RunsAssumption
<1> QED BY <1>5

\* A finite set has one element at most when any two of it are the same.
LEMMA OneAtMost ==
    ASSUME NEW S, IsFiniteSet(S)
    PROVE  /\ Cardinality(S) \in Nat
           /\ Cardinality(S) <= 1 <=> \A x, y \in S : x = y
<1>1. Cardinality(S) \in Nat
    BY FS_CardinalityType
<1>2. CASE S = {}
    BY <1>2, FS_EmptySet
<1>3. CASE S # {}
    <2>1. PICK z \in S : TRUE
        BY <1>3
    <2>2. Cardinality(S) # 0
        BY <1>3, FS_EmptySet
    <2>3. Cardinality(S) <= 1 <=> Cardinality(S) = 1
        BY <2>2, <1>1
    <2>4. Cardinality(S) = 1 <=> \E x : S = {x}
        BY FS_Singleton
    <2>5. (\E x : S = {x}) <=> \A x, y \in S : x = y
        BY <2>1
    <2> QED BY <2>3, <2>4, <2>5, <1>1
<1> QED BY <1>1, <1>2, <1>3

-----------------------------------------------------------------------------
(* The steps of the engine. *)

\* The fields of a transaction.
LEMMA EngineFields ==
    ASSUME SignalTypeOK, NEW e \in Engines
    PROVE  /\ engines[e].pc \in {"idle", "markets", "replace"}
           /\ engines[e].run \in 0..MaxEngineRuns
           /\ engines[e].seeded \subseteq Tickers
           /\ engines[e].todo \subseteq Tickers
           /\ engines[e].ticker \in Tickers \cup {NoTicker}
           /\ engines[e].seen \in SignalRows \cup {NoSignal}
           /\ engines[e].deleted \subseteq SignalRows
           /\ engines[e].inserted \subseteq SignalRows
           /\ started \in Nat /\ started <= MaxEngineRuns
BY RunsAssumption DEF SignalTypeOK, EngineStates

\* No transaction: nothing done.
LEMMA NoEngineFields ==
    /\ NoEngine \in EngineStates
    /\ NoEngine.pc = "idle" /\ NoEngine.inserted = {} /\ NoEngine.deleted = {}
    /\ NoEngine.todo = {} /\ NoEngine.run = 0
BY RunsAssumption DEF NoEngine, EngineStates

\* The runs other than the one that steps are as sound as they were.
LEMMA OtherRun ==
    ASSUME NEW e \in Engines, SignalTypeOK, RunIsSound(e), engines'[e] = engines[e],
           started' \in Nat, started <= started'
    PROVE  RunIsSound(e)'
<1>1. started \in Nat /\ engines[e].run \in Nat
    BY EngineFields
<1>2. Engaged(e)' <=> Engaged(e)
    BY DEF Engaged
<1>3. Engaged(e)' => engines'[e].run \in 1..started'
    BY <1>1, <1>2 DEF RunIsSound
<1> QED BY <1>2, <1>3 DEF RunIsSound

\* The market stream lists a market.
LEMMA ListMarketKeeps ==
    ASSUME EngineInv, NEW t \in Tickers, ListMarket(t)
    PROVE  EngineInv'
<1>1. UNCHANGED <<signals, engines, started, overlapped>> /\ listed' \subseteq Tickers
    BY DEF ListMarket, EngineInv, SignalTypeOK
<1> QED BY <1>1 DEF EngineInv, SignalTypeOK, RunIsSound, RunsAreNumbered, AloneInOrder, Engaged,
                    SignalsOf

\* A run begins with a number of its own.
LEMMA BeginEngineKeeps ==
    ASSUME EngineInv, NEW e \in Engines, BeginEngine(e)
    PROVE  EngineInv'
<1> DEFINE new == engines'[e]
<1>1. /\ UNCHANGED <<listed, signals>> /\ started' = started + 1
      /\ engines[e].pc = "idle" /\ started < MaxEngineRuns
      /\ overlapped' = (overlapped \/ \E f \in Engines \ {e} : Engaged(f))
    BY DEF BeginEngine, Engaged
<1>2. started \in Nat /\ started' \in 0..MaxEngineRuns /\ started <= started'
      /\ started + 1 \in 0..MaxEngineRuns
    BY <1>1, RunsAssumption DEF EngineInv, SignalTypeOK
<1>3. Seeds \subseteq Tickers /\ listed \subseteq Tickers
    BY DemoAssumption DEF Seeds, EngineInv, SignalTypeOK
<1>4. /\ new \in EngineStates
      /\ new.pc = "markets" /\ new.run = started + 1 /\ new.inserted = {} /\ new.deleted = {}
    <2>1. new = [pc |-> "markets", run |-> started + 1, seeded |-> Seeds,
                 todo |-> listed \cup Seeds, ticker |-> NoTicker, seen |-> NoSignal,
                 deleted |-> {}, inserted |-> {}]
        BY <1>1 DEF BeginEngine, NoEngine, EngineInv, SignalTypeOK
    <2> HIDE DEF new
    <2> QED BY <1>2, <1>3, <2>1 DEF EngineStates
<1>5. \A f \in Engines \ {e} : engines'[f] = engines[f]
    BY DEF BeginEngine, EngineInv, SignalTypeOK
<1>6. engines' \in [Engines -> EngineStates]
    BY <1>4 DEF BeginEngine, EngineInv, SignalTypeOK
<1>7. SignalTypeOK'
    BY <1>1, <1>2, <1>6 DEF EngineInv, SignalTypeOK
<1>8. ASSUME NEW f \in Engines PROVE RunIsSound(f)'
    <2>1. CASE f = e
        BY <2>1, <1>1, <1>2, <1>4, FS_EmptySet DEF RunIsSound, Engaged
    <2>2. CASE f # e
        BY <2>2, <1>2, <1>5, OtherRun DEF EngineInv
    <2> QED BY <2>1, <2>2
<1>9. \A f \in Engines : Engaged(f) => engines[f].run \in 1..started
    BY DEF EngineInv, RunIsSound
<1>10. \A row \in signals : row.run \in Nat /\ row.run <= started
    BY DEF EngineInv, RunsAreNumbered, SignalTypeOK, SignalRows
<1>11. \A f \in Engines \ {e} : Engaged(f)' <=> Engaged(f)
    BY <1>5 DEF Engaged
<1>12. RunsAreNumbered'
    <2>1. \A f \in Engines \ {e} : Engaged(f)' => engines'[f].run # engines'[e].run
        BY <1>2, <1>4, <1>5, <1>9, <1>11
    <2>2. \A f, g \in Engines :
            f # g /\ Engaged(f)' /\ Engaged(g)' => engines'[f].run # engines'[g].run
        BY <2>1, <1>5, <1>11 DEF EngineInv, RunsAreNumbered
    <2>3. \A row \in signals' : row.run <= started'
        BY <1>1, <1>2, <1>10
    <2>4. \A row \in signals' : row.run # engines'[e].run
        BY <1>1, <1>2, <1>4, <1>10
    <2>5. \A f \in Engines, row \in signals' : Engaged(f)' => row.run # engines'[f].run
        BY <2>4, <1>1, <1>5, <1>11 DEF EngineInv, RunsAreNumbered
    <2> QED BY <2>2, <2>3, <2>5 DEF RunsAreNumbered
<1>13. AloneInOrder'
    <2> SUFFICES ASSUME ~overlapped' PROVE AloneInOrder'
        BY DEF AloneInOrder
    <2>1. ~overlapped /\ \A f \in Engines \ {e} : ~Engaged(f)
        BY <1>1
    <2>2. \A f \in Engines \ {e} : ~Engaged(f)'
        BY <2>1, <1>11
    <2>3. \A row, other \in signals' : row.ticker = other.ticker => row = other
        BY <2>1, <1>1 DEF EngineInv, AloneInOrder
    <2>4. \A f \in Engines : engines'[f].inserted = {} /\ engines'[f].pc # "replace"
        BY <2>1, <1>4, <1>5 DEF EngineInv, RunIsSound, Engaged
    <2> QED BY <2>2, <2>3, <2>4 DEF AloneInOrder
<1> QED BY <1>1, <1>7, <1>8, <1>12, <1>13 DEF EngineInv

\* Looking a row up changes nothing but the place of the run.
LEMMA FindSignalKeeps ==
    ASSUME EngineInv, NEW e \in Engines, NEW t \in Tickers, FindSignal(e, t)
    PROVE  EngineInv'
<1> DEFINE found == IF SignalsOf(t) = {} THEN {NoSignal} ELSE SignalsOf(t)
<1>1. /\ UNCHANGED <<listed, signals, started, overlapped>>
      /\ engines[e].pc = "markets" /\ t \in engines[e].todo
    BY DEF FindSignal
<1>2. PICK row \in found :
        engines' = [engines EXCEPT ![e].pc = "replace", ![e].ticker = t, ![e].seen = row]
    BY DEF FindSignal
<1>3. row \in SignalRows \cup {NoSignal} /\ (row = NoSignal \/ row \in SignalsOf(t))
      /\ (SignalsOf(t) # {} => row \in SignalsOf(t))
    BY DEF EngineInv, SignalTypeOK, SignalsOf
<1> HIDE DEF found
<1>4. engines[e] \in EngineStates /\ engines \in [Engines -> EngineStates]
    BY DEF EngineInv, SignalTypeOK
<1>5. /\ engines'[e] = [engines[e] EXCEPT !.pc = "replace", !.ticker = t, !.seen = row]
      /\ \A f \in Engines \ {e} : engines'[f] = engines[f]
    BY <1>2, <1>4
<1>6. /\ engines'[e].pc = "replace" /\ engines'[e].ticker = t /\ engines'[e].seen = row
      /\ engines'[e].run = engines[e].run /\ engines'[e].todo = engines[e].todo
      /\ engines'[e].deleted = engines[e].deleted /\ engines'[e].inserted = engines[e].inserted
      /\ engines'[e] \in EngineStates
    BY <1>3, <1>4, <1>5 DEF EngineStates
<1>7. SignalTypeOK'
    BY <1>1, <1>2, <1>4, <1>6 DEF EngineInv, SignalTypeOK
<1>8. started \in Nat /\ started <= started'
    BY <1>1, EngineFields DEF EngineInv
<1>9. \A f \in Engines : Engaged(f)' <=> Engaged(f)
    BY <1>1, <1>5, <1>6 DEF Engaged
<1>10. ASSUME NEW f \in Engines PROVE RunIsSound(f)'
    <2>1. CASE f = e
        <3>1. RunIsSound(e) /\ Engaged(e)
            BY <1>1 DEF EngineInv, Engaged
        <3>2. row = NoSignal \/ row.ticker = t
            BY <1>3 DEF SignalsOf
        <3> QED BY <2>1, <3>1, <3>2, <1>1, <1>6, <1>9 DEF RunIsSound
    <2>2. CASE f # e
        BY <2>2, <1>1, <1>5, <1>8, OtherRun DEF EngineInv
    <2> QED BY <2>1, <2>2
<1>11. \A f \in Engines : engines'[f].run = engines[f].run
                          /\ engines'[f].inserted = engines[f].inserted
                          /\ engines'[f].deleted = engines[f].deleted
    BY <1>5, <1>6
<1>12. RunsAreNumbered'
    BY <1>1, <1>9, <1>11 DEF EngineInv, RunsAreNumbered
<1>13. AloneInOrder'
    <2> SUFFICES ASSUME ~overlapped PROVE AloneInOrder'
        BY <1>1 DEF AloneInOrder
    <2>1. AloneInOrder
        BY DEF EngineInv
    <2>2. SignalsOf(t) \subseteq {row}
        BY <1>3, <2>1 DEF AloneInOrder, SignalsOf
    <2>3. \A f \in Engines : engines'[f].pc = "replace" =>
            SignalsOf(engines'[f].ticker) \subseteq {engines'[f].seen}
        BY <2>1, <2>2, <1>5, <1>6 DEF AloneInOrder
    <2>4. \A m : SignalsOf(m)' = SignalsOf(m)
        BY <1>1 DEF SignalsOf
    <2>5. \A f \in Engines : engines'[f].pc = "replace" =>
            (SignalsOf(engines[f].ticker))' \subseteq {engines'[f].seen}
        BY <2>3, <1>1 DEF SignalsOf
    <2>6. \A f \in Engines : \A r \in engines'[f].inserted :
            SignalsOf(r.ticker)' \subseteq engines'[f].deleted
        BY <2>1, <2>4, <1>11 DEF AloneInOrder
    <2> QED BY <2>1, <2>5, <2>6, <1>1, <1>9 DEF AloneInOrder
<1> QED BY <1>1, <1>7, <1>10, <1>12, <1>13 DEF EngineInv

\* The row found goes, if it is still there, and the new one comes.
LEMMA ReplaceSignalKeeps ==
    ASSUME EngineInv, NEW e \in Engines, ReplaceSignal(e)
    PROVE  EngineInv'
<1> DEFINE run == engines[e]
<1> DEFINE t == run.ticker
<1>1. /\ UNCHANGED <<listed, signals, started, overlapped>>
      /\ run.pc = "replace"
    BY DEF ReplaceSignal
<1>2. PICK k \in CandidateKeys(run.ticker) :
        engines' = [engines EXCEPT
            ![e].pc = "markets", ![e].ticker = NoTicker, ![e].seen = NoSignal,
            ![e].todo = @ \ {run.ticker},
            ![e].deleted = @ \cup Outgoing(e),
            ![e].inserted = @ \cup {[run |-> run.run, ticker |-> run.ticker, key |-> k,
                                          after |-> {row.ticker : row \in run.inserted}]}]
    BY DEF ReplaceSignal
<1> DEFINE new == [run |-> run.run, ticker |-> run.ticker, key |-> k,
                   after |-> {row.ticker : row \in run.inserted}]
<1>3. engines[e] \in EngineStates /\ engines \in [Engines -> EngineStates]
    BY DEF EngineInv, SignalTypeOK
<1>4. /\ engines'[e] = [engines[e] EXCEPT
            !.pc = "markets", !.ticker = NoTicker, !.seen = NoSignal,
            !.todo = @ \ {t}, !.deleted = @ \cup Outgoing(e), !.inserted = @ \cup {new}]
      /\ \A f \in Engines \ {e} : engines'[f] = engines[f]
    BY <1>2, <1>3
<1>5. RunIsSound(e) /\ Engaged(e)
    BY <1>1 DEF EngineInv, Engaged
<1>6. /\ run.run \in 1..started /\ t \in run.todo /\ run.todo \subseteq Tickers
      /\ run.inserted \subseteq SignalRows /\ run.deleted \subseteq SignalRows
      /\ run.seen = NoSignal \/ run.seen.ticker = t
      /\ started \in 0..MaxEngineRuns
    BY <1>1, <1>3, <1>5 DEF RunIsSound, EngineStates, EngineInv, SignalTypeOK
<1>7. run.run \in 1..MaxEngineRuns /\ t \in Tickers
    BY <1>6, RunsAssumption
<1>8. k \in Keys \cup {NoKey}
    BY DEF CandidateKeys
<1>9. new \in SignalRows /\ new.run = run.run /\ new.ticker = t
    <2>1. {row.ticker : row \in run.inserted} \in SUBSET Tickers
        BY <1>6 DEF SignalRows
    <2> QED BY <1>7, <1>8, <2>1 DEF SignalRows
<1>10. Outgoing(e) \subseteq SignalRows /\ \A r \in Outgoing(e) : r = run.seen /\ r.ticker = t
    BY <1>6, NoSignalAssumption DEF Outgoing, EngineInv, SignalTypeOK
<1> HIDE DEF run, t, new
<1>11. /\ engines'[e].pc = "markets" /\ engines'[e].ticker = NoTicker
       /\ engines'[e].seen = NoSignal
       /\ engines'[e].todo = run.todo \ {t}
       /\ engines'[e].deleted = run.deleted \cup Outgoing(e)
       /\ engines'[e].inserted = run.inserted \cup {new}
       /\ engines'[e].run = run.run
    BY <1>3, <1>4 DEF EngineStates, run
<1>12. engines'[e] \in EngineStates
    <2>1. engines'[e] = [engines[e] EXCEPT
            !.pc = "markets", !.ticker = NoTicker, !.seen = NoSignal,
            !.todo = run.todo \ {t}, !.deleted = run.deleted \cup Outgoing(e),
            !.inserted = run.inserted \cup {new}]
        BY <1>4 DEF run
    <2>2. /\ run.todo \ {t} \in SUBSET Tickers
          /\ run.deleted \cup Outgoing(e) \in SUBSET SignalRows
          /\ run.inserted \cup {new} \in SUBSET SignalRows
        BY <1>6, <1>9, <1>10
    <2> QED BY <1>3, <2>1, <2>2 DEF EngineStates
<1>13. engines' \in [Engines -> EngineStates]
    BY <1>2, <1>3, <1>12
<1>14. SignalTypeOK'
    BY <1>1, <1>13 DEF EngineInv, SignalTypeOK
<1>15. started \in Nat /\ started <= started'
    BY <1>1, <1>6, EngineFields DEF EngineInv
<1>16. \A f \in Engines : Engaged(f)' <=> Engaged(f)
    BY <1>1, <1>4, <1>11 DEF Engaged, run
<1>17. \A r \in run.inserted : r.run = run.run /\ r.ticker \notin run.todo
    BY <1>5 DEF RunIsSound, run
<1>18. \A r \in run.deleted : \E s \in run.inserted : s.ticker = r.ticker
    BY <1>5 DEF RunIsSound, run
<1>19. RunIsSound(e)'
    <2>1. \A r \in engines'[e].inserted :
            r.run = engines'[e].run /\ r.ticker \notin engines'[e].todo
        BY <1>6, <1>9, <1>11, <1>17
    <2>2. \A r, s \in engines'[e].inserted : r.ticker = s.ticker => r = s
        <3>1. \A r, s \in run.inserted : r.ticker = s.ticker => r = s
            BY <1>5 DEF RunIsSound, run
        <3>2. \A r \in run.inserted : r.ticker # new.ticker
            BY <1>6, <1>9, <1>17
        <3> QED BY <1>11, <3>1, <3>2
    <2>3. \A r, s \in engines'[e].deleted : r.ticker = s.ticker => r = s
        <3>1. \A r, s \in run.deleted : r.ticker = s.ticker => r = s
            BY <1>5 DEF RunIsSound, run
        <3>2. \A r \in run.deleted : r.ticker # t
            BY <1>6, <1>17, <1>18
        <3> QED BY <1>10, <1>11, <3>1, <3>2
    <2>4. \A r \in engines'[e].deleted : \E s \in engines'[e].inserted : s.ticker = r.ticker
        BY <1>9, <1>10, <1>11, <1>18
    <2>5. IsFiniteSet(engines'[e].inserted)
        <3>1. IsFiniteSet(run.inserted)
            BY <1>5 DEF RunIsSound, run
        <3> QED BY <3>1, <1>11, FS_AddElement
    <2>6. Engaged(e)' /\ engines'[e].run \in 1..started' /\ engines'[e].pc # "replace"
        BY <1>1, <1>5, <1>6, <1>11, <1>16
    <2> QED BY <2>1, <2>2, <2>3, <2>4, <2>5, <2>6 DEF RunIsSound
<1>20. \A f \in Engines \ {e} : RunIsSound(f)'
    BY <1>1, <1>4, <1>15, OtherRun DEF EngineInv
<1>21. RunsAreNumbered'
    <2>1. \A f \in Engines : engines'[f].run = engines[f].run
        BY <1>4, <1>11 DEF run
    <2> QED BY <2>1, <1>1, <1>16 DEF EngineInv, RunsAreNumbered
<1>22. AloneInOrder'
    <2> SUFFICES ASSUME ~overlapped PROVE AloneInOrder'
        BY <1>1 DEF AloneInOrder
    <2>1. AloneInOrder
        BY DEF EngineInv
    <2>2. \A m : SignalsOf(m)' = SignalsOf(m)
        BY <1>1 DEF SignalsOf
    <2>3. SignalsOf(t) \subseteq Outgoing(e)
        BY <2>1, <1>1 DEF AloneInOrder, run, t, Outgoing, SignalsOf
    <2>4. \A r \in run.inserted : SignalsOf(r.ticker) \subseteq run.deleted
        BY <2>1 DEF AloneInOrder, run
    <2>5. \A r \in engines'[e].inserted : SignalsOf(r.ticker)' \subseteq engines'[e].deleted
        BY <2>2, <2>3, <2>4, <1>9, <1>11
    <2>6. \A f \in Engines \ {e} : ~Engaged(f)
        BY <2>1, <1>5 DEF AloneInOrder
    <2>7. \A f \in Engines \ {e} : engines'[f].inserted = {} /\ engines'[f].pc # "replace"
        BY <2>6, <1>4 DEF EngineInv, RunIsSound, Engaged
    <2> QED BY <2>1, <2>5, <2>7, <1>1, <1>11, <1>16 DEF AloneInOrder
<1> QED BY <1>1, <1>14, <1>19, <1>20, <1>21, <1>22 DEF EngineInv

\* What a run that ends takes with it.
LEMMA EngineEnds ==
    ASSUME EngineInv, NEW e \in Engines, engines' = [engines EXCEPT ![e] = NoEngine],
           UNCHANGED <<started, overlapped>>
    PROVE  /\ engines' \in [Engines -> EngineStates]
           /\ engines'[e] = NoEngine
           /\ \A f \in Engines \ {e} : engines'[f] = engines[f]
           /\ \A f \in Engines : RunIsSound(f)'
           /\ \A f \in Engines : Engaged(f)' <=> f # e /\ Engaged(f)
           /\ ~overlapped => \A f \in Engines \ {e} :
                 Engaged(e) => engines'[f].inserted = {} /\ engines'[f].pc = "idle"
<1>1. engines \in [Engines -> EngineStates]
    BY DEF EngineInv, SignalTypeOK
<1>2. engines' \in [Engines -> EngineStates] /\ engines'[e] = NoEngine
      /\ \A f \in Engines \ {e} : engines'[f] = engines[f]
    BY <1>1, NoEngineFields
<1>3. started \in Nat /\ started <= started' /\ started' \in Nat
    BY EngineFields DEF EngineInv
<1>4. RunIsSound(e)'
    BY <1>2, NoEngineFields, FS_EmptySet DEF RunIsSound, Engaged
<1>5. \A f \in Engines \ {e} : RunIsSound(f)'
    BY <1>2, <1>3, OtherRun DEF EngineInv
<1>6. \A f \in Engines : Engaged(f)' <=> f # e /\ Engaged(f)
    BY <1>2, NoEngineFields DEF Engaged
<1>7. ASSUME ~overlapped, NEW f \in Engines \ {e}, Engaged(e)
      PROVE  engines'[f].inserted = {} /\ engines'[f].pc = "idle"
    <2>1. ~Engaged(f) /\ RunIsSound(f)
        BY <1>7 DEF EngineInv, AloneInOrder
    <2> QED BY <2>1, <1>2 DEF RunIsSound, Engaged
<1> QED BY <1>2, <1>4, <1>5, <1>6, <1>7

\* A run that fails leaves the signals as they are.
LEMMA FailEngineKeeps ==
    ASSUME EngineInv, NEW e \in Engines, FailEngine(e)
    PROVE  EngineInv'
<1>1. /\ UNCHANGED <<listed, signals, started, overlapped>> /\ Engaged(e)
      /\ engines' = [engines EXCEPT ![e] = NoEngine]
    BY DEF FailEngine, Engaged
<1>2. /\ engines' \in [Engines -> EngineStates]
      /\ engines'[e] = NoEngine
      /\ \A f \in Engines \ {e} : engines'[f] = engines[f]
      /\ \A f \in Engines : RunIsSound(f)'
      /\ \A f \in Engines : Engaged(f)' <=> f # e /\ Engaged(f)
      /\ ~overlapped => \A f \in Engines \ {e} :
            engines'[f].inserted = {} /\ engines'[f].pc = "idle"
    BY <1>1, EngineEnds
<1>3. RunsAreNumbered'
    BY <1>1, <1>2 DEF EngineInv, RunsAreNumbered
<1>4. AloneInOrder'
    BY <1>1, <1>2, NoEngineFields DEF EngineInv, AloneInOrder
<1> QED BY <1>1, <1>2, <1>3, <1>4 DEF EngineInv, SignalTypeOK

\* A run that ends well replaces what it has deleted by what it has inserted.
LEMMA CommitEngineKeeps ==
    ASSUME EngineInv, NEW e \in Engines, CommitEngine(e)
    PROVE  EngineInv'
<1> DEFINE run == engines[e]
<1>1. /\ UNCHANGED <<started, overlapped>> /\ Engaged(e)
      /\ engines' = [engines EXCEPT ![e] = NoEngine]
      /\ signals' = (signals \ run.deleted) \cup run.inserted
      /\ listed' = listed \cup run.seeded
    BY DEF CommitEngine, Engaged
<1>2. /\ engines' \in [Engines -> EngineStates]
      /\ engines'[e] = NoEngine
      /\ \A f \in Engines \ {e} : engines'[f] = engines[f]
      /\ \A f \in Engines : RunIsSound(f)'
      /\ \A f \in Engines : Engaged(f)' <=> f # e /\ Engaged(f)
      /\ ~overlapped => \A f \in Engines \ {e} :
            engines'[f].inserted = {} /\ engines'[f].pc = "idle"
    BY <1>1, EngineEnds
<1>3. run.inserted \subseteq SignalRows /\ run.seeded \subseteq Tickers /\ started \in Nat
    BY EngineFields DEF EngineInv
<1>4. RunIsSound(e)
    BY DEF EngineInv
<1>5. \A row \in run.inserted : row.run = run.run
    BY <1>4 DEF RunIsSound
<1>6. run.run \in 1..started
    BY <1>1, <1>4 DEF RunIsSound
<1> HIDE DEF run
<1>7. SignalTypeOK'
    BY <1>1, <1>2, <1>3 DEF EngineInv, SignalTypeOK
<1>8. IsFiniteSet(signals')
    <2>1. IsFiniteSet(run.inserted)
        BY <1>4 DEF RunIsSound, run
    <2>2. IsFiniteSet(signals \ run.deleted)
        BY FS_Difference DEF EngineInv
    <2> QED BY <1>1, <2>1, <2>2, FS_Union
<1>9. RunsAreNumbered'
    <2>1. \A f, g \in Engines :
            f # g /\ Engaged(f)' /\ Engaged(g)' => engines'[f].run # engines'[g].run
        BY <1>2 DEF EngineInv, RunsAreNumbered
    <2>2. \A row \in signals' : row.run <= started'
        BY <1>1, <1>3, <1>5, <1>6 DEF EngineInv, RunsAreNumbered
    <2>3. \A f \in Engines, row \in signals' : Engaged(f)' => row.run # engines'[f].run
        <3>1. \A f \in Engines \ {e} : Engaged(f) => engines[f].run # run.run
            BY <1>1 DEF EngineInv, RunsAreNumbered, run
        <3>2. \A f \in Engines, row \in signals : Engaged(f) => row.run # engines[f].run
            BY DEF EngineInv, RunsAreNumbered
        <3> QED BY <3>1, <3>2, <1>1, <1>2, <1>5
    <2> QED BY <2>1, <2>2, <2>3 DEF RunsAreNumbered
<1>10. AloneInOrder'
    <2> SUFFICES ASSUME ~overlapped PROVE AloneInOrder'
        BY <1>1 DEF AloneInOrder
    <2>1. AloneInOrder
        BY DEF EngineInv
    <2>2. \A row, other \in signals : row.ticker = other.ticker => row = other
        BY <2>1 DEF AloneInOrder
    <2>3. \A row, other \in run.inserted : row.ticker = other.ticker => row = other
        BY <1>4 DEF RunIsSound, run
    <2>4. \A row \in run.inserted, other \in signals :
            row.ticker = other.ticker => other \in run.deleted
        BY <2>1 DEF AloneInOrder, SignalsOf, run
    <2>5. \A row, other \in signals' : row.ticker = other.ticker => row = other
        BY <1>1, <2>2, <2>3, <2>4
    <2>6. \A f \in Engines : ~Engaged(f)'
        BY <1>2 DEF Engaged
    <2>7. \A f \in Engines : engines'[f].inserted = {} /\ engines'[f].pc # "replace"
        BY <1>2, NoEngineFields
    <2> QED BY <2>5, <2>6, <2>7 DEF AloneInOrder
<1> QED BY <1>2, <1>7, <1>8, <1>9, <1>10 DEF EngineInv

\* Every step of the engine keeps its invariant.
LEMMA SignalStep == EngineInv /\ SignalNext => EngineInv'
BY ListMarketKeeps, BeginEngineKeeps, FindSignalKeeps, ReplaceSignalKeeps, CommitEngineKeeps,
   FailEngineKeeps DEF SignalNext, EngineStep

\* A run that meets two signals of a market raises; what is deleted of one is
\* replaced by a new row, so of two of them two are left.
LEMMA TwoStayTwo ==
    ASSUME EngineInv, EngineInv', SignalNext, NEW t \in Tickers, Cardinality(SignalsOf(t)) >= 2
    PROVE  Cardinality({row \in signals' : row.ticker = t}) >= 2
<1> DEFINE after == {row \in signals' : row.ticker = t}
<1>1. IsFiniteSet(SignalsOf(t))
    BY FS_Subset DEF EngineInv, SignalsOf
<1>2. IsFiniteSet(after)
    BY FS_Subset DEF EngineInv
<1>3. PICK a \in SignalsOf(t), b \in SignalsOf(t) : a # b
    BY <1>1, OneAtMost
<1>4. \E x, y \in after : x # y
    <2>1. CASE signals' = signals
        BY <1>3, <2>1 DEF SignalsOf
    <2>2. CASE \E e \in Engines : CommitEngine(e)
        <3>1. PICK e \in Engines : CommitEngine(e)
            BY <2>2
        <3> DEFINE run == engines[e]
        <3>2. signals' = (signals \ run.deleted) \cup run.inserted /\ Engaged(e)
            BY <3>1 DEF CommitEngine, Engaged
        <3>3. /\ \A row, other \in run.deleted : row.ticker = other.ticker => row = other
              /\ \A row \in run.deleted : \E new \in run.inserted : new.ticker = row.ticker
              /\ \A row \in run.inserted : row.run = run.run
            BY DEF EngineInv, RunIsSound
        <3>4. \A row \in signals : row.run # run.run
            BY <3>2 DEF EngineInv, RunsAreNumbered
        <3> HIDE DEF run
        <3>5. a.ticker = t /\ b.ticker = t /\ a \in signals /\ b \in signals
            BY DEF SignalsOf
        <3>6. CASE a \in run.deleted
            BY <1>3, <3>2, <3>3, <3>4, <3>5, <3>6
        <3>7. CASE b \in run.deleted
            BY <1>3, <3>2, <3>3, <3>4, <3>5, <3>7
        <3>8. CASE a \notin run.deleted /\ b \notin run.deleted
            BY <1>3, <3>2, <3>5, <3>8
        <3> QED BY <3>6, <3>7, <3>8
    <2>3. signals' = signals \/ \E e \in Engines : CommitEngine(e)
        BY DEF SignalNext, EngineStep, BeginEngine, FindSignal, ReplaceSignal, FailEngine,
               ListMarket
    <2> QED BY <2>1, <2>2, <2>3
<1>5. ~(Cardinality(after) <= 1) /\ Cardinality(after) \in Nat
    BY <1>2, <1>4, OneAtMost
<1> QED BY <1>5

-----------------------------------------------------------------------------
(* The steps of the notifier. *)

\* The newest of some signals.
Newest(S) == CHOOSE row \in S : \A s \in S : s.run <= row.run

\* The candidate of a worker is the newest one in its queue.
LEMMA CurrentIsNewest == \A w \in Workers : Current(w) = Newest(workers[w].queue)
BY DEF Current, Newest

\* A worker that is not idle has a candidate, with a key.
LEMMA CandidateInHand ==
    ASSUME PipelineTypeOK, NEW w \in Workers, WorkerIsSound(w), workers[w].pc # "idle"
    PROVE  Current(w) \in workers[w].queue /\ Current(w) \in SignalRows /\ Key(w) \in Keys
<1> DEFINE S == workers[w].queue
<1>1. S \in SUBSET SignalRows /\ S # {}
    BY DEF PipelineTypeOK, WorkerStates, WorkerIsSound
<1>2. \A row \in S : row.key # NoKey
    BY DEF WorkerIsSound
<1> HIDE DEF S
<1>3. \E row \in S : \A s \in S : s.run <= row.run
    BY <1>1, NewestOf
<1>4. Newest(S) \in S
    BY <1>3 DEF Newest
<1>5. Current(w) \in S
    BY <1>4, CurrentIsNewest DEF S
<1>6. Current(w).key \in Keys
    BY <1>1, <1>2, <1>5 DEF SignalRows
<1> QED BY <1>1, <1>5, <1>6 DEF S, Key

\* The fields of a worker.
LEMMA WorkerFields ==
    ASSUME PipelineTypeOK, NEW w \in Workers
    PROVE  /\ workers[w].pc \in {"idle", "offer", "send", "commit"}
           /\ workers[w].queue \subseteq SignalRows
           /\ workers[w].endpoint \in 1..Endpoints
           /\ workers[w].own \in 0..2
           /\ workers \in [Workers -> WorkerStates]
           /\ Endpoints \in Nat /\ 1 \in 1..Endpoints
BY EndpointsAssumption DEF PipelineTypeOK, WorkerStates

\* Counting up to two.
LEMMA TwoIsEnough ==
    /\ \A n \in 0..2 : UpToTwo(n + 1) \in 0..2
    /\ \A n : n \in Nat => UpToTwo(n) \in 0..2 /\ (n <= 1 => UpToTwo(n) = n)
BY DEF UpToTwo

\* A worker without candidates.
LEMMA AtRestFields ==
    AtRest \in WorkerStates /\ AtRest.pc = "idle" /\ AtRest.queue = {}
BY EndpointsAssumption DEF AtRest, WorkerStates

\* A worker that takes up some candidates.
LEMMA OfferingFields ==
    ASSUME NEW S \in SUBSET SignalRows
    PROVE  LET next == [AtRest EXCEPT !.pc = "offer", !.queue = S]
           IN  next \in WorkerStates /\ next.pc = "offer" /\ next.queue = S
<1> DEFINE next == [AtRest EXCEPT !.pc = "offer", !.queue = S]
<1>1. next \in WorkerStates
    BY AtRestFields DEF WorkerStates
<1>2. next.pc = "offer" /\ next.queue = S
    BY AtRestFields DEF WorkerStates
<1> HIDE DEF next
<1> QED BY <1>1, <1>2 DEF next

\* Going on to the next endpoint keeps the candidate.
LEMMA NextEndpointFields ==
    ASSUME PipelineTypeOK, NEW w \in Workers, NEW own \in 0..2, NextEndpoint(w, own)
    PROVE  /\ workers' \in [Workers -> WorkerStates]
           /\ workers'[w].queue = workers[w].queue
           /\ workers'[w].pc \in {"offer", "commit"}
           /\ \A v \in Workers \ {w} : workers'[v] = workers[v]
<1>1. workers \in [Workers -> WorkerStates] /\ workers[w] \in WorkerStates
    BY DEF PipelineTypeOK
<1> DEFINE pc == IF workers[w].endpoint < Endpoints THEN "offer" ELSE "commit"
<1> DEFINE next == IF workers[w].endpoint < Endpoints THEN workers[w].endpoint + 1
                   ELSE workers[w].endpoint
<1>2. pc \in {"offer", "commit"} /\ next \in 1..Endpoints
    BY WorkerFields
<1>3. workers' = [workers EXCEPT ![w].own = own, ![w].pc = pc, ![w].endpoint = next]
    BY DEF NextEndpoint
<1> HIDE DEF pc, next
<1>5. /\ workers' = [workers EXCEPT ![w] = workers'[w]]
      /\ workers'[w] = [workers[w] EXCEPT !.own = own, !.pc = pc, !.endpoint = next]
    BY <1>1, <1>3
<1>4. /\ workers'[w] \in WorkerStates
      /\ workers'[w].queue = workers[w].queue
      /\ workers'[w].pc = pc
    BY <1>1, <1>2, <1>5 DEF WorkerStates
<1> QED BY <1>1, <1>2, <1>4, <1>5

\* The engine's invariant is none of the notifier's business.
LEMMA EngineUntouched ==
    ASSUME EngineInv, UNCHANGED signalVars
    PROVE  EngineInv'
BY DEF EngineInv, signalVars, SignalTypeOK, RunIsSound, RunsAreNumbered, AloneInOrder, Engaged,
       SignalsOf

\* Locks that are held, or taken on a signal that stands, hold.
LEMMA LocksKept ==
    ASSUME LocksHold, UNCHANGED signalVars,
           \A lock \in locks' \ locks :
                lock[2] \in signals /\ \A e \in Engines : lock[2] \notin engines[e].deleted
    PROVE  LocksHold'
BY DEF LocksHold, signalVars

\* While nobody begins to send, the guards hold.
LEMMA GuardsKept ==
    ASSUME GuardsHold, UNCHANGED <<redis, marks, sends, guarded>>,
           \A v \in Workers, k \in Keys : Sending(v, k)' => Sending(v, k)
    PROVE  GuardsHold'
BY DEF GuardsHold

\* A worker that steps leaves the others where they are, with the keys they have.
LEMMA OtherWorkers ==
    ASSUME NEW w \in Workers, \A v \in Workers \ {w} : workers'[v] = workers[v]
    PROVE  /\ \A v \in Workers \ {w} : Current(v)' = Current(v) /\ Key(v)' = Key(v)
           /\ \A v \in Workers \ {w}, k \in Keys : Sending(v, k)' <=> Sending(v, k)
           /\ workers'[w].queue = workers[w].queue =>
                 Current(w)' = Current(w) /\ Key(w)' = Key(w)
<1>1. \A v \in Workers : Current(v)' = Newest(workers'[v].queue)
    BY DEF Current, Newest
<1>2. \A v \in Workers \ {w} : Current(v)' = Current(v)
    BY <1>1, CurrentIsNewest
<1>3. workers'[w].queue = workers[w].queue => Current(w)' = Current(w)
    BY <1>1, CurrentIsNewest
<1> QED BY <1>2, <1>3 DEF Key, Sending

\* The others keep their locks, whatever the worker that steps does to its own.
LEMMA OthersSound ==
    ASSUME NEW w \in Workers, \A v \in Workers : WorkerIsSound(v),
           \A v \in Workers \ {w} : workers'[v] = workers[v],
           \A lock \in locks : lock[1] # w => lock \in locks',
           WorkerIsSound(w)'
    PROVE  \A v \in Workers : WorkerIsSound(v)'
<1>1. ASSUME NEW v \in Workers \ {w} PROVE WorkerIsSound(v)'
    <2>1. Current(v)' = Current(v) /\ workers'[v] = workers[v] /\ WorkerIsSound(v)
        BY OtherWorkers
    <2>2. <<v, Current(v)>> \in locks => <<v, Current(v)>> \in locks'
        OBVIOUS
    <2> QED BY <2>1, <2>2 DEF WorkerIsSound
<1> QED BY <1>1

\* A run of the engine and the deliveries under way keep out of each other's way:
\* what one refers to the other does not delete.
LEMMA SignalNextKeeps ==
    ASSUME PipelineInv, SignalNext, UNCHANGED deliveryVars
    PROVE  PipelineInv'
<1>1. EngineInv'
    BY SignalStep DEF PipelineInv
<1>2. locks' = locks
    BY DEF SignalNext, EngineStep, BeginEngine, FindSignal, ReplaceSignal, CommitEngine,
           FailEngine, ListMarket
<1>3. PipelineTypeOK'
    BY <1>1, <1>2 DEF EngineInv, PipelineInv, PipelineTypeOK, deliveryVars
<1>4. \A w \in Workers : WorkerIsSound(w)'
    BY <1>2 DEF PipelineInv, WorkerIsSound, Current, deliveryVars
<1>5. GuardsHold'
    <2>1. \A w \in Workers, k \in Keys : Sending(w, k)' <=> Sending(w, k)
        BY DEF Sending, Key, Current, deliveryVars
    <2> QED BY <2>1, GuardsKept DEF PipelineInv, deliveryVars
<1>6. engines \in [Engines -> EngineStates]
    BY DEF PipelineInv, PipelineTypeOK, SignalTypeOK
<1>7. LocksHold
    BY DEF PipelineInv
<1>8. LocksHold'
    <2>1. CASE \E t \in Tickers : ListMarket(t)
        BY <2>1, <1>2, <1>7 DEF ListMarket, LocksHold
    <2>2. CASE \E e \in Engines : BeginEngine(e) \/ FailEngine(e)
        <3>1. PICK e \in Engines : BeginEngine(e) \/ FailEngine(e)
            BY <2>2
        <3>2. engines'[e].deleted = {}
            <4>1. CASE BeginEngine(e)
                <5>1. engines'[e] = [NoEngine EXCEPT !.pc = "markets", !.run = started',
                                     !.seeded = Seeds, !.todo = listed \cup Seeds]
                    BY <4>1, <1>6 DEF BeginEngine
                <5>2. engines'[e] = [pc |-> "markets", run |-> started', seeded |-> Seeds,
                         todo |-> listed \cup Seeds, ticker |-> NoTicker, seen |-> NoSignal,
                         deleted |-> {}, inserted |-> {}]
                    BY <5>1 DEF NoEngine
                <5> QED BY <5>2
            <4>2. CASE FailEngine(e)
                BY <4>2, <1>6, NoEngineFields DEF FailEngine
            <4> QED BY <4>1, <4>2, <3>1
        <3>3. signals' = signals /\ \A f \in Engines \ {e} : engines'[f] = engines[f]
            BY <3>1, <1>6 DEF BeginEngine, FailEngine
        <3> QED BY <3>2, <3>3, <1>2, <1>7 DEF LocksHold
    <2>3. CASE \E e \in Engines, t \in Tickers : FindSignal(e, t)
        <3>1. PICK e \in Engines, t \in Tickers : FindSignal(e, t)
            BY <2>3
        <3>2. PICK row : engines' = [engines EXCEPT ![e].pc = "replace", ![e].ticker = t,
                                                    ![e].seen = row]
            BY <3>1 DEF FindSignal
        <3>3. /\ engines'[e] = [engines[e] EXCEPT !.pc = "replace", !.ticker = t, !.seen = row]
              /\ \A f \in Engines \ {e} : engines'[f] = engines[f]
            BY <3>2, <1>6
        <3>4. engines'[e].deleted = engines[e].deleted
            BY <3>3, <1>6 DEF EngineStates
        <3>5. signals' = signals
            BY <3>1 DEF FindSignal
        <3> QED BY <3>3, <3>4, <3>5, <1>2, <1>7 DEF LocksHold
    <2>4. CASE \E e \in Engines : ReplaceSignal(e)
        <3>1. PICK e \in Engines : ReplaceSignal(e)
            BY <2>4
        <3>2. PICK new : engines' = [engines EXCEPT
                    ![e].pc = "markets", ![e].ticker = NoTicker, ![e].seen = NoSignal,
                    ![e].todo = @ \ {engines[e].ticker},
                    ![e].deleted = @ \cup Outgoing(e),
                    ![e].inserted = @ \cup {new}]
            BY <3>1 DEF ReplaceSignal
        <3>3. /\ engines'[e] = [engines[e] EXCEPT
                    !.pc = "markets", !.ticker = NoTicker, !.seen = NoSignal,
                    !.todo = @ \ {engines[e].ticker},
                    !.deleted = @ \cup Outgoing(e), !.inserted = @ \cup {new}]
              /\ \A f \in Engines \ {e} : engines'[f] = engines[f]
            BY <3>2, <1>6
        <3>4. engines'[e].deleted = engines[e].deleted \cup Outgoing(e)
            BY <3>3, <1>6 DEF EngineStates
        <3>5. signals' = signals /\ ~Referenced(engines[e].seen)
            BY <3>1 DEF ReplaceSignal
        <3>6. \A lock \in locks : lock[2] \notin Outgoing(e)
            BY <3>5 DEF Referenced, Outgoing
        <3> QED BY <3>3, <3>4, <3>5, <3>6, <1>2, <1>7 DEF LocksHold
    <2>5. CASE \E e \in Engines : CommitEngine(e)
        <3>1. PICK e \in Engines : CommitEngine(e)
            BY <2>5
        <3>2. engines'[e].deleted = {} /\ \A f \in Engines \ {e} : engines'[f] = engines[f]
            BY <3>1, <1>6, NoEngineFields DEF CommitEngine
        <3>3. signals \ engines[e].deleted \subseteq signals'
            BY <3>1 DEF CommitEngine
        <3> QED BY <3>2, <3>3, <1>2, <1>7 DEF LocksHold
    <2> QED BY <2>1, <2>2, <2>3, <2>4, <2>5 DEF SignalNext, EngineStep
<1> QED BY <1>1, <1>3, <1>4, <1>5, <1>8 DEF PipelineInv

\* A worker takes up the candidates of the hour.
LEMMA PollKeeps ==
    ASSUME PipelineInv, NEW w \in Workers, Poll(w)
    PROVE  PipelineInv'
<1>0. PICK S \in NewestFirst : workers' = [workers EXCEPT
            ![w] = [AtRest EXCEPT !.pc = "offer", !.queue = S]]
    BY DEF Poll
<1> DEFINE next == [AtRest EXCEPT !.pc = "offer", !.queue = S]
<1>1. /\ workers[w].pc = "idle" /\ S # {}
      /\ workers' = [workers EXCEPT ![w] = next]
      /\ UNCHANGED <<signalVars, locks, redis, marks, recent, preferences, mishaps, sends, guarded,
                     answered>>
    <2>1. S = Standing \/ Cardinality(S) = PollLimit
        BY DEF NewestFirst, FillsPass
    <2>2. PollLimit > 0 /\ Cardinality({}) = 0
        BY EndpointsAssumption, FS_EmptySet
    <2>3. S # {}
        BY <2>1, <2>2 DEF Poll
    <2> QED BY <1>0, <2>3 DEF Poll
<1>2. S \in SUBSET SignalRows
    BY DEF NewestFirst, Standing, PipelineInv, PipelineTypeOK, SignalTypeOK
<1>3. next \in WorkerStates /\ next.pc = "offer" /\ next.queue = S
    BY <1>2, OfferingFields
<1>4. \A row \in S : row.key # NoKey
    BY DEF NewestFirst, Standing
<1> HIDE DEF next
<1>5. /\ workers' \in [Workers -> WorkerStates] /\ workers'[w] = next
      /\ \A v \in Workers \ {w} : workers'[v] = workers[v]
    BY <1>1, <1>3, WorkerFields DEF PipelineInv
<1>6. EngineInv'
    BY <1>1, EngineUntouched DEF PipelineInv
<1>7. PipelineTypeOK'
    BY <1>1, <1>5, <1>6 DEF PipelineInv, PipelineTypeOK, EngineInv
<1>8. WorkerIsSound(w)'
    BY <1>1, <1>3, <1>4, <1>5 DEF WorkerIsSound
<1>9. \A v \in Workers : WorkerIsSound(v)'
    BY <1>1, <1>5, <1>8, OthersSound DEF PipelineInv
<1>10. LocksHold'
    BY <1>1, LocksKept DEF PipelineInv
<1>11. \A v \in Workers, k \in Keys : Sending(v, k)' => Sending(v, k)
    <2>1. \A k \in Keys : ~Sending(w, k)'
        BY <1>3, <1>5 DEF Sending
    <2> QED BY <2>1, <1>5, OtherWorkers
<1>12. GuardsHold'
    BY <1>1, <1>11, GuardsKept DEF PipelineInv
<1> QED BY <1>6, <1>7, <1>9, <1>10, <1>12 DEF PipelineInv

\* What a worker that goes on from a candidate keeps: its lock is on a signal that
\* stands, and the others are where they were.
LEMMA WorkerGoesOn ==
    ASSUME PipelineInv, NEW w \in Workers, UNCHANGED signalVars,
           workers[w].pc \in {"offer", "send"},
           workers' \in [Workers -> WorkerStates],
           workers'[w].queue = workers[w].queue,
           workers'[w].pc # "idle",
           \A v \in Workers \ {w} : workers'[v] = workers[v],
           locks' = locks \cup {<<w, Current(w)>>},
           \/ Flushes(w)
           \/ workers[w].pc = "send"
    PROVE  /\ EngineInv'
           /\ Key(w) \in Keys
           /\ Key(w)' = Key(w)
           /\ locks' \subseteq Workers \X SignalRows
           /\ \A v \in Workers : WorkerIsSound(v)'
           /\ LocksHold'
           /\ \A v \in Workers \ {w}, k \in Keys : Sending(v, k)' <=> Sending(v, k)
<1>1. EngineInv'
    BY EngineUntouched DEF PipelineInv
<1>2. Current(w) \in SignalRows /\ Key(w) \in Keys
    BY CandidateInHand DEF PipelineInv
<1>3. locks' \subseteq Workers \X SignalRows
    BY <1>2 DEF PipelineInv, PipelineTypeOK
<1>4. Current(w)' = Current(w) /\ Key(w)' = Key(w)
    BY OtherWorkers
<1>5. WorkerIsSound(w)'
    <2>1. WorkerIsSound(w)
        BY DEF PipelineInv
    <2>2. workers'[w].queue # {} /\ \A row \in workers'[w].queue : row.key # NoKey
        BY <2>1 DEF WorkerIsSound
    <2>3. <<w, Current(w)'>> \in locks'
        BY <1>4
    <2> QED BY <2>2, <2>3 DEF WorkerIsSound
<1>6. \A v \in Workers : WorkerIsSound(v)'
    BY <1>5, OthersSound DEF PipelineInv
<1>7. LocksHold'
    <2>1. CASE Flushes(w)
        <3>1. Current(w) \in signals /\ \A e \in Engines : Current(w) \notin engines[e].deleted
            BY <2>1 DEF Flushes
        <3> QED BY <3>1, LocksKept DEF PipelineInv
    <2>2. CASE workers[w].pc = "send"
        <3>1. locks' = locks
            BY <2>2 DEF PipelineInv, WorkerIsSound
        <3> QED BY <3>1, LocksKept DEF PipelineInv
    <2> QED BY <2>1, <2>2
<1> QED BY <1>1, <1>2, <1>3, <1>4, <1>6, <1>7, OtherWorkers

\* The candidate is kept back, by policy or as a duplicate.
LEMMA SuppressKeeps ==
    ASSUME PipelineInv, NEW w \in Workers, SuppressByPolicy(w) \/ SuppressDuplicate(w)
    PROVE  PipelineInv'
<1>1. PICK own \in 0..2 : NextEndpoint(w, own)
    <2>1. CASE SuppressByPolicy(w)
        BY <2>1, WorkerFields DEF SuppressByPolicy, PipelineInv
    <2>2. CASE SuppressDuplicate(w)
        <3>1. UpToTwo(workers[w].own + 1) \in 0..2
            BY WorkerFields, TwoIsEnough DEF PipelineInv
        <3> QED BY <2>2, <3>1 DEF SuppressDuplicate
    <2> QED BY <2>1, <2>2
<1>2. /\ Flushes(w) /\ workers[w].pc = "offer"
      /\ locks' = locks \cup {<<w, Current(w)>>}
      /\ answered' \in {answered, answered \cup {Key(w)}}
      /\ UNCHANGED <<signalVars, redis, marks, recent, preferences, mishaps, sends, guarded>>
    BY DEF SuppressByPolicy, SuppressDuplicate, Flushes
<1>3. /\ workers' \in [Workers -> WorkerStates]
      /\ workers'[w].queue = workers[w].queue
      /\ workers'[w].pc \in {"offer", "commit"}
      /\ \A v \in Workers \ {w} : workers'[v] = workers[v]
    BY <1>1, NextEndpointFields DEF PipelineInv
<1>4. /\ EngineInv' /\ Key(w) \in Keys
      /\ locks' \subseteq Workers \X SignalRows
      /\ \A v \in Workers : WorkerIsSound(v)'
      /\ LocksHold'
      /\ \A v \in Workers \ {w}, k \in Keys : Sending(v, k)' <=> Sending(v, k)
    BY <1>2, <1>3, WorkerGoesOn
<1>5. PipelineTypeOK'
    BY <1>2, <1>3, <1>4 DEF PipelineInv, PipelineTypeOK, EngineInv
<1>6. \A k \in Keys : ~Sending(w, k)'
    BY <1>3 DEF Sending
<1>7. GuardsHold'
    BY <1>2, <1>4, <1>6, GuardsKept DEF PipelineInv
<1> QED BY <1>4, <1>5, <1>7 DEF PipelineInv

\* A worker that turns to sending.
LEMMA TurnsToSending ==
    ASSUME PipelineInv, NEW w \in Workers, Flushes(w), UNCHANGED signalVars,
           workers' = [workers EXCEPT ![w].pc = "send"]
    PROVE  /\ workers' \in [Workers -> WorkerStates]
           /\ workers'[w].pc = "send"
           /\ EngineInv'
           /\ Key(w) \in Keys /\ Key(w)' = Key(w)
           /\ locks' \subseteq Workers \X SignalRows
           /\ \A v \in Workers : WorkerIsSound(v)'
           /\ LocksHold'
           /\ \A k \in Keys : ~Sending(w, k) /\ (Sending(w, k)' <=> k = Key(w))
           /\ \A v \in Workers \ {w}, k \in Keys : Sending(v, k)' <=> Sending(v, k)
<1>1. workers[w] \in WorkerStates /\ workers \in [Workers -> WorkerStates]
    BY DEF PipelineInv, PipelineTypeOK
<1>2. /\ workers'[w] = [workers[w] EXCEPT !.pc = "send"]
      /\ \A v \in Workers \ {w} : workers'[v] = workers[v]
    BY <1>1
<1>3. /\ workers'[w] \in WorkerStates /\ workers'[w].pc = "send"
      /\ workers'[w].queue = workers[w].queue
    BY <1>1, <1>2 DEF WorkerStates
<1>4. workers' \in [Workers -> WorkerStates]
    BY <1>1, <1>2, <1>3
<1>5. workers[w].pc = "offer" /\ locks' = locks \cup {<<w, Current(w)>>}
    BY DEF Flushes
<1>6. /\ EngineInv' /\ Key(w) \in Keys /\ Key(w)' = Key(w)
      /\ locks' \subseteq Workers \X SignalRows
      /\ \A v \in Workers : WorkerIsSound(v)'
      /\ LocksHold'
      /\ \A v \in Workers \ {w}, k \in Keys : Sending(v, k)' <=> Sending(v, k)
    BY <1>2, <1>3, <1>4, <1>5, WorkerGoesOn
<1>7. \A k \in Keys : ~Sending(w, k) /\ (Sending(w, k)' <=> k = Key(w))
    BY <1>3, <1>5, <1>6 DEF Sending
<1> QED BY <1>3, <1>4, <1>6, <1>7

\* The key is marked: it is guarded from now on, unless another one is sending it.
LEMMA MarkKeeps ==
    ASSUME PipelineInv, NEW w \in Workers, Mark(w)
    PROVE  PipelineInv'
<1> DEFINE key == Key(w)
<1> DEFINE others == {v \in Workers \ {w} : workers[v].pc = "send" /\ Key(v) = key}
<1>1. /\ Flushes(w) /\ redis /\ key \notin marks
      /\ workers' = [workers EXCEPT ![w].pc = "send"]
      /\ marks' = marks \cup {key}
      /\ guarded' = IF others = {} THEN guarded \cup {key} ELSE guarded
      /\ UNCHANGED <<signalVars, redis, recent, preferences, mishaps, sends, answered>>
    BY DEF Mark, SetsMark
<1>2. /\ workers' \in [Workers -> WorkerStates]
      /\ workers'[w].pc = "send"
      /\ EngineInv'
      /\ key \in Keys
      /\ locks' \subseteq Workers \X SignalRows
      /\ \A v \in Workers : WorkerIsSound(v)'
      /\ LocksHold'
      /\ \A k \in Keys : ~Sending(w, k) /\ (Sending(w, k)' <=> k = key)
      /\ \A v \in Workers \ {w}, k \in Keys : Sending(v, k)' <=> Sending(v, k)
    BY <1>1, TurnsToSending
<1>3. others = {v \in Workers \ {w} : Sending(v, key)}
    BY DEF Sending
<1> HIDE DEF key, others
<1>4. PipelineTypeOK'
    BY <1>1, <1>2 DEF PipelineInv, PipelineTypeOK, EngineInv
<1>5. key \notin guarded /\ sends[key] = 0
    BY <1>1, <1>2 DEF PipelineInv, GuardsHold
<1>6. ASSUME NEW k \in Keys
      PROVE  /\ sends'[k] <= 1
             /\ k \notin guarded' => sends'[k] = 0
             /\ k \in guarded' =>
                   /\ redis' /\ k \in marks'
                   /\ \A u, v \in Workers : Sending(u, k)' /\ Sending(v, k)' => u = v
                   /\ \A v \in Workers : Sending(v, k)' => sends'[k] = 0
    <2>1. CASE k = key
        <3>1. sends'[k] = 0
            BY <2>1, <1>1, <1>5
        <3>2. sends'[k] <= 1
            BY <3>1
        <3>3. k \in guarded' => others = {}
            BY <2>1, <1>1, <1>5
        <3>4. k \in guarded' => \A u, v \in Workers : Sending(u, k)' /\ Sending(v, k)' => u = v
            BY <2>1, <3>3, <1>2, <1>3
        <3> QED BY <2>1, <3>1, <3>2, <3>4, <1>1
    <2>2. CASE k # key
        <3>1. (k \in guarded' <=> k \in guarded) /\ (k \in marks => k \in marks')
              /\ UNCHANGED <<redis, sends>>
            BY <2>2, <1>1
        <3>2. \A v \in Workers : Sending(v, k)' <=> Sending(v, k)
            BY <2>2, <1>2
        <3> QED BY <3>1, <3>2 DEF PipelineInv, GuardsHold
    <2> QED BY <2>1, <2>2
<1>7. GuardsHold'
    BY <1>6 DEF GuardsHold
<1> QED BY <1>2, <1>4, <1>7 DEF PipelineInv

\* Without Redis nothing is guarded.
LEMMA GoUnmarkedKeeps ==
    ASSUME PipelineInv, NEW w \in Workers, GoUnmarked(w)
    PROVE  PipelineInv'
<1>1. /\ Flushes(w) /\ ~redis
      /\ workers' = [workers EXCEPT ![w].pc = "send"]
      /\ UNCHANGED <<signalVars, redis, marks, recent, preferences, mishaps, sends, guarded,
                     answered>>
    BY DEF GoUnmarked
<1>2. /\ workers' \in [Workers -> WorkerStates]
      /\ EngineInv'
      /\ locks' \subseteq Workers \X SignalRows
      /\ \A v \in Workers : WorkerIsSound(v)'
      /\ LocksHold'
    BY <1>1, TurnsToSending
<1>3. PipelineTypeOK'
    BY <1>1, <1>2 DEF PipelineInv, PipelineTypeOK, EngineInv
<1>4. \A k \in Keys : k \notin guarded
    BY <1>1 DEF PipelineInv, GuardsHold
<1>5. GuardsHold'
    BY <1>1, <1>4 DEF PipelineInv, GuardsHold
<1> QED BY <1>2, <1>3, <1>5 DEF PipelineInv

\* What arrives of a guarded key arrives once: no answer of it was lost.
LEMMA SendKeeps ==
    ASSUME PipelineInv, NEW w \in Workers, Send(w)
    PROVE  PipelineInv'
<1> DEFINE key == Key(w)
<1>1. PICK d \in Tried :
          /\ NextEndpoint(w, IF d.sent THEN UpToTwo(workers[w].own + 1) ELSE workers[w].own)
          /\ guarded' = IF Lost(d) THEN guarded \ {Key(w)} ELSE guarded
          /\ sends' = [sends EXCEPT ![Key(w)] =
                          IF Key(w) \in guarded' THEN UpToTwo(sends[Key(w)] + d.arrived) ELSE 0]
    BY DEF Send
<1>2. /\ workers[w].pc = "send"
      /\ answered' = answered \cup {key}
      /\ UNCHANGED <<signalVars, locks, redis, marks, recent, preferences, mishaps>>
    BY DEF Send
<1>3. d.arrived \in Nat /\ d.sent \in BOOLEAN
    BY EndpointsAssumption DEF Tried, Deliveries
<1>4. PICK own \in 0..2 : NextEndpoint(w, own)
    <2>1. workers[w].own \in 0..2 /\ UpToTwo(workers[w].own + 1) \in 0..2
        BY WorkerFields, TwoIsEnough DEF PipelineInv
    <2> QED BY <2>1, <1>1
<1>5. /\ workers' \in [Workers -> WorkerStates]
      /\ workers'[w].queue = workers[w].queue
      /\ workers'[w].pc \in {"offer", "commit"}
      /\ \A v \in Workers \ {w} : workers'[v] = workers[v]
    BY <1>4, NextEndpointFields DEF PipelineInv
<1>6. locks' = locks \cup {<<w, Current(w)>>}
    BY <1>2 DEF PipelineInv, WorkerIsSound
<1>7. /\ EngineInv' /\ key \in Keys
      /\ locks' \subseteq Workers \X SignalRows
      /\ \A v \in Workers : WorkerIsSound(v)'
      /\ LocksHold'
      /\ \A v \in Workers \ {w}, k \in Keys : Sending(v, k)' <=> Sending(v, k)
    BY <1>2, <1>5, <1>6, WorkerGoesOn
<1>8. Sending(w, key) /\ \A k \in Keys : ~Sending(w, k)'
    BY <1>2, <1>5 DEF Sending
<1> HIDE DEF key
<1>9. /\ sends \in [Keys -> 0..2]
      /\ sends' = [sends EXCEPT ![key] =
                     IF key \in guarded' THEN UpToTwo(sends[key] + d.arrived) ELSE 0]
      /\ guarded' = IF Lost(d) THEN guarded \ {key} ELSE guarded
    BY <1>1 DEF PipelineInv, PipelineTypeOK, key
<1>10. sends'[key] \in 0..2 /\ sends'[key] <= 1 /\ (key \notin guarded' => sends'[key] = 0)
    <2>1. CASE key \notin guarded'
        <3>1. sends'[key] = 0
            BY <2>1, <1>7, <1>9
        <3> QED BY <3>1
    <2>2. CASE key \in guarded'
        <3>1. key \in guarded /\ ~Lost(d)
            BY <2>2, <1>9
        <3>2. sends[key] = 0
            BY <3>1, <1>7, <1>8 DEF PipelineInv, GuardsHold
        <3>3. d.arrived <= 1
            BY <3>1, <1>3 DEF Lost
        <3>4. sends[key] + d.arrived = d.arrived
            BY <3>2, <1>3
        <3>5. UpToTwo(d.arrived) = d.arrived
            BY <3>3, <1>3, TwoIsEnough
        <3>6. sends'[key] = d.arrived
            BY <2>2, <1>7, <1>9, <3>4, <3>5
        <3> QED BY <3>3, <3>6, <2>2, <1>3
    <2> QED BY <2>1, <2>2
<1>11. sends' \in [Keys -> 0..2] /\ \A k \in Keys \ {key} : sends'[k] = sends[k]
    <2>1. \A k \in Keys \ {key} : sends'[k] = sends[k]
        BY <1>9
    <2>2. DOMAIN sends' = Keys /\ sends' = [k \in Keys |-> sends'[k]]
        BY <1>9
    <2>3. \A k \in Keys : sends'[k] \in 0..2
        BY <2>1, <1>9, <1>10
    <2> QED BY <2>1, <2>2, <2>3
<1>12. guarded' \subseteq guarded /\ \A k \in Keys \ {key} : k \in guarded' <=> k \in guarded
    BY <1>9
<1>13. PipelineTypeOK'
    BY <1>2, <1>5, <1>7, <1>11, <1>12 DEF PipelineInv, PipelineTypeOK, EngineInv
<1>14. ASSUME NEW k \in Keys
      PROVE  /\ sends'[k] <= 1
             /\ k \notin guarded' => sends'[k] = 0
             /\ k \in guarded' =>
                   /\ redis' /\ k \in marks'
                   /\ \A u, v \in Workers : Sending(u, k)' /\ Sending(v, k)' => u = v
                   /\ \A v \in Workers : Sending(v, k)' => sends'[k] = 0
    <2>1. \A v \in Workers : Sending(v, k)' => v # w /\ Sending(v, k)
        BY <1>7, <1>8
    <2>2. CASE k = key
        <3>1. k \in guarded' => \A v \in Workers : ~Sending(v, k)'
            BY <2>1, <2>2, <1>8, <1>12 DEF PipelineInv, GuardsHold
        <3> QED BY <2>2, <3>1, <1>2, <1>10, <1>12 DEF PipelineInv, GuardsHold
    <2>3. CASE k # key
        BY <2>1, <2>3, <1>2, <1>11, <1>12 DEF PipelineInv, GuardsHold
    <2> QED BY <2>2, <2>3
<1>15. GuardsHold'
    BY <1>14 DEF GuardsHold
<1> QED BY <1>7, <1>13, <1>15 DEF PipelineInv

\* A worker that has ended its transaction has no lock and sends nothing.
LEMMA TransactionEnds ==
    ASSUME PipelineInv, NEW w \in Workers, Release(w), UNCHANGED signalVars,
           UNCHANGED <<redis, marks, sends, guarded>>,
           workers' = [workers EXCEPT ![w] = workers'[w]],
           workers'[w] \in WorkerStates, workers'[w].pc \in {"idle", "offer"},
           workers'[w].pc = "offer" => workers'[w].queue # {},
           \A row \in workers'[w].queue : row.key # NoKey
    PROVE  /\ workers' \in [Workers -> WorkerStates]
           /\ EngineInv'
           /\ locks' \subseteq Workers \X SignalRows
           /\ \A v \in Workers : WorkerIsSound(v)'
           /\ LocksHold'
           /\ GuardsHold'
<1>1. workers \in [Workers -> WorkerStates]
    BY WorkerFields DEF PipelineInv
<1>2. workers' \in [Workers -> WorkerStates] /\ \A v \in Workers \ {w} : workers'[v] = workers[v]
    BY <1>1
<1>3. EngineInv'
    BY EngineUntouched DEF PipelineInv
<1>4. locks' \subseteq locks /\ \A lock \in locks : lock[1] # w => lock \in locks'
    BY DEF Release
<1>5. locks' \subseteq Workers \X SignalRows
    BY <1>4 DEF PipelineInv, PipelineTypeOK
<1>6. WorkerIsSound(w)'
    BY DEF WorkerIsSound
<1>7. \A v \in Workers : WorkerIsSound(v)'
    BY <1>2, <1>4, <1>6, OthersSound DEF PipelineInv
<1>8. LocksHold'
    BY <1>4, LocksKept DEF PipelineInv
<1>9. \A k \in Keys : ~Sending(w, k)'
    BY DEF Sending
<1>10. GuardsHold'
    BY <1>2, <1>9, OtherWorkers, GuardsKept DEF PipelineInv
<1> QED BY <1>2, <1>3, <1>5, <1>7, <1>8, <1>10

\* The deliveries of a candidate are committed.
LEMMA CommitDeliveryKeeps ==
    ASSUME PipelineInv, NEW w \in Workers, CommitDelivery(w)
    PROVE  PipelineInv'
<1> DEFINE rest == workers[w].queue \ {Current(w)}
<1>1. /\ workers[w].pc = "commit"
      /\ recent' = [recent EXCEPT ![Key(w)] = UpToTwo(recent[Key(w)] + workers[w].own)]
      /\ workers' = [workers EXCEPT ![w] =
                        IF rest = {} THEN AtRest
                        ELSE [AtRest EXCEPT !.pc = "offer", !.queue = rest]]
      /\ Release(w)
      /\ UNCHANGED <<signalVars, redis, marks, preferences, mishaps, sends, guarded, answered>>
    BY DEF CommitDelivery
<1>2. rest \in SUBSET SignalRows /\ \A row \in rest : row.key # NoKey
    BY WorkerFields DEF PipelineInv, WorkerIsSound
<1> HIDE DEF rest
<1>3. workers \in [Workers -> WorkerStates]
    BY WorkerFields DEF PipelineInv
<1>4. /\ workers' = [workers EXCEPT ![w] = workers'[w]]
      /\ workers'[w] \in WorkerStates /\ workers'[w].pc \in {"idle", "offer"}
      /\ workers'[w].pc = "offer" => workers'[w].queue # {}
      /\ \A row \in workers'[w].queue : row.key # NoKey
    <2>1. CASE rest = {}
        <3>1. workers' = [workers EXCEPT ![w] = AtRest]
            BY <1>1, <2>1
        <3>2. workers'[w] = AtRest
            BY <3>1, <1>3
        <3> QED BY <3>1, <3>2, AtRestFields
    <2>2. CASE rest # {}
        <3> DEFINE next == [AtRest EXCEPT !.pc = "offer", !.queue = rest]
        <3>1. workers' = [workers EXCEPT ![w] = next]
            BY <1>1, <2>2
        <3>2. next \in WorkerStates /\ next.pc = "offer" /\ next.queue = rest
            BY <1>2, OfferingFields
        <3> HIDE DEF next
        <3>3. workers'[w] = next
            BY <3>1, <1>3
        <3> QED BY <3>1, <3>2, <3>3, <1>2, <2>2
    <2> QED BY <2>1, <2>2
<1>5. /\ workers' \in [Workers -> WorkerStates]
      /\ EngineInv'
      /\ locks' \subseteq Workers \X SignalRows
      /\ \A v \in Workers : WorkerIsSound(v)'
      /\ LocksHold'
      /\ GuardsHold'
    BY <1>1, <1>4, TransactionEnds
<1>6. recent' \in [Keys -> 0..2]
    <2>1. Key(w) \in Keys
        BY <1>1, CandidateInHand DEF PipelineInv
    <2>2. recent[Key(w)] \in 0..2 /\ workers[w].own \in 0..2
        BY <2>1, WorkerFields DEF PipelineInv, PipelineTypeOK
    <2>3. recent[Key(w)] + workers[w].own \in Nat
        BY <2>2
    <2>4. UpToTwo(recent[Key(w)] + workers[w].own) \in 0..2
        BY <2>3, TwoIsEnough
    <2> QED BY <1>1, <2>4 DEF PipelineInv, PipelineTypeOK
<1>7. PipelineTypeOK'
    BY <1>1, <1>5, <1>6 DEF PipelineInv, PipelineTypeOK, EngineInv
<1> QED BY <1>5, <1>7 DEF PipelineInv

\* The transaction is rolled back.
LEMMA StartOverKeeps ==
    ASSUME PipelineInv, NEW w \in Workers, Raise(w) \/ CrashWorker(w)
    PROVE  PipelineInv'
<1>1. /\ workers' = [workers EXCEPT ![w] = AtRest]
      /\ Release(w)
      /\ UNCHANGED <<signalVars, redis, marks, recent, preferences, sends, guarded, answered>>
    BY DEF Raise, CrashWorker, StartOver
<1>2. mishaps' \in 0..MaxMishaps
    BY EndpointsAssumption DEF Raise, CrashWorker, PipelineInv, PipelineTypeOK
<1>3. workers'[w] = AtRest
    BY <1>1, WorkerFields DEF PipelineInv
<1>4. /\ workers' = [workers EXCEPT ![w] = workers'[w]]
      /\ workers'[w] \in WorkerStates /\ workers'[w].pc \in {"idle", "offer"}
      /\ workers'[w].pc = "offer" => workers'[w].queue # {}
      /\ \A row \in workers'[w].queue : row.key # NoKey
    BY <1>1, <1>3, AtRestFields
<1>5. /\ workers' \in [Workers -> WorkerStates]
      /\ EngineInv'
      /\ locks' \subseteq Workers \X SignalRows
      /\ \A v \in Workers : WorkerIsSound(v)'
      /\ LocksHold'
      /\ GuardsHold'
    BY <1>1, <1>4, TransactionEnds
<1>6. PipelineTypeOK'
    BY <1>1, <1>2, <1>5 DEF PipelineInv, PipelineTypeOK, EngineInv
<1> QED BY <1>5, <1>6 DEF PipelineInv

\* Redis, the clock and the user do nothing to a transaction.
LEMMA SurroundingsKeep ==
    ASSUME PipelineInv, Aging \/ RedisFails \/ RedisReturns \/ SavePreferences \/ SaveTwice
    PROVE  PipelineInv'
<1>1. UNCHANGED <<signalVars, locks, workers, answered>>
    BY DEF Aging, ExpireMark, AgeRow, RedisFails, RedisReturns, SavePreferences, SaveTwice
<1>2. EngineInv'
    BY <1>1, EngineUntouched DEF PipelineInv
<1>3. \A v \in Workers : WorkerIsSound(v)'
    BY <1>1 DEF PipelineInv, WorkerIsSound, Current
<1>4. LocksHold'
    BY <1>1, LocksKept DEF PipelineInv
<1>5. \A v \in Workers, k \in Keys : Sending(v, k)' <=> Sending(v, k)
    BY <1>1 DEF Sending, Key, Current
<1>6. PipelineTypeOK /\ GuardsHold
    BY DEF PipelineInv
<1>7. PipelineTypeOK' /\ GuardsHold'
    <2>1. CASE \E k \in Keys : ExpireMark(k)
        <3>1. PICK key \in Keys : ExpireMark(key)
            BY <2>1
        <3>2. /\ marks' = marks \ {key} /\ guarded' = guarded \ {key}
              /\ sends' = [sends EXCEPT ![key] = 0]
              /\ UNCHANGED <<redis, recent, preferences, mishaps>>
            BY <3>1 DEF ExpireMark
        <3>3. sends' \in [Keys -> 0..2] /\ sends'[key] = 0
              /\ \A k \in Keys \ {key} : sends'[k] = sends[k]
            BY <3>2, <1>6 DEF PipelineTypeOK
        <3>4. PipelineTypeOK'
            BY <3>2, <3>3, <1>1, <1>2, <1>6 DEF PipelineTypeOK, EngineInv
        <3>5. ASSUME NEW k \in Keys
              PROVE  /\ sends'[k] <= 1
                     /\ k \notin guarded' => sends'[k] = 0
                     /\ k \in guarded' =>
                           /\ redis' /\ k \in marks'
                           /\ \A u, v \in Workers : Sending(u, k)' /\ Sending(v, k)' => u = v
                           /\ \A v \in Workers : Sending(v, k)' => sends'[k] = 0
            <4>1. CASE k = key
                BY <4>1, <3>2, <3>3
            <4>2. CASE k # key
                BY <4>2, <3>2, <3>3, <1>5, <1>6 DEF GuardsHold
            <4> QED BY <4>1, <4>2
        <3> QED BY <3>4, <3>5 DEF GuardsHold
    <2>2. CASE \E k \in Keys : AgeRow(k)
        <3>1. PICK key \in Keys : AgeRow(key)
            BY <2>2
        <3>2. recent[key] \in 0..2 /\ recent[key] > 0
            BY <3>1, <1>6 DEF AgeRow, PipelineTypeOK
        <3>3. recent' = [recent EXCEPT ![key] = recent[key] - 1]
              /\ UNCHANGED <<redis, marks, preferences, mishaps, sends, guarded>>
            BY <3>1 DEF AgeRow
        <3>4. recent' \in [Keys -> 0..2]
            BY <3>2, <3>3, <1>6 DEF PipelineTypeOK
        <3>5. PipelineTypeOK'
            BY <3>3, <3>4, <1>1, <1>2, <1>6 DEF PipelineTypeOK, EngineInv
        <3> QED BY <3>3, <3>5, <1>5, <1>6, GuardsKept
    <2>3. CASE RedisFails
        <3>1. /\ redis' = FALSE /\ guarded' = {} /\ sends' = [k \in Keys |-> 0]
              /\ marks' \in {marks, {}} /\ UNCHANGED <<recent, preferences>>
            BY <2>3 DEF RedisFails
        <3>2. mishaps' \in 0..MaxMishaps
            BY <2>3, <1>6, EndpointsAssumption DEF RedisFails, PipelineTypeOK
        <3>3. guarded' \subseteq Keys /\ marks' \subseteq Keys
            BY <3>1, <1>6 DEF PipelineTypeOK
        <3>6. redis' \in BOOLEAN
            BY <3>1
        <3>7. sends' \in [Keys -> 0..2]
            BY <3>1
        <3>4. PipelineTypeOK'
            BY <3>1, <3>2, <3>3, <3>6, <3>7, <1>1, <1>2, <1>6 DEF PipelineTypeOK, EngineInv
        <3>5. \A k \in Keys : sends'[k] = 0 /\ k \notin guarded'
            BY <3>1
        <3> QED BY <3>4, <3>5 DEF GuardsHold
    <2>4. CASE RedisReturns
        <3>1. ~redis /\ redis' = TRUE
              /\ UNCHANGED <<marks, recent, preferences, mishaps, sends, guarded>>
            BY <2>4 DEF RedisReturns
        <3>2. PipelineTypeOK'
            BY <3>1, <1>1, <1>2, <1>6 DEF PipelineTypeOK, EngineInv
        <3>3. \A k \in Keys : k \notin guarded'
            BY <3>1, <1>6 DEF GuardsHold
        <3> QED BY <3>1, <3>2, <3>3, <1>6 DEF GuardsHold
    <2>5. CASE SavePreferences \/ SaveTwice
        <3>1. /\ preferences' \in PreferenceStates
              /\ UNCHANGED <<redis, marks, recent, sends, guarded>>
            BY <2>5 DEF SavePreferences, SaveTwice, PreferenceStates
        <3>2. mishaps' \in 0..MaxMishaps
            BY <2>5, <1>6, EndpointsAssumption DEF SavePreferences, SaveTwice, PipelineTypeOK
        <3>3. PipelineTypeOK'
            BY <3>1, <3>2, <1>1, <1>2, <1>6 DEF PipelineTypeOK, EngineInv
        <3> QED BY <3>1, <3>3, <1>5, <1>6, GuardsKept
    <2> QED BY <2>1, <2>2, <2>3, <2>4, <2>5 DEF Aging
<1> QED BY <1>2, <1>3, <1>4, <1>7 DEF PipelineInv

-----------------------------------------------------------------------------
\* An empty database has no runs and no signals.
LEMMA InitEngineInv == SignalInit => EngineInv
<1> SUFFICES ASSUME SignalInit PROVE EngineInv
    OBVIOUS
<1>1. SignalTypeOK
    <2>1. started \in 0..MaxEngineRuns /\ overlapped = FALSE
        BY RunsAssumption DEF SignalInit
    <2> QED BY <2>1, NoEngineFields DEF SignalInit, SignalTypeOK
<1>2. \A e \in Engines : engines[e] = NoEngine
    BY DEF SignalInit
<1>3. \A e \in Engines : RunIsSound(e)
    BY <1>2, NoEngineFields, FS_EmptySet DEF RunIsSound, Engaged
<1>4. RunsAreNumbered
    BY <1>2, NoEngineFields DEF SignalInit, RunsAreNumbered, Engaged
<1>5. AloneInOrder
    BY <1>2, NoEngineFields DEF SignalInit, AloneInOrder, Engaged
<1> QED BY <1>1, <1>3, <1>4, <1>5, FS_EmptySet DEF EngineInv, SignalInit

\* It holds of an empty database, idle workers and an empty Redis.
LEMMA InitPipelineInv == PipelineInit => PipelineInv
<1> SUFFICES ASSUME PipelineInit PROVE PipelineInv
    OBVIOUS
<1>1. SignalInit
    BY DEF PipelineInit
<1>2. EngineInv
    BY <1>1, InitEngineInv
<1>3. PipelineTypeOK
    BY <1>1, <1>2, AtRestFields, EndpointsAssumption
       DEF PipelineInit, PipelineTypeOK, SignalInit, EngineInv, PreferenceStates
<1>4. \A w \in Workers : WorkerIsSound(w)
    BY AtRestFields DEF PipelineInit, WorkerIsSound
<1>5. LocksHold
    BY <1>1 DEF SignalInit, LocksHold
<1>6. GuardsHold
    BY DEF PipelineInit, GuardsHold
<1> QED BY <1>2, <1>3, <1>4, <1>5, <1>6 DEF PipelineInv

\* Nothing changes: nothing changes.
LEMMA PipelineStutters ==
    ASSUME PipelineInv, UNCHANGED pipelineVars
    PROVE  PipelineInv'
<1>1. UNCHANGED <<signalVars, locks, workers, redis, marks, recent, preferences, mishaps, sends,
                  guarded, answered>>
    BY DEF pipelineVars, signalVars
<1>2. EngineInv'
    BY <1>1, EngineUntouched DEF PipelineInv
<1>3. PipelineTypeOK'
    BY <1>1, <1>2 DEF PipelineInv, PipelineTypeOK, EngineInv
<1>4. \A v \in Workers : WorkerIsSound(v)'
    BY <1>1 DEF PipelineInv, WorkerIsSound, Current
<1>5. LocksHold'
    BY <1>1, LocksKept DEF PipelineInv
<1>6. \A v \in Workers, k \in Keys : Sending(v, k)' <=> Sending(v, k)
    BY <1>1 DEF Sending, Key, Current
<1>7. GuardsHold'
    BY <1>1, <1>6, GuardsKept DEF PipelineInv
<1> QED BY <1>2, <1>3, <1>4, <1>5, <1>7 DEF PipelineInv

\* Every step keeps it.
LEMMA StepPipelineInv == PipelineInv /\ [PipelineNext]_pipelineVars => PipelineInv'
BY SignalNextKeeps, PollKeeps, SuppressKeeps, MarkKeeps, GoUnmarkedKeeps, SendKeeps,
   CommitDeliveryKeeps, StartOverKeeps, SurroundingsKeep, PipelineStutters
   DEF PipelineNext, WorkerStep, Offer

\* The inductive invariant of the engine and the notifier together: what a run has
\* replaced, what a delivery refers to, and what a mark guards.
THEOREM PipelineInvariance == PipelineSpec => []PipelineInv
BY InitPipelineInv, StepPipelineInv, PTL DEF PipelineSpec

\* Every variable of the engine and of the notifier holds values of its kind.
THEOREM PipelineTypes == PipelineSpec => []PipelineTypeOK
<1>1. PipelineInv => PipelineTypeOK
    BY DEF PipelineInv
<1> QED BY <1>1, PipelineInvariance, PTL

\* What the invariant says of the number of signals.
LEMMA OneEach == EngineInv => OneSignalPerMarket
<1> SUFFICES ASSUME EngineInv, ~overlapped, NEW t \in Tickers
             PROVE  Cardinality(SignalsOf(t)) <= 1
    BY DEF OneSignalPerMarket
<1>1. IsFiniteSet(SignalsOf(t))
    BY FS_Subset DEF EngineInv, SignalsOf
<1>2. \A a, b \in SignalsOf(t) : a = b
    BY DEF EngineInv, AloneInOrder, SignalsOf
<1> QED BY <1>1, <1>2, OneAtMost

\* Runs that do not overlap leave a market one signal (repository.py: replace_signal
\* deletes the row it finds and inserts one).
THEOREM OneSignalEach == PipelineSpec => []OneSignalPerMarket
<1>1. PipelineInv => OneSignalPerMarket
    BY OneEach DEF PipelineInv
<1> QED BY <1>1, PipelineInvariance, PTL

\* Two signals of a market stay two or more (scalar_one_or_none raises on them).
THEOREM DuplicatesAreForGood == PipelineSpec => DuplicatesStay
<1>1. PipelineInv /\ PipelineInv' /\ [PipelineNext]_pipelineVars =>
        [\A t \in Tickers :
            Cardinality(SignalsOf(t)) >= 2 =>
                Cardinality({row \in signals' : row.ticker = t}) >= 2]_signals
    <2> SUFFICES ASSUME PipelineInv, PipelineInv', PipelineNext, signals' # signals,
                        NEW t \in Tickers, Cardinality(SignalsOf(t)) >= 2
                 PROVE  Cardinality({row \in signals' : row.ticker = t}) >= 2
        BY DEF pipelineVars
    <2>1. SignalNext
        BY DEF PipelineNext, WorkerStep, Poll, Offer, SuppressByPolicy, SuppressDuplicate, Mark,
               GoUnmarked, Send, CommitDelivery, Raise, CrashWorker, Aging, ExpireMark, AgeRow,
               RedisFails, RedisReturns, SavePreferences, SaveTwice, signalVars
    <2> QED BY <2>1, TwoStayTwo DEF PipelineInv
<1> QED BY <1>1, PipelineInvariance, PTL DEF PipelineSpec, DuplicatesStay

\* What the invariant says of the sends.
LEMMA PipelinePromises == PipelineInv => SendsAreCurrent /\ AtMostOncePerWindow
<1>1. PipelineInv => SendsAreCurrent
    <2> SUFFICES ASSUME PipelineInv, NEW w \in Workers, workers[w].pc \in {"send", "commit"}
                 PROVE  Current(w) \in signals
        BY DEF SendsAreCurrent
    <2>1. <<w, Current(w)>> \in locks
        BY DEF PipelineInv, WorkerIsSound
    <2> QED BY <2>1 DEF PipelineInv, LocksHold
<1>2. PipelineInv => AtMostOncePerWindow
    BY DEF PipelineInv, GuardsHold, AtMostOncePerWindow
<1> QED BY <1>1, <1>2

\* The provider is called for a signal that stands: a delivery that refers to it keeps
\* a run from deleting it (models.py: the foreign key signal_id).
THEOREM SendsStayCurrent == PipelineSpec => []SendsAreCurrent
BY PipelinePromises, PipelineInvariance, PTL

\* A guarded key arrives once (dedupe.py: SET NX before the delivery).
THEOREM SentAtMostOnce == PipelineSpec => []AtMostOncePerWindow
BY PipelinePromises, PipelineInvariance, PTL

-----------------------------------------------------------------------------
(* What overlapping runs keep of the signals. *)

\* Rows of a market are told apart by the runs that wrote them.
RowsAreNamed ==
    \A row, other \in signals : row.ticker = other.ticker /\ row.run = other.run => row = other

\* A run that commits takes one row of a market at most, and only in exchange for one
\* of its own; it adds no second one.
SignalsOnlyExchanged ==
    [][\A t \in Tickers :
          LET after == {row \in signals' : row.ticker = t}
          IN  /\ Cardinality(after) >= Cardinality(SignalsOf(t))
              /\ Cardinality(after) <= Cardinality(SignalsOf(t)) + 1]_signals

\* A market has no more signals than there were runs.
SignalsBounded == \A t \in Tickers : Cardinality(SignalsOf(t)) <= started

\* Only a commit changes the signals, and it leaves what it has written and what it
\* has not deleted.
LEMMA OnlyCommitsReplace ==
    ASSUME EngineInv, SignalNext, signals' # signals
    PROVE  \E deleted, inserted \in SUBSET SignalRows :
              /\ signals' = (signals \ deleted) \cup inserted
              /\ \A row, other \in deleted : row.ticker = other.ticker => row = other
              /\ \A row \in deleted : \E new \in inserted : new.ticker = row.ticker
              /\ \A row, other \in inserted : row.ticker = other.ticker => row = other
              /\ \A row, new \in inserted : row.run = new.run
              /\ \A row \in signals, new \in inserted : row.run # new.run
<1>1. PICK e \in Engines : CommitEngine(e)
    BY DEF SignalNext, EngineStep, BeginEngine, FindSignal, ReplaceSignal, FailEngine, ListMarket
<1>2. Engaged(e) /\ signals' = (signals \ engines[e].deleted) \cup engines[e].inserted
    BY <1>1 DEF CommitEngine, Engaged
<1>3. engines[e].deleted \in SUBSET SignalRows /\ engines[e].inserted \in SUBSET SignalRows
    BY EngineFields DEF EngineInv
<1>4. RunIsSound(e)
    BY DEF EngineInv
<1>5. \A row \in engines[e].inserted : row.run = engines[e].run
    BY <1>4 DEF RunIsSound
<1>6. \A row \in signals, new \in engines[e].inserted : row.run # new.run
    BY <1>2, <1>5 DEF EngineInv, RunsAreNumbered
<1> DEFINE d == engines[e].deleted
           i == engines[e].inserted
<1>7. /\ \A row, other \in d : row.ticker = other.ticker => row = other
      /\ \A row \in d : \E new \in i : new.ticker = row.ticker
      /\ \A row, other \in i : row.ticker = other.ticker => row = other
      /\ \A row, new \in i : row.run = new.run
    BY <1>4, <1>5 DEF RunIsSound
<1>8. d \in SUBSET SignalRows /\ i \in SUBSET SignalRows /\ signals' = (signals \ d) \cup i
    BY <1>2, <1>3
<1>9. \A row \in signals, new \in i : row.run # new.run
    BY <1>6
<1> HIDE DEF d, i
<1> QED BY <1>7, <1>8, <1>9

\* The names stay unique.
LEMMA NamesKept ==
    ASSUME EngineInv, RowsAreNamed, SignalNext
    PROVE  RowsAreNamed'
<1>1. CASE signals' = signals
    BY <1>1 DEF RowsAreNamed
<1>2. CASE signals' # signals
    BY <1>2, OnlyCommitsReplace DEF RowsAreNamed
<1> QED BY <1>1, <1>2

\* One row for another, or one more.
LEMMA OneForOne ==
    ASSUME EngineInv, EngineInv', SignalNext, signals' # signals, NEW t \in Tickers
    PROVE  LET after == {row \in signals' : row.ticker = t}
           IN  /\ Cardinality(after) >= Cardinality(SignalsOf(t))
               /\ Cardinality(after) <= Cardinality(SignalsOf(t)) + 1
<1> DEFINE before == SignalsOf(t)
           after == {row \in signals' : row.ticker = t}
<1>1. IsFiniteSet(before) /\ IsFiniteSet(after)
    BY FS_Subset DEF EngineInv, SignalsOf
<1>2. PICK deleted, inserted \in SUBSET SignalRows :
              /\ signals' = (signals \ deleted) \cup inserted
              /\ \A row, other \in deleted : row.ticker = other.ticker => row = other
              /\ \A row \in deleted : \E new \in inserted : new.ticker = row.ticker
              /\ \A row, other \in inserted : row.ticker = other.ticker => row = other
              /\ \A row \in signals, new \in inserted : row.run # new.run
    BY OnlyCommitsReplace
<1> DEFINE kept == {row \in before : row \notin deleted}
           new == {row \in inserted : row.ticker = t}
           gone == {row \in before : row \in deleted}
<1>3. /\ after = kept \cup new /\ kept \cap new = {}
      /\ before = kept \cup gone /\ kept \cap gone = {}
    BY <1>2 DEF SignalsOf
<1>4. IsFiniteSet(kept) /\ IsFiniteSet(gone) /\ IsFiniteSet(new)
    BY <1>1, <1>3, FS_Subset
<1>5. /\ \A x, y \in gone : x = y
      /\ \A x, y \in new : x = y
      /\ gone # {} => new # {}
    BY <1>2 DEF SignalsOf
<1> HIDE DEF kept, new, gone, before, after
<1>6. /\ Cardinality(gone) \in Nat /\ Cardinality(gone) <= 1
      /\ Cardinality(new) \in Nat /\ Cardinality(new) <= 1
      /\ Cardinality(kept) \in Nat
    BY <1>4, <1>5, OneAtMost
<1>7. Cardinality(gone) <= Cardinality(new)
    <2>1. CASE gone = {}
        BY <2>1, <1>6, FS_EmptySet
    <2>2. CASE gone # {}
        BY <2>2, <1>4, <1>5, <1>6, FS_EmptySet
    <2> QED BY <2>1, <2>2
<1>8. /\ Cardinality(after) = Cardinality(kept) + Cardinality(new)
      /\ Cardinality(before) = Cardinality(kept) + Cardinality(gone)
    <2>1. Cardinality(kept \cup new) = Cardinality(kept) + Cardinality(new) - Cardinality(kept \cap new)
        BY <1>4, FS_Union
    <2>2. Cardinality(kept \cup gone) = Cardinality(kept) + Cardinality(gone) - Cardinality(kept \cap gone)
        BY <1>4, FS_Union
    <2>3. Cardinality({}) = 0
        BY FS_EmptySet
    <2>4. /\ Cardinality(after) = Cardinality(kept) + Cardinality(new) - 0
          /\ Cardinality(before) = Cardinality(kept) + Cardinality(gone) - 0
        BY <2>1, <2>2, <2>3, <1>3, Zenon
    <2> QED BY <2>4, <1>6
<1>9. /\ Cardinality(after) >= Cardinality(before)
      /\ Cardinality(after) <= Cardinality(before) + 1
    BY <1>6, <1>7, <1>8
<1> QED BY <1>9 DEF before, after

\* The runs that wrote them bound the rows of a market.
LEMMA NamesBound ==
    ASSUME EngineInv, RowsAreNamed, NEW t \in Tickers
    PROVE  Cardinality(SignalsOf(t)) <= started
<1> DEFINE S == SignalsOf(t)
           f == [row \in S |-> row.run]
<1>1. IsFiniteSet(S)
    BY FS_Subset DEF EngineInv, SignalsOf
<1>2. started \in Nat
    BY RunsAssumption DEF EngineInv, SignalTypeOK
<1>3. f \in Injection(S, 1..started)
    <2>1. \A row \in S : row.run \in 1..started
        BY <1>2, RunsAssumption DEF EngineInv, SignalTypeOK, SignalRows, RunsAreNumbered, SignalsOf
    <2>2. \A row, other \in S : f[row] = f[other] => row = other
        BY DEF RowsAreNamed, SignalsOf
    <2> QED BY <2>1, <2>2 DEF Injection, IsInjective
<1>4. IsFiniteSet(1..started) /\ Cardinality(1..started) = started
    BY <1>2, FS_Interval
<1>5. Cardinality(S) <= Cardinality(1..started)
    BY <1>3, <1>4, FS_Injection
<1> QED BY <1>4, <1>5

\* A step of the pipeline changes the signals by a step of the engine only.
LEMMA PipelineReplaces ==
    ASSUME [PipelineNext]_pipelineVars
    PROVE  SignalNext \/ UNCHANGED signalVars
BY DEF PipelineNext, WorkerStep, Poll, Offer, SuppressByPolicy, SuppressDuplicate, Mark,
       GoUnmarked, Send, CommitDelivery, Raise, CrashWorker, Aging, ExpireMark, AgeRow,
       RedisFails, RedisReturns, SavePreferences, SaveTwice, signalVars, pipelineVars

\* However many runs overlap, fail or delete what others have inserted, no market loses
\* a signal without getting one, a commit gives it one more at most (so a market that
\* had a signal never is without), and it has no more of them than there were runs.
THEOREM OverlapsOnlyAdd == PipelineSpec => SignalsOnlyExchanged /\ []SignalsBounded
<1>1. PipelineInit => RowsAreNamed
    BY DEF PipelineInit, SignalInit, RowsAreNamed
<1>2. PipelineInv /\ RowsAreNamed /\ [PipelineNext]_pipelineVars => RowsAreNamed'
    <2> SUFFICES ASSUME PipelineInv, RowsAreNamed, [PipelineNext]_pipelineVars
                 PROVE  RowsAreNamed'
        OBVIOUS
    <2>1. CASE SignalNext
        BY <2>1, NamesKept DEF PipelineInv
    <2>2. CASE UNCHANGED signalVars
        BY <2>2 DEF signalVars, RowsAreNamed
    <2> QED BY <2>1, <2>2, PipelineReplaces
<1>3. PipelineInv /\ PipelineInv' /\ [PipelineNext]_pipelineVars =>
        [\A t \in Tickers :
            LET after == {row \in signals' : row.ticker = t}
            IN  /\ Cardinality(after) >= Cardinality(SignalsOf(t))
                /\ Cardinality(after) <= Cardinality(SignalsOf(t)) + 1]_signals
    <2> SUFFICES ASSUME PipelineInv, PipelineInv', [PipelineNext]_pipelineVars,
                        signals' # signals, NEW t \in Tickers
                 PROVE  LET after == {row \in signals' : row.ticker = t}
                        IN  /\ Cardinality(after) >= Cardinality(SignalsOf(t))
                            /\ Cardinality(after) <= Cardinality(SignalsOf(t)) + 1
        OBVIOUS
    <2>1. SignalNext
        BY PipelineReplaces DEF signalVars
    <2> QED BY <2>1, OneForOne DEF PipelineInv
<1>4. PipelineInv /\ RowsAreNamed => SignalsBounded
    BY NamesBound DEF PipelineInv, SignalsBounded
<1> QED BY <1>1, <1>2, <1>3, <1>4, PipelineInvariance, PTL DEF PipelineSpec, SignalsOnlyExchanged

-----------------------------------------------------------------------------
(* How a poll wears out. *)

\* The steps a worker may still take for the candidate in its hands, at most: an offer
\* and a send for each endpoint left, and the commit.
TriesLeft(worker) ==
    CASE worker.pc = "offer" -> 2 * (Endpoints - worker.endpoint) + 3
      [] worker.pc = "send" -> 2 * (Endpoints - worker.endpoint) + 2
      [] worker.pc = "commit" -> 1
      [] OTHER -> 0

\* A worker that is at a candidate stays with it and has fewer steps to take for it, or
\* has committed it and goes on to the others, or ends the poll.
PollGoesOn(w) ==
    workers'[w] # workers[w] /\ workers[w].pc # "idle" =>
        \/ workers'[w] = AtRest
        \/ /\ workers'[w].queue = workers[w].queue
           /\ TriesLeft(workers'[w]) < TriesLeft(workers[w])
        \/ /\ workers[w].pc = "commit" /\ Current(w) \in workers[w].queue
           /\ workers'[w].queue = workers[w].queue \ {Current(w)}

PollsGoOn == [][\A w \in Workers : PollGoesOn(w)]_pipelineVars

\* A candidate that is about to be committed was offered to the provider or kept back
\* by policy, or leaves a row in the window.
Answered(w) == Key(w) \in answered \/ workers[w].own > 0

NoneSkipped == \A w \in Workers : workers[w].pc = "commit" => Answered(w)

\* Its inductive form: so was it at the first endpoint, and at the last.
FirstAnswered ==
    \A w \in Workers :
        /\ workers[w].pc # "idle" /\ workers[w].endpoint > 1 => Answered(w)
        /\ workers[w].pc = "commit" => Answered(w)

TriesBounded == \A w \in Workers : TriesLeft(workers[w]) \in 0..(2 * Endpoints + 1)

\* What a worker has in hand has so many steps to take at most.
LEMMA TriesAreBounded ==
    ASSUME PipelineTypeOK, NEW w \in Workers
    PROVE  TriesLeft(workers[w]) \in 0..(2 * Endpoints + 1)
<1> DEFINE pc == workers[w].pc
           endpoint == workers[w].endpoint
<1>1. endpoint \in 1..Endpoints /\ Endpoints \in Nat
    BY WorkerFields
<1>2. \/ TriesLeft(workers[w]) = 2 * (Endpoints - endpoint) + 3
      \/ TriesLeft(workers[w]) = 2 * (Endpoints - endpoint) + 2
      \/ TriesLeft(workers[w]) = 1 /\ pc = "commit"
      \/ TriesLeft(workers[w]) = 0
    BY WorkerFields DEF TriesLeft
<1> HIDE DEF endpoint
<1> QED BY <1>1, <1>2

\* On to the next endpoint, or to the commit after the last.
LEMMA NextEndpointGoesOn ==
    ASSUME PipelineTypeOK, NEW w \in Workers, NEW own \in 0..2, NextEndpoint(w, own),
           workers[w].pc \in {"offer", "send"}
    PROVE  /\ PollGoesOn(w)
           /\ workers'[w].own = own /\ workers'[w].pc # "idle"
           /\ Key(w)' = Key(w)
           /\ \A v \in Workers \ {w} : workers'[v] = workers[v]
<1> DEFINE endpoint == workers[w].endpoint
           pc == IF endpoint < Endpoints THEN "offer" ELSE "commit"
           next == IF endpoint < Endpoints THEN endpoint + 1 ELSE endpoint
<1>1. endpoint \in 1..Endpoints /\ Endpoints \in Nat /\ next \in 1..Endpoints
    BY WorkerFields
<1>2. workers[w] \in WorkerStates /\ workers \in [Workers -> WorkerStates]
    BY DEF PipelineTypeOK
<1>3. workers' = [workers EXCEPT ![w].own = own, ![w].pc = pc, ![w].endpoint = next]
    BY DEF NextEndpoint
<1> HIDE DEF pc, next
<1>4. workers'[w] = [workers[w] EXCEPT !.own = own, !.pc = pc, !.endpoint = next]
    BY <1>2, <1>3
<1> HIDE DEF endpoint
<1>5. workers'[w].own = own /\ workers'[w].pc = pc /\ workers'[w].endpoint = next
    BY <1>2, <1>4 DEF WorkerStates
<1>6. /\ workers'[w].queue = workers[w].queue
      /\ \A v \in Workers \ {w} : workers'[v] = workers[v]
    BY NextEndpointFields
<1>7. \/ TriesLeft(workers[w]) = 2 * (Endpoints - endpoint) + 3
      \/ TriesLeft(workers[w]) = 2 * (Endpoints - endpoint) + 2
    BY DEF TriesLeft, endpoint
<1>8. CASE endpoint < Endpoints
    <2>1. pc = "offer" /\ next = endpoint + 1
        BY <1>8 DEF pc, next
    <2>2. TriesLeft(workers'[w]) = 2 * (Endpoints - (endpoint + 1)) + 3
        BY <1>5, <2>1 DEF TriesLeft
    <2>3. TriesLeft(workers'[w]) < TriesLeft(workers[w])
        BY <1>1, <1>7, <2>2
    <2> QED BY <1>5, <1>6, <2>1, <2>3, OtherWorkers DEF PollGoesOn
<1>9. CASE ~(endpoint < Endpoints)
    <2>1. pc = "commit"
        BY <1>9 DEF pc
    <2>2. TriesLeft(workers'[w]) = 1
        BY <1>5, <2>1 DEF TriesLeft
    <2>3. TriesLeft(workers'[w]) < TriesLeft(workers[w])
        BY <1>1, <1>7, <2>2
    <2> QED BY <1>5, <1>6, <2>1, <2>3, OtherWorkers DEF PollGoesOn
<1> QED BY <1>8, <1>9

\* An answer stays: of the others, which keep their rows and their keys.
LEMMA OthersAnswered ==
    ASSUME FirstAnswered, NEW w \in Workers, answered \subseteq answered',
           \A v \in Workers \ {w} : workers'[v] = workers[v],
           workers'[w].pc # "idle" /\ workers'[w].endpoint > 1 => Answered(w)',
           workers'[w].pc = "commit" => Answered(w)'
    PROVE  FirstAnswered'
<1>1. \A v \in Workers \ {w} : Answered(v) => Answered(v)'
    BY OtherWorkers DEF Answered
<1> QED BY <1>1 DEF FirstAnswered

\* One more than some of what is counted up to two is some.
LEMMA CountedIsSome == \A n \in 0..2 : UpToTwo(n + 1) \in 1..2
BY DEF UpToTwo

\* An endpoint is passed with an answer, of the provider or the policy, or with a row.
LEMMA PassedWithAnswer ==
    ASSUME PipelineInv, FirstAnswered, NEW w \in Workers,
           SuppressByPolicy(w) \/ SuppressDuplicate(w) \/ Send(w)
    PROVE  PollGoesOn(w) /\ FirstAnswered' /\ \A v \in Workers \ {w} : workers'[v] = workers[v]
<1>1. /\ workers[w].pc \in {"offer", "send"} /\ answered \subseteq answered'
      /\ \E own \in 0..2 : /\ NextEndpoint(w, own)
                           /\ Key(w) \in answered' \/ own > 0
    <2>1. workers[w].own \in 0..2 /\ UpToTwo(workers[w].own + 1) \in 1..2
        BY WorkerFields, CountedIsSome DEF PipelineInv
    <2>2. CASE SuppressByPolicy(w)
        BY <2>1, <2>2 DEF SuppressByPolicy, Flushes
    <2>3. CASE SuppressDuplicate(w)
        BY <2>1, <2>3 DEF SuppressDuplicate, Flushes
    <2>4. CASE Send(w)
        BY <2>1, <2>4 DEF Send
    <2> QED BY <2>2, <2>3, <2>4
<1>2. PICK own \in 0..2 : NextEndpoint(w, own) /\ (Key(w) \in answered' \/ own > 0)
    BY <1>1
<1>3. /\ PollGoesOn(w)
      /\ workers'[w].own = own /\ Key(w)' = Key(w)
      /\ \A v \in Workers \ {w} : workers'[v] = workers[v]
    BY <1>1, <1>2, NextEndpointGoesOn DEF PipelineInv
<1>4. Answered(w)'
    BY <1>2, <1>3 DEF Answered
<1> QED BY <1>1, <1>3, <1>4, OthersAnswered

\* A worker turns to sending, for the endpoint it is at.
LEMMA TurnsWithAnswer ==
    ASSUME PipelineInv, FirstAnswered, NEW w \in Workers, Mark(w) \/ GoUnmarked(w)
    PROVE  PollGoesOn(w) /\ FirstAnswered' /\ \A v \in Workers \ {w} : workers'[v] = workers[v]
<1>1. /\ workers[w].pc = "offer" /\ answered' = answered
      /\ workers' = [workers EXCEPT ![w].pc = "send"]
    BY DEF Mark, GoUnmarked, Flushes
<1>2. workers[w] \in WorkerStates /\ workers \in [Workers -> WorkerStates]
    BY DEF PipelineInv, PipelineTypeOK
<1>3. /\ workers'[w] = [workers[w] EXCEPT !.pc = "send"]
      /\ \A v \in Workers \ {w} : workers'[v] = workers[v]
    BY <1>1, <1>2
<1>4. /\ workers'[w].pc = "send" /\ workers'[w].queue = workers[w].queue
      /\ workers'[w].endpoint = workers[w].endpoint /\ workers'[w].own = workers[w].own
    BY <1>2, <1>3 DEF WorkerStates
<1>5. Key(w)' = Key(w)
    BY <1>3, <1>4, OtherWorkers
<1> DEFINE endpoint == workers[w].endpoint
<1>6. /\ TriesLeft(workers[w]) = 2 * (Endpoints - endpoint) + 3
      /\ TriesLeft(workers'[w]) = 2 * (Endpoints - endpoint) + 2
    BY <1>1, <1>4 DEF TriesLeft
<1>7. endpoint \in 1..Endpoints /\ Endpoints \in Nat
    BY WorkerFields DEF PipelineInv
<1> HIDE DEF endpoint
<1>8. TriesLeft(workers'[w]) < TriesLeft(workers[w])
    BY <1>6, <1>7
<1>9. PollGoesOn(w)
    BY <1>4, <1>8 DEF PollGoesOn
<1>10. workers'[w].endpoint > 1 => Answered(w)'
    BY <1>1, <1>4, <1>5 DEF FirstAnswered, Answered
<1> QED BY <1>1, <1>3, <1>4, <1>9, <1>10, OthersAnswered

\* A worker begins with some candidates, goes on to those that are left, or rests.
LEMMA TakesUpAfresh ==
    ASSUME PipelineInv, FirstAnswered, NEW w \in Workers,
           Poll(w) \/ CommitDelivery(w) \/ Raise(w) \/ CrashWorker(w)
    PROVE  PollGoesOn(w) /\ FirstAnswered' /\ \A v \in Workers \ {w} : workers'[v] = workers[v]
<1>1. workers \in [Workers -> WorkerStates] /\ answered' = answered
    BY DEF PipelineInv, PipelineTypeOK, Poll, CommitDelivery, Raise, CrashWorker
<1> DEFINE rest == workers[w].queue \ {Current(w)}
           taking(S) == [AtRest EXCEPT !.pc = "offer", !.queue = S]
<1>2. \/ workers' = [workers EXCEPT ![w] = AtRest]
      \/ workers[w].pc = "commit" /\ workers' = [workers EXCEPT ![w] = taking(rest)]
      \/ workers[w].pc = "idle" /\ \E S : workers' = [workers EXCEPT ![w] = taking(S)]
    BY DEF Poll, CommitDelivery, Raise, CrashWorker, StartOver
<1>3. /\ AtRest.endpoint = 1 /\ AtRest.pc = "idle"
      /\ \A S : taking(S).endpoint = 1 /\ taking(S).pc = "offer" /\ taking(S).queue = S
    BY DEF AtRest
<1> HIDE DEF taking, rest
<1>4. \A v \in Workers \ {w} : workers'[v] = workers[v]
    BY <1>1, <1>2
<1>5. \/ workers'[w] = AtRest
      \/ workers[w].pc = "commit" /\ workers'[w] = taking(rest)
      \/ workers[w].pc = "idle" /\ \E S : workers'[w] = taking(S)
    BY <1>1, <1>2
<1>6. PollGoesOn(w)
    <2>1. workers[w].pc = "commit" => Current(w) \in workers[w].queue
        BY CandidateInHand DEF PipelineInv
    <2> QED BY <1>3, <1>5, <2>1 DEF PollGoesOn, rest
<1>7. workers'[w].endpoint = 1 /\ workers'[w].pc # "commit"
    BY <1>3, <1>5
<1> QED BY <1>1, <1>4, <1>6, <1>7, OthersAnswered

\* Whoever steps, the polls go on and nothing is passed over.
LEMMA PollsStep ==
    ASSUME PipelineInv, FirstAnswered, [PipelineNext]_pipelineVars
    PROVE  (\A v \in Workers : PollGoesOn(v)) /\ FirstAnswered'
<1>1. ASSUME NEW w \in Workers, WorkerStep(w) \/ CrashWorker(w)
      PROVE  (\A v \in Workers : PollGoesOn(v)) /\ FirstAnswered'
    <2>1. PollGoesOn(w) /\ FirstAnswered' /\ \A v \in Workers \ {w} : workers'[v] = workers[v]
        BY <1>1, PassedWithAnswer, TurnsWithAnswer, TakesUpAfresh DEF WorkerStep, Offer
    <2> QED BY <2>1 DEF PollGoesOn
<1>2. CASE UNCHANGED <<workers, answered>>
    <2>1. \A w \in Workers : Current(w)' = Current(w)
        BY <1>2 DEF Current
    <2> QED BY <1>2, <2>1 DEF PollGoesOn, FirstAnswered, Answered, Key
<1>3. \/ \E w \in Workers : WorkerStep(w) \/ CrashWorker(w)
      \/ UNCHANGED <<workers, answered>>
    BY DEF PipelineNext, deliveryVars, pipelineVars, Aging, ExpireMark, AgeRow, RedisFails,
           RedisReturns, SavePreferences, SaveTwice
<1> QED BY <1>1, <1>2, <1>3

\* A worker has no more candidates in hand than one pass takes.
QueueBounded(w) ==
    IsFiniteSet(workers[w].queue) /\ Cardinality(workers[w].queue) <= PollLimit
QueuesBounded == \A w \in Workers : QueueBounded(w)

\* It takes so many at most, and then has fewer and fewer.
LEMMA QueuesStep ==
    ASSUME PipelineInv, FirstAnswered, QueuesBounded, [PipelineNext]_pipelineVars
    PROVE  QueuesBounded'
<1> SUFFICES ASSUME NEW w \in Workers PROVE QueueBounded(w)'
    BY DEF QueuesBounded
<1>1. QueueBounded(w) /\ PollGoesOn(w)
    BY PollsStep DEF QueuesBounded
<1>2. CASE workers'[w] = workers[w]
    BY <1>1, <1>2 DEF QueueBounded
<1>3. CASE workers'[w] # workers[w] /\ workers[w].pc # "idle"
    <2>1. CASE workers'[w] = AtRest
        <3>1. workers'[w].queue = {}
            BY <2>1 DEF AtRest
        <3> QED BY <3>1, FS_EmptySet, EndpointsAssumption DEF QueueBounded
    <2>2. CASE workers'[w].queue = workers[w].queue
        BY <2>2, <1>1 DEF QueueBounded
    <2>3. CASE workers'[w].queue = workers[w].queue \ {Current(w)}
        <3> DEFINE queue == workers[w].queue
        <3>1. IsFiniteSet(queue) /\ Cardinality(queue) <= PollLimit
            BY <1>1 DEF QueueBounded
        <3> HIDE DEF queue
        <3>2. /\ IsFiniteSet(queue \ {Current(w)})
              /\ Cardinality(queue \ {Current(w)}) <= Cardinality(queue)
              /\ Cardinality(queue) \in Nat /\ Cardinality(queue \ {Current(w)}) \in Nat
            BY <3>1, FS_Subset, FS_CardinalityType
        <3>3. Cardinality(queue \ {Current(w)}) <= PollLimit
            BY <3>1, <3>2, EndpointsAssumption
        <3> QED BY <2>3, <3>2, <3>3 DEF QueueBounded, queue
    <2> QED BY <1>1, <1>3, <2>1, <2>2, <2>3 DEF PollGoesOn
<1>4. CASE workers'[w] # workers[w] /\ workers[w].pc = "idle"
    <2>1. PICK v \in Workers : WorkerStep(v) \/ CrashWorker(v)
        BY <1>4 DEF PipelineNext, deliveryVars, pipelineVars, Aging, ExpireMark, AgeRow, RedisFails,
                    RedisReturns, SavePreferences, SaveTwice
    <2>2. \A u \in Workers \ {v} : workers'[u] = workers[u]
        BY <2>1, PassedWithAnswer, TurnsWithAnswer, TakesUpAfresh DEF WorkerStep, Offer
    <2>3. Poll(w)
        BY <1>4, <2>1, <2>2 DEF WorkerStep, Offer, SuppressByPolicy, SuppressDuplicate, Mark,
                                GoUnmarked, Flushes, Send, CommitDelivery, Raise, CrashWorker
    <2>4. PICK S \in NewestFirst : workers' = [workers EXCEPT
                ![w] = [AtRest EXCEPT !.pc = "offer", !.queue = S]]
        BY <2>3 DEF Poll
    <2>5. workers'[w].queue = S
        BY <2>4 DEF AtRest, PipelineInv, PipelineTypeOK
    <2>6. IsFiniteSet(signals) /\ S \subseteq signals /\ Cardinality(S) <= PollLimit
        BY DEF NewestFirst, Standing, FillsPass, PipelineInv, EngineInv
    <2> QED BY <2>5, <2>6, FS_Subset DEF QueueBounded
<1> QED BY <1>2, <1>3, <1>4

\* A poll of the notifier takes up PollLimit candidates at most and is over after at most
\* 2 * Endpoints + 1 steps for each: none is taken up twice, none is added, and none is
\* passed over without an offer, a decision of the policy or a row that says why.  With
\* the fairness of PipelineSpec this is why alerts are answered (delivery.py:
\* process_signal_queue).
THEOREM PollsWearOut ==
    PipelineSpec => PollsGoOn /\ []TriesBounded /\ []NoneSkipped /\ []QueuesBounded
<1>1. PipelineInit => FirstAnswered /\ QueuesBounded
    <2> SUFFICES ASSUME PipelineInit PROVE FirstAnswered /\ QueuesBounded
        OBVIOUS
    <2>1. \A w \in Workers : workers[w] = AtRest
        BY DEF PipelineInit
    <2>2. AtRest.queue = {} /\ AtRest.pc = "idle"
        BY DEF AtRest
    <2>3. Cardinality({}) <= PollLimit /\ IsFiniteSet({})
        BY FS_EmptySet, EndpointsAssumption
    <2> QED BY <2>1, <2>2, <2>3 DEF FirstAnswered, QueuesBounded, QueueBounded
<1>2. PipelineInv /\ FirstAnswered /\ QueuesBounded /\ [PipelineNext]_pipelineVars
        => FirstAnswered' /\ QueuesBounded' /\ [\A w \in Workers : PollGoesOn(w)]_pipelineVars
    BY PollsStep, QueuesStep
<1>3. PipelineInv /\ FirstAnswered => TriesBounded /\ NoneSkipped
    BY TriesAreBounded DEF PipelineInv, TriesBounded, FirstAnswered, NoneSkipped
<1> QED BY <1>1, <1>2, <1>3, PipelineInvariance, PTL DEF PipelineSpec, PollsGoOn
=============================================================================
