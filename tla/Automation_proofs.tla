-------------------------- MODULE Automation_proofs --------------------------
(***************************************************************************)
(* Theorems about Automation and their proofs.                             *)
(***************************************************************************)
EXTENDS Automation, FiniteSetTheorems, SequenceTheorems, TLAPS

USE SignalsAssumption, PoliciesAssumption, LimitsAssumption DEF PolicyRow, postVars

-----------------------------------------------------------------------------
(* Types *)

\* The part of TypeOK about what evaluations share with everybody else.
WorldTypeOK ==
    /\ signals \in [Signals -> {"future", "active", "retired"}]
    /\ policies \in [Policies -> PolicySettings]
    /\ control \in BOOLEAN
    /\ killSwitch \in BOOLEAN
    /\ mode \in {"disabled", "paper", "live"}
    /\ activePauses \in Nat
    /\ requests \in [pauses : Nat, resume : BOOLEAN]
    /\ health \in {"none", "healthy", "degraded", "several"}
    /\ failures \in 0..FailureThreshold
    /\ recentRuns \in 0..(MaxOrders + 1)
    /\ disturbances \in 0..MaxDisturbances

\* The number of runs of a signal is a natural number.
LEMMA BoundType == Cardinality(Evaluators) \in Nat
BY EvaluatorsAssumption, FS_CardinalityType

\* An evaluator between two ticks or two signals has a state of the right type.
LEMMA AtType ==
    ASSUME NEW pc \in PCs, NEW todo \in SUBSET Signals
    PROVE  At(pc, todo) \in EvaluatorStates
BY BoundType DEF At, EvaluatorStates, Guards, NoGuards, Decisions

\* A step to another control point keeps the type of the state.
LEMMA MovedType ==
    ASSUME NEW state \in EvaluatorStates, NEW pc \in PCs
    PROVE  [state EXCEPT !.pc = pc] \in EvaluatorStates
BY DEF EvaluatorStates

\* Nobody has approved, screened or keyed an order that does not exist.
LEMMA NewOrders ==
    /\ NoOrder \in OrderRows
    /\ \A passed \in BOOLEAN : Preview(passed) \in OrderRows
BY DEF NoOrder, Preview, OrderRows

\* Replacing one run of a signal keeps the number of runs and the others.
LEMMA EditedRuns ==
    ASSUME runs \in [Signals -> Seq(Runs)],
           NEW s \in Signals, NEW i \in DOMAIN runs[s], NEW run \in Runs,
           NEW q, q = [runs EXCEPT ![s] = [runs[s] EXCEPT ![i] = run]]
    PROVE  /\ q \in [Signals -> Seq(Runs)]
           /\ \A t \in Signals : Len(q[t]) = Len(runs[t])
           /\ \A t \in Signals : DOMAIN q[t] = DOMAIN runs[t]
           /\ \A t \in Signals : \A j \in DOMAIN runs[t] :
                q[t][j] = IF t = s /\ j = i THEN run ELSE runs[t][j]
<1>1. runs[s] \in Seq(Runs) /\ i \in 1..Len(runs[s])
  OBVIOUS
<1>2. PICK w : w = [runs[s] EXCEPT ![i] = run]
  OBVIOUS
<1>3. /\ w \in Seq(Runs)
      /\ Len(w) = Len(runs[s])
      /\ \A j \in 1..Len(runs[s]) : w[j] = IF j = i THEN run ELSE runs[s][j]
  BY <1>1, <1>2, ExceptSeq
<1>4. q = [runs EXCEPT ![s] = w]
  BY <1>2
<1>5. q \in [Signals -> Seq(Runs)]
  BY <1>3, <1>4
<1>6. \A t \in Signals : q[t] = IF t = s THEN w ELSE runs[t]
  BY <1>4
<1> QED
  BY <1>3, <1>5, <1>6

\* q is what the runs are with one more of the signal.
OneMore(q, s, run) ==
    /\ q \in [Signals -> Seq(Runs)]
    /\ Len(q[s]) = Len(runs[s]) + 1
    /\ \A t \in Signals \ {s} : q[t] = runs[t]
    /\ \A t \in Signals : \A j \in DOMAIN runs[t] : j \in DOMAIN q[t] /\ q[t][j] = runs[t][j]
    /\ DOMAIN q[s] = DOMAIN runs[s] \cup {Len(runs[s]) + 1}
    /\ q[s][Len(runs[s]) + 1] = run

\* Adding a run to a signal.
LEMMA AppendedRuns ==
    ASSUME runs \in [Signals -> Seq(Runs)],
           NEW s \in Signals, NEW run \in Runs,
           NEW q, q = [runs EXCEPT ![s] = Append(@, run)]
    PROVE  OneMore(q, s, run)
<1>1. PICK w : w = Append(runs[s], run)
  OBVIOUS
<1>2. /\ w \in Seq(Runs)
      /\ Len(w) = Len(runs[s]) + 1
      /\ \A j \in 1..Len(runs[s]) : w[j] = runs[s][j]
      /\ w[Len(runs[s]) + 1] = run
  <2>1. runs[s] \in Seq(Runs)
    OBVIOUS
  <2> QED
    BY <1>1, <2>1, AppendProperties
<1>3. q = [runs EXCEPT ![s] = w]
  BY <1>1, Zenon
<1>4. q \in [Signals -> Seq(Runs)]
  BY <1>2, <1>3
<1>5. \A t \in Signals : q[t] = IF t = s THEN w ELSE runs[t]
  BY <1>3
<1>6. \A t \in Signals : DOMAIN runs[t] = 1..Len(runs[t]) /\ Len(runs[t]) \in Nat
  OBVIOUS
<1>7. DOMAIN w = 1..(Len(runs[s]) + 1)
  BY <1>2
<1> QED
  BY <1>2, <1>4, <1>5, <1>6, <1>7 DEF OneMore

-----------------------------------------------------------------------------
(* Evaluators that do not move, and the count of runs *)

\* What evaluators rely on in a run.
SameFacts(new, old) ==
    /\ new.status = old.status
    /\ new.order.key = old.order.key
    /\ new.order.by = "automation" <=> old.order.by = "automation"
    /\ new.order.screened = old.order.screened
    /\ old.order.paper => new.order.paper

\* An evaluator that stays where it is, whose run keeps those facts, remains
\* consistent.
LEMMA OthersKeep ==
    ASSUME NEW f \in Evaluators, EvaluatorConsistent(f),
           evaluators'[f] = evaluators[f], exchange \subseteq exchange',
           evaluators[f].pc \in Unapproved \cup Approved
                => /\ evaluators[f].run \in DOMAIN runs'[evaluators[f].signal]
                   /\ SameFacts(runs'[evaluators[f].signal][evaluators[f].run],
                                CurrentRun(f))
    PROVE  EvaluatorConsistent(f)'
<1>1. \A id : Placed(id) => Placed(id)'
  BY DEF Placed
<1> QED
  BY <1>1 DEF EvaluatorConsistent, Accords, HasPolicy, CurrentRun, RunOf, SameFacts

\* The evaluators that will add a run for s are finitely many.
LEMMA PendingFinite ==
    ASSUME NEW s \in Signals
    PROVE  /\ IsFiniteSet(Pending(s))
           /\ Cardinality(Pending(s)) \in Nat
           /\ Cardinality(Pending(s)) <= Cardinality(Evaluators)
BY EvaluatorsAssumption, FS_Subset, FS_CardinalityType DEF Pending

\* No new run and no new evaluator that will add one.
LEMMA CountKept ==
    ASSUME RunsCounted, runs \in [Signals -> Seq(Runs)],
           \A s \in Signals : Len(runs'[s]) = Len(runs[s]),
           \A s \in Signals : signals[s] = "retired" => signals'[s] = "retired",
           \A s \in Signals : signals'[s] # "retired" => Pending(s)' \subseteq Pending(s)
    PROVE  RunsCounted'
<1> SUFFICES ASSUME NEW s \in Signals
             PROVE  /\ Len(runs'[s]) <= 1 + Cardinality(Evaluators)
                    /\ signals'[s] # "retired"
                        => Len(runs'[s]) + Cardinality(Pending(s)')
                                <= 1 + Cardinality(Evaluators)
  BY DEF RunsCounted
<1>1. Len(runs'[s]) <= 1 + Cardinality(Evaluators)
  BY DEF RunsCounted
<1>2. ASSUME signals'[s] # "retired"
      PROVE  Len(runs'[s]) + Cardinality(Pending(s)') <= 1 + Cardinality(Evaluators)
  <2>1. Cardinality(Pending(s)') <= Cardinality(Pending(s))
    BY <1>2, PendingFinite, FS_Subset
  <2>2. Cardinality(Pending(s)') \in Nat
    BY <1>2, PendingFinite, FS_Subset, FS_CardinalityType
  <2>3. Len(runs[s]) + Cardinality(Pending(s)) <= 1 + Cardinality(Evaluators)
    BY <1>2 DEF RunsCounted
  <2>4. Len(runs[s]) \in Nat
    OBVIOUS
  <2> QED
    BY <2>1, <2>2, <2>3, <2>4, PendingFinite, BoundType
<1> QED
  BY <1>1, <1>2

\* An evaluator selects a signal that has one run at most.
LEMMA CountSelected ==
    ASSUME RunsCounted, runs \in [Signals -> Seq(Runs)], UNCHANGED <<runs, signals>>,
           NEW e \in Evaluators, NEW s \in Signals,
           evaluators[e].pc \notin Deciding,
           signals[s] = "retired" \/ Len(runs[s]) <= 1,
           \A t \in Signals \ {s} : Pending(t)' \subseteq Pending(t),
           Pending(s)' \subseteq Evaluators
    PROVE  RunsCounted'
<1>1. ASSUME NEW t \in Signals, signals[t] # "retired"
      PROVE  Len(runs[t]) + Cardinality(Pending(t)') <= 1 + Cardinality(Evaluators)
  <2>1. CASE t = s
    <3>1. Cardinality(Pending(s)') <= Cardinality(Evaluators)
      BY EvaluatorsAssumption, FS_Subset
    <3>2. Cardinality(Pending(s)') \in Nat
      BY EvaluatorsAssumption, FS_Subset, FS_CardinalityType
    <3>3. Len(runs[s]) \in Nat /\ Len(runs[s]) <= 1
      BY <1>1, <2>1
    <3> QED
      BY <2>1, <3>1, <3>2, <3>3, BoundType
  <2>2. CASE t # s
    <3>1. Cardinality(Pending(t)') <= Cardinality(Pending(t))
      BY <2>2, PendingFinite, FS_Subset
    <3>2. Cardinality(Pending(t)') \in Nat
      BY <2>2, PendingFinite, FS_Subset, FS_CardinalityType
    <3>3. Len(runs[t]) + Cardinality(Pending(t)) <= 1 + Cardinality(Evaluators)
      BY <1>1 DEF RunsCounted
    <3>4. Len(runs[t]) \in Nat
      OBVIOUS
    <3> QED
      BY <3>1, <3>2, <3>3, <3>4, PendingFinite, BoundType
  <2> QED
    BY <2>1, <2>2
<1> QED
  BY <1>1 DEF RunsCounted

\* An evaluator that was to add a run has added it.
LEMMA CountAppended ==
    ASSUME RunsCounted, runs \in [Signals -> Seq(Runs)], UNCHANGED signals,
           NEW e \in Evaluators, NEW s \in Signals,
           e \in Pending(s), signals[s] # "retired",
           Len(runs'[s]) = Len(runs[s]) + 1,
           \A t \in Signals \ {s} : runs'[t] = runs[t],
           \A t \in Signals : Pending(t)' \subseteq Pending(t) \ {e}
    PROVE  RunsCounted' /\ Len(runs[s]) + 1 <= 1 + Cardinality(Evaluators)
<1>1. \A t \in Signals : Len(runs[t]) \in Nat
  OBVIOUS
<1>2. Cardinality(Pending(s) \ {e}) = Cardinality(Pending(s)) - 1
  BY PendingFinite, FS_RemoveElement
<1>3. Len(runs[s]) + Cardinality(Pending(s)) <= 1 + Cardinality(Evaluators)
  BY DEF RunsCounted
<1>4. \A t \in Signals : IsFiniteSet(Pending(t) \ {e})
  BY PendingFinite, FS_Subset
<1>5. \A t \in Signals : /\ Cardinality(Pending(t)') <= Cardinality(Pending(t) \ {e})
                         /\ Cardinality(Pending(t)') \in Nat
  BY <1>4, FS_Subset, FS_CardinalityType
<1>6. ASSUME NEW t \in Signals
      PROVE  Cardinality(Pending(t)') <= Cardinality(Pending(t))
  <2>1. Pending(t)' \subseteq Pending(t)
    OBVIOUS
  <2> QED
    BY <2>1, PendingFinite, FS_Subset
<1>7. Len(runs[s]) + 1 <= 1 + Cardinality(Evaluators)
  <2>1. Cardinality(Pending(s)) >= 1
    BY <1>2, <1>4, FS_CardinalityType, PendingFinite
  <2> QED
    BY <2>1, <1>1, <1>3, PendingFinite, BoundType
<1>8. ASSUME NEW t \in Signals
      PROVE  /\ Len(runs'[t]) <= 1 + Cardinality(Evaluators)
             /\ signals[t] # "retired"
                => Len(runs'[t]) + Cardinality(Pending(t)') <= 1 + Cardinality(Evaluators)
  <2>1. CASE t = s
    BY <2>1, <1>1, <1>2, <1>3, <1>5, <1>7, PendingFinite, BoundType
  <2>2. CASE t # s
    <3>1. runs'[t] = runs[t]
      BY <2>2
    <3>2. /\ Len(runs[t]) <= 1 + Cardinality(Evaluators)
          /\ signals[t] # "retired"
             => Len(runs[t]) + Cardinality(Pending(t)) <= 1 + Cardinality(Evaluators)
      BY DEF RunsCounted
    <3>3. Cardinality(Pending(t)) \in Nat
      BY PendingFinite
    <3>4. Cardinality(Pending(t)') <= Cardinality(Pending(t))
      BY <1>6
    <3>5. Cardinality(Pending(t)') \in Nat
      BY <1>5
    <3>6. Len(runs[t]) \in Nat
      BY <1>1
    <3> QED
      BY <3>1, <3>2, <3>3, <3>4, <3>5, <3>6, BoundType
  <2> QED
    BY <2>1, <2>2
<1> QED
  BY <1>7, <1>8 DEF RunsCounted

-----------------------------------------------------------------------------
(* Steps, by what they change *)

\* A deleted signal stays deleted.
Monotone == \A s \in Signals : signals[s] = "retired" => signals'[s] = "retired"

\* TypeOK in two parts.
LEMMA TypeSplit ==
    TypeOK <=> /\ WorldTypeOK
               /\ runs \in [Signals -> Seq(Runs)]
               /\ evaluators \in [Evaluators -> EvaluatorStates]
               /\ Sent \subseteq Placements
BY DEF TypeOK, WorldTypeOK

\* Nothing that is said of runs and placements alone changes with the rest.
LEMMA RunsQuiet ==
    ASSUME UNCHANGED <<runs, postVars>>
    PROVE  /\ RunsConsistent => RunsConsistent'
           /\ KeysUnique => KeysUnique'
           /\ PlacementsConsistent => PlacementsConsistent'
<1>1. \A id : Placed(id)' <=> Placed(id)
  BY DEF Placed
<1>2. RunsConsistent => RunsConsistent'
  BY <1>1 DEF RunsConsistent, RunConsistent
<1>3. KeysUnique => KeysUnique'
  BY DEF KeysUnique
<1>4. PlacementsConsistent => PlacementsConsistent'
  BY DEF PlacementsConsistent, PlacementConsistent, OrderOf, Sent
<1> QED
  BY <1>2, <1>3, <1>4

\* Operators and the world leave runs, evaluators and the exchange alone.
LEMMA WorldStep ==
    ASSUME IInv, UNCHANGED <<runs, evaluators, postVars>>,
           WorldTypeOK', ResumeHasPause', Monotone
    PROVE  IInv'
<1>1. TypeOK'
  BY TypeSplit DEF IInv, TypeOK, WorldTypeOK, Sent
<1>2. EvaluatorsConsistent'
  <2>1. \A id : Placed(id)' <=> Placed(id)
    BY DEF Placed
  <2> QED
    BY <2>1 DEF IInv, EvaluatorsConsistent, EvaluatorConsistent, Accords,
                HasPolicy, CurrentRun, RunOf
<1>3. OwnersDistinct'
  BY DEF IInv, OwnersDistinct, RunOf
<1>4. RunsCounted'
  <2>1. \A s \in Signals : Pending(s)' = Pending(s)
    BY DEF Pending
  <2> QED
    BY <2>1, CountKept DEF IInv, TypeOK, Monotone
<1> QED
  BY <1>1, <1>2, <1>3, <1>4, RunsQuiet DEF IInv

\* The state an evaluator may take without touching its run.
Successor(e, state) ==
    /\ HasPolicy(state)
    /\ state.pc \in Deciding
        => /\ state.signal \in Signals
           /\ \/ /\ evaluators[e].pc \in Deciding
                 /\ evaluators[e].signal = state.signal
              \/ /\ evaluators[e].pc \notin Deciding
                 /\ signals[state.signal] = "retired" \/ Len(runs[state.signal]) <= 1
    /\ state.pc \in Unapproved \cup Approved
        => /\ evaluators[e].pc \in Unapproved \cup Approved
           /\ state.signal = evaluators[e].signal
           /\ state.run = evaluators[e].run
           /\ Accords(state, CurrentRun(e), RunOf(e))

\* An evaluator moves on without a commit of runs or orders.
LEMMA QuietStep ==
    ASSUME IInv, UNCHANGED <<runs, postVars, signals>>,
           WorldTypeOK', ResumeHasPause',
           NEW e \in Evaluators, NEW state \in EvaluatorStates,
           evaluators' = [evaluators EXCEPT ![e] = state],
           Successor(e, state)
    PROVE  IInv'
<1>1. /\ evaluators \in [Evaluators -> EvaluatorStates]
      /\ runs \in [Signals -> Seq(Runs)]
  BY DEF IInv, TypeOK
<1>2. /\ evaluators' \in [Evaluators -> EvaluatorStates]
      /\ evaluators'[e] = state
      /\ \A f \in Evaluators \ {e} : evaluators'[f] = evaluators[f]
  BY <1>1
<1>3. TypeOK'
  BY <1>1, <1>2, TypeSplit DEF IInv, TypeOK, WorldTypeOK, Sent
<1>4. EvaluatorsConsistent'
  <2> SUFFICES ASSUME NEW f \in Evaluators PROVE EvaluatorConsistent(f)'
    BY DEF EvaluatorsConsistent
  <2>1. EvaluatorConsistent(f)
    BY DEF IInv, EvaluatorsConsistent
  <2>2. CASE f # e
    BY <1>2, <2>1, <2>2, OthersKeep
        DEF EvaluatorConsistent, SameFacts, CurrentRun
  <2>3. CASE f = e
    <3>1. \A id : Placed(id)' <=> Placed(id)
      BY DEF Placed
    <3>2. EvaluatorConsistent(e)
      BY <2>1, <2>3
    <3> QED
      BY <1>2, <2>3, <3>1, <3>2
      DEF EvaluatorConsistent, Successor, Accords, HasPolicy, CurrentRun, RunOf
  <2> QED
    BY <2>2, <2>3
<1>5. OwnersDistinct'
  BY <1>2 DEF IInv, OwnersDistinct, RunOf, Successor
<1>6. RunsCounted'
  <2>1. ASSUME NEW t \in Signals, NEW f \in Pending(t)'
        PROVE  f \in Pending(t) \/ (f = e /\ state.pc \in Deciding /\ state.signal = t)
    BY <1>2, <2>1 DEF Pending
  <2>2. CASE state.pc \in Deciding /\ evaluators[e].pc \notin Deciding
    <3>1. \A t \in Signals \ {state.signal} : Pending(t)' \subseteq Pending(t)
      BY <2>1
    <3>2. \A t \in Signals : Pending(t)' \subseteq Evaluators
      BY DEF Pending
    <3> QED
      BY <1>1, <2>2, <3>1, <3>2, CountSelected DEF IInv, Successor
  <2>3. CASE ~(state.pc \in Deciding /\ evaluators[e].pc \notin Deciding)
    <3>1. \A t \in Signals : Pending(t)' \subseteq Pending(t)
      BY <2>1, <2>3 DEF Pending, Successor
    <3> QED
      BY <1>1, <3>1, CountKept DEF IInv
  <2> QED
    BY <2>2, <2>3
<1>7. RunsConsistent' /\ KeysUnique' /\ PlacementsConsistent'
  BY RunsQuiet DEF IInv
<1> QED
  BY <1>3, <1>4, <1>5, <1>6, <1>7 DEF IInv

\* A commit that replaces run i of s and may have placed its order.
Edits(s, i, run) ==
    /\ runs' = [runs EXCEPT ![s][i] = run]
    /\ exchange \subseteq exchange'
    /\ Sent' \subseteq Placements
    /\ \A p \in Sent' \ Sent :
        /\ p.order = <<s, i>>
        /\ run.order.by # "none"
        /\ p.by = "automation"
            => run.order.by = "automation" /\ run.order.key = p.key
    /\ run.order.by = "none" => runs[s][i].order.by = "none"
    /\ runs[s][i].order.by = "automation"
        => run.order.by = "automation" /\ run.order.key = runs[s][i].order.key
    /\ \/ run.order.key \in {NoPolicy, runs[s][i].order.key}
       \/ KeyFree(s, i, run.order.key)
    /\ OrderConsistent(run.order)
    /\ run.status = "submitted" => Placed(<<s, i>>)' \/ run.order.paper
    /\ run.status = "dry_run_submitted" => run.order.by # "automation"

\* Such a commit keeps what is said of runs and placements.
LEMMA EditKeeps ==
    ASSUME IInv, NEW s \in Signals, NEW i \in DOMAIN runs[s], NEW run \in Runs,
           Edits(s, i, run)
    PROVE  /\ runs' \in [Signals -> Seq(Runs)]
           /\ \A t \in Signals : Len(runs'[t]) = Len(runs[t])
           /\ \A t \in Signals : DOMAIN runs'[t] = DOMAIN runs[t]
           /\ \A t \in Signals : \A j \in DOMAIN runs[t] :
                runs'[t][j] = IF t = s /\ j = i THEN run ELSE runs[t][j]
           /\ RunsConsistent'
           /\ KeysUnique'
           /\ PlacementsConsistent'
<1>1. runs \in [Signals -> Seq(Runs)]
  BY DEF IInv, TypeOK
<1>2. PICK q : q = [runs EXCEPT ![s] = [runs[s] EXCEPT ![i] = run]]
  OBVIOUS
<1>3. runs' = q
  BY <1>1, <1>2 DEF Edits
<1>4. /\ runs' \in [Signals -> Seq(Runs)]
      /\ \A t \in Signals : Len(runs'[t]) = Len(runs[t])
      /\ \A t \in Signals : DOMAIN runs'[t] = DOMAIN runs[t]
      /\ \A t \in Signals : \A j \in DOMAIN runs[t] :
            runs'[t][j] = IF t = s /\ j = i THEN run ELSE runs[t][j]
  BY <1>1, <1>2, <1>3, EditedRuns
<1>5. RunsConsistent'
  <2>1. \A id : Placed(id) => Placed(id)'
    BY DEF Placed, Edits
  <2>2. ASSUME NEW t \in Signals, NEW j \in DOMAIN runs[t]
        PROVE  RunConsistent(runs[t][j], <<t, j>>)'
    <3>1. CASE t = s /\ j = i
      BY <1>4, <3>1 DEF RunConsistent, Edits, OrderConsistent
    <3>2. CASE ~(t = s /\ j = i)
      <4>1. RunConsistent(runs[t][j], <<t, j>>)
        BY DEF IInv, RunsConsistent
      <4> QED
        BY <1>4, <2>1, <3>2, <4>1 DEF RunConsistent, OrderConsistent
    <3> QED
      BY <3>1, <3>2
  <2> QED
    BY <1>4, <2>2 DEF RunsConsistent
<1>6. KeysUnique'
  <2>1. ASSUME NEW t \in Signals, NEW j \in DOMAIN runs[t], NEW k \in DOMAIN runs[t],
               runs'[t][j].order.key = runs'[t][k].order.key,
               runs'[t][j].order.key # NoPolicy
        PROVE  j = k
    <3>1. ASSUME NEW l \in DOMAIN runs[s], l # i,
                 runs[s][l].order.key = run.order.key, run.order.key # NoPolicy
          PROVE  FALSE
      <4>1. CASE run.order.key = runs[s][i].order.key
        BY <3>1, <4>1 DEF IInv, KeysUnique
      <4>2. CASE KeyFree(s, i, run.order.key)
        BY <3>1, <4>2 DEF KeyFree
      <4> QED
        BY <3>1, <4>1, <4>2 DEF Edits
    <3>2. runs[t][j].order.key = runs[t][k].order.key
            /\ runs[t][j].order.key # NoPolicy => j = k
      BY DEF IInv, KeysUnique
    <3>3. CASE t = s /\ j = i
      BY <1>4, <2>1, <3>1, <3>3
    <3>4. CASE t = s /\ k = i
      BY <1>4, <2>1, <3>1, <3>4
    <3>5. CASE ~(t = s /\ j = i) /\ ~(t = s /\ k = i)
      BY <1>4, <2>1, <3>2, <3>5
    <3> QED
      BY <3>3, <3>4, <3>5
  <2>2. ASSUME NEW t \in Signals, NEW j \in DOMAIN runs'[t], NEW k \in DOMAIN runs'[t],
               runs'[t][j].order.key = runs'[t][k].order.key
        PROVE  j = k \/ runs'[t][j].order.key = NoPolicy
    BY <1>4, <2>1, <2>2
  <2> QED
    BY <2>2 DEF KeysUnique
<1>7. PlacementsConsistent'
  <2> SUFFICES ASSUME NEW p \in Sent' PROVE PlacementConsistent(p)'
    BY DEF PlacementsConsistent
  <2>1. p.order[1] \in Signals
    BY DEF Edits, Placements, OrderIds
  <2>2. CASE p \in Sent
    <3>1. PlacementConsistent(p)
      BY <2>2 DEF IInv, PlacementsConsistent
    <3>2. CASE p.order[1] = s /\ p.order[2] = i
      <4>1. /\ runs[s][i].order.by # "none"
            /\ p.by = "automation" => runs[s][i].order.by = "automation"
                                        /\ runs[s][i].order.key = p.key
        BY <3>1, <3>2 DEF PlacementConsistent, OrderOf
      <4>2. runs'[s][i] = run
        BY <1>4
      <4> QED
        BY <1>4, <3>2, <4>1, <4>2 DEF PlacementConsistent, OrderOf, Edits
    <3>3. CASE ~(p.order[1] = s /\ p.order[2] = i)
      BY <1>4, <2>1, <3>1, <3>3 DEF PlacementConsistent, OrderOf
    <3> QED
      BY <3>2, <3>3
  <2>3. CASE p \notin Sent
    <3>1. p.order[1] = s /\ p.order[2] = i
      BY <2>3 DEF Edits
    <3>2. runs'[s][i] = run /\ i \in DOMAIN runs'[s]
      BY <1>4
    <3> QED
      BY <2>3, <3>1, <3>2 DEF PlacementConsistent, OrderOf, Edits
  <2> QED
    BY <2>2, <2>3
<1> QED
  BY <1>4, <1>5, <1>6, <1>7

\* An evaluator commits a change of its run and moves on.
LEMMA OwnerStep ==
    ASSUME IInv, UNCHANGED signals, WorldTypeOK', ResumeHasPause',
           NEW e \in Evaluators, evaluators[e].pc \in Unapproved \cup Approved,
           NEW s \in Signals, s = evaluators[e].signal,
           NEW i, i = evaluators[e].run,
           NEW run \in Runs, Edits(s, i, run),
           NEW state \in EvaluatorStates,
           evaluators' = [evaluators EXCEPT ![e] = state],
           HasPolicy(state), state.pc \notin Deciding,
           state.pc \in Unapproved \cup Approved
            => /\ state.signal = s /\ state.run = i
               /\ Accords(state, run, <<s, i>>)'
    PROVE  IInv'
<1>1. /\ evaluators \in [Evaluators -> EvaluatorStates]
      /\ runs \in [Signals -> Seq(Runs)]
  BY DEF IInv, TypeOK
<1>2. /\ evaluators' \in [Evaluators -> EvaluatorStates]
      /\ evaluators'[e] = state
      /\ \A f \in Evaluators \ {e} : evaluators'[f] = evaluators[f]
  BY <1>1
<1>3. i \in DOMAIN runs[s]
  BY DEF IInv, EvaluatorsConsistent, EvaluatorConsistent
<1>4. /\ runs' \in [Signals -> Seq(Runs)]
      /\ \A t \in Signals : Len(runs'[t]) = Len(runs[t])
      /\ \A t \in Signals : DOMAIN runs'[t] = DOMAIN runs[t]
      /\ \A t \in Signals : \A j \in DOMAIN runs[t] :
            runs'[t][j] = IF t = s /\ j = i THEN run ELSE runs[t][j]
      /\ RunsConsistent' /\ KeysUnique' /\ PlacementsConsistent'
  BY <1>3, EditKeeps
<1>5. TypeOK'
  BY <1>2, <1>4 DEF TypeOK, WorldTypeOK, Edits
<1>6. EvaluatorsConsistent'
  <2> SUFFICES ASSUME NEW f \in Evaluators PROVE EvaluatorConsistent(f)'
    BY DEF EvaluatorsConsistent
  <2>1. CASE f # e
    <3>1. EvaluatorConsistent(f)
      BY DEF IInv, EvaluatorsConsistent
    <3>2. ASSUME evaluators[f].pc \in Unapproved \cup Approved
          PROVE  /\ evaluators[f].run \in DOMAIN runs'[evaluators[f].signal]
                 /\ runs'[evaluators[f].signal][evaluators[f].run] = CurrentRun(f)
      <4>1. /\ evaluators[f].signal \in Signals
            /\ evaluators[f].run \in DOMAIN runs[evaluators[f].signal]
        BY <3>1, <3>2 DEF EvaluatorConsistent
      <4>2. ~(evaluators[f].signal = s /\ evaluators[f].run = i)
        BY <2>1, <3>2 DEF IInv, OwnersDistinct, RunOf
      <4> QED
        BY <1>4, <4>1, <4>2 DEF CurrentRun
    <3> QED
      BY <1>2, <2>1, <3>1, <3>2, OthersKeep DEF SameFacts, Edits
  <2>2. CASE f = e
    <3>1. runs'[s][i] = run /\ i \in DOMAIN runs'[s]
      BY <1>3, <1>4
    <3> QED
      BY <1>2, <2>2, <3>1 DEF EvaluatorConsistent, CurrentRun, RunOf, Accords, HasPolicy
  <2> QED
    BY <2>1, <2>2
<1>7. OwnersDistinct'
  BY <1>2 DEF IInv, OwnersDistinct, RunOf
<1>8. RunsCounted'
  <2>1. \A t \in Signals : Pending(t)' \subseteq Pending(t)
    BY <1>2 DEF Pending
  <2> QED
    BY <1>1, <1>4, <2>1, CountKept DEF IInv
<1> QED
  BY <1>4, <1>5, <1>6, <1>7, <1>8 DEF IInv

\* A person decides on an order or executes it.
LEMMA HumanStep ==
    ASSUME IInv, UNCHANGED <<signals, evaluators>>, WorldTypeOK', ResumeHasPause',
           NEW s \in Signals, NEW i \in DOMAIN runs[s],
           NEW run \in Runs, Edits(s, i, run), SameFacts(run, runs[s][i])
    PROVE  IInv'
<1>1. /\ evaluators \in [Evaluators -> EvaluatorStates]
      /\ runs \in [Signals -> Seq(Runs)]
  BY DEF IInv, TypeOK
<1>2. /\ runs' \in [Signals -> Seq(Runs)]
      /\ \A t \in Signals : Len(runs'[t]) = Len(runs[t])
      /\ \A t \in Signals : DOMAIN runs'[t] = DOMAIN runs[t]
      /\ \A t \in Signals : \A j \in DOMAIN runs[t] :
            runs'[t][j] = IF t = s /\ j = i THEN run ELSE runs[t][j]
      /\ RunsConsistent' /\ KeysUnique' /\ PlacementsConsistent'
  BY EditKeeps
<1>3. TypeOK'
  BY <1>1, <1>2 DEF TypeOK, WorldTypeOK, Edits
<1>4. EvaluatorsConsistent'
  <2> SUFFICES ASSUME NEW f \in Evaluators PROVE EvaluatorConsistent(f)'
    BY DEF EvaluatorsConsistent
  <2>1. EvaluatorConsistent(f)
    BY DEF IInv, EvaluatorsConsistent
  <2>2. ASSUME evaluators[f].pc \in Unapproved \cup Approved
        PROVE  /\ evaluators[f].run \in DOMAIN runs'[evaluators[f].signal]
               /\ SameFacts(runs'[evaluators[f].signal][evaluators[f].run], CurrentRun(f))
    <3>1. /\ evaluators[f].signal \in Signals
          /\ evaluators[f].run \in DOMAIN runs[evaluators[f].signal]
      BY <2>1, <2>2 DEF EvaluatorConsistent
    <3>2. CASE evaluators[f].signal = s /\ evaluators[f].run = i
      BY <1>2, <3>1, <3>2 DEF CurrentRun
    <3>3. CASE ~(evaluators[f].signal = s /\ evaluators[f].run = i)
      BY <1>2, <3>1, <3>3 DEF CurrentRun, SameFacts
    <3> QED
      BY <3>2, <3>3
  <2> QED
    BY <2>1, <2>2, OthersKeep DEF Edits
<1>5. OwnersDistinct'
  BY DEF IInv, OwnersDistinct, RunOf
<1>6. RunsCounted'
  <2>1. \A t \in Signals : Pending(t)' = Pending(t)
    BY DEF Pending
  <2> QED
    BY <1>1, <1>2, <2>1, CountKept DEF IInv
<1> QED
  BY <1>2, <1>3, <1>4, <1>5, <1>6 DEF IInv

\* An evaluator that is to add a run finds room for it.
LEMMA RoomForRun ==
    ASSUME IInv, NEW e \in Evaluators, NEW s \in Signals,
           e \in Pending(s), signals[s] # "retired"
    PROVE  Len(runs[s]) + 1 \in 1..(1 + Cardinality(Evaluators))
<1>1. Len(runs[s]) \in Nat
  BY DEF IInv, TypeOK
<1>2. Cardinality(Pending(s)) # 0
  BY PendingFinite, FS_EmptySet
<1>3. Len(runs[s]) + Cardinality(Pending(s)) <= 1 + Cardinality(Evaluators)
  BY DEF IInv, RunsCounted
<1>4. Cardinality(Pending(s)) \in Nat
  BY PendingFinite
<1> QED
  BY <1>1, <1>2, <1>3, <1>4, BoundType

\* A commit that adds a run to s.
Appends(s, run) == runs' = [runs EXCEPT ![s] = Append(@, run)]

\* An evaluator adds a run, and owns it or is done with it.
LEMMA AppendStep ==
    ASSUME IInv, UNCHANGED <<postVars, signals>>, WorldTypeOK', ResumeHasPause',
           NEW e \in Evaluators, NEW s \in Signals, e \in Pending(s),
           signals[s] # "retired",
           NEW run \in Runs, run.order.key = NoPolicy, run.order.by = "none",
           OrderConsistent(run.order),
           run.status \notin {"submitted", "dry_run_submitted"},
           Appends(s, run),
           NEW state \in EvaluatorStates,
           evaluators' = [evaluators EXCEPT ![e] = state],
           HasPolicy(state), state.pc \notin Deciding,
           state.pc \in Unapproved \cup Approved
            => /\ state.pc = "previewed"
               /\ state.signal = s /\ state.run = Len(runs[s]) + 1
    PROVE  IInv'
<1>1. /\ evaluators \in [Evaluators -> EvaluatorStates]
      /\ runs \in [Signals -> Seq(Runs)]
      /\ Sent \subseteq Placements
  BY DEF IInv, TypeOK
<1>2. /\ evaluators' \in [Evaluators -> EvaluatorStates]
      /\ evaluators'[e] = state
      /\ \A f \in Evaluators \ {e} : evaluators'[f] = evaluators[f]
  BY <1>1
<1>3. PICK n : n = Len(runs[s]) + 1
  OBVIOUS
<1>4. /\ runs' \in [Signals -> Seq(Runs)]
      /\ Len(runs'[s]) = Len(runs[s]) + 1
      /\ \A t \in Signals \ {s} : runs'[t] = runs[t]
      /\ \A t \in Signals : \A j \in DOMAIN runs[t] :
           j \in DOMAIN runs'[t] /\ runs'[t][j] = runs[t][j]
      /\ DOMAIN runs'[s] = DOMAIN runs[s] \cup {n}
      /\ runs'[s][n] = run
  <2>1. PICK q : q = runs'
    OBVIOUS
  <2>2. q = [runs EXCEPT ![s] = Append(@, run)]
    BY <2>1 DEF Appends
  <2>3. /\ q \in [Signals -> Seq(Runs)]
        /\ Len(q[s]) = Len(runs[s]) + 1
        /\ \A t \in Signals \ {s} : q[t] = runs[t]
        /\ \A t \in Signals : \A j \in DOMAIN runs[t] :
             j \in DOMAIN q[t] /\ q[t][j] = runs[t][j]
        /\ DOMAIN q[s] = DOMAIN runs[s] \cup {Len(runs[s]) + 1}
        /\ q[s][Len(runs[s]) + 1] = run
    <3>1. OneMore(q, s, run)
      BY <1>1, <2>2, AppendedRuns
    <3> QED
      BY <3>1 DEF OneMore
  <2> QED
    BY <1>3, <2>1, <2>3
<1>5. TypeOK'
  BY <1>1, <1>2, <1>4 DEF TypeOK, WorldTypeOK, Sent
<1>6. \A id : Placed(id)' <=> Placed(id)
  BY DEF Placed
<1>7. n \notin DOMAIN runs[s]
  <2>1. DOMAIN runs[s] = 1..Len(runs[s]) /\ Len(runs[s]) \in Nat
    BY <1>1
  <2> QED
    BY <1>3, <2>1
<1>8. \A t \in Signals : \A j \in DOMAIN runs'[t] :
        j \in DOMAIN runs[t] \/ (t = s /\ j = n)
  BY <1>4
<1>9. RunsConsistent'
  <2>1. ASSUME NEW t \in Signals, NEW j \in DOMAIN runs'[t]
        PROVE  RunConsistent(runs[t][j], <<t, j>>)'
    <3>1. CASE j \in DOMAIN runs[t]
      <4>1. RunConsistent(runs[t][j], <<t, j>>)
        BY <3>1 DEF IInv, RunsConsistent
      <4> QED
        BY <1>4, <1>6, <3>1, <4>1 DEF RunConsistent, OrderConsistent
    <3>2. CASE t = s /\ j = n
      BY <1>4, <3>2 DEF RunConsistent, OrderConsistent
    <3> QED
      BY <1>8, <3>1, <3>2
  <2> QED
    BY <2>1 DEF RunsConsistent
<1>10. KeysUnique'
  <2>1. ASSUME NEW t \in Signals, NEW j \in DOMAIN runs'[t], NEW k \in DOMAIN runs'[t],
               runs'[t][j].order.key = runs'[t][k].order.key
        PROVE  j = k \/ runs'[t][j].order.key = NoPolicy
    <3>1. CASE t = s /\ (j = n \/ k = n)
      BY <1>4, <2>1, <3>1
    <3>2. CASE j \in DOMAIN runs[t] /\ k \in DOMAIN runs[t]
      BY <1>4, <2>1, <3>2 DEF IInv, KeysUnique
    <3> QED
      BY <1>8, <3>1, <3>2
  <2> QED
    BY <2>1 DEF KeysUnique
<1>11. PlacementsConsistent'
  <2> SUFFICES ASSUME NEW p \in Sent PROVE PlacementConsistent(p)'
    BY DEF PlacementsConsistent, Sent
  <2>1. PlacementConsistent(p) /\ p.order[1] \in Signals
    BY <1>1 DEF IInv, PlacementsConsistent, Placements, OrderIds
  <2> QED
    BY <1>4, <2>1 DEF PlacementConsistent, OrderOf
<1>12. EvaluatorsConsistent'
  <2> SUFFICES ASSUME NEW f \in Evaluators PROVE EvaluatorConsistent(f)'
    BY DEF EvaluatorsConsistent
  <2>1. CASE f # e
    <3>1. EvaluatorConsistent(f)
      BY DEF IInv, EvaluatorsConsistent
    <3>2. ASSUME evaluators[f].pc \in Unapproved \cup Approved
          PROVE  /\ evaluators[f].run \in DOMAIN runs'[evaluators[f].signal]
                 /\ runs'[evaluators[f].signal][evaluators[f].run] = CurrentRun(f)
      BY <1>4, <3>1, <3>2 DEF EvaluatorConsistent, CurrentRun
    <3> QED
      BY <1>2, <2>1, <3>1, <3>2, OthersKeep DEF SameFacts
  <2>2. CASE f = e
    <3>1. state.pc \in Unapproved \cup Approved
            => /\ state.pc = "previewed" /\ state.signal = s /\ state.run = n
               /\ "previewed" \notin Approved
      BY <1>3 DEF Approved
    <3>2. state.pc \in Unapproved \cup Approved
            => state.run \in DOMAIN runs'[state.signal] /\ runs'[state.signal][state.run] = run
      BY <1>4, <3>1
    <3>3. state.pc \in Unapproved \cup Approved
            => Accords(evaluators[e], CurrentRun(e), RunOf(e))'
      BY <1>2, <3>1, <3>2 DEF Accords, CurrentRun, RunOf
    <3> QED
      BY <1>2, <2>2, <3>1, <3>2, <3>3 DEF EvaluatorConsistent, HasPolicy
  <2> QED
    BY <2>1, <2>2
<1>13. OwnersDistinct'
  <2>1. ASSUME NEW f \in Evaluators \ {e}, evaluators[f].pc \in Unapproved \cup Approved
        PROVE  RunOf(f) # <<s, n>>
    BY <1>7, <2>1 DEF IInv, EvaluatorsConsistent, EvaluatorConsistent, RunOf
  <2> QED
    BY <1>2, <1>3, <2>1 DEF IInv, OwnersDistinct, RunOf
<1>14. RunsCounted'
  <2>1. \A t \in Signals : Pending(t)' \subseteq Pending(t) \ {e}
    BY <1>2 DEF Pending
  <2> QED
    BY <1>1, <1>4, <2>1, CountAppended DEF IInv
<1> QED
  BY <1>5, <1>9, <1>10, <1>11, <1>12, <1>13, <1>14 DEF IInv

-----------------------------------------------------------------------------
(* What actions share *)

Resting == {"idle", "dead", "alarmed", "scanning"}

\* Evaluations that leave what they share with others alone.
LEMMA WorldQuiet ==
    ASSUME IInv, UNCHANGED worldVars
    PROVE  WorldTypeOK' /\ ResumeHasPause' /\ UNCHANGED signals
BY TypeSplit DEF IInv, WorldTypeOK, ResumeHasPause, worldVars, operatorVars, windowVars

\* Counting a failure or an order, up to the thresholds.
LEMMA WorldCounts ==
    ASSUME IInv, UNCHANGED <<signals, operatorVars, health, disturbances>>,
           CountFailure \/ CountOrder \/ UNCHANGED windowVars
    PROVE  WorldTypeOK' /\ ResumeHasPause' /\ UNCHANGED signals
<1>1. WorldTypeOK
  BY TypeSplit DEF IInv
<1>2. failures' \in 0..FailureThreshold /\ recentRuns' \in 0..(MaxOrders + 1)
  BY <1>1 DEF CountFailure, CountOrder, Saturated, windowVars, WorldTypeOK
<1> QED
  BY <1>1, <1>2 DEF IInv, WorldTypeOK, ResumeHasPause, operatorVars

\* An evaluator at rest has no run to answer for.
LEMMA RestingSuccessor ==
    ASSUME NEW e, NEW state, state.pc \in Resting
    PROVE  /\ Successor(e, state) /\ HasPolicy(state)
           /\ state.pc \notin Deciding /\ state.pc \notin Unapproved \cup Approved
BY DEF Successor, HasPolicy, Resting, Deciding, Unapproved, Approved

\* Where an exception, or the end of a signal, takes an evaluator.
LEMMA RaiseRests ==
    ASSUME NEW e \in Evaluators, Raise(e)
    PROVE  \E state \in EvaluatorStates :
                state.pc \in Resting /\ evaluators' = [evaluators EXCEPT ![e] = state]
<1>1. PICK pc \in {"idle", "dead"} : evaluators' = [evaluators EXCEPT ![e] = At(pc, {})]
  BY DEF Raise, Become
<1>2. At(pc, {}) \in EvaluatorStates /\ At(pc, {}).pc = pc
  BY AtType DEF PCs, At
<1> QED
  BY <1>1, <1>2 DEF Resting

\* The next signal, or the end of the tick.
LEMMA NextSignalRests ==
    ASSUME IInv, NEW e \in Evaluators, NextSignal(e)
    PROVE  \E state \in EvaluatorStates :
                state.pc \in Resting /\ evaluators' = [evaluators EXCEPT ![e] = state]
<1>1. PICK todo : todo = evaluators[e].todo \ {evaluators[e].signal}
  OBVIOUS
<1>2. todo \in SUBSET Signals
  BY <1>1 DEF IInv, TypeOK, EvaluatorStates
<1>3. PICK pc \in {"idle", "scanning"}, rest \in {{}, todo} :
            evaluators' = [evaluators EXCEPT ![e] = At(pc, rest)]
  BY <1>1 DEF NextSignal, Become
<1>4. At(pc, rest) \in EvaluatorStates /\ At(pc, rest).pc = pc
  BY <1>2, AtType DEF PCs, At
<1> QED
  BY <1>3, <1>4 DEF Resting

\* An evaluator that gives up, or is done, without a commit of runs.
LEMMA RestStep ==
    ASSUME IInv, UNCHANGED <<runs, postVars, signals>>,
           WorldTypeOK', ResumeHasPause', NEW e \in Evaluators,
           \E state \in EvaluatorStates :
                state.pc \in Resting /\ evaluators' = [evaluators EXCEPT ![e] = state]
    PROVE  IInv'
<1>1. PICK state \in EvaluatorStates :
            state.pc \in Resting /\ evaluators' = [evaluators EXCEPT ![e] = state]
  OBVIOUS
<1>2. Successor(e, state)
  BY <1>1, RestingSuccessor
<1> QED
  BY <1>1, <1>2, QuietStep

\* The state of an evaluator and what IInv says of it.
LEMMA StateFacts ==
    ASSUME IInv, NEW e \in Evaluators
    PROVE  /\ evaluators[e] \in EvaluatorStates
           /\ EvaluatorConsistent(e)
           /\ evaluators[e].pc \in Unapproved \cup Approved
                => /\ evaluators[e].signal \in Signals
                   /\ evaluators[e].run \in DOMAIN runs[evaluators[e].signal]
                   /\ CurrentRun(e) \in Runs
                   /\ CurrentRun(e).order \in OrderRows
                   /\ Accords(evaluators[e], CurrentRun(e), RunOf(e))
                   /\ OrderConsistent(CurrentRun(e).order)
<1>1. evaluators[e] \in EvaluatorStates /\ EvaluatorConsistent(e)
  BY DEF IInv, TypeOK, EvaluatorsConsistent
<1>2. ASSUME evaluators[e].pc \in Unapproved \cup Approved
      PROVE  /\ evaluators[e].signal \in Signals
             /\ evaluators[e].run \in DOMAIN runs[evaluators[e].signal]
             /\ Accords(evaluators[e], CurrentRun(e), RunOf(e))
  BY <1>1, <1>2 DEF EvaluatorConsistent
<1>3. ASSUME NEW s \in Signals, NEW i \in DOMAIN runs[s]
      PROVE  /\ runs[s][i] \in Runs /\ runs[s][i].order \in OrderRows
             /\ OrderConsistent(runs[s][i].order)
  <2>1. runs[s] \in Seq(Runs) /\ i \in 1..Len(runs[s])
    BY DEF IInv, TypeOK
  <2>2. runs[s][i] \in Runs
    BY <2>1
  <2> QED
    BY <2>2 DEF IInv, RunsConsistent, RunConsistent, Runs
<1> QED
  BY <1>1, <1>2, <1>3 DEF CurrentRun

\* A step to another control point.
LEMMA GoToState ==
    ASSUME IInv, NEW e \in Evaluators, NEW pc \in PCs, GoTo(e, pc)
    PROVE  \E state \in EvaluatorStates :
                /\ state = [evaluators[e] EXCEPT !.pc = pc]
                /\ evaluators' = [evaluators EXCEPT ![e] = state]
                /\ state.pc = pc
                /\ state.signal = evaluators[e].signal
                /\ state.run = evaluators[e].run
                /\ state.policy = evaluators[e].policy
                /\ state.decision = evaluators[e].decision
<1>1. PICK old \in EvaluatorStates : old = evaluators[e]
  BY StateFacts
<1>2. PICK state : state = [old EXCEPT !.pc = pc]
  OBVIOUS
<1>3. state \in EvaluatorStates
  BY <1>2, MovedType
<1>4. evaluators' = [evaluators EXCEPT ![e] = state]
  BY <1>1, <1>2 DEF GoTo, IInv, TypeOK
<1>5. /\ state.pc = pc
      /\ state.signal = old.signal
      /\ state.run = old.run
      /\ state.policy = old.policy
      /\ state.decision = old.decision
  BY <1>2 DEF EvaluatorStates
<1> QED
  BY <1>1, <1>2, <1>3, <1>4, <1>5

-----------------------------------------------------------------------------
(* The actions of an evaluation *)

\* Where a scan takes an evaluator.
LEMMA ScanRests ==
    ASSUME NEW e \in Evaluators, NEW todo \in SUBSET Signals,
           \/ Become(e, At("scanning", todo))
           \/ Become(e, IF todo = {} THEN At("idle", {}) ELSE At("scanning", todo))
    PROVE  \E state \in EvaluatorStates :
                state.pc \in Resting /\ evaluators' = [evaluators EXCEPT ![e] = state]
<1>1. PICK pc \in {"idle", "scanning"}, rest \in SUBSET Signals :
            evaluators' = [evaluators EXCEPT ![e] = At(pc, rest)]
  BY DEF Become
<1>2. At(pc, rest) \in EvaluatorStates /\ At(pc, rest).pc = pc
  BY AtType DEF PCs, At
<1> QED
  BY <1>1, <1>2 DEF Resting

\* The signals a scan finds.
LEMMA ScanType == Scan \in SUBSET Signals
BY DEF Scan

\* A tick raises, finds an anomaly, or scans.
LEMMA BeginTickKeeps ==
    ASSUME IInv, NEW e \in Evaluators, BeginTick(e)
    PROVE  IInv'
<1>1. UNCHANGED <<worldVars, runs, postVars>>
  BY DEF BeginTick
<1>2. CASE Raise(e)
  BY <1>1, <1>2, WorldQuiet, RaiseRests, RestStep
<1>3. CASE Become(e, [At("alarmed", {}) EXCEPT !.guards.paused = activePauses = 1])
  <2>1. PICK old \in EvaluatorStates : old = At("alarmed", {})
    <3>1. "alarmed" \in PCs /\ {} \in SUBSET Signals
      BY DEF PCs
    <3> QED
      BY <3>1, AtType
  <2>2. PICK state : state = [old EXCEPT !.guards.paused = activePauses = 1]
    OBVIOUS
  <2>3. state \in EvaluatorStates /\ state.pc = "alarmed"
    <3>1. old.pc = "alarmed"
      BY <2>1 DEF At
    <3> QED
      BY <2>2, <3>1 DEF EvaluatorStates, Guards
  <2>4. evaluators' = [evaluators EXCEPT ![e] = state]
    BY <1>3, <2>1, <2>2, Zenon DEF Become
  <2> QED
    BY <1>1, <2>3, <2>4, WorldQuiet, RestStep DEF Resting
<1>4. CASE Become(e, At("scanning", Scan))
  BY <1>1, <1>4, WorldQuiet, ScanType, ScanRests, RestStep
<1> QED
  BY <1>2, <1>3, <1>4, Zenon DEF BeginTick

\* The pause after an anomaly ends no pause, and the evaluator scans.
LEMMA CommitAnomalyPauseKeeps ==
    ASSUME IInv, NEW e \in Evaluators, CommitAnomalyPause(e)
    PROVE  IInv'
<1>1. /\ UNCHANGED <<runs, postVars, signals>>
      /\ activePauses' \in {activePauses, activePauses + 1}
      /\ UNCHANGED <<policies, control, killSwitch, mode, requests, health,
                     failures, recentRuns, disturbances>>
  BY DEF CommitAnomalyPause, windowVars
<1>2. WorldTypeOK' /\ ResumeHasPause'
  BY <1>1, TypeSplit DEF IInv, WorldTypeOK, ResumeHasPause
<1>3. Become(e, IF Scan = {} THEN At("idle", {}) ELSE At("scanning", Scan))
  BY DEF CommitAnomalyPause
<1> QED
  BY <1>1, <1>2, <1>3, ScanType, ScanRests, RestStep

\* An evaluator selects a signal that has, for all it sees, one run at most.
LEMMA SelectKeeps ==
    ASSUME IInv, NEW e \in Evaluators, NEW s \in Signals, Select(e, s)
    PROVE  IInv'
<1>1. UNCHANGED <<worldVars, runs, postVars>> /\ evaluators[e].pc = "scanning"
  BY DEF Select
<1>2. PICK todo \in SUBSET Signals : todo = evaluators[e].todo
  BY StateFacts DEF EvaluatorStates
<1>3. CASE Raise(e)
  BY <1>1, <1>3, WorldQuiet, RaiseRests, RestStep
<1>4. CASE Become(e, IF todo = {s} THEN At("idle", {})
                     ELSE At("scanning", todo \ {s}))
  <2>1. Become(e, IF todo \ {s} = {} THEN At("idle", {})
                  ELSE At("scanning", todo \ {s}))
        \/ Become(e, At("scanning", todo \ {s}))
    BY <1>4
  <2> QED
    BY <1>1, <2>1, WorldQuiet, ScanRests, RestStep
<1>5. ASSUME NEW state \in EvaluatorStates, state.pc = "selected", state.signal = s,
             evaluators' = [evaluators EXCEPT ![e] = state],
             ~(Len(Recorded(s)) > 1)
      PROVE  IInv'
  <2>1. runs[s] \in Seq(Runs)
    BY DEF IInv, TypeOK
  <2>2. signals[s] = "retired" \/ Len(runs[s]) <= 1
    BY <1>5, <2>1 DEF Recorded
  <2>3. Successor(e, state)
    BY <1>1, <1>5, <2>2 DEF Successor, HasPolicy, Deciding, Unapproved, Approved
  <2> QED
    BY <1>1, <1>5, <2>3, WorldQuiet, QuietStep
<1>6. PICK old \in EvaluatorStates :
            old = [At("selected", todo) EXCEPT !.signal = s]
            /\ old.pc = "selected" /\ old.signal = s
  <2>1. PICK at \in EvaluatorStates : at = At("selected", todo) /\ at.pc = "selected"
    BY AtType DEF PCs, At
  <2>2. PICK state : state = [at EXCEPT !.signal = s]
    OBVIOUS
  <2>3. state \in EvaluatorStates /\ state.pc = "selected" /\ state.signal = s
    BY <2>1, <2>2 DEF EvaluatorStates
  <2>4. state = [At("selected", todo) EXCEPT !.signal = s]
    BY <2>1, <2>2, Zenon
  <2> QED
    BY <2>3, <2>4, Zenon
<1>7. CASE ~(Len(Recorded(s)) > 1)
           /\ Become(e, [At("selected", todo) EXCEPT !.signal = s])
  <2>1. evaluators' = [evaluators EXCEPT ![e] = old]
    BY <1>6, <1>7, Zenon DEF Become
  <2> QED
    BY <1>5, <1>6, <1>7, <2>1
<1>8. ASSUME ~(Len(Recorded(s)) > 1), NEW p \in Policies,
             Become(e, [[At("selected", todo) EXCEPT !.signal = s] EXCEPT
                            !.policy = p,
                            !.optIn = policies[p].optIn,
                            !.dryRun = policies[p].dryRun])
      PROVE  IInv'
  <2>1. PICK row \in PolicyRow : row = policies[p]
    BY DEF IInv, TypeOK
  <2>2. PICK state : state = [old EXCEPT !.policy = p,
                                         !.optIn = row.optIn, !.dryRun = row.dryRun]
    OBVIOUS
  <2>3. state \in EvaluatorStates /\ state.pc = "selected" /\ state.signal = s
    BY <1>6, <2>1, <2>2 DEF EvaluatorStates
  <2>4. evaluators' = [evaluators EXCEPT ![e] = state]
    BY <1>6, <1>8, <2>1, <2>2, Zenon DEF Become
  <2> QED
    BY <1>5, <1>8, <2>3, <2>4
<1> QED
  BY <1>2, <1>3, <1>4, <1>7, <1>8, Zenon DEF Select

\* The guards are read, for the selected signal.
LEMMA ReadGuardsKeeps ==
    ASSUME IInv, NEW e \in Evaluators, ReadGuards(e)
    PROVE  IInv'
<1>1. UNCHANGED <<worldVars, runs, postVars>> /\ evaluators[e].pc = "selected"
  BY DEF ReadGuards
<1>2. CASE Raise(e)
  BY <1>1, <1>2, WorldQuiet, RaiseRests, RestStep
<1>3. CASE evaluators' = [evaluators EXCEPT
                ![e].pc = "guarded",
                ![e].guards = [enabled |-> control,
                               paused |-> activePauses = 1,
                               trading |-> killSwitch]]
  <2>1. PICK g \in Guards : g = [enabled |-> control,
                                paused |-> activePauses = 1,
                                trading |-> killSwitch]
    <3>1. PICK g : g = [enabled |-> control,
                        paused |-> activePauses = 1,
                        trading |-> killSwitch]
      OBVIOUS
    <3>2. g \in Guards
      BY <3>1 DEF IInv, TypeOK, Guards
    <3> QED
      BY <3>1, <3>2, Zenon
  <2>2. evaluators' = [evaluators EXCEPT ![e].pc = "guarded", ![e].guards = g]
    BY <1>3, <2>1, Zenon
  <2>3. PICK old \in EvaluatorStates : old = evaluators[e]
    BY StateFacts
  <2>4. PICK state : state = [old EXCEPT !.pc = "guarded", !.guards = g]
    OBVIOUS
  <2>5. /\ state \in EvaluatorStates
        /\ state.pc = "guarded" /\ state.signal = old.signal
    BY <2>4 DEF EvaluatorStates, PCs
  <2>6. evaluators' = [evaluators EXCEPT ![e] = state]
    BY <2>2, <2>3, <2>4 DEF IInv, TypeOK
  <2>7. Successor(e, state)
    BY <1>1, <2>3, <2>5, StateFacts
    DEF Successor, EvaluatorConsistent, HasPolicy, Deciding, Unapproved, Approved
  <2> QED
    BY <1>1, <2>5, <2>6, <2>7, WorldQuiet, QuietStep
<1> QED
  BY <1>2, <1>3, Zenon DEF ReadGuards

\* A decision that allows an order has a policy.
LEMMA DecisionType ==
    ASSUME NEW state \in EvaluatorStates, NEW clears \in BOOLEAN
    PROVE  /\ Decision(state, clears) \in Decisions
           /\ Decision(state, clears) = "automation_allowed" => state.policy \in Policies
BY DEF Decision, Decisions, EvaluatorStates

\* What a decision leaves of the state.
LEMMA DecidedType ==
    ASSUME NEW state \in EvaluatorStates, NEW decision \in Decisions
    PROVE  /\ Decided(state, decision) \in EvaluatorStates
           /\ Decided(state, decision).pc = "decided"
           /\ Decided(state, decision).signal = state.signal
           /\ Decided(state, decision).decision = decision
           /\ decision = "automation_allowed"
                => Decided(state, decision).policy = state.policy
<1>1. PICK at \in EvaluatorStates : at = At("decided", state.todo)
  <2>1. "decided" \in PCs /\ state.todo \in SUBSET Signals
    BY DEF PCs, EvaluatorStates
  <2> QED
    BY <2>1, AtType
<1>2. at.pc = "decided"
  BY <1>1 DEF At
<1>3. PICK kept : kept = [at EXCEPT !.signal = state.signal,
                                    !.decision = decision,
                                    !.guards.trading = state.guards.trading]
  OBVIOUS
<1>4. /\ kept \in EvaluatorStates
      /\ kept.pc = "decided" /\ kept.signal = state.signal /\ kept.decision = decision
  BY <1>2, <1>3 DEF EvaluatorStates, Guards
<1>5. PICK full : full = [kept EXCEPT !.policy = state.policy, !.dryRun = state.dryRun]
  OBVIOUS
<1>6. /\ full \in EvaluatorStates
      /\ full.pc = "decided" /\ full.signal = state.signal /\ full.decision = decision
      /\ full.policy = state.policy
  BY <1>4, <1>5 DEF EvaluatorStates
<1>7. Decided(state, decision) = IF decision = "automation_allowed" THEN full ELSE kept
  BY <1>1, <1>3, <1>5, Zenon DEF Decided
<1> QED
  BY <1>4, <1>6, <1>7

\* A decision is taken.
LEMMA DecideKeeps ==
    ASSUME IInv, NEW e \in Evaluators, Decide(e)
    PROVE  IInv'
<1>1. UNCHANGED <<worldVars, runs, postVars>> /\ evaluators[e].pc = "guarded"
  BY DEF Decide
<1>2. CASE Raise(e)
  BY <1>1, <1>2, WorldQuiet, RaiseRests, RestStep
<1>3. ASSUME NEW clears \in BOOLEAN,
             Become(e, Decided(evaluators[e], Decision(evaluators[e], clears)))
      PROVE  IInv'
  <2>1. PICK old \in EvaluatorStates : old = evaluators[e]
    BY StateFacts
  <2>2. PICK decision \in Decisions :
            /\ decision = Decision(evaluators[e], clears)
            /\ decision = "automation_allowed" => old.policy \in Policies
    BY <2>1, DecisionType
  <2>3. PICK state \in EvaluatorStates :
            /\ state = Decided(old, decision)
            /\ state.pc = "decided" /\ state.signal = old.signal
            /\ state.decision = decision
            /\ decision = "automation_allowed" => state.policy = old.policy
    BY DecidedType
  <2>4. evaluators' = [evaluators EXCEPT ![e] = state]
    BY <1>3, <2>1, <2>2, <2>3, Zenon DEF Become
  <2>5. Successor(e, state)
    BY <1>1, <2>1, <2>2, <2>3, StateFacts
    DEF Successor, EvaluatorConsistent, HasPolicy, Deciding, Unapproved, Approved
  <2> QED
    BY <1>1, <2>3, <2>4, <2>5, WorldQuiet, QuietStep
<1> QED
  BY <1>2, <1>3, Zenon DEF Decide

\* The run of an ineligible signal, and of a preview, starts unapproved.
LEMMA CommitIneligibleKeeps ==
    ASSUME IInv, NEW e \in Evaluators, CommitIneligible(e)
    PROVE  IInv'
<1>1. PICK s \in Signals : s = evaluators[e].signal /\ e \in Pending(s)
  BY StateFacts DEF CommitIneligible, EvaluatorConsistent, Deciding, Pending
<1>2. PICK run \in Runs : run = [status |-> "manual_review_required", order |-> NoOrder]
  BY NewOrders DEF Runs, RunStatus, Decisions
<1>3. /\ run.status \notin {"submitted", "dry_run_submitted"}
      /\ run.order.key = NoPolicy /\ run.order.by = "none"
      /\ OrderConsistent(run.order)
  BY <1>2 DEF NoOrder, Preview, OrderConsistent
<1>4. Appends(s, run)
  BY <1>1, <1>2, Zenon DEF CommitIneligible, Appends
<1>5. /\ UNCHANGED <<worldVars, postVars>> /\ NextSignal(e)
      /\ signals[s] # "retired"
  BY <1>1 DEF CommitIneligible, SignalExists
<1>6. PICK state \in EvaluatorStates :
            state.pc \in Resting /\ evaluators' = [evaluators EXCEPT ![e] = state]
  BY <1>5, NextSignalRests
<1>7. /\ HasPolicy(state)
      /\ state.pc \notin Deciding /\ state.pc \notin Unapproved \cup Approved
  BY <1>6, RestingSuccessor
<1> QED
  BY <1>1, <1>3, <1>4, <1>5, <1>6, <1>7, WorldQuiet, AppendStep

\* The run of a preview starts unapproved, under a random id, and has an owner.
LEMMA CommitPreviewKeeps ==
    ASSUME IInv, NEW e \in Evaluators, CommitPreview(e)
    PROVE  IInv'
<1>1. PICK s \in Signals : s = evaluators[e].signal /\ e \in Pending(s)
  BY StateFacts DEF CommitPreview, EvaluatorConsistent, Deciding, Pending
<1>2. PICK old \in EvaluatorStates : old = evaluators[e]
  BY StateFacts
<1>3. PICK passed \in BOOLEAN :
            runs' = [runs EXCEPT ![s] = Append(@, [status |-> old.decision,
                                                   order |-> Preview(passed)])]
  BY <1>1, <1>2, Zenon DEF CommitPreview
<1>4. PICK run \in Runs : run = [status |-> old.decision, order |-> Preview(passed)]
  BY <1>2, NewOrders DEF Runs, RunStatus, EvaluatorStates
<1>5. /\ run.status \notin {"submitted", "dry_run_submitted"}
      /\ run.order.key = NoPolicy /\ run.order.by = "none"
      /\ OrderConsistent(run.order)
  BY <1>2, <1>4 DEF Preview, OrderConsistent, EvaluatorStates, Decisions
<1>6. Appends(s, run)
  BY <1>3, <1>4, Zenon DEF Appends
<1>7. /\ UNCHANGED <<worldVars, postVars>> /\ evaluators[e].pc = "decided"
      /\ signals[s] # "retired"
  BY <1>1 DEF CommitPreview, SignalExists
<1>8. PICK n \in 1..(1 + Cardinality(Evaluators)) : n = Len(runs[s]) + 1
  BY <1>1, <1>7, RoomForRun
<1>9. PICK state : state = [old EXCEPT !.pc = "previewed", !.run = n]
  OBVIOUS
<1>10. /\ state \in EvaluatorStates
       /\ state.pc = "previewed" /\ state.signal = s /\ state.run = n
       /\ state.decision = old.decision /\ state.policy = old.policy
  <2>1. n \in 0..(1 + Cardinality(Evaluators)) /\ "previewed" \in PCs
    BY <1>8, BoundType DEF PCs
  <2>2. state \in EvaluatorStates
    BY <1>9, <2>1 DEF EvaluatorStates
  <2> QED
    BY <1>1, <1>2, <1>9, <2>2 DEF EvaluatorStates
<1>11. evaluators' = [evaluators EXCEPT ![e].pc = "previewed", ![e].run = n]
  BY <1>1, <1>8, Zenon DEF CommitPreview
<1>12. evaluators' = [evaluators EXCEPT ![e] = state]
  BY <1>2, <1>9, <1>11 DEF IInv, TypeOK
<1>13. HasPolicy(state) /\ state.pc \notin Deciding
  BY <1>2, <1>7, <1>10, StateFacts DEF HasPolicy, EvaluatorConsistent, Deciding
<1> QED
  BY <1>1, <1>5, <1>6, <1>7, <1>8, <1>10, <1>12, <1>13, WorldQuiet, AppendStep

\* A step to another control point that fits the run.
LEMMA GoToKeeps ==
    ASSUME IInv, NEW e \in Evaluators, NEW pc \in Unapproved \cup Approved,
           GoTo(e, pc), UNCHANGED <<worldVars, runs, postVars>>,
           evaluators[e].pc \in Unapproved \cup Approved,
           pc \in {"dry_run", "approving"} => evaluators[e].policy \in Policies,
           \A state : state.pc = pc => Accords(state, CurrentRun(e), RunOf(e)),
           pc # "previewed"
    PROVE  IInv'
<1>1. pc \in PCs /\ pc \notin Deciding
  BY DEF PCs, Unapproved, Approved, Deciding
<1>2. PICK state \in EvaluatorStates :
            /\ evaluators' = [evaluators EXCEPT ![e] = state]
            /\ state.pc = pc
            /\ state.signal = evaluators[e].signal
            /\ state.run = evaluators[e].run
            /\ state.policy = evaluators[e].policy
  BY <1>1, GoToState
<1>3. Accords(state, CurrentRun(e), RunOf(e))
  BY <1>2
<1>4. HasPolicy(state)
  BY <1>2 DEF HasPolicy, Unapproved, Approved
<1>5. Successor(e, state)
  BY <1>1, <1>2, <1>3, <1>4 DEF Successor
<1> QED
  BY <1>2, <1>5, WorldQuiet, QuietStep

\* The screening of an allowed run is looked up.
LEMMA RefreshKeeps ==
    ASSUME IInv, NEW e \in Evaluators, Refresh(e)
    PROVE  IInv'
<1>1. UNCHANGED <<worldVars, runs, postVars>> /\ evaluators[e].pc = "previewed"
  BY DEF Refresh
<1>2. CASE NextSignal(e)
  BY <1>1, <1>2, WorldQuiet, NextSignalRests, RestStep
<1>3. CASE /\ evaluators[e].decision = "automation_allowed"
           /\ GoTo(e, AfterPreview(evaluators[e], CurrentRun(e).order.approval))
  <2>1. PICK pc \in {"unscreened", "dry_run", "approving"} :
            /\ pc = AfterPreview(evaluators[e], CurrentRun(e).order.approval)
            /\ pc # "unscreened" => CurrentRun(e).order.approval = "pending_approval"
    BY DEF AfterPreview
  <2>2. evaluators[e].pc \in Unapproved \cup Approved
    BY <1>1 DEF Unapproved
  <2>3. /\ Accords(evaluators[e], CurrentRun(e), RunOf(e))
        /\ OrderConsistent(CurrentRun(e).order)
    BY <2>2, StateFacts
  <2>4. \A state : state.pc = pc => Accords(state, CurrentRun(e), RunOf(e))
    BY <1>1, <2>1, <2>3 DEF Accords, OrderConsistent, Unapproved, Approved
  <2>5. evaluators[e].policy \in Policies
    BY <1>1, <1>3, StateFacts DEF EvaluatorConsistent, HasPolicy
  <2>6. GoTo(e, pc) /\ pc \in Unapproved \cup Approved /\ pc # "previewed"
    BY <1>3, <2>1 DEF Unapproved
  <2> QED
    BY <1>1, <2>2, <2>4, <2>5, <2>6, GoToKeeps
<1> QED
  BY <1>2, <1>3, Zenon DEF Refresh

\* The approved row is read back, and the way of execution chosen.
LEMMA ReloadKeeps ==
    ASSUME IInv, NEW e \in Evaluators, Reload(e)
    PROVE  IInv'
<1>1. UNCHANGED <<worldVars, runs, postVars>> /\ evaluators[e].pc = "approved"
  BY DEF Reload
<1>2. evaluators[e].pc \in Unapproved \cup Approved
  BY <1>1 DEF Approved
<1>3. PICK old \in EvaluatorStates : old = evaluators[e]
  BY StateFacts
<1>4. Accords(old, CurrentRun(e), RunOf(e)) /\ OrderConsistent(CurrentRun(e).order)
  BY <1>2, <1>3, StateFacts
<1>5. PICK row \in {"approved", "rejected", "submitted"} :
            row = CurrentRun(e).order.approval
  BY <1>1, <1>3, <1>4 DEF Accords, OrderConsistent, Approved
<1>6. PICK state : state = [old EXCEPT !.pc = "executing", !.row = row]
  OBVIOUS
<1>7. /\ state \in EvaluatorStates
      /\ state.pc = "executing" /\ state.signal = old.signal /\ state.run = old.run
  BY <1>6 DEF EvaluatorStates, PCs
<1>8. evaluators' = [evaluators EXCEPT ![e].pc = "executing", ![e].row = row]
  BY <1>5, Zenon DEF Reload
<1>9. evaluators' = [evaluators EXCEPT ![e] = state]
  BY <1>3, <1>6, <1>8 DEF IInv, TypeOK
<1>10. Accords(state, CurrentRun(e), RunOf(e))
  BY <1>1, <1>3, <1>4, <1>7 DEF Accords, Unapproved, Approved
<1>11. Successor(e, state)
  BY <1>2, <1>3, <1>7, <1>10 DEF Successor, HasPolicy, Deciding
<1> QED
  BY <1>1, <1>7, <1>9, <1>11, WorldQuiet, QuietStep

\* The way of execution is chosen, and an answer may not come.
LEMMA ExecuteKeeps ==
    ASSUME IInv, NEW e \in Evaluators, Execute(e) \/ Timeout(e)
    PROVE  IInv'
<1>1. /\ UNCHANGED <<worldVars, runs, postVars>>
      /\ evaluators[e].pc \in {"executing", "awaiting"}
  BY DEF Execute, Timeout
<1>2. PICK pc \in {"simulating", "posting", "failed"} : GoTo(e, pc)
  BY DEF Execute, Timeout, Route
<1>3. evaluators[e].pc \in Unapproved \cup Approved
  BY <1>1 DEF Approved
<1>4. Accords(evaluators[e], CurrentRun(e), RunOf(e))
  BY <1>3, StateFacts
<1>5. \A state : state.pc = pc => Accords(state, CurrentRun(e), RunOf(e))
  BY <1>1, <1>2, <1>4 DEF Accords, Unapproved, Approved
<1>6. pc \in Unapproved \cup Approved /\ pc # "previewed"
  BY <1>2 DEF Approved
<1> QED
  BY <1>1, <1>2, <1>3, <1>5, <1>6, GoToKeeps

\* Evaluations that end without a commit, and restarts.
LEMMA EndKeeps ==
    ASSUME IInv, NEW e \in Evaluators, LoseRun(e) \/ Abort(e) \/ Restart(e)
    PROVE  IInv'
<1>1. CASE LoseRun(e)
  BY <1>1, WorldQuiet, RaiseRests, RestStep DEF LoseRun
<1>2. CASE Abort(e)
  <2>1. UNCHANGED <<runs, postVars, signals>> /\ Raise(e)
    BY <1>2 DEF Abort
  <2>2. WorldTypeOK' /\ ResumeHasPause'
    BY <1>2, TypeSplit
    DEF Abort, Disturb, IInv, WorldTypeOK, ResumeHasPause, operatorVars, windowVars
  <2> QED
    BY <2>1, <2>2, RaiseRests, RestStep
<1>3. CASE Restart(e)
  <2>1. PICK state \in EvaluatorStates : state = At("idle", {}) /\ state.pc = "idle"
    <3>1. "idle" \in PCs /\ {} \in SUBSET Signals
      BY DEF PCs
    <3>2. At("idle", {}) \in EvaluatorStates
      BY <3>1, AtType
    <3> QED
      BY <3>2 DEF At
  <2>2. evaluators' = [evaluators EXCEPT ![e] = state]
    BY <1>3, <2>1 DEF Restart, Become
  <2> QED
    BY <1>3, <2>1, <2>2, WorldQuiet, RestStep DEF Restart, Resting
<1> QED
  BY <1>1, <1>2, <1>3

\* An evaluator commits a change of its run that places nothing.
LEMMA CommitKeeps ==
    ASSUME IInv, UNCHANGED <<postVars, signals>>, WorldTypeOK', ResumeHasPause',
           NEW e \in Evaluators, evaluators[e].pc \in Unapproved \cup Approved,
           NEW run \in Runs, SetRun(e, run),
           OrderConsistent(run.order),
           run.order.by = "none" => CurrentRun(e).order.by = "none",
           CurrentRun(e).order.by = "automation"
            => run.order.by = "automation" /\ run.order.key = CurrentRun(e).order.key,
           \/ run.order.key = CurrentRun(e).order.key
           \/ KeyFree(evaluators[e].signal, evaluators[e].run, run.order.key),
           run.status = "submitted" => Placed(RunOf(e)) \/ run.order.paper,
           run.status = "dry_run_submitted" => run.order.by # "automation",
           NEW state \in EvaluatorStates,
           evaluators' = [evaluators EXCEPT ![e] = state],
           HasPolicy(state), state.pc \notin Deciding,
           state.pc \in Unapproved \cup Approved
            => /\ state.signal = evaluators[e].signal /\ state.run = evaluators[e].run
               /\ Accords(state, run, RunOf(e))
    PROVE  IInv'
<1>1. PICK s \in Signals : s = evaluators[e].signal
  BY StateFacts
<1>2. PICK i : i = evaluators[e].run
  OBVIOUS
<1>3. \A id : Placed(id)' <=> Placed(id)
  BY DEF Placed
<1>4. runs' = [runs EXCEPT ![s][i] = run]
  BY <1>1, <1>2, Zenon DEF SetRun
<1>5. /\ CurrentRun(e) = runs[s][i]
      /\ RunOf(e) = <<s, i>>
  BY <1>1, <1>2 DEF CurrentRun, RunOf
<1>6. KeyFree(evaluators[e].signal, evaluators[e].run, run.order.key)
        => KeyFree(s, i, run.order.key)
  BY <1>1, <1>2
<1>7. /\ exchange \subseteq exchange' /\ Sent' \subseteq Placements
      /\ Sent' \ Sent = {}
  BY DEF IInv, TypeOK, Sent
<1>8. Edits(s, i, run)
  BY <1>3, <1>4, <1>5, <1>6, <1>7 DEF Edits
<1>9. state.pc \in Unapproved \cup Approved => Accords(state, run, <<s, i>>)'
  BY <1>3, <1>5 DEF Accords
<1> QED
  BY <1>1, <1>2, <1>8, <1>9, OwnerStep

\* The last commit of a run that goes back to the queue or was submitted.
LEMMA StatusKeeps ==
    ASSUME IInv, NEW e \in Evaluators,
           CommitRecheckFailure(e) \/ CommitSubmitted(e) \/ CommitSubmissionFailure(e)
    PROVE  IInv'
<1>1. /\ UNCHANGED <<signals, operatorVars, health, disturbances, postVars>>
      /\ CountFailure \/ CountOrder
      /\ NextSignal(e)
      /\ evaluators[e].pc \in {"unscreened", "executed", "failed"}
  BY DEF CommitRecheckFailure, CommitSubmitted, CommitSubmissionFailure
<1>2. PICK status \in {"manual_review_required", "submitted"} :
            /\ SetStatus(e, status)
            /\ status = "submitted" => evaluators[e].pc = "executed"
  BY DEF CommitRecheckFailure, CommitSubmitted, CommitSubmissionFailure
<1>3. evaluators[e].pc \in Unapproved \cup Approved
  BY <1>1 DEF Unapproved, Approved
<1>4. PICK old \in Runs : old = CurrentRun(e)
  BY <1>3, StateFacts
<1>5. PICK run : run = [old EXCEPT !.status = status]
  OBVIOUS
<1>6. run \in Runs /\ run.order = old.order /\ run.status = status
  BY <1>2, <1>5 DEF Runs, RunStatus, Decisions
<1>7. SetRun(e, run)
  BY <1>2, <1>4, <1>5, Zenon DEF SetStatus
<1>8. run.status = "submitted" => Placed(RunOf(e)) \/ run.order.paper
  BY <1>2, <1>3, <1>4, <1>6, StateFacts DEF Accords
<1>9. OrderConsistent(run.order)
  BY <1>3, <1>4, <1>6, StateFacts
<1>10. PICK state \in EvaluatorStates :
            state.pc \in Resting /\ evaluators' = [evaluators EXCEPT ![e] = state]
  BY <1>1, NextSignalRests
<1>11. /\ HasPolicy(state)
       /\ state.pc \notin Deciding /\ state.pc \notin Unapproved \cup Approved
  BY <1>10, RestingSuccessor
<1>12. WorldTypeOK' /\ ResumeHasPause' /\ UNCHANGED <<postVars, signals>>
  BY <1>1, WorldCounts
<1>13. /\ run.status # "dry_run_submitted"
       /\ run.order = CurrentRun(e).order
  BY <1>2, <1>4, <1>6
<1>14. /\ run.order.by = "none" => CurrentRun(e).order.by = "none"
       /\ CurrentRun(e).order.by = "automation"
            => run.order.by = "automation" /\ run.order.key = CurrentRun(e).order.key
       /\ run.order.key = CurrentRun(e).order.key
  BY <1>13
<1> QED
  BY <1>3, <1>6, <1>7, <1>8, <1>9, <1>10, <1>11, <1>12, <1>13, <1>14, CommitKeeps

\* A dry run is recorded under its derived id, or that id is taken.
LEMMA CommitDryRunKeeps ==
    ASSUME IInv, NEW e \in Evaluators, CommitDryRun(e)
    PROVE  IInv'
<1>1. /\ UNCHANGED <<signals, operatorVars, health, disturbances, postVars>>
      /\ evaluators[e].pc = "dry_run"
  BY DEF CommitDryRun
<1>2. CASE Raise(e) /\ UNCHANGED <<runs, windowVars>>
  BY <1>1, <1>2, WorldCounts, RaiseRests, RestStep
<1>3. CASE /\ KeyFree(evaluators[e].signal, evaluators[e].run, evaluators[e].policy)
           /\ SetRun(e, [CurrentRun(e) EXCEPT
                        !.status = "dry_run_submitted",
                        !.order.key = evaluators[e].policy])
           /\ CountOrder
           /\ NextSignal(e)
  <2>1. evaluators[e].pc \in Unapproved \cup Approved
    BY <1>1 DEF Unapproved
  <2>2. PICK k \in Policies : k = evaluators[e].policy
    BY <1>1, StateFacts DEF EvaluatorConsistent, HasPolicy
  <2>3. PICK old \in Runs : old = CurrentRun(e)
    BY <2>1, StateFacts
  <2>4. PICK run : run = [old EXCEPT !.status = "dry_run_submitted", !.order.key = k]
    OBVIOUS
  <2>5. /\ run \in Runs
        /\ run.status = "dry_run_submitted"
        /\ run.order = [old.order EXCEPT !.key = k]
    BY <2>4 DEF Runs, RunStatus, OrderRows
  <2>6. SetRun(e, run)
    BY <1>3, <2>2, <2>3, <2>4, Zenon
  <2>7. old.order \in OrderRows /\ OrderConsistent(old.order) /\ old.order.by # "automation"
    BY <1>1, <2>1, <2>3, StateFacts DEF Accords, Unapproved
  <2>8. /\ run.order.key = k /\ run.order.by = old.order.by
        /\ run.order.screened = old.order.screened
        /\ run.order.approval = old.order.approval /\ run.order.paper = old.order.paper
    BY <2>5, <2>7 DEF OrderRows
  <2>9. OrderConsistent(run.order)
    BY <2>7, <2>8 DEF OrderConsistent
  <2>10. PICK state \in EvaluatorStates :
            state.pc \in Resting /\ evaluators' = [evaluators EXCEPT ![e] = state]
    BY <1>3, NextSignalRests
  <2>11. /\ HasPolicy(state)
         /\ state.pc \notin Deciding /\ state.pc \notin Unapproved \cup Approved
    BY <2>10, RestingSuccessor
  <2>12. WorldTypeOK' /\ ResumeHasPause' /\ UNCHANGED <<postVars, signals>>
    BY <1>1, <1>3, WorldCounts
  <2>13. KeyFree(evaluators[e].signal, evaluators[e].run, run.order.key)
    BY <1>3, <2>2, <2>8
  <2>14. /\ run.order.by = "none" => CurrentRun(e).order.by = "none"
         /\ CurrentRun(e).order.by # "automation"
         /\ run.order.by # "automation"
    BY <2>3, <2>7, <2>8
  <2> QED
    BY <2>1, <2>5, <2>6, <2>9, <2>10, <2>11, <2>12, <2>13, <2>14, CommitKeeps
<1> QED
  BY <1>2, <1>3, Zenon DEF CommitDryRun

\* The changes of its order that an evaluator commits before it goes on.
LEMMA OrderKeeps ==
    ASSUME IInv, UNCHANGED <<worldVars, postVars>>,
           NEW e \in Evaluators, evaluators[e].pc \in Unapproved \cup Approved,
           NEW order \in OrderRows, SetOrder(e, order),
           OrderConsistent(order), order.by = "automation",
           CurrentRun(e).order.by = "automation" => order.key = CurrentRun(e).order.key,
           \/ order.key = CurrentRun(e).order.key
           \/ KeyFree(evaluators[e].signal, evaluators[e].run, order.key),
           NEW pc \in {"approved", "executed"}, GoTo(e, pc),
           pc = "executed" => Placed(RunOf(e)) \/ order.paper
    PROVE  IInv'
<1>1. PICK old \in Runs : old = CurrentRun(e)
  BY StateFacts
<1>2. PICK run : run = [old EXCEPT !.order = order]
  OBVIOUS
<1>3. run \in Runs /\ run.order = order /\ run.status = old.status
  BY <1>2 DEF Runs
<1>4. SetRun(e, run)
  BY <1>1, <1>2, Zenon DEF SetOrder
<1>5. run.status \notin {"submitted", "dry_run_submitted"}
  BY <1>1, <1>3, StateFacts DEF Accords
<1>6. pc \in PCs
  BY DEF PCs
<1>7. PICK state \in EvaluatorStates :
            /\ evaluators' = [evaluators EXCEPT ![e] = state]
            /\ state.pc = pc
            /\ state.signal = evaluators[e].signal
            /\ state.run = evaluators[e].run
  BY <1>6, GoToState
<1>8. HasPolicy(state) /\ state.pc \notin Deciding
  BY <1>7 DEF HasPolicy, Deciding
<1>9. Accords(state, run, RunOf(e))
  BY <1>3, <1>5, <1>7 DEF Accords, Unapproved
<1>10. WorldTypeOK' /\ ResumeHasPause' /\ UNCHANGED <<postVars, signals>>
  BY WorldQuiet
<1>11. /\ OrderConsistent(run.order)
       /\ run.order.by = "none" => CurrentRun(e).order.by = "none"
       /\ CurrentRun(e).order.by = "automation"
            => run.order.by = "automation" /\ run.order.key = CurrentRun(e).order.key
       /\ \/ run.order.key = CurrentRun(e).order.key
          \/ KeyFree(evaluators[e].signal, evaluators[e].run, run.order.key)
  BY <1>3
<1> QED
  BY <1>3, <1>4, <1>5, <1>7, <1>8, <1>9, <1>10, <1>11, CommitKeeps

\* Automation approves under the derived id, or that id is taken.
LEMMA CommitApprovalKeeps ==
    ASSUME IInv, NEW e \in Evaluators, CommitApproval(e)
    PROVE  IInv'
<1>1. UNCHANGED <<worldVars, postVars>> /\ evaluators[e].pc = "approving"
  BY DEF CommitApproval
<1>2. CASE Raise(e) /\ UNCHANGED runs
  BY <1>1, <1>2, WorldQuiet, RaiseRests, RestStep
<1>3. CASE /\ KeyFree(evaluators[e].signal, evaluators[e].run, evaluators[e].policy)
           /\ SetOrder(e, [CurrentRun(e).order EXCEPT
                        !.approval = "approved",
                        !.by = "automation",
                        !.key = evaluators[e].policy])
           /\ GoTo(e, "approved")
  <2>1. evaluators[e].pc \in Unapproved \cup Approved
    BY <1>1 DEF Unapproved
  <2>2. PICK k \in Policies : k = evaluators[e].policy
    BY <1>1, StateFacts DEF EvaluatorConsistent, HasPolicy
  <2>3. PICK old \in OrderRows : old = CurrentRun(e).order
    BY <2>1, StateFacts
  <2>4. PICK order : order = [old EXCEPT !.approval = "approved",
                                         !.by = "automation", !.key = k]
    OBVIOUS
  <2>5. /\ order \in OrderRows
        /\ order.approval = "approved" /\ order.by = "automation" /\ order.key = k
        /\ order.screened = old.screened /\ order.paper = old.paper
    BY <2>4 DEF OrderRows
  <2>6. SetOrder(e, order)
    BY <1>3, <2>2, <2>3, <2>4, Zenon
  <2>7. OrderConsistent(old) /\ old.by # "automation" /\ old.screened
    BY <1>1, <2>1, <2>3, StateFacts DEF Accords, Unapproved
  <2>8. OrderConsistent(order)
    BY <2>5, <2>7 DEF OrderConsistent
  <2>9. KeyFree(evaluators[e].signal, evaluators[e].run, order.key)
    BY <1>3, <2>2, <2>5
  <2> QED
    BY <1>1, <1>3, <2>1, <2>3, <2>5, <2>6, <2>7, <2>8, <2>9, OrderKeeps
<1> QED
  BY <1>2, <1>3, Zenon DEF CommitApproval

\* The order is simulated, or its placement recorded.
LEMMA CommitPaperKeeps ==
    ASSUME IInv, NEW e \in Evaluators, CommitPaper(e)
    PROVE  IInv'
<1>1. /\ UNCHANGED <<worldVars, postVars>> /\ evaluators[e].pc = "simulating"
      /\ GoTo(e, "executed")
  BY DEF CommitPaper
<1>2. evaluators[e].pc \in Unapproved \cup Approved
  BY <1>1 DEF Approved
<1>3. PICK old \in OrderRows : old = CurrentRun(e).order
  BY <1>2, StateFacts
<1>4. PICK order : order = [old EXCEPT !.paper = TRUE]
  OBVIOUS
<1>5. /\ order \in OrderRows
      /\ order.approval = old.approval /\ order.by = old.by /\ order.key = old.key
      /\ order.screened = old.screened /\ order.paper
  BY <1>4 DEF OrderRows
<1>6. SetOrder(e, order)
  BY <1>3, <1>4, Zenon DEF CommitPaper
<1>7. OrderConsistent(old) /\ old.by = "automation"
  BY <1>1, <1>2, <1>3, StateFacts DEF Accords, Approved
<1>8. OrderConsistent(order)
  BY <1>5, <1>7 DEF OrderConsistent
<1> QED
  BY <1>1, <1>2, <1>3, <1>5, <1>6, <1>7, <1>8, OrderKeeps

\* The order that the exchange answered for is recorded as submitted.
LEMMA CommitOrderKeeps ==
    ASSUME IInv, NEW e \in Evaluators, CommitOrder(e)
    PROVE  IInv'
<1>1. /\ UNCHANGED <<worldVars, postVars>> /\ evaluators[e].pc = "answered"
      /\ GoTo(e, "executed")
  BY DEF CommitOrder
<1>2. evaluators[e].pc \in Unapproved \cup Approved
  BY <1>1 DEF Approved
<1>3. PICK old \in OrderRows : old = CurrentRun(e).order
  BY <1>2, StateFacts
<1>4. PICK order : order = [old EXCEPT !.approval = "submitted"]
  OBVIOUS
<1>5. /\ order \in OrderRows
      /\ order.approval = "submitted" /\ order.by = old.by /\ order.key = old.key
      /\ order.screened = old.screened /\ order.paper = old.paper
  BY <1>4 DEF OrderRows
<1>6. SetOrder(e, order)
  BY <1>3, <1>4, Zenon DEF CommitOrder
<1>7. OrderConsistent(old) /\ old.by = "automation" /\ Placed(RunOf(e))
  BY <1>1, <1>2, <1>3, StateFacts DEF Accords, Approved
<1>8. OrderConsistent(order)
  BY <1>5, <1>7 DEF OrderConsistent
<1> QED
  BY <1>1, <1>2, <1>3, <1>5, <1>6, <1>7, <1>8, OrderKeeps

\* The number of a run fits the identifiers of orders.
LEMMA OrderIdType ==
    ASSUME IInv, NEW s \in Signals, NEW i \in DOMAIN runs[s]
    PROVE  <<s, i>> \in OrderIds
<1>1. runs[s] \in Seq(Runs) /\ Len(runs[s]) <= 1 + Cardinality(Evaluators)
  BY DEF IInv, TypeOK, RunsCounted
<1>2. i \in 1..(1 + Cardinality(Evaluators))
  BY <1>1, BoundType
<1> QED
  BY <1>2 DEF OrderIds

\* A commit that leaves the run as it is: what changes is where its orders are.
LEMMA SameRun ==
    ASSUME IInv, NEW s \in Signals, NEW i \in DOMAIN runs[s], UNCHANGED runs,
           exchange \subseteq exchange', Sent' \subseteq Placements,
           \A p \in Sent' \ Sent :
                /\ p.order = <<s, i>>
                /\ runs[s][i].order.by # "none"
                /\ p.by = "automation"
                    => runs[s][i].order.by = "automation" /\ runs[s][i].order.key = p.key
    PROVE  \E run \in Runs : run = runs[s][i] /\ Edits(s, i, run)
<1>1. runs \in [Signals -> Seq(Runs)] /\ runs[s] \in Seq(Runs)
  BY DEF IInv, TypeOK
<1>2. PICK run \in Runs : run = runs[s][i]
  BY <1>1
<1>3. RunConsistent(run, <<s, i>>)
  BY <1>2 DEF IInv, RunsConsistent
<1>4. Placed(<<s, i>>) => Placed(<<s, i>>)'
  BY DEF Placed
<1>5. runs' = [runs EXCEPT ![s][i] = run]
  <2>1. PICK w : w = [runs[s] EXCEPT ![i] = run]
    OBVIOUS
  <2>2. w = runs[s]
    BY <1>1, <1>2, <2>1
  <2>3. runs = [runs EXCEPT ![s] = w]
    BY <1>1, <2>2
  <2>4. [runs EXCEPT ![s][i] = run] = [runs EXCEPT ![s] = w]
    BY <2>1
  <2> QED
    BY <2>3, <2>4
<1>6. Edits(s, i, run)
  BY <1>2, <1>3, <1>4, <1>5 DEF Edits, RunConsistent
<1> QED
  BY <1>2, <1>6

\* An evaluator whose POST leaves, or is answered, works on with the same run.
LEMMA PostStep ==
    ASSUME IInv, UNCHANGED <<worldVars, runs>>,
           NEW e \in Evaluators, evaluators[e].pc \in {"posting", "awaiting"},
           NEW id, id = RunOf(e), NEW key, key = CurrentRun(e).order.key,
           NEW state \in EvaluatorStates,
           evaluators' = [evaluators EXCEPT ![e] = state],
           state.pc \in {"awaiting", "answered", "failed"},
           state.signal = evaluators[e].signal, state.run = evaluators[e].run,
           exchange \subseteq exchange', Sent' \subseteq Placements,
           \A p \in Sent' \ Sent :
                p.order = id /\ p.by = "automation" /\ p.key = key,
           state.pc = "answered" => Placed(id)'
    PROVE  IInv'
<1>1. evaluators[e].pc \in Unapproved \cup Approved /\ evaluators[e].pc \in Approved
  BY DEF Approved
<1>2. PICK s \in Signals : s = evaluators[e].signal
  BY <1>1, StateFacts
<1>3. PICK i \in DOMAIN runs[s] : i = evaluators[e].run
  BY <1>1, <1>2, StateFacts
<1>4. CurrentRun(e) = runs[s][i] /\ id = <<s, i>> /\ key = runs[s][i].order.key
  BY <1>2, <1>3 DEF CurrentRun, RunOf
<1>5. /\ runs[s][i].order.by = "automation"
      /\ runs[s][i].status \notin {"submitted", "dry_run_submitted"}
  BY <1>1, <1>4, StateFacts DEF Accords
<1>6. \A p \in Sent' \ Sent : /\ p.order = <<s, i>> /\ p.by = "automation"
                               /\ p.key = runs[s][i].order.key
  BY <1>4
<1>7. PICK run \in Runs : run = runs[s][i] /\ Edits(s, i, run)
  BY <1>5, <1>6, SameRun
<1>8. HasPolicy(state) /\ state.pc \notin Deciding
  BY DEF HasPolicy, Deciding
<1>9. Accords(state, run, <<s, i>>)'
  <2>1. state.pc = "answered" => Placed(<<s, i>>)'
    BY <1>4
  <2>2. run.order.by = "automation" /\ run.status \notin {"submitted", "dry_run_submitted"}
    BY <1>5, <1>7
  <2> QED
    BY <2>1, <2>2 DEF Accords, Unapproved
<1> QED
  BY <1>1, <1>2, <1>3, <1>7, <1>8, <1>9, WorldQuiet, OwnerStep

\* The POST of an approved order is on its way.
LEMMA PostKeeps ==
    ASSUME IInv, NEW e \in Evaluators, Post(e)
    PROVE  IInv'
<1>1. PICK old \in EvaluatorStates : old = evaluators[e]
  BY StateFacts
<1>2. PICK attempt \in 1..MaxAttempts : attempt = old.attempt + 1
  BY <1>1 DEF Post, EvaluatorStates
<1>3. PICK p : p = [PlacementBy(e) EXCEPT !.attempt = attempt]
  OBVIOUS
<1>4. /\ UNCHANGED <<worldVars, runs, exchange>> /\ old.pc = "posting"
      /\ transit' = transit \cup {p}
      /\ evaluators' = [evaluators EXCEPT ![e].pc = "awaiting", ![e].attempt = attempt]
  BY <1>1, <1>2, <1>3, Zenon DEF Post
<1>5. PICK state : state = [old EXCEPT !.pc = "awaiting", !.attempt = attempt]
  OBVIOUS
<1>6. /\ state \in EvaluatorStates /\ state.pc = "awaiting"
      /\ state.signal = old.signal /\ state.run = old.run
  <2>1. "awaiting" \in PCs /\ attempt \in 0..MaxAttempts
    BY DEF PCs
  <2> HIDE DEF PCs
  <2> QED
    BY <1>5, <2>1 DEF EvaluatorStates
<1>7. evaluators' = [evaluators EXCEPT ![e] = state]
  BY <1>1, <1>4, <1>5 DEF IInv, TypeOK
<1>8. evaluators[e].pc \in Unapproved \cup Approved
  BY <1>1, <1>4 DEF Approved
<1>9. PICK s \in Signals : s = evaluators[e].signal
  BY <1>8, StateFacts
<1>10. PICK i \in DOMAIN runs[s] : i = evaluators[e].run
  BY <1>8, <1>9, StateFacts
<1>11. PICK key \in Policies \cup {NoPolicy} : key = CurrentRun(e).order.key
  BY <1>8, StateFacts DEF OrderRows
<1>12. PICK id \in OrderIds : id = RunOf(e)
  BY <1>9, <1>10, OrderIdType DEF RunOf
<1>13. p = [order |-> id, key |-> key, by |-> "automation", attempt |-> attempt]
  BY <1>3, <1>11, <1>12 DEF PlacementBy, RunOf
<1>14. p \in Placements
  BY <1>11, <1>12, <1>13 DEF Placements
<1>15. /\ exchange \subseteq exchange' /\ Sent' \subseteq Placements
       /\ \A q \in Sent' \ Sent : q = p
  BY <1>4, <1>14 DEF IInv, TypeOK, Sent
<1>16. \A q \in Sent' \ Sent : q.order = id /\ q.by = "automation" /\ q.key = key
  BY <1>13, <1>15
<1>17. state.signal = evaluators[e].signal /\ state.run = evaluators[e].run
  BY <1>1, <1>6
<1> QED
  <2>1. UNCHANGED <<worldVars, runs>> /\ evaluators[e].pc \in {"posting", "awaiting"}
    BY <1>1, <1>4
  <2>2. /\ state.pc \in {"awaiting", "answered", "failed"}
        /\ state.pc = "answered" => Placed(id)'
    BY <1>6
  <2> QED
    BY <1>6, <1>7, <1>11, <1>12, <1>15, <1>16, <1>17, <2>1, <2>2, PostStep

\* What the exchange does with a POST that e waits for.
Hears(e) == \E p \in transit : AcceptAndAnswer(e, p) \/ Refuse(e, p)

\* The exchange answers an evaluator: it holds the order, or refuses it.
LEMMA HearsKeeps ==
    ASSUME IInv, NEW e \in Evaluators, Hears(e)
    PROVE  IInv'
<1>1. PICK p \in transit : AcceptAndAnswer(e, p) \/ Refuse(e, p)
  BY DEF Hears
<1>2. /\ UNCHANGED <<worldVars, runs>> /\ evaluators[e].pc = "awaiting"
      /\ PlacementBy(e) = p
  BY <1>1 DEF AcceptAndAnswer, Refuse, Awaits
<1>3. PICK id : id = RunOf(e) /\ p.order = id /\ p.by = "automation"
  BY <1>2 DEF PlacementBy, RunOf
<1>4. PICK pc \in {"answered", "failed"} :
            /\ GoTo(e, pc)
            /\ pc = "answered" => p \in exchange'
  BY <1>1, Zenon DEF AcceptAndAnswer, Refuse, Place
<1>5. exchange \subseteq exchange' /\ Sent' \subseteq Sent
  BY <1>1 DEF AcceptAndAnswer, Refuse, Place, Sent
<1>6. pc \in PCs
  BY DEF PCs
<1>7. PICK state \in EvaluatorStates :
            /\ evaluators' = [evaluators EXCEPT ![e] = state]
            /\ state.pc = pc
            /\ state.signal = evaluators[e].signal /\ state.run = evaluators[e].run
  BY <1>4, <1>6, GoToState
<1>8. pc = "answered" => Placed(id)'
  BY <1>3, <1>4 DEF Placed
<1>9. Sent' \subseteq Placements /\ Sent' \ Sent = {}
  BY <1>5 DEF IInv, TypeOK
<1> QED
  BY <1>2, <1>3, <1>5, <1>7, <1>8, <1>9, PostStep

-----------------------------------------------------------------------------
(* People, operators and the world *)

\* A person changes an order that automation left to him, or keeps what
\* automation made of it.
LEMMA EditKeepsAll ==
    ASSUME IInv, NEW s \in Signals, NEW i \in DOMAIN runs[s], NEW order \in OrderRows,
           runs' = [runs EXCEPT ![s][i].order = order],
           UNCHANGED <<signals, evaluators>>, WorldTypeOK', ResumeHasPause',
           OrderConsistent(order),
           order.key = runs[s][i].order.key,
           order.screened = runs[s][i].order.screened,
           order.paper = runs[s][i].order.paper,
           order.by = "automation" <=> runs[s][i].order.by = "automation",
           order.by = "none" => runs[s][i].order.by = "none",
           exchange \subseteq exchange', Sent' \subseteq Sent
    PROVE  IInv'
<1>1. runs \in [Signals -> Seq(Runs)] /\ runs[s] \in Seq(Runs)
  BY DEF IInv, TypeOK
<1>2. PICK old \in Runs : old = runs[s][i]
  BY <1>1
<1>3. PICK run : run = [old EXCEPT !.order = order]
  OBVIOUS
<1>4. run \in Runs /\ run.order = order /\ run.status = old.status
  BY <1>2, <1>3 DEF Runs
<1>5. runs' = [runs EXCEPT ![s][i] = run]
  BY <1>1, <1>2, <1>3
<1>6. RunConsistent(old, <<s, i>>)
  BY <1>2 DEF IInv, RunsConsistent
<1>7. Placed(<<s, i>>) => Placed(<<s, i>>)'
  BY DEF Placed
<1>8. /\ run.status = "submitted" => Placed(<<s, i>>)' \/ run.order.paper
      /\ run.status = "dry_run_submitted" => run.order.by # "automation"
  BY <1>2, <1>4, <1>6, <1>7 DEF RunConsistent
<1>9. Sent' \subseteq Placements /\ Sent' \ Sent = {}
  BY DEF IInv, TypeOK
<1>10. Edits(s, i, run)
  BY <1>2, <1>4, <1>5, <1>8, <1>9 DEF Edits
<1>11. SameFacts(run, runs[s][i])
  BY <1>2, <1>4 DEF SameFacts
<1> QED
  BY <1>4, <1>10, <1>11, HumanStep

\* Of the world, a person changes the count of disturbances.
LEMMA DisturbQuiet ==
    ASSUME IInv, Disturb, UNCHANGED <<signals, operatorVars, health, windowVars>>
    PROVE  UNCHANGED signals /\ WorldTypeOK' /\ ResumeHasPause'
BY TypeSplit DEF Disturb, IInv, WorldTypeOK, ResumeHasPause, operatorVars, windowVars

\* A person approves, rejects or executes.
LEMMA HumanKeeps ==
    ASSUME IInv, NEW s \in Signals, NEW i \in DOMAIN runs[s], Human(s, i)
    PROVE  IInv'
<1>1. PICK old \in OrderRows : old = runs[s][i].order
  <2>1. runs[s] \in Seq(Runs)
    BY DEF IInv, TypeOK
  <2>2. runs[s][i] \in Runs
    BY <2>1
  <2> QED
    BY <2>2 DEF Runs
<1>2. OrderConsistent(old)
  BY <1>1 DEF IInv, RunsConsistent, RunConsistent
<1>3. ASSUME NEW order, EditOrder(s, i, order)
      PROVE  /\ runs' = [runs EXCEPT ![s][i].order = order] /\ UNCHANGED evaluators
             /\ UNCHANGED signals /\ WorldTypeOK' /\ ResumeHasPause'
  BY <1>3, DisturbQuiet, Zenon DEF EditOrder
<1>4. CASE HumanApprove(s, i)
  <2>1. PICK order : order = [old EXCEPT !.approval = "approved", !.by = "human"]
    OBVIOUS
  <2>2. /\ order \in OrderRows
        /\ order.approval = "approved" /\ order.by = "human" /\ order.key = old.key
        /\ order.screened = old.screened /\ order.paper = old.paper
    BY <2>1 DEF OrderRows
  <2>3. EditOrder(s, i, order) /\ old.approval = "pending_approval" /\ UNCHANGED postVars
    BY <1>1, <1>4, <2>1, Zenon DEF HumanApprove
  <2>4. OrderConsistent(order)
    BY <1>2, <2>2, <2>3 DEF OrderConsistent
  <2>5. old.by = "none" /\ exchange \subseteq exchange' /\ Sent' \subseteq Sent
    BY <1>2, <2>3 DEF OrderConsistent, Sent
  <2> QED
    BY <1>1, <1>3, <2>2, <2>3, <2>4, <2>5, EditKeepsAll
<1>5. CASE HumanReject(s, i)
  <2>1. PICK order : order = [old EXCEPT !.approval = "rejected"]
    OBVIOUS
  <2>2. /\ order \in OrderRows
        /\ order.approval = "rejected" /\ order.by = old.by /\ order.key = old.key
        /\ order.screened = old.screened /\ order.paper = old.paper
    BY <2>1 DEF OrderRows
  <2>3. EditOrder(s, i, order) /\ UNCHANGED postVars
    BY <1>1, <1>5, <2>1, Zenon DEF HumanReject
  <2>4. OrderConsistent(order) /\ exchange \subseteq exchange' /\ Sent' \subseteq Sent
    BY <1>2, <2>2, <2>3 DEF OrderConsistent, Sent
  <2> QED
    BY <1>1, <1>3, <2>2, <2>3, <2>4, EditKeepsAll
<1>6. CASE HumanExecute(s, i)
  <2>1. PICK p : p = [order |-> <<s, i>>, key |-> old.key, by |-> "human",
                      attempt |-> disturbances + 1]
    OBVIOUS
  <2>2. /\ transit' = transit \cup {p} /\ old.approval = "approved" /\ Disturb
        /\ UNCHANGED <<signals, operatorVars, health, windowVars, runs, evaluators, exchange>>
    BY <1>1, <1>6, <2>1, Zenon DEF HumanExecute
  <2>3. disturbances + 1 \in 1..MaxDisturbances
    BY <2>2 DEF Disturb, IInv, TypeOK
  <2>4. p \in Placements /\ p.order = <<s, i>> /\ p.by = "human"
    BY <2>1, <2>3, OrderIdType DEF Placements, OrderRows
  <2>5. /\ exchange \subseteq exchange' /\ Sent' \subseteq Placements
        /\ \A q \in Sent' \ Sent : q = p
    BY <2>2, <2>4 DEF IInv, TypeOK, Sent
  <2>6. old.by # "none"
    BY <1>2, <2>2 DEF OrderConsistent
  <2>7. PICK run \in Runs : run = runs[s][i] /\ Edits(s, i, run)
    BY <1>1, <2>2, <2>4, <2>5, <2>6, SameRun
  <2>8. SameFacts(run, runs[s][i])
    BY <2>7 DEF SameFacts
  <2> QED
    BY <2>2, <2>7, <2>8, DisturbQuiet, HumanStep
<1> QED
  BY <1>4, <1>5, <1>6 DEF Human

\* The exchange accepts what a person, or an evaluator that is gone, had sent.
LEMMA NetworkKeeps ==
    ASSUME IInv, NEW p \in transit, AcceptForHuman(p) \/ AcceptUnheard(p)
    PROVE  IInv'
<1>1. Place(p) /\ UNCHANGED <<worldVars, evaluators>>
  BY DEF AcceptForHuman, AcceptUnheard
<1>2. PlacementConsistent(p) /\ p.order \in OrderIds
  BY DEF IInv, TypeOK, PlacementsConsistent, Sent, Placements
<1>3. PICK s \in Signals : p.order[1] = s /\ p.order[2] \in DOMAIN runs[s]
  BY <1>2 DEF PlacementConsistent, OrderIds
<1>8. PICK i \in DOMAIN runs[s] : i = p.order[2]
  BY <1>3
<1>4. exchange \subseteq exchange' /\ Sent' \subseteq Sent
  BY <1>1 DEF Place, Sent
<1>5. UNCHANGED <<signals, evaluators>> /\ WorldTypeOK' /\ ResumeHasPause'
  BY <1>1, WorldQuiet
<1>6. CASE AcceptUnheard(p)
  <2>1. UNCHANGED runs
    BY <1>6 DEF AcceptUnheard
  <2>2. Sent' \subseteq Placements /\ Sent' \ Sent = {}
    BY <1>4 DEF IInv, TypeOK
  <2>3. PICK run \in Runs : run = runs[s][i] /\ Edits(s, i, run)
    BY <1>4, <2>1, <2>2, SameRun
  <2>4. SameFacts(run, runs[s][i])
    BY <2>3 DEF SameFacts
  <2> QED
    BY <1>5, <2>3, <2>4, HumanStep
<1>7. CASE AcceptForHuman(p)
  <2>1. PICK old \in OrderRows : old = runs[s][i].order
    <3>1. runs[s] \in Seq(Runs)
      BY DEF IInv, TypeOK
    <3>2. runs[s][i] \in Runs
      BY <3>1
    <3> QED
      BY <3>2 DEF Runs
  <2>2. PICK order : order = [old EXCEPT !.approval = "submitted"]
    OBVIOUS
  <2>3. /\ order \in OrderRows
        /\ order.approval = "submitted" /\ order.by = old.by /\ order.key = old.key
        /\ order.screened = old.screened /\ order.paper = old.paper
    BY <2>2 DEF OrderRows
  <2>4. /\ old.approval = "approved"
        /\ runs' = [runs EXCEPT ![s][i].order.approval = "submitted"]
    BY <1>3, <1>7, <1>8, <2>1, Zenon DEF AcceptForHuman
  <2>5. runs' = [runs EXCEPT ![s][i].order = order]
    BY <2>1, <2>2, <2>4
  <2>6. OrderConsistent(old)
    BY <2>1 DEF IInv, RunsConsistent, RunConsistent
  <2>7. OrderConsistent(order)
    BY <2>3, <2>4, <2>6 DEF OrderConsistent
  <2> QED
    BY <1>4, <1>5, <2>1, <2>3, <2>5, <2>7, EditKeepsAll
<1> QED
  BY <1>6, <1>7

\* Operators change settings and pauses.  A pause that a request to resume
\* ends is there when the request commits.
LEMMA OperateKeeps ==
    ASSUME IInv, Operate
    PROVE  IInv'
<1>1. UNCHANGED <<runs, evaluators, postVars, signals>>
  BY DEF Operate, SetPolicy, EnableOrDisable, SetKillSwitch, SetExecutionMode,
         BeginPause, CommitPause, BeginResume, CommitResume
<1>2. Monotone
  BY <1>1 DEF Monotone
<1>3. WorldTypeOK /\ ResumeHasPause
  BY TypeSplit DEF IInv
<1>4. WorldTypeOK' /\ ResumeHasPause'
  <2>1. CASE \E p \in Policies : \E row \in PolicySettings : SetPolicy(p, row)
    <3>1. PICK p \in Policies, row \in PolicySettings : SetPolicy(p, row)
      BY <2>1
    <3>2. policies' \in [Policies -> PolicySettings]
      BY <1>3, <3>1 DEF SetPolicy, WorldTypeOK
    <3> QED
      BY <1>3, <3>1, <3>2
      DEF SetPolicy, Disturb, WorldTypeOK, ResumeHasPause, windowVars
  <2>2. CASE EnableOrDisable(~control) \/ SetKillSwitch(~killSwitch)
    <3>1. disturbances' \in 0..MaxDisturbances
      BY <1>3, <2>2 DEF EnableOrDisable, SetKillSwitch, Disturb, WorldTypeOK
    <3>2. control' \in BOOLEAN /\ killSwitch' \in BOOLEAN
      BY <1>3, <2>2, Zenon DEF EnableOrDisable, SetKillSwitch, WorldTypeOK
    <3>3. UNCHANGED <<policies, mode, activePauses, requests, health, failures, recentRuns>>
      BY <2>2, Zenon DEF EnableOrDisable, SetKillSwitch, windowVars
    <3> QED
      BY <1>1, <1>3, <3>1, <3>2, <3>3 DEF WorldTypeOK, ResumeHasPause
  <2>3. CASE \E m \in {"paper", "disabled"} : SetExecutionMode(m)
    BY <1>3, <2>3 DEF SetExecutionMode, Disturb, WorldTypeOK, ResumeHasPause, windowVars
  <2>4. CASE BeginPause
    BY <1>3, <2>4 DEF BeginPause, Disturb, WorldTypeOK, ResumeHasPause, windowVars
  <2>5. CASE CommitPause
    BY <1>3, <2>5 DEF CommitPause, WorldTypeOK, ResumeHasPause, windowVars
  <2>6. CASE BeginResume
    <3>1. requests' \in [pauses : Nat, resume : BOOLEAN]
      <4>1. requests' = [requests EXCEPT !.resume = TRUE]
        BY <2>6 DEF BeginResume
      <4> QED
        BY <1>3, <4>1 DEF WorldTypeOK
    <3>3. activePauses > 0
      BY <2>6 DEF BeginResume
    <3>2. /\ UNCHANGED <<signals, policies, control, killSwitch, mode, activePauses, health,
                         failures, recentRuns>>
          /\ Disturb
      BY <2>6, Zenon DEF BeginResume, windowVars
    <3> QED
      BY <1>3, <3>1, <3>2, <3>3 DEF Disturb, WorldTypeOK, ResumeHasPause
  <2>7. CASE CommitResume
    <3>1. requests' \in [pauses : Nat, resume : BOOLEAN] /\ ~requests'.resume
      <4>1. requests' = [requests EXCEPT !.resume = FALSE]
        BY <2>7 DEF CommitResume
      <4> QED
        BY <1>3, <4>1 DEF WorldTypeOK
    <3>3. activePauses' \in Nat
      <4>1. activePauses \in Nat /\ activePauses > 0 /\ activePauses' = activePauses - 1
        BY <1>3, <2>7 DEF CommitResume, WorldTypeOK, ResumeHasPause
      <4> QED
        BY <4>1
    <3>2. UNCHANGED <<signals, policies, control, killSwitch, mode, health, failures,
                      recentRuns, disturbances>>
      BY <2>7, Zenon DEF CommitResume, windowVars
    <3> QED
      BY <1>3, <3>1, <3>2, <3>3 DEF WorldTypeOK, ResumeHasPause
  <2> QED
    BY <2>1, <2>2, <2>3, <2>4, <2>5, <2>6, <2>7 DEF Operate
<1> QED
  BY <1>1, <1>2, <1>4, WorldStep

\* Signals come and go, services report, and the window slides.
LEMMA WorldKeeps ==
    ASSUME IInv, World
    PROVE  IInv'
<1>1. UNCHANGED <<runs, evaluators, postVars>>
  BY DEF World, Arrive, Replace, ReportHealth, SlideWindow
<1>2. WorldTypeOK /\ ResumeHasPause
  BY TypeSplit DEF IInv
<1>3. CASE \E s \in Signals : Arrive(s) \/ Replace(s)
  <2>1. PICK s \in Signals : Arrive(s) \/ Replace(s)
    BY <1>3
  <2>2. signals' \in [Signals -> {"future", "active", "retired"}] /\ Monotone
    BY <1>2, <2>1 DEF Arrive, Replace, IsNext, WorldTypeOK, Monotone
  <2>3. WorldTypeOK' /\ ResumeHasPause'
    <3>1. /\ Disturb
          /\ UNCHANGED <<policies, control, killSwitch, mode, activePauses, requests,
                         health, failures, recentRuns>>
      BY <2>1, Zenon DEF Arrive, Replace, operatorVars, windowVars
    <3> QED
      BY <1>2, <2>2, <3>1 DEF Disturb, WorldTypeOK, ResumeHasPause
  <2> QED
    BY <1>1, <2>2, <2>3, WorldStep
<1>4. CASE \E status \in {"healthy", "degraded"} : ReportHealth(status)
  <2>1. /\ WorldTypeOK' /\ ResumeHasPause' /\ Monotone
    BY <1>2, <1>4 DEF ReportHealth, Disturb, WorldTypeOK, ResumeHasPause, Monotone,
                      operatorVars, windowVars
  <2> QED
    BY <1>1, <2>1, WorldStep
<1>5. CASE \E f \in 0..failures, n \in 0..recentRuns : SlideWindow(f, n)
  <2>1. /\ WorldTypeOK' /\ ResumeHasPause' /\ Monotone
    BY <1>2, <1>5 DEF SlideWindow, Disturb, WorldTypeOK, ResumeHasPause, Monotone,
                      operatorVars
  <2> QED
    BY <1>1, <2>1, WorldStep
<1> QED
  BY <1>3, <1>4, <1>5 DEF World

-----------------------------------------------------------------------------
(* The inductive invariant *)

\* A database with nothing evaluated yet satisfies the invariant.
LEMMA InitEstablishes == Init => IInv
<1> SUFFICES ASSUME Init PROVE IInv
  OBVIOUS
<1>1. WorldTypeOK
  BY ConfigurationsAssumption DEF Init, Database, WorldTypeOK
<1>2. /\ runs \in [Signals -> Seq(Runs)]
      /\ \A s \in Signals : runs[s] = << >> /\ DOMAIN runs[s] = {} /\ Len(runs[s]) = 0
  BY DEF Init
<1>3. At("idle", {}) \in EvaluatorStates /\ At("idle", {}).pc = "idle"
  <2>1. "idle" \in PCs /\ {} \in SUBSET Signals
    BY DEF PCs
  <2>2. At("idle", {}) \in EvaluatorStates
    BY <2>1, AtType
  <2> QED
    BY <2>2 DEF At
<1>4. /\ evaluators \in [Evaluators -> EvaluatorStates]
      /\ \A e \in Evaluators : evaluators[e].pc = "idle"
  BY <1>3 DEF Init
<1>5. Sent = {} /\ requests.resume = FALSE
  BY DEF Init, Sent
<1>6. \A s \in Signals : Cardinality(Pending(s)) = 0
  <2>1. \A s \in Signals : Pending(s) = {}
    BY <1>4 DEF Pending, Deciding
  <2> QED
    BY <2>1, FS_EmptySet
<1>7. RunsCounted
  BY <1>2, <1>6, BoundType DEF RunsCounted
<1>8. EvaluatorsConsistent /\ OwnersDistinct
  BY <1>4 DEF EvaluatorsConsistent, EvaluatorConsistent, HasPolicy, OwnersDistinct,
              Deciding, Unapproved, Approved
<1>9. RunsConsistent /\ KeysUnique
  BY <1>2 DEF RunsConsistent, KeysUnique
<1>10. TypeOK
  BY <1>1, <1>2, <1>4, <1>5, TypeSplit
<1> QED
  BY <1>5, <1>7, <1>8, <1>9, <1>10 DEF IInv, ResumeHasPause, PlacementsConsistent

\* Every step keeps it, and so does no step.
LEMMA NextKeeps == IInv /\ [Next]_vars => IInv'
<1> SUFFICES ASSUME IInv, [Next]_vars PROVE IInv'
  OBVIOUS
<1>1. ASSUME NEW e \in Evaluators,
             BeginTick(e) \/ Evaluate(e) \/ Abort(e) \/ Restart(e)
      PROVE  IInv'
  <2>1. CASE BeginTick(e)
    BY <2>1, BeginTickKeeps
  <2>2. CASE CommitAnomalyPause(e)
    BY <2>2, CommitAnomalyPauseKeeps
  <2>3. CASE \E s \in Signals : Select(e, s)
    BY <2>3, SelectKeeps
  <2>4. CASE ReadGuards(e) \/ Decide(e)
    BY <2>4, ReadGuardsKeeps, DecideKeeps
  <2>5. CASE CommitIneligible(e) \/ CommitPreview(e)
    BY <2>5, CommitIneligibleKeeps, CommitPreviewKeeps
  <2>6. CASE Refresh(e) \/ Reload(e)
    BY <2>6, RefreshKeeps, ReloadKeeps
  <2>7. CASE CommitRecheckFailure(e) \/ CommitSubmitted(e) \/ CommitSubmissionFailure(e)
    BY <2>7, StatusKeeps
  <2>8. CASE CommitDryRun(e) \/ CommitApproval(e)
    BY <2>8, CommitDryRunKeeps, CommitApprovalKeeps
  <2>9. CASE Execute(e) \/ Timeout(e)
    BY <2>9, ExecuteKeeps
  <2>10. CASE Post(e)
    BY <2>10, PostKeeps
  <2>11. CASE CommitPaper(e) \/ CommitOrder(e)
    BY <2>11, CommitPaperKeeps, CommitOrderKeeps
  <2>12. CASE LoseRun(e) \/ Abort(e) \/ Restart(e)
    BY <2>12, EndKeeps
  <2> QED
    BY <1>1, <2>1, <2>2, <2>3, <2>4, <2>5, <2>6, <2>7, <2>8, <2>9, <2>10, <2>11, <2>12
    DEF Evaluate
<1>2. CASE UNCHANGED vars
  <2>1. UNCHANGED <<worldVars, runs, evaluators, postVars>>
    BY <1>2 DEF vars
  <2>2. WorldTypeOK' /\ ResumeHasPause' /\ Monotone
    BY <2>1, WorldQuiet DEF Monotone
  <2> QED
    BY <2>1, <2>2, WorldStep
<1>3. ASSUME NEW p \in transit, Network(p) PROVE IInv'
  BY <1>3, HearsKeeps, NetworkKeeps DEF Network, Hears
<1> QED
  BY <1>1, <1>2, <1>3, OperateKeeps, HumanKeeps, WorldKeeps DEF Next

\* The facts of IInv hold in every reachable state: every order that an
\* evaluation, a person or a crash leaves behind is consistent with the runs,
\* the exchange and the evaluator that works on it.
THEOREM AutomationInvariance == Spec => []IInv
<1>1. Init => IInv
  BY InitEstablishes
<1>2. IInv /\ [Next]_vars => IInv'
  BY NextKeeps
<1> QED
  BY <1>1, <1>2, PTL DEF Spec

\* Every variable keeps its type.
THEOREM AutomationTypeCorrect == Spec => []TypeOK
<1>1. IInv => TypeOK
  BY DEF IInv
<1> QED
  BY <1>1, AutomationInvariance, PTL

\* However often evaluations overlap and are repeated, a signal gets at most
\* one run more than there are evaluators.
THEOREM SpecRunsBounded == Spec => []RunsBounded
<1>1. IInv => RunsBounded
  BY DEF IInv, RunsCounted, RunsBounded
<1> QED
  BY <1>1, AutomationInvariance, PTL

\* What a deduping exchange holds differs in the client order id.
Deduped ==
    ExchangeDedupes => \A p, q \in exchange : ClientId(p) = ClientId(q) => p = q

LEMMA ExchangeIsDeduped == Spec => []Deduped
<1>1. Init => Deduped
  BY DEF Init, Deduped
<1>2. IInv /\ Deduped /\ [Next]_vars => Deduped'
  <2> SUFFICES ASSUME IInv, Deduped, [Next]_vars PROVE Deduped'
    OBVIOUS
  <2>1. ASSUME NEW p, Place(p) PROVE Deduped'
    BY <2>1 DEF Deduped, Place, Acceptable, ClientId
  <2>2. ASSUME UNCHANGED exchange PROVE Deduped'
    BY <2>2 DEF Deduped, ClientId
  <2>3. (\E p : Place(p)) \/ UNCHANGED exchange
    <3>1. ASSUME NEW e \in Evaluators,
                 BeginTick(e) \/ Evaluate(e) \/ Abort(e) \/ Restart(e)
          PROVE  UNCHANGED exchange
      BY <3>1 DEF BeginTick, Evaluate, CommitAnomalyPause, Select, ReadGuards, Decide,
          CommitIneligible, CommitPreview, Refresh, CommitRecheckFailure, CommitDryRun,
          CommitApproval, Reload, Execute, CommitPaper, Post, Timeout, CommitOrder,
          CommitSubmitted, CommitSubmissionFailure, LoseRun, Abort, Restart
    <3>2. ASSUME NEW p \in transit, Network(p)
          PROVE  Place(p) \/ UNCHANGED exchange
      BY <3>2, Zenon DEF Network, AcceptForHuman, AcceptUnheard, AcceptAndAnswer, Refuse
    <3>3. ASSUME Operate \/ World \/ UNCHANGED vars PROVE UNCHANGED exchange
      BY <3>3 DEF vars, Operate, SetPolicy, EnableOrDisable, SetKillSwitch,
         SetExecutionMode, BeginPause, CommitPause, BeginResume, CommitResume,
         World, Arrive, Replace, ReportHealth, SlideWindow
    <3>4. ASSUME NEW s \in Signals, NEW i \in DOMAIN runs[s], Human(s, i)
          PROVE  UNCHANGED exchange
      BY <3>4 DEF Human, HumanApprove, HumanReject, HumanExecute
    <3> QED
      BY <3>1, <3>2, <3>3, <3>4 DEF Next
  <2> QED
    BY <2>1, <2>2, <2>3
<1> QED
  BY <1>1, <1>2, AutomationInvariance, PTL DEF Spec

\* Automation places at most one order record for a signal under a policy:
\* placed orders carry the key of their runs, and no two runs of a signal
\* share it.  An exchange that dedupes holds that record once, since the
\* client_order_id is a function of signal and policy.
THEOREM SpecOnePlacementPerKey == Spec => []OnePlacementPerKey
<1>1. IInv /\ Deduped => OnePlacementPerKey
  <2> SUFFICES ASSUME IInv, Deduped, NEW p \in exchange, NEW q \in exchange,
                      p.by = "automation", q.by = "automation",
                      p.order[1] = q.order[1], p.key = q.key
               PROVE  p.order = q.order /\ (ExchangeDedupes => p = q)
    BY DEF OnePlacementPerKey
  <2>1. p.order \in OrderIds /\ q.order \in OrderIds
    BY DEF IInv, TypeOK, Placements, Sent
  <2>2. PICK s \in Signals, i \in Nat, j \in Nat :
            p.order = <<s, i>> /\ q.order = <<s, j>>
    BY <2>1 DEF OrderIds
  <2>3. /\ i \in DOMAIN runs[s] /\ j \in DOMAIN runs[s]
        /\ runs[s][i].order.key = p.key /\ runs[s][j].order.key = p.key
        /\ runs[s][i].order.by = "automation"
    BY <2>2 DEF IInv, PlacementsConsistent, PlacementConsistent, OrderOf, Sent
  <2>4. runs[s][i].order.key # NoPolicy
    BY <2>3 DEF IInv, RunsConsistent, RunConsistent, OrderConsistent
  <2>5. i = j
    BY <2>3, <2>4 DEF IInv, KeysUnique
  <2>6. ClientId(p) = ClientId(q)
    BY <2>3, <2>4 DEF ClientId
  <2> QED
    BY <2>2, <2>5, <2>6 DEF Deduped
<1> QED
  BY <1>1, AutomationInvariance, ExchangeIsDeduped, PTL

\* A run that says submitted has an order that automation placed or
\* simulated; a dry run has one that it did neither with, nor approved.
THEOREM SpecRunsTellTheTruth == Spec => []RunsTellTheTruth
<1>1. IInv => RunsTellTheTruth
  <2> SUFFICES ASSUME IInv, NEW s \in Signals, NEW i \in DOMAIN runs[s]
               PROVE  /\ runs[s][i].status = "submitted"
                            => Placed(<<s, i>>) \/ runs[s][i].order.paper
                      /\ runs[s][i].status = "dry_run_submitted"
                            => /\ ~Placed(<<s, i>>)
                               /\ ~runs[s][i].order.paper
                               /\ runs[s][i].order.by # "automation"
    BY DEF RunsTellTheTruth
  <2>1. RunConsistent(runs[s][i], <<s, i>>)
    BY DEF IInv, RunsConsistent
  <2>2. Placed(<<s, i>>) => runs[s][i].order.by = "automation"
    BY DEF IInv, Placed, PlacementsConsistent, PlacementConsistent, OrderOf, Sent
  <2> QED
    BY <2>1, <2>2 DEF RunConsistent, OrderConsistent
<1> QED
  BY <1>1, AutomationInvariance, PTL

-----------------------------------------------------------------------------
(* Stopping automation *)

\* A step of an evaluator moves no other.
LEMMA OthersStay ==
    ASSUME IInv, NEW e \in Evaluators,
           BeginTick(e) \/ Evaluate(e) \/ Abort(e) \/ Restart(e) \/ Hears(e)
    PROVE  \A f \in Evaluators \ {e} : evaluators'[f] = evaluators[f]
<1>1. evaluators \in [Evaluators -> EvaluatorStates]
  BY DEF IInv, TypeOK
<1>2. \A state : Become(e, state)
        => \A f \in Evaluators \ {e} : evaluators'[f] = evaluators[f]
  BY <1>1 DEF Become
<1>3. \A pc : GoTo(e, pc)
        => \A f \in Evaluators \ {e} : evaluators'[f] = evaluators[f]
  BY <1>1 DEF GoTo
<1>4. Raise(e) \/ NextSignal(e)
        => \A f \in Evaluators \ {e} : evaluators'[f] = evaluators[f]
  BY <1>2 DEF Raise, NextSignal
<1>5. CASE BeginTick(e) \/ CommitAnomalyPause(e) \/ Decide(e) \/ Restart(e)
  BY <1>2, <1>4, <1>5, Zenon DEF BeginTick, CommitAnomalyPause, Decide, Restart
<1>6. CASE \E s \in Signals : Select(e, s)
  BY <1>2, <1>4, <1>6, Zenon DEF Select
<1>7. CASE ReadGuards(e) \/ CommitPreview(e) \/ Reload(e) \/ Post(e)
  <2>1. CASE Raise(e)
    BY <1>4, <2>1
  <2>2. CASE ~Raise(e)
    BY <1>1, <1>7, <2>2 DEF ReadGuards, CommitPreview, Reload, Post
  <2> QED
    BY <2>1, <2>2
<1>8. CASE \/ CommitIneligible(e) \/ CommitRecheckFailure(e) \/ CommitDryRun(e)
           \/ CommitSubmitted(e) \/ CommitSubmissionFailure(e)
           \/ LoseRun(e) \/ Abort(e)
  BY <1>4, <1>8, Zenon
  DEF CommitIneligible, CommitRecheckFailure, CommitDryRun, CommitSubmitted,
      CommitSubmissionFailure, LoseRun, Abort
<1>9. CASE \/ Refresh(e) \/ CommitApproval(e) \/ Execute(e) \/ CommitPaper(e)
           \/ Timeout(e) \/ CommitOrder(e)
  BY <1>3, <1>4, <1>9, Zenon
  DEF Refresh, CommitApproval, Execute, CommitPaper, Timeout, CommitOrder
<1>10. CASE Hears(e)
  BY <1>3, <1>10, Zenon DEF Hears, AcceptAndAnswer, Refuse
<1> QED
  BY <1>5, <1>6, <1>7, <1>8, <1>9, <1>10 DEF Evaluate

\* An evaluator that came to rest places nothing.
LEMMA RestingIsQuiet ==
    ASSUME IInv, NEW e \in Evaluators, Raise(e) \/ NextSignal(e)
    PROVE  ~InFlight(e)'
<1>1. PICK state \in EvaluatorStates :
            state.pc \in Resting /\ evaluators' = [evaluators EXCEPT ![e] = state]
  BY RaiseRests, NextSignalRests
<1>2. evaluators'[e] = state
  BY <1>1 DEF IInv, TypeOK
<1> QED
  BY <1>1, <1>2 DEF InFlight, Permitted, Resting

\* After a stop, no step of a quiet evaluator brings it into flight.
LEMMA QuietStays ==
    ASSUME IInv, NEW e \in Evaluators, Stopped, ~InFlight(e),
           BeginTick(e) \/ Evaluate(e) \/ Abort(e) \/ Restart(e)
    PROVE  ~InFlight(e)' /\ UNCHANGED postVars
<1>1. PICK old \in EvaluatorStates : old = evaluators[e]
  BY StateFacts
<1>2. evaluators \in [Evaluators -> EvaluatorStates] /\ activePauses \in Nat
  BY DEF IInv, TypeOK
<1>3. old.pc \notin {"dry_run", "approving", "approved", "executing", "simulating",
                    "posting", "awaiting"}
  BY <1>1 DEF InFlight
<1>4. UNCHANGED postVars
  BY <1>1, <1>3 DEF BeginTick, Evaluate, CommitAnomalyPause, Select, ReadGuards, Decide,
      CommitIneligible, CommitPreview, Refresh, CommitRecheckFailure, CommitDryRun,
      CommitApproval, Reload, Execute, CommitPaper, Post, Timeout,
      CommitOrder, CommitSubmitted, CommitSubmissionFailure, LoseRun, Abort, Restart
<1> SUFFICES ~InFlight(e)'
  BY <1>4
<1>5. ASSUME NEW state, evaluators' = [evaluators EXCEPT ![e] = state],
             state.pc \in Resting \cup {"selected", "unscreened", "executed"}
      PROVE  ~InFlight(e)'
  BY <1>2, <1>5 DEF InFlight, Permitted, Resting
<1>6. CASE Raise(e) \/ NextSignal(e)
  BY <1>6, RestingIsQuiet
<1>7. CASE BeginTick(e) \/ CommitAnomalyPause(e) \/ Restart(e)
  <2>1. CASE ~(Raise(e) \/ NextSignal(e))
    <3>1. \/ \E todo : Become(e, At("scanning", todo))
          \/ Become(e, At("idle", {}))
          \/ Become(e, [At("alarmed", {}) EXCEPT !.guards.paused = activePauses = 1])
      BY <1>7, <2>1, Zenon DEF BeginTick, CommitAnomalyPause, Restart
    <3>2. [At("alarmed", {}) EXCEPT !.guards.paused = activePauses = 1].pc = "alarmed"
      BY DEF At
    <3>3. \A todo : At("scanning", todo).pc = "scanning" /\ At("idle", todo).pc = "idle"
      BY DEF At
    <3> QED
      BY <1>5, <3>1, <3>2, <3>3, Zenon DEF Become, Resting
  <2> QED
    BY <1>6, <2>1
<1>8. CASE \E s \in Signals : Select(e, s)
  <2>1. PICK s \in Signals : Select(e, s)
    BY <1>8
  <2>2. \A state : Become(e, state)
                        /\ state.pc \in Resting \cup {"selected", "unscreened", "executed"}
                    => ~InFlight(e)'
    BY <1>5 DEF Become
  <2>3. \A todo : [At("selected", todo) EXCEPT !.signal = s].pc
                    \in Resting \cup {"selected", "unscreened", "executed"}
    BY DEF At
  <2>4. \A todo, p, optIn, dryRun :
            [[At("selected", todo) EXCEPT !.signal = s] EXCEPT
                !.policy = p, !.optIn = optIn, !.dryRun = dryRun].pc
                    \in Resting \cup {"selected", "unscreened", "executed"}
    BY DEF At
  <2>5. \A todo : /\ At("idle", todo).pc \in Resting \cup {"selected", "unscreened", "executed"}
                  /\ At("scanning", todo).pc \in Resting \cup {"selected", "unscreened", "executed"}
    BY DEF At, Resting
  <2>6. \/ Raise(e)
        \/ \E todo : Become(e, At("idle", todo)) \/ Become(e, At("scanning", todo))
        \/ \E todo : Become(e, [At("selected", todo) EXCEPT !.signal = s])
        \/ \E todo, p, optIn, dryRun :
                Become(e, [[At("selected", todo) EXCEPT !.signal = s] EXCEPT
                    !.policy = p, !.optIn = optIn, !.dryRun = dryRun])
    <3>1. CASE evaluators[e].todo = {s}
      BY <2>1, <3>1, Zenon DEF Select
    <3>2. CASE evaluators[e].todo # {s}
      BY <2>1, <3>2, Zenon DEF Select
    <3> QED
      BY <3>1, <3>2
  <2> QED
    BY <1>6, <2>2, <2>3, <2>4, <2>5, <2>6, Zenon
<1>9. CASE ReadGuards(e) /\ ~Raise(e)
  <2>1. PICK g : g = [enabled |-> control, paused |-> activePauses = 1,
                      trading |-> killSwitch]
    OBVIOUS
  <2>2. /\ evaluators' = [evaluators EXCEPT ![e].pc = "guarded", ![e].guards = g]
        /\ ~(activePauses > 1)
    BY <1>9, <2>1, Zenon DEF ReadGuards
  <2>3. ~g.enabled \/ g.paused \/ ~g.trading
    <3>1. CASE activePauses > 0
      <4>1. activePauses = 1
        BY <1>2, <2>2, <3>1
      <4>2. g.paused = TRUE
        BY <2>1, <4>1
      <4> QED
        BY <4>2
    <3>2. CASE ~control \/ ~killSwitch
      BY <2>1, <3>2
    <3> QED
      BY <3>1, <3>2 DEF Stopped
  <2>4. evaluators'[e].pc = "guarded" /\ evaluators'[e].guards = g
    BY <1>1, <1>2, <2>2 DEF EvaluatorStates
  <2> QED
    BY <2>3, <2>4 DEF InFlight, Permitted
<1>10. CASE Decide(e) /\ ~Raise(e)
  <2>1. PICK clears \in BOOLEAN : Become(e, Decided(old, Decision(old, clears)))
    BY <1>1, <1>10, Zenon DEF Decide
  <2>2. PICK decision \in Decisions : decision = Decision(old, clears)
    BY DecisionType
  <2>3. decision # "automation_allowed"
    <3>1. ~Permitted(old.guards)
      BY <1>1, <1>10 DEF Decide, InFlight
    <3> QED
      BY <2>2, <3>1 DEF Decision, Permitted
  <2>4. PICK state \in EvaluatorStates :
            /\ state = Decided(old, decision)
            /\ state.pc = "decided" /\ state.decision = decision
    BY DecidedType
  <2>5. evaluators'[e] = state
    BY <1>2, <2>1, <2>2, <2>4 DEF Become
  <2> QED
    BY <2>3, <2>4, <2>5 DEF InFlight, Permitted
<1>11. CASE CommitPreview(e)
  <2>1. evaluators'[e].pc = "previewed" /\ evaluators'[e].decision = old.decision
    BY <1>1, <1>2, <1>11 DEF CommitPreview, EvaluatorStates
  <2>2. old.decision # "automation_allowed"
    BY <1>1, <1>11 DEF CommitPreview, InFlight
  <2> QED
    BY <2>1, <2>2 DEF InFlight, Permitted
<1>12. CASE CommitOrder(e)
  <2>1. evaluators'[e].pc = "executed"
    BY <1>1, <1>2, <1>12 DEF CommitOrder, GoTo, EvaluatorStates
  <2> QED
    BY <2>1 DEF InFlight, Permitted
<1>13. CASE Refresh(e) /\ ~NextSignal(e)
  BY <1>1, <1>13 DEF Refresh, InFlight
<1>14. CASE \/ CommitIneligible(e) \/ CommitRecheckFailure(e) \/ CommitSubmitted(e)
            \/ CommitSubmissionFailure(e) \/ LoseRun(e) \/ Abort(e)
  BY <1>6, <1>14 DEF CommitIneligible, CommitRecheckFailure, CommitSubmitted,
                     CommitSubmissionFailure, LoseRun, Abort
<1>15. ~(\/ CommitDryRun(e) \/ CommitApproval(e) \/ Reload(e) \/ Execute(e)
         \/ CommitPaper(e) \/ Post(e) \/ Timeout(e))
  BY <1>1, <1>3 DEF CommitDryRun, CommitApproval, Reload, Execute, CommitPaper,
                    Post, Timeout
<1> QED
  BY <1>6, <1>7, <1>8, <1>9, <1>10, <1>11, <1>12, <1>13, <1>14, <1>15 DEF Evaluate

\* Once automation is stopped and the evaluations under way have drained, no
\* step approves, simulates or sends anything by itself, whoever acts; what is
\* accepted later was sent before, or by a person.
THEOREM SpecStopHolds == Spec => StopHolds
<1>1. ASSUME IInv, [Next]_vars, Stopped, Quiet
      PROVE  /\ Quiet'
             /\ \A p \in Sent' \ Sent : p.by = "human"
  <2>1. ASSUME NEW e \in Evaluators,
               BeginTick(e) \/ Evaluate(e) \/ Abort(e) \/ Restart(e)
        PROVE  Quiet' /\ UNCHANGED postVars
    <3>1. ~InFlight(e)' /\ UNCHANGED postVars
      BY <1>1, <2>1, QuietStays DEF Quiet
    <3>2. ASSUME NEW f \in Evaluators \ {e} PROVE ~InFlight(f)'
      <4>1. evaluators'[f] = evaluators[f]
        BY <1>1, <2>1, OthersStay
      <4> QED
        BY <1>1, <4>1 DEF Quiet, InFlight, Permitted
    <3> QED
      BY <3>1, <3>2 DEF Quiet
  <2>2. ASSUME UNCHANGED evaluators PROVE Quiet'
    BY <1>1, <2>2 DEF Quiet, InFlight, Permitted
  <2>3. CASE Operate \/ World \/ UNCHANGED vars
    <3>1. UNCHANGED <<evaluators, postVars>>
      BY <2>3 DEF vars, Operate, SetPolicy, EnableOrDisable, SetKillSwitch,
         SetExecutionMode, BeginPause, CommitPause, BeginResume, CommitResume,
         World, Arrive, Replace, ReportHealth, SlideWindow
    <3> QED
      BY <2>2, <3>1 DEF Sent
  <2>4. ASSUME NEW s \in Signals, NEW i \in DOMAIN runs[s], Human(s, i)
        PROVE  UNCHANGED evaluators /\ \A p \in Sent' \ Sent : p.by = "human"
    BY <2>4 DEF Human, HumanApprove, HumanReject, HumanExecute, EditOrder, Sent
  <2>5. ASSUME NEW p \in transit, Network(p)
        PROVE  UNCHANGED evaluators /\ Sent' \subseteq Sent
    <3>1. ASSUME NEW e \in Evaluators PROVE ~AcceptAndAnswer(e, p) /\ ~Refuse(e, p)
      BY <1>1 DEF Quiet, InFlight, AcceptAndAnswer, Refuse, Awaits
    <3> QED
      BY <2>5, <3>1 DEF Network, AcceptForHuman, AcceptUnheard, Place, Sent
  <2>6. ASSUME UNCHANGED postVars PROVE Sent' = Sent
    BY <2>6 DEF Sent
  <2>7. CASE \E p \in transit : Network(p)
    BY <2>2, <2>5, <2>7
  <2>8. CASE \E e \in Evaluators : BeginTick(e) \/ Evaluate(e) \/ Abort(e) \/ Restart(e)
    BY <2>1, <2>6, <2>8
  <2>9. CASE \E s \in Signals : \E i \in DOMAIN runs[s] : Human(s, i)
    BY <2>2, <2>4, <2>9
  <2> QED
    BY <1>1, <2>3, <2>7, <2>8, <2>9 DEF Next
<1>2. IInv /\ [Next]_vars =>
        [Stopped /\ Quiet
            => /\ Quiet'
               /\ \A p \in Sent' \ Sent : p.by = "human"]_vars
  BY <1>1
<1> QED
  BY <1>2, AutomationInvariance, PTL DEF Spec, StopHolds

-----------------------------------------------------------------------------
(* The approval gate *)

\* How far an order came.
StageOf(order) ==
    IF order.approval = "absent" THEN "none"
    ELSE IF ~order.screened THEN "screened_out"
    ELSE IF order.by = "none" THEN "awaiting"
    ELSE "cleared"

\* An identifier names a signal and a run.
LEMMA OrderIdParts ==
    ASSUME NEW o \in OrderIds
    PROVE  \E t \in Signals, j \in Nat : o = <<t, j>>
<1>1. o[1] \in Signals /\ o[2] \in Nat /\ o = <<o[1], o[2]>>
  BY DEF OrderIds
<1> QED
  BY <1>1

\* The stage of a run that is there, and of one that is not.
LEMMA StageAt ==
    ASSUME NEW s, NEW i, <<s, i>> \in OrderIds
    PROVE  Stage[<<s, i>>] = IF i \in DOMAIN runs[s] THEN StageOf(runs[s][i].order)
                             ELSE "none"
BY DEF Stage, StageOf, OrderOf

\* The stages are a matter of the runs alone.
LEMMA StageQuiet == ASSUME UNCHANGED runs PROVE Stage' = Stage
BY DEF Stage, OrderOf

\* A commit that replaces a run moves its order only.
LEMMA StageEdited ==
    ASSUME IInv, NEW s \in Signals, NEW i \in DOMAIN runs[s], NEW run \in Runs,
           NEW q, q = [runs EXCEPT ![s] = [runs[s] EXCEPT ![i] = run]], runs' = q
    PROVE  /\ <<s, i>> \in OrderIds
           /\ Stage[<<s, i>>] = StageOf(runs[s][i].order)
           /\ Stage' = [Stage EXCEPT ![<<s, i>>] = StageOf(run.order)]
<1>1. <<s, i>> \in OrderIds
  BY OrderIdType
<1>2. /\ \A t \in Signals : DOMAIN q[t] = DOMAIN runs[t]
      /\ \A t \in Signals : \A j \in DOMAIN runs[t] :
            q[t][j] = IF t = s /\ j = i THEN run ELSE runs[t][j]
  <2>1. runs \in [Signals -> Seq(Runs)]
    BY DEF IInv, TypeOK
  <2> QED
    BY <2>1, EditedRuns
<1>3. ASSUME NEW o \in OrderIds
      PROVE  Stage'[o] = IF o = <<s, i>> THEN StageOf(run.order) ELSE Stage[o]
  <2>1. PICK t \in Signals, j \in Nat : o = <<t, j>>
    BY OrderIdParts
  <2>2. Stage'[o] = IF j \in DOMAIN q[t] THEN StageOf(q[t][j].order) ELSE "none"
    BY <2>1 DEF Stage, StageOf, OrderOf
  <2>3. Stage[o] = IF j \in DOMAIN runs[t] THEN StageOf(runs[t][j].order) ELSE "none"
    BY <2>1, StageAt
  <2> QED
    BY <1>2, <2>1, <2>2, <2>3
<1>4. /\ Stage' = [o \in OrderIds |-> Stage'[o]]
      /\ [Stage EXCEPT ![<<s, i>>] = StageOf(run.order)]
            = [o \in OrderIds |-> IF o = <<s, i>> THEN StageOf(run.order) ELSE Stage[o]]
  BY DEF Stage
<1> QED
  BY <1>1, <1>3, <1>4, StageAt

\* Where such a commit leaves the stage as it is.
LEMMA StageKept ==
    ASSUME IInv, NEW s \in Signals, NEW i \in DOMAIN runs[s], NEW run \in Runs,
           NEW q, q = [runs EXCEPT ![s] = [runs[s] EXCEPT ![i] = run]], runs' = q,
           StageOf(run.order) = StageOf(runs[s][i].order)
    PROVE  Stage' = Stage
<1>1. Stage' = [Stage EXCEPT ![<<s, i>>] = Stage[<<s, i>>]]
  BY StageEdited
<1> QED
  BY <1>1 DEF Stage

\* A new run is screened, or has no order.
LEMMA AppendScreens ==
    ASSUME IInv, NEW e \in Evaluators, NEW s \in Signals,
           e \in Pending(s), signals[s] # "retired",
           NEW run \in Runs, Appends(s, run), UNCHANGED exchange,
           StageOf(run.order) \in {"none", "screened_out", "awaiting"}
    PROVE  (\E o \in OrderIds : Gate!Screen(o)) \/ UNCHANGED <<Stage, exchange>>
<1>1. PICK n \in 1..(1 + Cardinality(Evaluators)) : n = Len(runs[s]) + 1
  BY RoomForRun
<1>2. <<s, n>> \in OrderIds
  BY DEF OrderIds
<1>3. runs \in [Signals -> Seq(Runs)]
  BY DEF IInv, TypeOK
<1>4. n \notin DOMAIN runs[s]
  <2>1. DOMAIN runs[s] = 1..Len(runs[s]) /\ Len(runs[s]) \in Nat
    BY <1>3
  <2> QED
    BY <1>1, <2>1
<1>5. PICK q : q = runs'
  OBVIOUS
<1>6. q = [runs EXCEPT ![s] = Append(@, run)]
  BY <1>5 DEF Appends
<1>7. /\ \A t \in Signals \ {s} : q[t] = runs[t]
      /\ \A t \in Signals : \A j \in DOMAIN runs[t] :
            j \in DOMAIN q[t] /\ q[t][j] = runs[t][j]
      /\ DOMAIN q[s] = DOMAIN runs[s] \cup {n}
      /\ q[s][n] = run
  <2>1. /\ \A t \in Signals \ {s} : q[t] = runs[t]
        /\ \A t \in Signals : \A j \in DOMAIN runs[t] :
             j \in DOMAIN q[t] /\ q[t][j] = runs[t][j]
        /\ DOMAIN q[s] = DOMAIN runs[s] \cup {Len(runs[s]) + 1}
        /\ q[s][Len(runs[s]) + 1] = run
    <3>1. OneMore(q, s, run)
      BY <1>3, <1>6, AppendedRuns
    <3> QED
      BY <3>1 DEF OneMore
  <2> QED
    BY <1>1, <2>1
<1>8. ASSUME NEW o \in OrderIds
      PROVE  Stage'[o] = IF o = <<s, n>> THEN StageOf(run.order) ELSE Stage[o]
  <2>1. PICK t \in Signals, j \in Nat : o = <<t, j>>
    BY OrderIdParts
  <2>2. Stage'[o] = IF j \in DOMAIN q[t] THEN StageOf(q[t][j].order) ELSE "none"
    BY <1>5, <2>1 DEF Stage, StageOf, OrderOf
  <2>3. Stage[o] = IF j \in DOMAIN runs[t] THEN StageOf(runs[t][j].order) ELSE "none"
    BY <2>1, StageAt
  <2> QED
    BY <1>7, <2>1, <2>2, <2>3
<1>9. Stage[<<s, n>>] = "none"
  BY <1>2, <1>4, StageAt
<1>10. /\ Stage' = [o \in OrderIds |-> Stage'[o]]
       /\ Stage = [o \in OrderIds |-> Stage[o]]
  BY DEF Stage
<1>11. CASE StageOf(run.order) = "none"
  <2>1. \A o \in OrderIds : Stage'[o] = Stage[o]
    BY <1>8, <1>9, <1>11
  <2> QED
    BY <1>10, <2>1
<1>12. CASE StageOf(run.order) \in {"screened_out", "awaiting"}
  <2>1. Stage' = [Stage EXCEPT ![<<s, n>>] = StageOf(run.order)]
    BY <1>8, <1>10
  <2> QED
    BY <1>2, <1>9, <1>12, <2>1 DEF Gate!Screen
<1> QED
  BY <1>11, <1>12

\* An order that awaits a decision is cleared, or was cleared before.
LEMMA EditClears ==
    ASSUME IInv, NEW s \in Signals, NEW i \in DOMAIN runs[s], NEW run \in Runs,
           NEW q, q = [runs EXCEPT ![s] = [runs[s] EXCEPT ![i] = run]], runs' = q,
           UNCHANGED exchange, StageOf(run.order) = "cleared",
           StageOf(runs[s][i].order) \in {"awaiting", "cleared"}
    PROVE  (\E o \in OrderIds : Gate!Clear(o)) \/ UNCHANGED <<Stage, exchange>>
<1>1. CASE StageOf(runs[s][i].order) = "cleared"
  BY <1>1, StageKept
<1>2. CASE StageOf(runs[s][i].order) = "awaiting"
  <2>1. /\ <<s, i>> \in OrderIds
        /\ Stage[<<s, i>>] = "awaiting"
        /\ Stage' = [Stage EXCEPT ![<<s, i>>] = "cleared"]
    BY <1>2, StageEdited
  <2> QED
    BY <2>1 DEF Gate!Clear
<1> QED
  BY <1>1, <1>2

\* A placement of an order that was cleared, and stays cleared.
LEMMA PlaceCleared ==
    ASSUME NEW p \in Placements, Stage[p.order] = "cleared", Stage' = Stage,
           exchange' = exchange \cup {p}
    PROVE  \E q \in Placements : Gate!Place(q)
BY DEF Gate!Place

\* The run of an evaluator, and a commit to it.
LEMMA OwnCommit ==
    ASSUME IInv, NEW e \in Evaluators, evaluators[e].pc \in Unapproved \cup Approved,
           NEW run, SetRun(e, run)
    PROVE  \E s \in Signals : \E i \in DOMAIN runs[s] :
                /\ runs[s][i] = CurrentRun(e)
                /\ runs' = [runs EXCEPT ![s] = [runs[s] EXCEPT ![i] = run]]
<1>1. PICK s \in Signals : s = evaluators[e].signal
  BY StateFacts
<1>2. PICK i \in DOMAIN runs[s] : i = evaluators[e].run
  BY <1>1, StateFacts
<1>3. runs' = [runs EXCEPT ![s][i] = run]
  BY <1>1, <1>2, Zenon DEF SetRun
<1>4. runs' = [runs EXCEPT ![s] = [runs[s] EXCEPT ![i] = run]]
  BY <1>3 DEF IInv, TypeOK
<1> QED
  BY <1>1, <1>2, <1>4 DEF CurrentRun

\* The two commits that add a run.
LEMMA CommitIneligibleScreens ==
    ASSUME IInv, NEW e \in Evaluators, CommitIneligible(e) \/ CommitPreview(e)
    PROVE  (\E o \in OrderIds : Gate!Screen(o)) \/ UNCHANGED <<Stage, exchange>>
<1>1. PICK s \in Signals : s = evaluators[e].signal /\ e \in Pending(s)
  BY StateFacts DEF CommitIneligible, CommitPreview, EvaluatorConsistent, Deciding, Pending
<1>2. UNCHANGED exchange /\ signals[s] # "retired"
  BY <1>1 DEF CommitIneligible, CommitPreview, SignalExists
<1>3. PICK old \in EvaluatorStates : old = evaluators[e]
  BY StateFacts
<1>4. CASE CommitIneligible(e)
  <2>1. PICK run \in Runs : run = [status |-> "manual_review_required", order |-> NoOrder]
    BY NewOrders DEF Runs, RunStatus, Decisions
  <2>2. StageOf(run.order) = "none"
    BY <2>1 DEF StageOf, NoOrder, Preview
  <2>3. Appends(s, run)
    BY <1>1, <1>4, <2>1, Zenon DEF CommitIneligible, Appends
  <2> QED
    BY <1>1, <1>2, <2>2, <2>3, AppendScreens
<1>5. CASE CommitPreview(e)
  <2>1. PICK passed \in BOOLEAN :
            runs' = [runs EXCEPT ![s] = Append(@, [status |-> old.decision,
                                                   order |-> Preview(passed)])]
    BY <1>1, <1>3, <1>5, Zenon DEF CommitPreview
  <2>2. PICK run \in Runs : run = [status |-> old.decision, order |-> Preview(passed)]
    BY NewOrders DEF Runs, RunStatus, EvaluatorStates
  <2>3. StageOf(run.order) \in {"screened_out", "awaiting"}
    BY <2>2 DEF StageOf, Preview
  <2>4. Appends(s, run)
    BY <2>1, <2>2, Zenon DEF Appends
  <2> QED
    BY <1>1, <1>2, <2>3, <2>4, AppendScreens
<1> QED
  BY <1>4, <1>5

\* A commit of an evaluator that leaves the stage of its order.
LEMMA OwnKept ==
    ASSUME IInv, NEW e \in Evaluators, evaluators[e].pc \in Unapproved \cup Approved,
           NEW run \in Runs, SetRun(e, run), StageOf(run.order) = StageOf(CurrentRun(e).order)
    PROVE  Stage' = Stage
<1>1. PICK s \in Signals : \E i \in DOMAIN runs[s] :
            /\ runs[s][i] = CurrentRun(e)
            /\ runs' = [runs EXCEPT ![s] = [runs[s] EXCEPT ![i] = run]]
  BY OwnCommit
<1>2. PICK i \in DOMAIN runs[s] :
            /\ runs[s][i] = CurrentRun(e)
            /\ runs' = [runs EXCEPT ![s] = [runs[s] EXCEPT ![i] = run]]
  BY <1>1
<1> QED
  BY <1>2, StageKept

\* The other commits of an evaluator.
LEMMA StatusGate ==
    ASSUME IInv, NEW e \in Evaluators,
           CommitRecheckFailure(e) \/ CommitSubmitted(e) \/ CommitSubmissionFailure(e)
    PROVE  UNCHANGED <<Stage, exchange>>
<1>1. UNCHANGED exchange /\ evaluators[e].pc \in Unapproved \cup Approved
  BY DEF CommitRecheckFailure, CommitSubmitted, CommitSubmissionFailure,
         Unapproved, Approved
<1>2. PICK status \in {"manual_review_required", "submitted"} : SetStatus(e, status)
  BY DEF CommitRecheckFailure, CommitSubmitted, CommitSubmissionFailure
<1>3. PICK old \in Runs : old = CurrentRun(e)
  BY <1>1, StateFacts
<1>4. PICK run : run = [old EXCEPT !.status = status]
  OBVIOUS
<1>5. run \in Runs /\ run.order = old.order
  BY <1>4 DEF Runs, RunStatus, Decisions
<1>6. SetRun(e, run)
  BY <1>2, <1>3, <1>4, Zenon DEF SetStatus
<1> QED
  BY <1>1, <1>3, <1>5, <1>6, OwnKept

\* A dry run clears nothing.
LEMMA DryRunGate ==
    ASSUME IInv, NEW e \in Evaluators, CommitDryRun(e)
    PROVE  UNCHANGED <<Stage, exchange>>
<1>1. UNCHANGED exchange /\ evaluators[e].pc \in Unapproved \cup Approved
  BY DEF CommitDryRun, Unapproved
<1>2. CASE UNCHANGED runs
  BY <1>1, <1>2, StageQuiet
<1>3. CASE SetRun(e, [CurrentRun(e) EXCEPT
                        !.status = "dry_run_submitted",
                        !.order.key = evaluators[e].policy])
  <2>1. PICK k \in Policies \cup {NoPolicy} : k = evaluators[e].policy
    BY StateFacts DEF EvaluatorStates
  <2>2. PICK old \in Runs : old = CurrentRun(e)
    BY <1>1, StateFacts
  <2>3. PICK run : run = [old EXCEPT !.status = "dry_run_submitted", !.order.key = k]
    OBVIOUS
  <2>4. /\ run \in Runs
        /\ run.order = [old.order EXCEPT !.key = k]
    BY <2>3 DEF Runs, RunStatus, OrderRows
  <2>5. SetRun(e, run)
    BY <1>3, <2>1, <2>2, <2>3, Zenon
  <2>6. StageOf(run.order) = StageOf(old.order)
    BY <2>4 DEF StageOf, Runs, OrderRows
  <2> QED
    BY <1>1, <2>2, <2>4, <2>5, <2>6, OwnKept
<1> QED
  BY <1>2, <1>3, Zenon DEF CommitDryRun

\* The approval of automation clears an order that passed its screening.
LEMMA ApprovalClears ==
    ASSUME IInv, NEW e \in Evaluators, CommitApproval(e)
    PROVE  (\E o \in OrderIds : Gate!Clear(o)) \/ UNCHANGED <<Stage, exchange>>
<1>1. /\ UNCHANGED exchange /\ evaluators[e].pc = "approving"
      /\ evaluators[e].pc \in Unapproved \cup Approved
  BY DEF CommitApproval, Unapproved
<1>2. CASE UNCHANGED runs
  BY <1>1, <1>2, StageQuiet
<1>3. CASE SetOrder(e, [CurrentRun(e).order EXCEPT
                        !.approval = "approved",
                        !.by = "automation",
                        !.key = evaluators[e].policy])
  <2>1. PICK k \in Policies \cup {NoPolicy} : k = evaluators[e].policy
    BY StateFacts DEF EvaluatorStates
  <2>2. PICK old \in Runs : old = CurrentRun(e) /\ old.order \in OrderRows
    BY <1>1, StateFacts
  <2>3. PICK order : order = [old.order EXCEPT !.approval = "approved",
                                               !.by = "automation", !.key = k]
    OBVIOUS
  <2>4. PICK run : run = [old EXCEPT !.order = order]
    OBVIOUS
  <2>5. /\ order \in OrderRows /\ order.approval = "approved" /\ order.by = "automation"
        /\ order.screened = old.order.screened
    BY <2>2, <2>3 DEF OrderRows
  <2>6. run \in Runs /\ run.order = order
    BY <2>4, <2>5 DEF Runs
  <2>7. SetRun(e, run)
    BY <1>3, <2>1, <2>2, <2>3, <2>4, Zenon DEF SetOrder
  <2>8. OrderConsistent(old.order) /\ old.order.screened
    BY <1>1, <2>2, StateFacts DEF Accords
  <2>9. /\ StageOf(run.order) = "cleared"
        /\ StageOf(old.order) \in {"awaiting", "cleared"}
    BY <2>5, <2>6, <2>8 DEF StageOf, OrderConsistent
  <2>10. PICK s \in Signals : \E i \in DOMAIN runs[s] :
            /\ runs[s][i] = CurrentRun(e)
            /\ runs' = [runs EXCEPT ![s] = [runs[s] EXCEPT ![i] = run]]
    BY <1>1, <2>7, OwnCommit
  <2>11. PICK i \in DOMAIN runs[s] :
            /\ runs[s][i] = CurrentRun(e)
            /\ runs' = [runs EXCEPT ![s] = [runs[s] EXCEPT ![i] = run]]
    BY <2>10
  <2> QED
    BY <1>1, <2>2, <2>6, <2>9, <2>11, EditClears
<1> QED
  BY <1>2, <1>3, Zenon DEF CommitApproval

\* Recording a simulation or a submission moves no order.
LEMMA RecordGate ==
    ASSUME IInv, NEW e \in Evaluators, CommitPaper(e) \/ CommitOrder(e)
    PROVE  UNCHANGED <<Stage, exchange>>
<1>1. /\ UNCHANGED exchange /\ evaluators[e].pc \in Approved
      /\ evaluators[e].pc \in Unapproved \cup Approved
  BY DEF CommitPaper, CommitOrder, Approved
<1>2. PICK old \in Runs : old = CurrentRun(e) /\ old.order \in OrderRows
  BY <1>1, StateFacts
<1>3. PICK order \in OrderRows :
            /\ SetOrder(e, order)
            /\ order.approval \in {old.order.approval, "submitted"}
            /\ order.screened = old.order.screened /\ order.by = old.order.by
  <2>1. CASE CommitPaper(e)
    <3>1. PICK order : order = [old.order EXCEPT !.paper = TRUE]
      OBVIOUS
    <3>2. SetOrder(e, order)
      BY <1>2, <2>1, <3>1, Zenon DEF CommitPaper
    <3>3. /\ order \in OrderRows /\ order.approval = old.order.approval
          /\ order.screened = old.order.screened /\ order.by = old.order.by
      BY <1>2, <3>1 DEF OrderRows
    <3> QED
      BY <3>2, <3>3
  <2>2. CASE CommitOrder(e)
    <3>1. PICK order : order = [old.order EXCEPT !.approval = "submitted"]
      OBVIOUS
    <3>2. SetOrder(e, order)
      BY <1>2, <2>2, <3>1, Zenon DEF CommitOrder
    <3> QED
      BY <1>2, <3>1, <3>2 DEF OrderRows
  <2> QED
    BY <2>1, <2>2
<1>4. PICK run : run = [old EXCEPT !.order = order]
  OBVIOUS
<1>5. run \in Runs /\ run.order = order
  BY <1>4 DEF Runs
<1>6. SetRun(e, run)
  BY <1>2, <1>3, <1>4, Zenon DEF SetOrder
<1>7. OrderConsistent(old.order) /\ old.order.by = "automation"
  BY <1>1, <1>2, StateFacts DEF Accords
<1>8. StageOf(run.order) = StageOf(old.order)
  BY <1>3, <1>5, <1>7 DEF StageOf, OrderConsistent
<1> QED
  BY <1>1, <1>2, <1>5, <1>6, <1>8, OwnKept

\* What is on its way to the exchange was cleared, whoever sent it.
LEMMA SentCleared ==
    ASSUME IInv, NEW p \in transit
    PROVE  p \in Placements /\ p.order \in OrderIds /\ Stage[p.order] = "cleared"
<1>1. p \in Placements /\ p.order \in OrderIds
  BY DEF IInv, TypeOK, Sent, Placements
<1>2. PICK s \in Signals : \E i \in Nat : p.order = <<s, i>>
  BY <1>1, OrderIdParts
<1>3. PICK i \in Nat : p.order = <<s, i>>
  BY <1>2
<1>4. /\ i \in DOMAIN runs[s] /\ runs[s][i].order.by # "none"
  BY <1>3 DEF IInv, PlacementsConsistent, PlacementConsistent, OrderOf, Sent
<1>5. OrderConsistent(runs[s][i].order)
  BY <1>4 DEF IInv, RunsConsistent, RunConsistent
<1>6. StageOf(runs[s][i].order) = "cleared"
  BY <1>4, <1>5 DEF StageOf, OrderConsistent
<1> QED
  BY <1>1, <1>3, <1>4, <1>6, StageAt

\* What the exchange accepts was cleared; a refusal changes nothing.
LEMMA NetworkGate ==
    ASSUME IInv, NEW p \in transit, Network(p)
    PROVE  (\E q \in Placements : Gate!Place(q)) \/ UNCHANGED <<Stage, exchange>>
<1>1. /\ p \in Placements /\ p.order \in OrderIds
      /\ Stage[p.order] = "cleared"
  BY SentCleared
<1>2. CASE UNCHANGED runs
  <2>1. UNCHANGED exchange \/ exchange' = exchange \cup {p}
    BY <1>2, Zenon DEF Network, AcceptForHuman, AcceptUnheard, AcceptAndAnswer, Refuse, Place
  <2> QED
    BY <1>1, <1>2, <2>1, StageQuiet, PlaceCleared
<1>3. CASE AcceptForHuman(p)
  <2>1. PICK s \in Signals : \E j \in Nat : p.order = <<s, j>>
    BY <1>1, OrderIdParts
  <2>2. PICK i \in Nat : p.order = <<s, i>>
    BY <2>1
  <2>3. i \in DOMAIN runs[s]
    BY <2>2 DEF IInv, PlacementsConsistent, PlacementConsistent, Sent
  <2>4. PICK old \in Runs : old = runs[s][i]
    <3>1. runs[s] \in Seq(Runs)
      BY DEF IInv, TypeOK
    <3> QED
      BY <2>3, <3>1
  <2>5. PICK run : run = [old EXCEPT !.order.approval = "submitted"]
    OBVIOUS
  <2>6. /\ run \in Runs /\ run.order.approval = "submitted"
        /\ run.order.by = old.order.by /\ run.order.screened = old.order.screened
    BY <2>5 DEF Runs, OrderRows
  <2>7. /\ old.order.approval = "approved"
        /\ runs' = [runs EXCEPT ![s][i].order.approval = "submitted"]
        /\ exchange' = exchange \cup {p}
    BY <1>3, <2>2, <2>4 DEF AcceptForHuman, Place
  <2>8. runs' = [runs EXCEPT ![s] = [runs[s] EXCEPT ![i] = run]]
    BY <2>4, <2>5, <2>7 DEF IInv, TypeOK
  <2>9. StageOf(run.order) = StageOf(old.order)
    BY <2>6, <2>7 DEF StageOf
  <2>10. Stage' = Stage
    BY <2>3, <2>4, <2>6, <2>8, <2>9, StageKept
  <2> QED
    BY <1>1, <2>7, <2>10, PlaceCleared
<1> QED
  BY <1>2, <1>3 DEF Network, AcceptUnheard, AcceptAndAnswer, Refuse

\* The decisions of a person.
LEMMA EditGate ==
    ASSUME IInv, NEW s \in Signals, NEW i \in DOMAIN runs[s], NEW order \in OrderRows,
           EditOrder(s, i, order)
    PROVE  \E run \in Runs :
                /\ run.order = order
                /\ runs' = [runs EXCEPT ![s] = [runs[s] EXCEPT ![i] = run]]
<1>1. runs \in [Signals -> Seq(Runs)] /\ runs[s] \in Seq(Runs)
  BY DEF IInv, TypeOK
<1>2. PICK old \in Runs : old = runs[s][i]
  BY <1>1
<1>3. PICK run : run = [old EXCEPT !.order = order]
  OBVIOUS
<1>4. run \in Runs /\ run.order = order
  BY <1>3 DEF Runs
<1>5. runs' = [runs EXCEPT ![s] = [runs[s] EXCEPT ![i] = run]]
  BY <1>1, <1>2, <1>3 DEF EditOrder
<1> QED
  BY <1>4, <1>5

\* A person clears what was screened; to execute it is only to send it.
LEMMA HumanGate ==
    ASSUME IInv, NEW s \in Signals, NEW i \in DOMAIN runs[s], Human(s, i)
    PROVE  \/ \E o \in OrderIds : Gate!Clear(o)
           \/ UNCHANGED <<Stage, exchange>>
<1>1. PICK old \in OrderRows : old = runs[s][i].order
  <2>1. runs[s] \in Seq(Runs)
    BY DEF IInv, TypeOK
  <2>2. runs[s][i] \in Runs
    BY <2>1
  <2> QED
    BY <2>2 DEF Runs
<1>2. OrderConsistent(old)
  BY <1>1 DEF IInv, RunsConsistent, RunConsistent
<1>3. CASE HumanApprove(s, i)
  <2>1. PICK order : order = [old EXCEPT !.approval = "approved", !.by = "human"]
    OBVIOUS
  <2>2. /\ order \in OrderRows /\ order.approval = "approved" /\ order.by = "human"
        /\ order.screened = old.screened
    BY <2>1 DEF OrderRows
  <2>3. EditOrder(s, i, order) /\ old.approval = "pending_approval" /\ UNCHANGED exchange
    BY <1>1, <1>3, <2>1, Zenon DEF HumanApprove
  <2>4. StageOf(order) = "cleared" /\ StageOf(old) = "awaiting"
    BY <1>2, <2>2, <2>3 DEF StageOf, OrderConsistent
  <2>5. PICK run \in Runs : /\ run.order = order
                           /\ runs' = [runs EXCEPT ![s] = [runs[s] EXCEPT ![i] = run]]
    BY <2>2, <2>3, EditGate
  <2> QED
    BY <1>1, <2>3, <2>4, <2>5, EditClears
<1>4. CASE HumanReject(s, i)
  <2>1. PICK order : order = [old EXCEPT !.approval = "rejected"]
    OBVIOUS
  <2>2. /\ order \in OrderRows /\ order.approval = "rejected" /\ order.by = old.by
        /\ order.screened = old.screened
    BY <2>1 DEF OrderRows
  <2>3. /\ EditOrder(s, i, order) /\ old.approval \in {"pending_approval", "blocked"}
        /\ UNCHANGED exchange
    BY <1>1, <1>4, <2>1, Zenon DEF HumanReject
  <2>4. StageOf(order) = StageOf(old)
    BY <2>2, <2>3 DEF StageOf
  <2>5. PICK run \in Runs : /\ run.order = order
                           /\ runs' = [runs EXCEPT ![s] = [runs[s] EXCEPT ![i] = run]]
    BY <2>2, <2>3, EditGate
  <2> QED
    BY <1>1, <2>3, <2>4, <2>5, StageKept
<1>5. CASE HumanExecute(s, i)
  BY <1>5, StageQuiet DEF HumanExecute
<1> QED
  BY <1>3, <1>4, <1>5 DEF Human

\* Every step is a step of the gate, or none.
LEMMA GateStep == IInv /\ [Next]_vars => [Gate!Next]_<<Stage, exchange>>
<1> SUFFICES ASSUME IInv, [Next]_vars PROVE [Gate!Next]_<<Stage, exchange>>
  OBVIOUS
<1>1. ASSUME UNCHANGED <<runs, exchange>> PROVE UNCHANGED <<Stage, exchange>>
  BY <1>1, StageQuiet
<1>2. ASSUME NEW e \in Evaluators,
             BeginTick(e) \/ Evaluate(e) \/ Abort(e) \/ Restart(e)
      PROVE  [Gate!Next]_<<Stage, exchange>>
  <2>1. CASE \/ BeginTick(e) \/ CommitAnomalyPause(e) \/ \E s \in Signals : Select(e, s)
             \/ ReadGuards(e) \/ Decide(e) \/ Refresh(e) \/ Reload(e) \/ Execute(e)
             \/ Post(e) \/ Timeout(e) \/ LoseRun(e) \/ Abort(e) \/ Restart(e)
    <3>1. UNCHANGED <<runs, exchange>>
      BY <2>1 DEF BeginTick, CommitAnomalyPause, Select, ReadGuards, Decide, Refresh,
                  Reload, Execute, Post, Timeout, LoseRun, Abort, Restart
    <3> QED
      BY <1>1, <3>1
  <2>2. CASE CommitIneligible(e) \/ CommitPreview(e)
    BY <2>2, CommitIneligibleScreens DEF Gate!Next
  <2>3. CASE CommitRecheckFailure(e) \/ CommitSubmitted(e) \/ CommitSubmissionFailure(e)
    BY <2>3, StatusGate
  <2>4. CASE CommitDryRun(e)
    BY <2>4, DryRunGate
  <2>5. CASE CommitApproval(e)
    BY <2>5, ApprovalClears DEF Gate!Next
  <2>6. CASE CommitPaper(e) \/ CommitOrder(e)
    BY <2>6, RecordGate
  <2> QED
    BY <1>2, <2>1, <2>2, <2>3, <2>4, <2>5, <2>6 DEF Evaluate
<1>3. ASSUME NEW s \in Signals, NEW i \in DOMAIN runs[s], Human(s, i)
      PROVE  [Gate!Next]_<<Stage, exchange>>
  BY <1>3, HumanGate DEF Gate!Next
<1>4. CASE Operate \/ World \/ UNCHANGED vars
  <2>1. UNCHANGED <<runs, exchange>>
    BY <1>4 DEF vars, Operate, SetPolicy, EnableOrDisable, SetKillSwitch,
         SetExecutionMode, BeginPause, CommitPause, BeginResume, CommitResume,
         World, Arrive, Replace, ReportHealth, SlideWindow
  <2> QED
    BY <1>1, <2>1
<1>5. ASSUME NEW p \in transit, Network(p)
      PROVE  [Gate!Next]_<<Stage, exchange>>
  BY <1>5, NetworkGate DEF Gate!Next
<1> QED
  BY <1>2, <1>3, <1>4, <1>5 DEF Next

\* The orders of automation pass the gate of ApprovalGate in order: screened
\* once, cleared only if that let them through, placed only when cleared.
THEOREM AutomationImplementsGate == Spec => ImplementsGate
<1>1. Init => Gate!Init
  <2> SUFFICES ASSUME Init PROVE Gate!Init
    OBVIOUS
  <2>1. \A s \in Signals : DOMAIN runs[s] = {}
    BY DEF Init
  <2>2. ASSUME NEW o \in OrderIds PROVE Stage[o] = "none"
    <3>1. PICK t \in Signals, j \in Nat : o = <<t, j>>
      BY OrderIdParts
    <3> QED
      BY <2>1, <3>1, StageAt
  <2>3. Stage = [o \in OrderIds |-> "none"]
    BY <2>2 DEF Stage
  <2> QED
    BY <2>3 DEF Init, Gate!Init
<1>2. IInv /\ [Next]_vars => [Gate!Next]_<<Stage, exchange>>
  BY GateStep
<1> QED
  BY <1>1, <1>2, AutomationInvariance, PTL DEF Spec, ImplementsGate, Gate!Spec

-----------------------------------------------------------------------------
(* How an evaluation wears out *)

\* The steps a signal may take in all: MaxAttempts POSTs, of two steps each,
\* and eleven others.
Stages == 11 + 2 * MaxAttempts

\* The steps a signal may still take from a control point, at most, when so
\* many POSTs have been sent.
StagesLeft(pc, attempt) ==
    CASE pc = "selected" -> Stages
      [] pc = "guarded" -> Stages - 1
      [] pc = "decided" -> Stages - 2
      [] pc = "previewed" -> Stages - 3
      [] pc \in {"unscreened", "dry_run", "approving"} -> Stages - 4
      [] pc = "approved" -> Stages - 5
      [] pc = "executing" -> Stages - 6
      [] pc = "posting" -> Stages - 7 - 2 * attempt
      [] pc = "awaiting" -> Stages - 6 - 2 * attempt
      [] pc \in {"simulating", "answered"} -> 4
      [] pc = "executed" -> 3
      [] OTHER -> 2

\* The steps that so many signals take.
Budget(n) == Stages * n

AtRest == {"idle", "dead"}
Working == Deciding \cup Unapproved \cup Approved

\* The steps an evaluation may still take, those for the signals after this one
\* included; an anomaly is dealt with before the signals are listed.
Left(state) ==
    IF state.pc \in AtRest THEN 0
    ELSE IF state.pc = "alarmed" THEN Budget(ScanLimit) + 2
    ELSE IF state.pc = "scanning" THEN Budget(Cardinality(state.todo)) + 1
    ELSE Budget(Cardinality(state.todo \ {state.signal}))
         + StagesLeft(state.pc, state.attempt)

StepsLeft(e) == Left(evaluators[e])
MaxSteps == Budget(ScanLimit) + 2

\* What is left, control point by control point.
LEMMA StageValues ==
    \A attempt :
        /\ StagesLeft("selected", attempt) = Stages
        /\ StagesLeft("guarded", attempt) = Stages - 1
        /\ StagesLeft("decided", attempt) = Stages - 2
        /\ StagesLeft("previewed", attempt) = Stages - 3
        /\ StagesLeft("unscreened", attempt) = Stages - 4
        /\ StagesLeft("dry_run", attempt) = Stages - 4
        /\ StagesLeft("approving", attempt) = Stages - 4
        /\ StagesLeft("approved", attempt) = Stages - 5
        /\ StagesLeft("executing", attempt) = Stages - 6
        /\ StagesLeft("posting", attempt) = Stages - 7 - 2 * attempt
        /\ StagesLeft("awaiting", attempt) = Stages - 6 - 2 * attempt
        /\ StagesLeft("simulating", attempt) = 4
        /\ StagesLeft("answered", attempt) = 4
        /\ StagesLeft("executed", attempt) = 3
        /\ StagesLeft("failed", attempt) = 2
BY DEF StagesLeft

\* A signal at work has between two and Stages steps to take.
LEMMA StagesBounded ==
    /\ Stages \in Nat /\ Stages >= 13
    /\ \A attempt \in 0..MaxAttempts : attempt \in Nat /\ 2 * attempt <= Stages - 11
    /\ \A pc \in Working, attempt \in 0..MaxAttempts :
            StagesLeft(pc, attempt) \in 2..Stages
<1>1. Stages \in Nat /\ Stages >= 13
  BY DEF Stages
<1>2. ASSUME NEW attempt \in 0..MaxAttempts
      PROVE  attempt \in Nat /\ 2 * attempt <= Stages - 11
  BY DEF Stages
<1>3. ASSUME NEW pc \in Working, NEW attempt \in 0..MaxAttempts
      PROVE  StagesLeft(pc, attempt) \in 2..Stages
  <2>1. pc \in {"selected", "guarded", "decided", "previewed", "unscreened", "dry_run",
                "approving", "approved", "executing", "posting", "awaiting", "simulating",
                "answered", "executed", "failed"}
    BY DEF Working, Deciding, Unapproved, Approved
  <2>2. PICK left : left = StagesLeft(pc, attempt)
    OBVIOUS
  <2>3. PICK twice \in Nat : twice = 2 * attempt /\ twice <= Stages - 11
    BY <1>2
  <2>4. \/ left \in {Stages, Stages - 1, Stages - 2, Stages - 3, Stages - 4, Stages - 5,
                     Stages - 6, Stages - 7 - twice, Stages - 6 - twice, 4, 3, 2}
    BY <2>1, <2>2, <2>3, StageValues, Zenon
  <2> QED
    BY <1>1, <2>2, <2>3, <2>4
<1> QED
  BY <1>1, <1>2, <1>3

\* So many steps for each of n signals, and one signal more or less.
LEMMA BudgetFacts ==
    /\ \A n \in Nat : Budget(n) \in Nat
    /\ \A n \in Nat : Budget(n + 1) = Budget(n) + Stages
    /\ \A n \in 0..ScanLimit : Budget(n) <= Budget(ScanLimit)
<1>1. Stages \in Nat
  BY StagesBounded
<1>2. ASSUME NEW k \in Nat, NEW n \in Nat
      PROVE  /\ k * n \in Nat
             /\ k * (n + 1) = k * n + k
             /\ \A m \in 0..n : k * m <= k * n
  <2>1. ASSUME NEW m \in 0..n PROVE k * m <= k * n
    <3>1. PICK d \in Nat : n = m + d
      <4>1. n - m \in Nat /\ n = m + (n - m)
        OBVIOUS
      <4> QED
        BY <4>1
    <3>2. k * n = k * m + k * d /\ k * m \in Nat /\ k * d \in Nat
      BY <3>1
    <3> QED
      BY <3>2
  <2> QED
    BY <2>1
<1>3. \A n \in Nat : Budget(n) \in Nat /\ Budget(n + 1) = Budget(n) + Stages
  BY <1>1, <1>2 DEF Budget
<1>4. ASSUME NEW n \in 0..ScanLimit PROVE Budget(n) <= Budget(ScanLimit)
  BY <1>1, <1>2 DEF Budget
<1> QED
  BY <1>3, <1>4

\* What is left to an evaluator, by where it stands.
LEMMA LeftByPlace ==
    ASSUME IsFiniteSet(Signals), NEW state \in EvaluatorStates
    PROVE  /\ Cardinality(state.todo) \in Nat
           /\ Cardinality(state.todo \ {state.signal}) \in Nat
           /\ state.pc \in AtRest => Left(state) = 0
           /\ state.pc = "scanning" => Left(state) = Budget(Cardinality(state.todo)) + 1
           /\ state.pc \in Working =>
                /\ Left(state) = Budget(Cardinality(state.todo \ {state.signal}))
                                 + StagesLeft(state.pc, state.attempt)
                /\ StagesLeft(state.pc, state.attempt) \in 2..Stages
           /\ Left(state) \in Nat
           /\ state.pc \notin AtRest => Left(state) > 0
<1>1. state.todo \in SUBSET Signals /\ state.pc \in PCs /\ state.attempt \in 0..MaxAttempts
  BY DEF EvaluatorStates
<1>2. IsFiniteSet(state.todo) /\ IsFiniteSet(state.todo \ {state.signal})
  BY <1>1, FS_Subset
<1>3. Cardinality(state.todo) \in Nat /\ Cardinality(state.todo \ {state.signal}) \in Nat
  BY <1>2, FS_CardinalityType
<1>4. state.pc \in AtRest \cup {"alarmed", "scanning"} \cup Working
  BY <1>1 DEF PCs, AtRest, Working, Deciding, Unapproved, Approved
<1>5. Working \cap (AtRest \cup {"alarmed", "scanning"}) = {}
  BY DEF AtRest, Working, Deciding, Unapproved, Approved
<1>6. state.pc \in AtRest => Left(state) = 0
  BY DEF Left
<1>7. state.pc = "scanning" => Left(state) = Budget(Cardinality(state.todo)) + 1
  BY DEF Left, AtRest
<1>8. state.pc = "alarmed" => Left(state) = Budget(ScanLimit) + 2
  BY DEF Left, AtRest
<1>9. state.pc \in Working =>
        /\ Left(state) = Budget(Cardinality(state.todo \ {state.signal})) + StagesLeft(state.pc, state.attempt)
        /\ StagesLeft(state.pc, state.attempt) \in 2..Stages
  BY <1>1, <1>5, StagesBounded DEF Left
<1> DEFINE many == Cardinality(state.todo)
           others == Cardinality(state.todo \ {state.signal})
           stages == StagesLeft(state.pc, state.attempt)
           left == Left(state)
<1>10. many \in Nat /\ others \in Nat
  BY <1>3
<1> HIDE DEF many, others, stages, left
<1>11. CASE state.pc \in AtRest
  <2>1. left = 0
    BY <1>6, <1>11 DEF left
  <2>2. left \in Nat
    BY <2>1
  <2> QED
    BY <1>3, <1>6, <1>7, <1>9, <1>11, <2>2, Zenon DEF left
<1>12. CASE state.pc \in {"alarmed", "scanning"}
  <2>1. left = Budget(ScanLimit) + 2 \/ left = Budget(many) + 1
    BY <1>7, <1>8, <1>12 DEF left, many
  <2>2. left \in Nat /\ left > 0
    BY <1>10, <2>1, BudgetFacts
  <2> QED
    BY <1>3, <1>5, <1>6, <1>7, <1>12, <2>2, Zenon DEF left
<1>13. CASE state.pc \in Working
  <2>1. left = Budget(others) + stages /\ stages \in 2..Stages
    BY <1>9, <1>13 DEF left, others, stages
  <2>2. left \in Nat /\ left > 0
    BY <1>10, <2>1, BudgetFacts, StagesBounded
  <2> QED
    BY <1>3, <1>6, <1>7, <1>9, <2>2, Zenon DEF left
<1> QED
  BY <1>4, <1>11, <1>12, <1>13, Zenon

\* Among numbers there is a least one.
LEMMA OldestOf ==
    ASSUME NEW T \in SUBSET Nat, T # {}
    PROVE  \E x \in T : \A y \in T : x <= y
<1>1. PICK less : less = OpToRel(<, Nat)
  OBVIOUS
<1>2. \A x, y \in Nat : <<y, x>> \in less <=> y < x
  BY <1>1 DEF OpToRel
<1>3. IsWellFoundedOn(less, Nat)
  BY <1>1, NatLessThanWellFounded
<1>4. PICK x \in T : \A y \in T : <<y, x>> \notin less
  BY <1>3, WFMin
<1>5. ASSUME NEW y \in T PROVE x <= y
  <2>1. x \in Nat /\ y \in Nat /\ ~(y < x)
    BY <1>2, <1>4
  <2> QED
    BY <2>1
<1> QED
  BY <1>5

\* The signals listed are the newest, ScanLimit of them at most.
LEMMA ScanIsBounded ==
    ASSUME IsFiniteSet(Signals)
    PROVE  Cardinality(Scan) \in 0..ScanLimit
<1>1. IsFiniteSet(Scan) /\ Cardinality(Scan) \in Nat
  BY ScanType, FS_Subset, FS_CardinalityType
<1>2. CASE Scan = {}
  <2>1. Cardinality(Scan) = 0
    BY <1>2, FS_EmptySet, Zenon
  <2> QED
    BY <2>1
<1>3. CASE Scan # {}
  <2>1. PICK s \in Scan : \A t \in Scan : s <= t
    <3>1. Scan \in SUBSET Nat
      BY ScanType
    <3> QED
      BY <1>3, <3>1, OldestOf, Zenon
  <2> DEFINE newer == {t \in Signals : signals[t] = "active" /\ t > s}
  <2>2. IsFiniteSet(newer) /\ Cardinality(newer) \in Nat
    BY FS_Subset, FS_CardinalityType
  <2>3. Cardinality(newer) < ScanLimit
    BY <2>1 DEF Scan
  <2>4. ASSUME NEW t \in Scan \ {s} PROVE t \in newer
    <3>1. t \in Signals /\ signals[t] = "active" /\ s \in Signals
      BY DEF Scan
    <3>2. t > s
      BY <2>1, <3>1
    <3> QED
      BY <3>1, <3>2
  <2>5. Cardinality(Scan \ {s}) <= Cardinality(newer)
    <3>1. Scan \ {s} \in SUBSET newer
      BY <2>4
    <3> QED
      BY <2>2, <3>1, FS_Subset, Zenon
  <2>6. Cardinality(Scan \ {s}) = Cardinality(Scan) - 1
    BY <1>1, <2>1, FS_RemoveElement
  <2> QED
    <3> DEFINE all == Cardinality(Scan)
               most == Cardinality(newer)
    <3>1. all \in Nat /\ most \in Nat /\ most < ScanLimit /\ all - 1 <= most
      BY <1>1, <2>2, <2>3, <2>5, <2>6
    <3> HIDE DEF all, most
    <3>2. all \in 0..ScanLimit
      BY <3>1
    <3> QED
      BY <3>2 DEF all
<1> QED
  BY <1>2, <1>3

\* Another control point, for the same signal, further on.
LEMMA StageWears ==
    ASSUME IsFiniteSet(Signals), NEW old \in EvaluatorStates, NEW new \in EvaluatorStates,
           old.pc \in Working, new.pc \in Working,
           new.todo = old.todo, new.signal = old.signal,
           StagesLeft(new.pc, new.attempt) < StagesLeft(old.pc, old.attempt)
    PROVE  Left(new) < Left(old)
<1> DEFINE others == Cardinality(old.todo \ {old.signal})
<1>1. /\ Left(old) = Budget(others) + StagesLeft(old.pc, old.attempt)
      /\ Left(new) = Budget(others) + StagesLeft(new.pc, new.attempt)
      /\ others \in Nat
      /\ StagesLeft(old.pc, old.attempt) \in 2..Stages
      /\ StagesLeft(new.pc, new.attempt) \in 2..Stages
  BY LeftByPlace
<1> HIDE DEF others
<1>2. Budget(others) \in Nat /\ Stages \in Nat
  BY <1>1, BudgetFacts, StagesBounded
<1> QED
  BY <1>1, <1>2

\* An exception ends the evaluation.
LEMMA RaiseWears ==
    ASSUME IInv, IsFiniteSet(Signals), NEW e \in Evaluators,
           Raise(e), evaluators[e].pc \notin AtRest
    PROVE  Left(evaluators'[e]) < Left(evaluators[e])
<1>1. PICK pc \in AtRest : evaluators' = [evaluators EXCEPT ![e] = At(pc, {})]
  BY DEF Raise, Become, AtRest
<1>2. evaluators'[e] = At(pc, {})
  BY <1>1 DEF IInv, TypeOK
<1>3. Left(evaluators'[e]) = 0
  BY <1>2 DEF Left, At
<1>4. Left(evaluators[e]) \in Nat /\ Left(evaluators[e]) > 0
  BY StateFacts, LeftByPlace
<1> QED
  BY <1>3, <1>4

\* A signal that is done is off the list.
LEMMA NextSignalWears ==
    ASSUME IInv, IsFiniteSet(Signals), NEW e \in Evaluators,
           NextSignal(e), evaluators[e].pc \in Working
    PROVE  Left(evaluators'[e]) < Left(evaluators[e])
<1> DEFINE old == evaluators[e]
           rest == old.todo \ {old.signal}
<1>1. old \in EvaluatorStates
  BY StateFacts
<1>2. /\ Left(old) = Budget(Cardinality(rest)) + StagesLeft(old.pc, old.attempt)
      /\ Budget(Cardinality(rest)) \in Nat
      /\ StagesLeft(old.pc, old.attempt) \in 2..Stages /\ Stages \in Nat
  BY <1>1, LeftByPlace, BudgetFacts, StagesBounded
<1>3. evaluators'[e] = IF rest = {} THEN At("idle", {}) ELSE At("scanning", rest)
  BY DEF NextSignal, Become, IInv, TypeOK
<1> HIDE DEF rest, old
<1>4. CASE rest = {}
  <2>1. Left(evaluators'[e]) = 0
    BY <1>3, <1>4 DEF Left, At, AtRest
  <2> QED
    BY <1>2, <2>1 DEF old
<1>5. CASE rest # {}
  <2>1. Left(evaluators'[e]) = Budget(Cardinality(rest)) + 1
    BY <1>3, <1>5 DEF Left, At, AtRest
  <2> QED
    BY <1>2, <2>1 DEF old
<1> QED
  BY <1>4, <1>5

\* What an evaluation starts or goes on with: the signals listed, or nothing.
LEMMA ListedLeft ==
    ASSUME IsFiniteSet(Signals)
    PROVE  /\ Left(At("idle", {})) = 0 /\ Left(At("dead", {})) = 0
           /\ Left(At("scanning", Scan)) \in 0..MaxSteps
           /\ Left(At("scanning", Scan)) < MaxSteps
           /\ MaxSteps \in Nat /\ 0 < MaxSteps
           /\ 0 \in 0..MaxSteps /\ MaxSteps \in 0..MaxSteps
<1>1. Left(At("idle", {})) = 0 /\ Left(At("dead", {})) = 0
  BY DEF Left, At, AtRest
<1>2. Left(At("scanning", Scan)) = Budget(Cardinality(Scan)) + 1
  BY DEF Left, At, AtRest
<1> DEFINE listed == Cardinality(Scan)
<1>3. listed \in 0..ScanLimit
  BY ScanIsBounded
<1> HIDE DEF listed
<1>4. MaxSteps \in Nat /\ 0 < MaxSteps /\ Budget(listed) + 1 \in Nat /\ Budget(listed) + 1 < MaxSteps
  <2>1. Budget(listed) \in Nat /\ Budget(ScanLimit) \in Nat /\ Budget(listed) <= Budget(ScanLimit)
    BY <1>3, BudgetFacts
  <2> QED
    BY <2>1 DEF MaxSteps
<1>5. 0 \in 0..MaxSteps /\ MaxSteps \in 0..MaxSteps /\ Budget(listed) + 1 \in 0..MaxSteps
  BY <1>4
<1> QED
  BY <1>1, <1>2, <1>4, <1>5, Zenon DEF listed

\* A signal is selected, or found to have been evaluated.
LEMMA SelectWears ==
    ASSUME IInv, IInv', IsFiniteSet(Signals), NEW e \in Evaluators, NEW s \in Signals, Select(e, s)
    PROVE  Left(evaluators'[e]) < Left(evaluators[e])
<1> DEFINE old == evaluators[e]
           new == evaluators'[e]
<1>1. /\ old \in EvaluatorStates /\ new \in EvaluatorStates
      /\ old.pc = "scanning" /\ s \in old.todo
      /\ evaluators \in [Evaluators -> EvaluatorStates]
  BY StateFacts DEF Select, IInv, TypeOK
<1>2. Left(old) = Budget(Cardinality(old.todo)) + 1 /\ Cardinality(old.todo) \in Nat
  BY <1>1, LeftByPlace
<1>3. /\ Budget(Cardinality(old.todo)) = Budget(Cardinality(old.todo \ {s})) + Stages
      /\ Budget(Cardinality(old.todo \ {s})) \in Nat /\ Stages \in Nat /\ Stages >= 13
  <2>1. IsFiniteSet(old.todo)
    BY <1>1, FS_Subset DEF EvaluatorStates
  <2> QED
    <3> DEFINE listed == old.todo
    <3>1. IsFiniteSet(listed) /\ s \in listed
      BY <1>1, <2>1
    <3> HIDE DEF listed
    <3>2. IsFiniteSet(listed \ {s}) /\ Cardinality(listed \ {s}) = Cardinality(listed) - 1
      BY <3>1, FS_RemoveElement
    <3>3. Cardinality(listed) \in Nat /\ Cardinality(listed \ {s}) \in Nat
      BY <3>1, <3>2, FS_CardinalityType
    <3>4. Cardinality(listed) = Cardinality(listed \ {s}) + 1
      BY <3>2, <3>3
    <3> QED
      BY <3>3, <3>4, BudgetFacts, StagesBounded DEF listed
<1>4. CASE Raise(e)
  BY <1>1, <1>4, RaiseWears DEF AtRest
<1>5. CASE Become(e, At("idle", {}))
  <2>1. new = At("idle", {})
    BY <1>1, <1>5 DEF Become
  <2>2. Left(new) = 0
    BY <2>1, ListedLeft
  <2> HIDE DEF old, new
  <2> QED
    BY <1>2, <1>3, <2>2 DEF old, new
<1>6. CASE Become(e, At("scanning", old.todo \ {s}))
  <2>1. new = At("scanning", old.todo \ {s})
    BY <1>1, <1>6 DEF Become
  <2>2. Left(new) = Budget(Cardinality(old.todo \ {s})) + 1
    BY <2>1 DEF Left, At, AtRest
  <2> HIDE DEF old, new
  <2> QED
    BY <1>2, <1>3, <2>2 DEF old, new
<1>7. ASSUME NEW state, Become(e, state), state.pc = "selected", state.todo = old.todo,
             state.signal = s
      PROVE  Left(new) < Left(old)
  <2>1. new = state
    BY <1>1, <1>7 DEF Become
  <2>2. new.pc \in Working /\ StagesLeft(new.pc, new.attempt) = Stages
    BY <1>7, <2>1, StageValues DEF Working, Deciding
  <2>3. Left(new) = Budget(Cardinality(old.todo \ {s})) + Stages
    BY <1>1, <1>7, <2>1, <2>2, LeftByPlace
  <2> HIDE DEF old, new
  <2> QED
    BY <1>2, <1>3, <2>3
<1> DEFINE chosen == [At("selected", old.todo) EXCEPT !.signal = s]
<1>8. /\ chosen.pc = "selected" /\ chosen.todo = old.todo /\ chosen.signal = s
      /\ \A p, optIn, dryRun :
            LET state == [chosen EXCEPT !.policy = p, !.optIn = optIn, !.dryRun = dryRun]
            IN  state.pc = "selected" /\ state.todo = old.todo /\ state.signal = s
  BY DEF At
<1>9. \/ Raise(e) \/ Become(e, At("idle", {})) \/ Become(e, At("scanning", old.todo \ {s}))
      \/ Become(e, chosen)
      \/ \E p, optIn, dryRun :
            Become(e, [chosen EXCEPT !.policy = p, !.optIn = optIn, !.dryRun = dryRun])
  BY Zenon DEF Select
<1> HIDE DEF chosen
<1>10. CASE Become(e, chosen)
  BY <1>7, <1>8, <1>10
<1>11. ASSUME NEW p, NEW optIn, NEW dryRun,
              Become(e, [chosen EXCEPT !.policy = p, !.optIn = optIn, !.dryRun = dryRun])
       PROVE  Left(new) < Left(old)
  <2> DEFINE state == [chosen EXCEPT !.policy = p, !.optIn = optIn, !.dryRun = dryRun]
  <2>1. state.pc = "selected" /\ state.todo = old.todo /\ state.signal = s
    BY <1>8
  <2>2. Become(e, state)
    BY <1>11
  <2> HIDE DEF state
  <2> QED
    BY <1>7, <2>1, <2>2
<1> QED
  BY <1>4, <1>5, <1>6, <1>9, <1>10, <1>11, Zenon

\* A step to another control point, for the same signal.
LEMMA GoToWears ==
    ASSUME IInv, IInv', IsFiniteSet(Signals), NEW e \in Evaluators, NEW pc \in Working,
           evaluators[e].pc \in Working,
           StagesLeft(pc, evaluators[e].attempt)
                < StagesLeft(evaluators[e].pc, evaluators[e].attempt),
           GoTo(e, pc)
    PROVE  Left(evaluators'[e]) < Left(evaluators[e])
<1>1. evaluators[e] \in EvaluatorStates /\ evaluators'[e] \in EvaluatorStates
  BY DEF IInv, TypeOK
<1>2. evaluators'[e] = [evaluators[e] EXCEPT !.pc = pc]
  BY DEF GoTo, IInv, TypeOK
<1>3. /\ evaluators'[e].pc = pc /\ evaluators'[e].todo = evaluators[e].todo
      /\ evaluators'[e].signal = evaluators[e].signal
      /\ evaluators'[e].attempt = evaluators[e].attempt
  BY <1>1, <1>2 DEF EvaluatorStates
<1> QED
  BY <1>1, <1>3, StageWears

\* The guards are read, a decision is made of them, the preview is committed, the row
\* is loaded again, the order is sent: the signal is as before, and further on.
LEMMA ReadsWear ==
    ASSUME IInv, IInv', IsFiniteSet(Signals), NEW e \in Evaluators,
           ReadGuards(e) \/ Decide(e) \/ CommitPreview(e) \/ Reload(e) \/ Post(e)
    PROVE  Left(evaluators'[e]) < Left(evaluators[e])
<1> DEFINE old == evaluators[e]
           new == evaluators'[e]
<1>1. /\ old \in EvaluatorStates /\ new \in EvaluatorStates
      /\ evaluators \in [Evaluators -> EvaluatorStates]
  BY DEF IInv, TypeOK
<1>2. CASE Raise(e)
  <2>1. old.pc \notin AtRest
    BY DEF ReadGuards, Decide, CommitPreview, Reload, Post, AtRest
  <2> QED
    BY <1>2, <2>1, RaiseWears
<1>3. CASE ReadGuards(e) /\ ~Raise(e)
  <2>1. old.pc = "selected" /\ new.pc = "guarded" /\ new.todo = old.todo /\ new.signal = old.signal
    BY <1>1, <1>3 DEF ReadGuards, EvaluatorStates
  <2> QED
    BY <1>1, <2>1, StageValues, StagesBounded, StageWears DEF Working, Deciding
<1>4. CASE Decide(e) /\ ~Raise(e)
  <2>1. PICK decision : new = Decided(old, decision)
    BY <1>1, <1>4 DEF Decide, Become
  <2>2. new.pc = "decided" /\ new.todo = old.todo /\ new.signal = old.signal
    BY <2>1 DEF Decided, At
  <2>3. old.pc = "guarded"
    BY <1>4 DEF Decide
  <2> QED
    BY <1>1, <2>2, <2>3, StageValues, StagesBounded, StageWears DEF Working, Deciding
<1>5. CASE CommitPreview(e)
  <2>1. old.pc = "decided" /\ new.pc = "previewed" /\ new.todo = old.todo /\ new.signal = old.signal
    BY <1>1, <1>5 DEF CommitPreview, EvaluatorStates
  <2> QED
    BY <1>1, <2>1, StageValues, StagesBounded, StageWears DEF Working, Deciding, Unapproved
<1>6. CASE Reload(e)
  <2>1. old.pc = "approved" /\ new.pc = "executing" /\ new.todo = old.todo /\ new.signal = old.signal
    BY <1>1, <1>6 DEF Reload, EvaluatorStates
  <2> QED
    BY <1>1, <2>1, StageValues, StagesBounded, StageWears DEF Working, Approved
<1>7. CASE Post(e)
  <2>1. /\ old.pc = "posting" /\ new.pc = "awaiting"
        /\ new.todo = old.todo /\ new.signal = old.signal
        /\ new.attempt = old.attempt + 1 /\ old.attempt \in Nat
    BY <1>1, <1>7 DEF Post, EvaluatorStates
  <2>2. old.pc \in Working /\ new.pc \in Working
    BY <2>1 DEF Working, Approved
  <2>3. /\ StagesLeft(old.pc, old.attempt) = Stages - 7 - 2 * old.attempt
        /\ StagesLeft(new.pc, new.attempt) = Stages - 6 - 2 * new.attempt
    BY <2>1, StageValues
  <2>4. StagesLeft(new.pc, new.attempt) < StagesLeft(old.pc, old.attempt)
    BY <2>1, <2>3, StagesBounded
  <2> QED
    BY <1>1, <2>1, <2>2, <2>4, StageWears
<1> QED
  BY <1>2, <1>3, <1>4, <1>5, <1>6, <1>7

\* The commits, the POST and its outcomes lead on, or end the signal or the evaluation.
LEMMA CommitsWear ==
    ASSUME IInv, IInv', IsFiniteSet(Signals), NEW e \in Evaluators,
           \/ CommitIneligible(e) \/ Refresh(e) \/ CommitRecheckFailure(e)
           \/ CommitDryRun(e) \/ CommitApproval(e) \/ Execute(e) \/ CommitPaper(e)
           \/ Timeout(e) \/ Hears(e) \/ CommitOrder(e) \/ CommitSubmitted(e)
           \/ CommitSubmissionFailure(e) \/ LoseRun(e)
    PROVE  Left(evaluators'[e]) < Left(evaluators[e])
<1> DEFINE old == evaluators[e]
<1>5. PICK attempt \in 0..MaxAttempts : attempt = old.attempt
  BY StateFacts DEF EvaluatorStates
<1>1. /\ old.pc \in Working
      /\ \/ Raise(e) \/ NextSignal(e)
         \/ \E pc \in Working : GoTo(e, pc) /\ StagesLeft(pc, old.attempt) < StagesLeft(old.pc, old.attempt)
  <2>1. CASE \/ CommitIneligible(e) \/ CommitRecheckFailure(e) \/ CommitDryRun(e)
             \/ CommitSubmitted(e) \/ CommitSubmissionFailure(e) \/ LoseRun(e)
    BY <2>1 DEF CommitIneligible, CommitRecheckFailure, CommitDryRun, CommitSubmitted,
                CommitSubmissionFailure, LoseRun, Working, Deciding, Unapproved, Approved
  <2>2. CASE Refresh(e)
    <3>1. old.pc = "previewed" /\ "previewed" \in Working /\ StagesLeft("previewed", old.attempt) = Stages - 3
      BY <2>2, StageValues DEF Refresh, Working, Unapproved
    <3>2. \A approval : /\ AfterPreview(old, approval) \in Working
                        /\ StagesLeft(AfterPreview(old, approval), old.attempt) = Stages - 4
      BY StageValues DEF AfterPreview, Working, Unapproved
    <3>3. NextSignal(e) \/ \E approval : GoTo(e, AfterPreview(old, approval))
      BY <2>2, Zenon DEF Refresh
    <3> QED
      BY <3>1, <3>2, <3>3, StagesBounded
  <2>3. CASE CommitApproval(e)
    <3>1. old.pc = "approving" /\ (Raise(e) \/ GoTo(e, "approved"))
      BY <2>3, Zenon DEF CommitApproval
    <3> QED
      BY <1>5, <3>1, StageValues, StagesBounded DEF Working, Unapproved, Approved
  <2>4. CASE Execute(e)
    <3>1. old.pc = "executing" /\ \E pc \in {"simulating", "posting", "failed"} : GoTo(e, pc)
      BY <2>4 DEF Execute, Route
    <3> QED
      BY <1>5, <3>1, StageValues, StagesBounded DEF Working, Approved
  <2>5. CASE CommitPaper(e)
    <3>1. old.pc = "simulating" /\ GoTo(e, "executed")
      BY <2>5, Zenon DEF CommitPaper
    <3> QED
      BY <1>5, <3>1, StageValues, StagesBounded DEF Working, Approved
  <2>6. CASE Timeout(e) \/ Hears(e)
    <3>1. old.pc = "awaiting" /\ \E pc \in {"posting", "answered", "failed"} : GoTo(e, pc)
      BY <2>6, Zenon DEF Timeout, Hears, AcceptAndAnswer, Refuse, Awaits
    <3> QED
      BY <1>5, <3>1, StageValues, StagesBounded DEF Working, Approved
  <2>7. CASE CommitOrder(e)
    <3>1. old.pc = "answered" /\ GoTo(e, "executed")
      BY <2>7, Zenon DEF CommitOrder
    <3> QED
      BY <1>5, <3>1, StageValues, StagesBounded DEF Working, Approved
  <2> QED
    BY <2>1, <2>2, <2>3, <2>4, <2>5, <2>6, <2>7
<1>2. CASE Raise(e)
  <2>1. old.pc \notin AtRest
    BY <1>1 DEF Working, Deciding, Unapproved, Approved, AtRest
  <2> QED
    BY <1>2, <2>1, RaiseWears
<1>3. CASE NextSignal(e)
  BY <1>1, <1>3, NextSignalWears
<1>4. CASE \E pc \in Working : GoTo(e, pc) /\ StagesLeft(pc, old.attempt) < StagesLeft(old.pc, old.attempt)
  BY <1>1, <1>4, GoToWears
<1> QED
  BY <1>1, <1>2, <1>3, <1>4

\* Whatever step an evaluation takes, it has fewer to take after it.
LEMMA EvaluateWears ==
    ASSUME IInv, IInv', IsFiniteSet(Signals), NEW e \in Evaluators, Evaluate(e) \/ Abort(e) \/ Hears(e)
    PROVE  Left(evaluators'[e]) < Left(evaluators[e])
<1>1. CASE CommitAnomalyPause(e)
  <2>1. evaluators[e].pc = "alarmed" /\ evaluators \in [Evaluators -> EvaluatorStates]
    BY <1>1 DEF CommitAnomalyPause, IInv, TypeOK
  <2>2. evaluators'[e] = At("idle", {}) \/ evaluators'[e] = At("scanning", Scan)
    BY <1>1, <2>1 DEF CommitAnomalyPause, Become
  <2>3. Left(evaluators[e]) = MaxSteps
    BY <2>1 DEF Left, AtRest, MaxSteps
  <2>4. CASE evaluators'[e] = At("idle", {})
    BY <2>3, <2>4, ListedLeft
  <2>5. CASE evaluators'[e] = At("scanning", Scan)
    BY <2>3, <2>5, ListedLeft
  <2> QED
    BY <2>2, <2>4, <2>5
<1>2. CASE Abort(e)
  BY <1>2, RaiseWears DEF Abort, AtRest
<1>3. CASE \E s \in Signals : Select(e, s)
  BY <1>3, SelectWears
<1> QED
  BY <1>1, <1>2, <1>3, ReadsWear, CommitsWear DEF Evaluate

\* An evaluation begins with so many steps to take, or none.
LEMMA TickBegins ==
    ASSUME IInv, IsFiniteSet(Signals), NEW e \in Evaluators, BeginTick(e) \/ Restart(e)
    PROVE  evaluators[e].pc \in AtRest /\ Left(evaluators'[e]) \in 0..MaxSteps
<1>1. evaluators \in [Evaluators -> EvaluatorStates]
  BY DEF IInv, TypeOK
<1>2. evaluators[e].pc \in AtRest
  BY DEF BeginTick, Restart, AtRest
<1>3. CASE Raise(e)
  <2>1. PICK pc \in AtRest : evaluators'[e] = At(pc, {})
    BY <1>1, <1>3 DEF Raise, Become, AtRest
  <2>2. Left(evaluators'[e]) = 0
    BY <2>1 DEF Left, At
  <2> QED
    BY <1>2, <2>2, ListedLeft
<1>4. CASE ~Raise(e)
  <2> DEFINE alarmed == [At("alarmed", {}) EXCEPT !.guards.paused = activePauses = 1]
  <2>1. \/ evaluators'[e] = At("idle", {}) \/ evaluators'[e] = At("scanning", Scan)
        \/ evaluators'[e] = alarmed
    BY <1>1, <1>4 DEF BeginTick, Restart, Become
  <2>2. Left(alarmed) = MaxSteps
    BY DEF Left, At, AtRest, MaxSteps
  <2> HIDE DEF alarmed
  <2> QED
    BY <1>2, <2>1, <2>2, ListedLeft
<1> QED
  BY <1>3, <1>4

\* An evaluation once begun is over after at most 11 + 2 * MaxAttempts steps for each
\* of the ScanLimit signals it may list, and two: none of its steps leads back, the
\* retry loop around the POST included, whatever operators, people, the exchange,
\* crashes and the world do meanwhile (runner.py: evaluate_signal; rest.py: _request).
\* With the fairness of FairSpec this is why a stop drains.
THEOREM EvaluationsWearOut ==
    ASSUME IsFiniteSet(Signals)
    PROVE  Spec => /\ [](\A e \in Evaluators : StepsLeft(e) \in 0..MaxSteps)
                   /\ [][\A e \in Evaluators :
                            evaluators'[e] # evaluators[e] /\ evaluators[e].pc \notin AtRest
                                => Left(evaluators'[e]) < Left(evaluators[e])]_vars
<1> DEFINE Bounded == \A e \in Evaluators : StepsLeft(e) \in 0..MaxSteps
<1>1. Init => Bounded
  BY ListedLeft DEF Init, StepsLeft
<1>2. ASSUME IInv, IInv', [Next]_vars, NEW e \in Evaluators, evaluators'[e] # evaluators[e]
      PROVE  \/ Left(evaluators'[e]) < Left(evaluators[e])
             \/ evaluators[e].pc \in AtRest /\ Left(evaluators'[e]) \in 0..MaxSteps
  <2>1. BeginTick(e) \/ Evaluate(e) \/ Abort(e) \/ Restart(e) \/ Hears(e)
    <3>1. ASSUME NEW f \in Evaluators,
                 BeginTick(f) \/ Evaluate(f) \/ Abort(f) \/ Restart(f) \/ Hears(f)
          PROVE  f = e
      BY <1>2, <3>1, OthersStay
    <3>2. CASE Operate \/ World \/ UNCHANGED vars
      BY <1>2, <3>2 DEF vars, Operate, SetPolicy, EnableOrDisable, SetKillSwitch,
         SetExecutionMode, BeginPause, CommitPause, BeginResume, CommitResume,
         World, Arrive, Replace, ReportHealth, SlideWindow
    <3>3. ASSUME NEW s \in Signals, NEW i \in DOMAIN runs[s], Human(s, i)
          PROVE  FALSE
      BY <1>2, <3>3 DEF Human, HumanApprove, HumanReject, HumanExecute, EditOrder
    <3>4. ASSUME NEW p \in transit, Network(p)
          PROVE  \E f \in Evaluators : Hears(f)
      BY <1>2, <3>4 DEF Network, AcceptForHuman, AcceptUnheard, Hears
    <3> QED
      BY <1>2, <3>1, <3>2, <3>3, <3>4 DEF Next
  <2> QED
    BY <1>2, <2>1, EvaluateWears, TickBegins
<1>3. ASSUME IInv, IInv', Bounded, [Next]_vars
      PROVE  Bounded'
  <2> SUFFICES ASSUME NEW e \in Evaluators PROVE Left(evaluators'[e]) \in 0..MaxSteps
    BY DEF StepsLeft
  <2>1. Left(evaluators[e]) \in 0..MaxSteps
    BY <1>3 DEF StepsLeft
  <2>2. evaluators'[e] \in EvaluatorStates
    BY <1>3 DEF IInv, TypeOK
  <2>3. Left(evaluators'[e]) \in Nat
    BY <2>2, LeftByPlace
  <2>4. CASE evaluators'[e] = evaluators[e]
    BY <2>1, <2>4
  <2>5. CASE Left(evaluators'[e]) < Left(evaluators[e])
    BY <2>1, <2>3, <2>5, ListedLeft
  <2> QED
    BY <1>2, <1>3, <2>4, <2>5
<1>4. IInv /\ IInv' /\ [Next]_vars =>
        [\A e \in Evaluators :
            evaluators'[e] # evaluators[e] /\ evaluators[e].pc \notin AtRest
                => Left(evaluators'[e]) < Left(evaluators[e])]_vars
  BY <1>2
<1> HIDE DEF Bounded
<1>5. Spec => []Bounded
  BY <1>1, <1>3, AutomationInvariance, PTL DEF Spec
<1>6. Spec => [][\A e \in Evaluators :
                    evaluators'[e] # evaluators[e] /\ evaluators[e].pc \notin AtRest
                        => Left(evaluators'[e]) < Left(evaluators[e])]_vars
  BY <1>4, AutomationInvariance, PTL DEF Spec
<1> QED
  BY <1>5, <1>6 DEF Bounded
=============================================================================
