-------------------------- MODULE Enrichment_proofs --------------------------
(***************************************************************************)
(* Overlapping runs of the enrichment worker, proved for every number of   *)
(* sources, ids, markets and runs: what one run holds back under the lock  *)
(* of the sources is still true of the tables when it commits.             *)
(***************************************************************************)
EXTENDS Enrichment, Functions, FiniteSetTheorems, SequenceTheorems, TLAPS

-----------------------------------------------------------------------------
(* The parts of the invariant. *)

\* The override rows of an id, and of an id that names a market.
Posted(id) == {j \in DOMAIN mappings : mappings[j].posted /\ mappings[j].entity.id = id}
Backed(id, t) == \E j \in Posted(id) : mappings[j].ticker = t

\* The overrides a run has read decide on the entities of an id.
Overridden(run, id) == \E o \in run.overrides : o.entity.id = id

\* A held back write is of the row there is of its pair, or of a new one, and is
\* manual just if an override decided it.
WriteSound(run, w) ==
    /\ w.manual <=> Overridden(run, w.entity.id)
    /\ w.manual => Backed(w.entity.id, w.ticker)
    /\ w.row = 0 => \A i \in PairRows(w.entity, w.ticker) : mappings[i].posted
    /\ w.row # 0 => /\ w.row \in DOMAIN mappings
                    /\ mappings[w.row].entity = w.entity
                    /\ mappings[w.row].ticker = w.ticker

\* A transaction is empty until it has the lock, and with it nothing that it has
\* read changes.
HeldBack(r, run) ==
    /\ run.inserted # {} \/ run.fetched # {} \/ run.writes # {} \/ run.next # 1 => lock = r
    /\ lock = r => run.pc = "providers"
    /\ IsFiniteSet(run.writes)
    /\ \A e \in run.inserted : entities[e] = 0
    /\ \A e \in run.fetched : run.deleted[e] = observations[e]
    /\ run.seen <= Len(mappings)
    /\ \A w \in run.writes : WriteSound(run, w)

\* A run that maps has read every override that was posted in quiet.
ReadsOverrides(run) ==
    /\ \A o \in run.overrides : Backed(o.entity.id, o.ticker)
    /\ run.pc = "providers" =>
          \A j \in DOMAIN mappings :
              mappings[j].posted /\ mappings[j].quiet => Overridden(run, mappings[j].entity.id)

RunsAreSound == \A r \in Runs : HeldBack(r, work[r]) /\ ReadsOverrides(work[r])

\* One row of an entity, of an observation and, but for overrides, of a pair.
TablesAreSound ==
    /\ \A e \in Entities : entities[e] \in {0, 1}
    /\ \A e \in Entities : \A m, n \in observations[e] : m = n
    /\ \A i, j \in DOMAIN mappings :
          mappings[i].ticker = mappings[j].ticker =>
              \/ mappings[i].features = mappings[j].features
              \/ mappings[i].features = 0 \/ mappings[j].features = 0
    /\ \A i, j \in DOMAIN mappings :
          (/\ ~mappings[i].posted /\ ~mappings[j].posted
           /\ mappings[i].entity = mappings[j].entity
           /\ mappings[i].ticker = mappings[j].ticker) => i = j

\* A row is manual for good reasons, and whenever there is one of them.
RowSound(i) ==
    /\ mappings[i].seen <= Len(mappings)
    /\ mappings[i].posted /\ mappings[i].quiet => mappings[i].manual
    /\ \A j \in DOMAIN mappings :
          (/\ j <= mappings[i].seen /\ mappings[j].posted /\ mappings[j].quiet
           /\ mappings[j].entity.id = mappings[i].entity.id) => mappings[i].manual
    /\ mappings[i].manual => Backed(mappings[i].entity.id, mappings[i].ticker)
RowsAreSound == \A i \in DOMAIN mappings : RowSound(i)

EnrichInv == EnrichTypeOK /\ RunsAreSound /\ TablesAreSound /\ RowsAreSound

-----------------------------------------------------------------------------
(* What the steps make of a run. *)

\* A function over 1..n is a sequence of length n.
LEMMA OverIsSeq ==
    ASSUME NEW T, NEW n \in Nat, NEW R \in [1..n -> T]
    PROVE  R \in Seq(T) /\ Len(R) = n
OBVIOUS

\* A step of one run leaves the others.
LEMMA WorkOf ==
    ASSUME EnrichTypeOK, NEW r \in Runs, NEW q \in RunStates, work' = [work EXCEPT ![r] = q]
    PROVE  /\ work'[r] = q /\ work' \in [Runs -> RunStates]
           /\ \A t \in Runs : t # r => work'[t] = work[t]
BY DEF EnrichTypeOK

\* Run numbers are natural numbers up to the bound.
LEMMA NumbersAreBounded == 0 \in RunNumbers /\ \A n \in RunNumbers : n \in Nat /\ n <= MaxRuns
BY BoundedAssumption DEF RunNumbers

\* The state of a run that is not under way.
LEMMA NoWorkIsState ==
    /\ NoWork \in RunStates
    /\ NoWork.pc = "idle" /\ NoWork.next = 1 /\ NoWork.overrides = {} /\ NoWork.inserted = {}
    /\ NoWork.fetched = {} /\ NoWork.writes = {} /\ NoWork.seen = 0
<1>1. [e \in Entities |-> {}] \in [Entities -> SUBSET RunNumbers]
    OBVIOUS
<1> QED BY <1>1, NumbersAreBounded DEF NoWork, RunStates

\* A run begins with nothing held back.
LEMMA BeginEffect ==
    ASSUME EnrichTypeOK, NEW r \in Runs, BeginRun(r)
    PROVE  /\ work' \in [Runs -> RunStates] /\ begun' \in RunNumbers
           /\ work'[r].pc = "register" /\ work'[r].next = 1 /\ work'[r].overrides = {}
           /\ work'[r].inserted = {} /\ work'[r].fetched = {} /\ work'[r].writes = {}
           /\ work'[r].seen = Len(mappings)
           /\ \A t \in Runs : t # r => work'[t] = work[t]
<1>1. PICK n : n = begun'
    OBVIOUS
<1>2. n \in RunNumbers
    BY <1>1, BoundedAssumption DEF BeginRun, EnrichTypeOK, RunNumbers
<1>3. PICK f \in BOOLEAN : f = ~registered
    BY DEF EnrichTypeOK
<1>4. PICK l \in Nat : l = Len(mappings)
    BY DEF EnrichTypeOK
<1> DEFINE q == [NoWork EXCEPT !.pc = "register", !.number = n, !.fresh = f, !.seen = l]
<1>5. work' = [work EXCEPT ![r] = q]
    BY <1>1, <1>3, <1>4 DEF BeginRun
<1>6. /\ q \in RunStates /\ q.pc = "register" /\ q.next = 1 /\ q.overrides = {}
      /\ q.inserted = {} /\ q.fetched = {} /\ q.writes = {} /\ q.seen = l
    BY <1>2, NoWorkIsState DEF RunStates
<1> HIDE DEF q
<1> QED BY <1>1, <1>2, <1>4, <1>5, <1>6, WorkOf

\* The sources are upserted, the overrides read, nothing else.
LEMMA UpsertEffect ==
    ASSUME EnrichTypeOK, NEW r \in Runs, UpsertSources(r)
    PROVE  /\ work' \in [Runs -> RunStates]
           /\ work'[r].pc = "providers" /\ work'[r].overrides = Manual
           /\ work'[r].next = work[r].next /\ work'[r].inserted = work[r].inserted
           /\ work'[r].deleted = work[r].deleted
           /\ work'[r].fetched = work[r].fetched /\ work'[r].writes = work[r].writes
           /\ work'[r].seen = work[r].seen
           /\ \A t \in Runs : t # r => work'[t] = work[t]
<1>1. PICK m : m = Manual
    OBVIOUS
<1>2. m \in SUBSET MappingRows
    BY <1>1 DEF Manual, EnrichTypeOK
<1>3. PICK run \in RunStates : run = work[r]
    BY DEF EnrichTypeOK
<1> DEFINE q == [run EXCEPT !.pc = "providers", !.overrides = m]
<1>4. work' = [work EXCEPT ![r] = q]
    BY <1>1, <1>3 DEF UpsertSources, EnrichTypeOK
<1>5. /\ q \in RunStates /\ q.pc = "providers" /\ q.overrides = m /\ q.next = run.next
      /\ q.inserted = run.inserted /\ q.deleted = run.deleted /\ q.fetched = run.fetched
      /\ q.writes = run.writes /\ q.seen = run.seen
    BY <1>2, <1>3 DEF RunStates
<1> HIDE DEF q
<1> QED BY <1>1, <1>3, <1>4, <1>5, WorkOf

\* A commit, a finish and a failure leave a run without anything held back.
LEMMA EndEffect ==
    ASSUME EnrichTypeOK, NEW r \in Runs, CommitRun(r) \/ FinishRun(r) \/ FailRun(r)
    PROVE  /\ work' \in [Runs -> RunStates]
           /\ work'[r].pc \in {"idle", "finish"} /\ work'[r].next = 1
           /\ work'[r].overrides = {} /\ work'[r].inserted = {} /\ work'[r].fetched = {}
           /\ work'[r].writes = {} /\ work'[r].seen = 0
           /\ \A t \in Runs : t # r => work'[t] = work[t]
<1> DEFINE q == [NoWork EXCEPT !.pc = "finish"]
<1>1. /\ q \in RunStates /\ q.pc = "finish" /\ q.next = 1 /\ q.overrides = {}
      /\ q.inserted = {} /\ q.fetched = {} /\ q.writes = {} /\ q.seen = 0
    BY NoWorkIsState DEF RunStates
<1>2. work' = [work EXCEPT ![r] = q] \/ work' = [work EXCEPT ![r] = NoWork]
    BY DEF CommitRun, FinishRun, FailRun
<1> HIDE DEF q
<1>3. CASE work' = [work EXCEPT ![r] = q]
    BY <1>1, <1>3, WorkOf
<1>4. CASE work' = [work EXCEPT ![r] = NoWork]
    BY <1>4, NoWorkIsState, WorkOf
<1> QED BY <1>2, <1>3, <1>4

\* What map_entity may yield: a market, manually just if an override has the id.
LEMMA MapsByOverride ==
    ASSUME NEW r \in Runs, NEW e, NEW m \in MapEntity(r, e), m # NoTarget
    PROVE  /\ m.manual \in BOOLEAN /\ (m.manual <=> Overridden(work[r], e.id))
           /\ m.manual => \E o \in work[r].overrides : o.entity.id = e.id /\ o.ticker = m.ticker
<1> DEFINE over == {o \in work[r].overrides : o.entity.id = e.id}
<1>1. Overridden(work[r], e.id) <=> over # {}
    BY DEF Overridden
<1>2. CASE over # {}
    <2>1. m \in {[ticker |-> o.ticker, manual |-> TRUE] : o \in over}
        BY <1>2 DEF MapEntity
    <2>2. PICK o \in over : m = [ticker |-> o.ticker, manual |-> TRUE]
        BY <2>1
    <2>3. m.manual = TRUE /\ m.ticker = o.ticker
        BY <2>2
    <2> QED BY <1>1, <1>2, <2>2, <2>3
<1>3. CASE over = {}
    <2>1. m \in {IF t = NoTarget THEN NoTarget ELSE [ticker |-> t, manual |-> FALSE] :
                    t \in Similar[e]}
        BY <1>3 DEF MapEntity
    <2>2. PICK t : m = [ticker |-> t, manual |-> FALSE]
        BY <2>1
    <2>3. m.manual = FALSE
        BY <2>2
    <2> QED BY <1>1, <1>3, <2>3
<1> QED BY <1>2, <1>3

\* The write of a mapping, and what it says of the stored rows.
LEMMA WriteEffect ==
    ASSUME EnrichTypeOK, NEW e \in Entities, NEW m \in [ticker : Targets, manual : BOOLEAN]
    PROVE  LET w == MappingWrite(e, m)
           IN  /\ w \in Writes /\ w.entity = e /\ w.ticker = m.ticker /\ w.manual = m.manual
               /\ w.row = 0 => PairRows(e, m.ticker) = {}
               /\ w.row # 0 => w.row \in PairRows(e, m.ticker)
<1> DEFINE P == PairRows(e, m.ticker)
<1> DEFINE i == IF P = {} THEN 0 ELSE CHOOSE j \in P : TRUE
<1>1. MappingWrite(e, m) = [row |-> i, entity |-> e, ticker |-> m.ticker, manual |-> m.manual]
    BY DEF MappingWrite
<1>2. P \subseteq DOMAIN mappings /\ DOMAIN mappings = 1..Len(mappings) /\ Len(mappings) \in Nat
    BY DEF PairRows, EnrichTypeOK
<1>3. (P = {} => i = 0) /\ (P # {} => i \in P)
    OBVIOUS
<1> HIDE DEF i, P
<1>4. i \in Nat /\ (i = 0 => P = {})
    BY <1>2, <1>3
<1> QED BY <1>1, <1>3, <1>4 DEF Writes, P

\* A provider returns finitely many entities.
LEMMA FetchesAreFinite ==
    ASSUME NEW k \in DOMAIN Providers, NEW F \in Fetches(k)
    PROVE  F \in SUBSET Entities /\ IsFiniteSet(F)
<1>1. F \in SUBSET OfSource(k) /\ F \in SUBSET Entities
    BY DEF Fetches, OfSource
<1> DEFINE g == [i \in Ids |-> [source |-> Providers[k], id |-> i]]
<1>2. g \in Surjection(Ids, OfSource(k))
    <2>1. ASSUME NEW i \in Ids PROVE [source |-> Providers[k], id |-> i] \in OfSource(k)
        BY DEF OfSource, Entities, SourceNames
    <2>2. ASSUME NEW e \in OfSource(k) PROVE \E i \in Ids : g[i] = e
        <3>1. e.id \in Ids /\ e = [source |-> Providers[k], id |-> e.id]
            BY DEF OfSource, Entities
        <3> QED BY <3>1
    <2> QED BY <2>1, <2>2 DEF Surjection
<1>3. IsFiniteSet(OfSource(k))
    BY <1>2, FS_Surjection, BoundedAssumption
<1> QED BY <1>1, <1>3, FS_Subset

\* What a provider adds to a run.
Synced(r, F, W) ==
    LET run == work[r]
    IN  /\ work'[r].pc = "providers" /\ run.pc = "providers"
        /\ work'[r].overrides = run.overrides /\ work'[r].seen = run.seen
        /\ work'[r].next # 1
        /\ work'[r].inserted = run.inserted \cup {e \in F : entities[e] = 0}
        /\ \A e \in Entities : work'[r].deleted[e] = IF e \in F THEN observations[e] ELSE run.deleted[e]
        /\ work'[r].fetched = run.fetched \cup F
        /\ work'[r].writes = run.writes \cup W /\ IsFiniteSet(W)
        /\ \A w \in W :
              /\ w.entity \in Entities
              /\ w.manual <=> Overridden(run, w.entity.id)
              /\ w.manual => \E o \in run.overrides :
                                o.entity.id = w.entity.id /\ o.ticker = w.ticker
              /\ w.row = 0 => PairRows(w.entity, w.ticker) = {}
              /\ w.row # 0 => w.row \in PairRows(w.entity, w.ticker)

\* SyncProvider, in terms of what it adds to the run.
LEMMA SyncEffect ==
    ASSUME EnrichTypeOK, NEW r \in Runs, SyncProvider(r)
    PROVE  /\ work' \in [Runs -> RunStates]
           /\ \A t \in Runs : t # r => work'[t] = work[t]
           /\ \E F \in SUBSET Entities, W \in SUBSET Writes : Synced(r, F, W)
<1>1. PICK run \in RunStates : run = work[r]
    BY DEF EnrichTypeOK
<1>2. PICK k : k = run.next
    OBVIOUS
<1>3. k \in Nat /\ k <= Len(Providers) /\ run.pc = "providers"
    BY <1>1, <1>2 DEF SyncProvider, RunStates
<1>4. PICK F \in Fetches(k) :
        \E mapping \in [F -> [ticker : Targets, manual : BOOLEAN] \cup {NoTarget}] :
          /\ \A e \in F :
                /\ entities[e] <= 1
                /\ mapping[e] \in MapEntity(r, e)
                /\ mapping[e] # NoTarget =>
                      Cardinality(PairRows(e, mapping[e].ticker)) <= 1
          /\ work' = [work EXCEPT
                ![r].next = @ + 1,
                ![r].inserted = @ \cup {e \in F : entities[e] = 0},
                ![r].deleted = [e \in Entities |-> IF e \in F THEN observations[e] ELSE @[e]],
                ![r].fetched = @ \cup F,
                ![r].writes = @ \cup {MappingWrite(e, mapping[e]) :
                                         e \in {d \in F : mapping[d] # NoTarget}}]
    BY <1>1, <1>2 DEF SyncProvider
<1>5. PICK mapping \in [F -> [ticker : Targets, manual : BOOLEAN] \cup {NoTarget}] :
          /\ \A e \in F : mapping[e] \in MapEntity(r, e)
          /\ work' = [work EXCEPT
                ![r].next = @ + 1,
                ![r].inserted = @ \cup {e \in F : entities[e] = 0},
                ![r].deleted = [e \in Entities |-> IF e \in F THEN observations[e] ELSE @[e]],
                ![r].fetched = @ \cup F,
                ![r].writes = @ \cup {MappingWrite(e, mapping[e]) :
                                         e \in {d \in F : mapping[d] # NoTarget}}]
    BY <1>4
<1> DEFINE G == {d \in F : mapping[d] # NoTarget}
<1> DEFINE W == {MappingWrite(e, mapping[e]) : e \in G}
<1> DEFINE I == {e \in F : entities[e] = 0}
<1> DEFINE D == [e \in Entities |-> IF e \in F THEN observations[e] ELSE run.deleted[e]]
<1> DEFINE q == [run EXCEPT !.next = k + 1, !.inserted = run.inserted \cup I, !.deleted = D,
                            !.fetched = run.fetched \cup F, !.writes = run.writes \cup W]
<1>6. work' = [work EXCEPT ![r] = q]
    BY <1>1, <1>2, <1>5 DEF EnrichTypeOK
<1>7. F \in SUBSET Entities /\ IsFiniteSet(F)
    <2>1. k \in DOMAIN Providers
        <3>1. k # 0
            BY <1>1, <1>2 DEF RunStates
        <3> QED BY <1>3, <3>1, ProvidersAssumption
    <2> QED BY <2>1, FetchesAreFinite
<1>8. q \in RunStates
    <2>1. D \in [Entities -> SUBSET RunNumbers]
        BY <1>1 DEF EnrichTypeOK, ObservationRows, RunStates
    <2>2. W \in SUBSET Writes
        <3>1. ASSUME NEW e \in G PROVE MappingWrite(e, mapping[e]) \in Writes
            <4>1. e \in Entities /\ mapping[e] \in [ticker : Targets, manual : BOOLEAN]
                BY <1>7
            <4> QED BY <4>1, WriteEffect
        <3> QED BY <3>1
    <2>3. I \in SUBSET Entities
        BY <1>7
    <2> HIDE DEF D, W, I
    <2>4. k + 1 \in Nat \ {0}
        BY <1>3
    <2> QED BY <1>1, <1>7, <2>1, <2>2, <2>3, <2>4 DEF RunStates
<1>9. /\ q.pc = "providers" /\ q.overrides = run.overrides /\ q.seen = run.seen
      /\ q.next = k + 1 /\ q.inserted = run.inserted \cup I /\ q.deleted = D
      /\ q.fetched = run.fetched \cup F /\ q.writes = run.writes \cup W
    <2> HIDE DEF D, W, I
    <2> QED BY <1>1, <1>3 DEF RunStates
<1>10. IsFiniteSet(W)
    <2>1. G \in SUBSET F
        OBVIOUS
    <2>2. IsFiniteSet(G)
        BY <1>7, <2>1, FS_Subset
    <2> DEFINE f == [e \in G |-> MappingWrite(e, mapping[e])]
    <2>3. f \in Surjection(G, W)
        <3>1. \A e \in G : f[e] = MappingWrite(e, mapping[e]) /\ f[e] \in W
            OBVIOUS
        <3>2. f \in [G -> W]
            BY <3>1
        <3>3. ASSUME NEW w \in W PROVE \E e \in G : f[e] = w
            BY <3>1
        <3> QED BY <3>2, <3>3 DEF Surjection
    <2> HIDE DEF f, G, W
    <2> QED BY <2>2, <2>3, FS_Surjection
<1>11. ASSUME NEW w \in W
       PROVE  /\ w.entity \in Entities /\ w \in Writes
              /\ w.manual <=> Overridden(run, w.entity.id)
              /\ w.manual => \E o \in run.overrides :
                                o.entity.id = w.entity.id /\ o.ticker = w.ticker
              /\ w.row = 0 => PairRows(w.entity, w.ticker) = {}
              /\ w.row # 0 => w.row \in PairRows(w.entity, w.ticker)
    <2>1. PICK e \in G : w = MappingWrite(e, mapping[e])
        OBVIOUS
    <2>2. PICK m \in [ticker : Targets, manual : BOOLEAN] : m = mapping[e]
        BY <2>1
    <2>3. e \in Entities /\ m \in MapEntity(r, e) /\ m # NoTarget
        BY <1>5, <1>7, <2>1, <2>2
    <2>4. /\ w \in Writes /\ w.entity = e /\ w.ticker = m.ticker /\ w.manual = m.manual
          /\ w.row = 0 => PairRows(e, m.ticker) = {}
          /\ w.row # 0 => w.row \in PairRows(e, m.ticker)
        BY <2>1, <2>2, <2>3, WriteEffect
    <2>5. /\ m.manual \in BOOLEAN /\ (m.manual <=> Overridden(run, e.id))
          /\ m.manual => \E o \in run.overrides : o.entity.id = e.id /\ o.ticker = m.ticker
        BY <1>1, <2>3, MapsByOverride
    <2> HIDE DEF W, G
    <2> QED BY <2>3, <2>4, <2>5
<1>12. W \in SUBSET Writes
    BY <1>11
<1>13. \A e \in Entities : D[e] = IF e \in F THEN observations[e] ELSE run.deleted[e]
    OBVIOUS
<1> DEFINE K == {e \in F : entities[e] = 0}
<1>14. I = K
    OBVIOUS
<1>15. k + 1 # 1
    BY <1>1, <1>2 DEF RunStates
<1> HIDE DEF q, W, D, I, G
<1>16. work'[r] = q /\ work' \in [Runs -> RunStates] /\ \A t \in Runs : t # r => work'[t] = work[t]
    BY <1>6, <1>8, WorkOf
<1>17. Synced(r, F, W)
    BY <1>1, <1>3, <1>9, <1>10, <1>11, <1>13, <1>14, <1>15, <1>16 DEF Synced
<1> QED BY <1>7, <1>12, <1>16, <1>17

\* The rows a commit writes, adds and marks with the snapshot of its features.
LEMMA RowEffects ==
    ASSUME EnrichTypeOK, NEW run \in RunStates
    PROVE  /\ \A i \in DOMAIN mappings : \A w \in Writes :
                 LET x == WrittenRow(i, w, run)
                 IN  /\ x \in MappingRows /\ x.entity = mappings[i].entity
                     /\ x.ticker = mappings[i].ticker /\ x.posted = mappings[i].posted
                     /\ x.quiet = mappings[i].quiet /\ x.features = mappings[i].features
                     /\ x.manual = w.manual /\ x.seen = run.seen
           /\ \A w \in Writes :
                 LET x == NewRow(w, run)
                 IN  /\ x \in MappingRows /\ x.entity = w.entity /\ x.ticker = w.ticker
                     /\ ~x.posted /\ ~x.quiet /\ x.manual = w.manual /\ x.seen = run.seen
           /\ \A x \in MappingRows :
                 LET y == [x EXCEPT !.features = run.number]
                 IN  /\ y \in MappingRows /\ y.entity = x.entity /\ y.ticker = x.ticker
                     /\ y.posted = x.posted /\ y.quiet = x.quiet /\ y.manual = x.manual
                     /\ y.seen = x.seen /\ y.features = run.number
<1>1. run.seen \in Nat /\ run.number \in RunNumbers
    BY DEF RunStates
<1>2. ASSUME NEW i \in DOMAIN mappings, NEW w \in Writes
      PROVE  LET x == WrittenRow(i, w, run)
             IN  /\ x \in MappingRows /\ x.entity = mappings[i].entity
                 /\ x.ticker = mappings[i].ticker /\ x.posted = mappings[i].posted
                 /\ x.quiet = mappings[i].quiet /\ x.features = mappings[i].features
                 /\ x.manual = w.manual /\ x.seen = run.seen
    <2>1. PICK z \in MappingRows : z = mappings[i]
        <3>1. mappings \in Seq(MappingRows)
            BY DEF EnrichTypeOK
        <3> QED BY <3>1, ElementOfSeq
    <2>2. PICK b \in BOOLEAN : b = w.manual
        BY DEF Writes
    <2>3. WrittenRow(i, w, run) = [z EXCEPT !.manual = b, !.seen = run.seen]
        BY <2>1, <2>2 DEF WrittenRow
    <2> DEFINE y == [z EXCEPT !.manual = b]
    <2>4. /\ y \in MappingRows /\ y.entity = z.entity /\ y.ticker = z.ticker
          /\ y.posted = z.posted /\ y.quiet = z.quiet /\ y.features = z.features
          /\ y.manual = b
        BY DEF MappingRows
    <2>5. WrittenRow(i, w, run) = [y EXCEPT !.seen = run.seen]
        BY <2>1, <2>3 DEF MappingRows
    <2> HIDE DEF y
    <2> QED BY <1>1, <2>1, <2>2, <2>4, <2>5 DEF MappingRows
<1>3. ASSUME NEW w \in Writes
      PROVE  LET x == NewRow(w, run)
             IN  /\ x \in MappingRows /\ x.entity = w.entity /\ x.ticker = w.ticker
                 /\ ~x.posted /\ ~x.quiet /\ x.manual = w.manual /\ x.seen = run.seen
    BY <1>1, NumbersAreBounded DEF NewRow, Writes, MappingRows
<1>4. ASSUME NEW x \in MappingRows
      PROVE  LET y == [x EXCEPT !.features = run.number]
             IN  /\ y \in MappingRows /\ y.entity = x.entity /\ y.ticker = x.ticker
                 /\ y.posted = x.posted /\ y.quiet = x.quiet /\ y.manual = x.manual
                 /\ y.seen = x.seen /\ y.features = run.number
    BY <1>1 DEF MappingRows
<1> QED BY <1>2, <1>3, <1>4

\* Rows that only ever grow, and keep what they are of.
SameRow(x, y) ==
    x.entity = y.entity /\ x.ticker = y.ticker /\ x.posted = y.posted /\ x.quiet = y.quiet
Grows ==
    /\ mappings' \in Seq(MappingRows)
    /\ DOMAIN mappings \subseteq DOMAIN mappings' /\ Len(mappings) <= Len(mappings')
    /\ \A i \in DOMAIN mappings : SameRow(mappings'[i], mappings[i])
Added == DOMAIN mappings' \ DOMAIN mappings

\* What a commit makes of the rows: those that the run writes, one for each write of
\* a new row, and the snapshot of every market it has written.
CommittedRows(r) ==
    LET run == work[r]
        tickers == {w.ticker : w \in run.writes}
    IN  /\ \A i \in DOMAIN mappings :
              \/ mappings'[i].manual = mappings[i].manual /\ mappings'[i].seen = mappings[i].seen
              \/ \E w \in run.writes : /\ w.row = i /\ mappings'[i].manual = w.manual
                                       /\ mappings'[i].seen = run.seen
        /\ \E f \in [Added -> {w \in run.writes : w.row = 0}] :
              /\ \A i, j \in Added : f[i] = f[j] => i = j
              /\ \A i \in Added :
                    /\ mappings'[i].entity = f[i].entity /\ mappings'[i].ticker = f[i].ticker
                    /\ mappings'[i].manual = f[i].manual /\ mappings'[i].seen = run.seen
                    /\ ~mappings'[i].posted /\ ~mappings'[i].quiet
        /\ \A i \in DOMAIN mappings' :
              /\ mappings'[i].ticker \in tickers => mappings'[i].features = run.number
              /\ mappings'[i].ticker \notin tickers =>
                    i \in DOMAIN mappings /\ mappings'[i].features = mappings[i].features

\* CommitRun, in terms of the rows it leaves.
LEMMA CommitEffect ==
    ASSUME EnrichTypeOK, NEW r \in Runs, CommitRun(r), IsFiniteSet(work[r].writes)
    PROVE  Grows /\ CommittedRows(r)
<1>1. PICK run \in RunStates : run = work[r]
    BY DEF EnrichTypeOK
<1> DEFINE n == Len(mappings)
<1>2. n \in Nat /\ DOMAIN mappings = 1..n /\ mappings \in Seq(MappingRows)
    BY DEF EnrichTypeOK
<1> DEFINE updates == {w \in run.writes : w.row # 0}
<1> DEFINE fresh == run.writes \ updates
<1> DEFINE T == {w.ticker : w \in run.writes}
<1> DEFINE c == Cardinality(fresh)
<1>3. run.writes \in SUBSET Writes /\ updates \in SUBSET Writes /\ fresh \in SUBSET Writes
    BY DEF RunStates
<1>4. IsFiniteSet(fresh) /\ c \in Nat
    <2>1. fresh \in SUBSET run.writes /\ IsFiniteSet(run.writes)
        BY <1>1
    <2> HIDE DEF fresh
    <2>2. IsFiniteSet(fresh)
        BY <2>1, FS_Subset
    <2> QED BY <2>2, FS_CardinalityType
<1> DEFINE rewritten == [i \in DOMAIN mappings |->
                           IF \E w \in updates : w.row = i
                           THEN WrittenRow(i, CHOOSE w \in updates : w.row = i, run)
                           ELSE mappings[i]]
<1>5. PICK added \in [1..c -> fresh] :
        /\ \A w \in fresh : \E k \in DOMAIN added : added[k] = w
        /\ mappings' = ComputeFeatures(
                          rewritten \o [k \in DOMAIN added |-> NewRow(added[k], run)], T, run)
    BY <1>1 DEF CommitRun
<1> DEFINE new == [k \in DOMAIN added |-> NewRow(added[k], run)]
<1>6. \A i \in 1..n : /\ rewritten[i] \in MappingRows /\ SameRow(rewritten[i], mappings[i])
                      /\ rewritten[i].features = mappings[i].features
                      /\ \/ rewritten[i].manual = mappings[i].manual
                            /\ rewritten[i].seen = mappings[i].seen
                         \/ \E w \in run.writes : /\ w.row = i /\ rewritten[i].manual = w.manual
                                                  /\ rewritten[i].seen = run.seen
    <2> TAKE i \in 1..n
    <2>1. CASE \E w \in updates : w.row = i
        <3>1. PICK w \in updates : w = (CHOOSE v \in updates : v.row = i) /\ w.row = i
            BY <2>1
        <3>2. rewritten[i] = WrittenRow(i, w, run)
            BY <1>2, <2>1, <3>1
        <3>3. w \in Writes /\ w \in run.writes /\ i \in DOMAIN mappings
            BY <1>2, <1>3
        <3> DEFINE x == WrittenRow(i, w, run)
        <3>4. /\ x \in MappingRows /\ x.entity = mappings[i].entity
              /\ x.ticker = mappings[i].ticker /\ x.posted = mappings[i].posted
              /\ x.quiet = mappings[i].quiet /\ x.features = mappings[i].features
              /\ x.manual = w.manual /\ x.seen = run.seen
            BY <3>3, RowEffects
        <3> HIDE DEF x, rewritten
        <3>5. rewritten[i] = x
            BY <3>2 DEF x
        <3> QED BY <3>1, <3>3, <3>4, <3>5 DEF SameRow
    <2>2. CASE ~\E w \in updates : w.row = i
        <3>1. rewritten[i] = mappings[i]
            BY <1>2, <2>2
        <3>2. mappings[i] \in MappingRows
            BY <1>2, ElementOfSeq
        <3> HIDE DEF rewritten
        <3> QED BY <3>1, <3>2 DEF SameRow
    <2> QED BY <2>1, <2>2
<1>7. \A k \in 1..c : /\ new[k] \in MappingRows /\ added[k] \in fresh
                      /\ new[k].entity = added[k].entity /\ new[k].ticker = added[k].ticker
                      /\ ~new[k].posted /\ ~new[k].quiet
                      /\ new[k].manual = added[k].manual /\ new[k].seen = run.seen
    <2> TAKE k \in 1..c
    <2>1. added[k] \in fresh /\ added[k] \in Writes
        BY <1>3
    <2>2. new[k] = NewRow(added[k], run)
        OBVIOUS
    <2> HIDE DEF new, fresh
    <2> QED BY <2>1, <2>2, RowEffects
<1>8. rewritten \in [1..n -> MappingRows] /\ new \in [1..c -> MappingRows]
    BY <1>2, <1>6, <1>7
<1> HIDE DEF rewritten, new, fresh, updates, T, n, c
<1>9. rewritten \in Seq(MappingRows) /\ Len(rewritten) = n
    BY <1>2, <1>8, OverIsSeq
<1>10. new \in Seq(MappingRows) /\ Len(new) = c
    BY <1>4, <1>8, OverIsSeq
<1> DEFINE S == rewritten \o new
<1>11. /\ S \in Seq(MappingRows) /\ Len(S) = n + c /\ DOMAIN S = 1..(n + c)
       /\ \A i \in 1..n : S[i] = rewritten[i]
       /\ \A i \in 1..(n + c) : i \notin 1..n => i - n \in 1..c /\ S[i] = new[i - n]
    BY <1>2, <1>4, <1>9, <1>10
<1> HIDE DEF S
<1>12. mappings' = [i \in DOMAIN S |-> IF S[i].ticker \in T THEN [S[i] EXCEPT !.features = run.number]
                                       ELSE S[i]]
    BY <1>5 DEF ComputeFeatures, S, new
<1>13. ASSUME NEW i \in 1..(n + c)
       PROVE  LET x == mappings'[i]
              IN  /\ x \in MappingRows /\ SameRow(x, S[i])
                  /\ x.manual = S[i].manual /\ x.seen = S[i].seen
                  /\ x.ticker \in T => x.features = run.number
                  /\ x.ticker \notin T => x.features = S[i].features
    <2>1. S[i] \in MappingRows
        BY <1>11, ElementOfSeq
    <2>2. CASE S[i].ticker \in T
        <3> DEFINE y == [S[i] EXCEPT !.features = run.number]
        <3>1. mappings'[i] = y
            BY <1>11, <1>12, <2>2
        <3>2. /\ y \in MappingRows /\ y.entity = S[i].entity /\ y.ticker = S[i].ticker
              /\ y.posted = S[i].posted /\ y.quiet = S[i].quiet /\ y.manual = S[i].manual
              /\ y.seen = S[i].seen /\ y.features = run.number
            BY <2>1, RowEffects
        <3> HIDE DEF y
        <3> QED BY <2>2, <3>1, <3>2 DEF SameRow
    <2>3. CASE S[i].ticker \notin T
        <3>1. mappings'[i] = S[i]
            BY <1>11, <1>12, <2>3
        <3> QED BY <2>1, <2>3, <3>1 DEF SameRow
    <2> QED BY <2>2, <2>3
<1>14. mappings' \in Seq(MappingRows) /\ Len(mappings') = n + c /\ DOMAIN mappings' = 1..(n + c)
    <2>1. DOMAIN mappings' = 1..(n + c) /\ mappings' = [i \in DOMAIN mappings' |-> mappings'[i]]
        BY <1>11, <1>12
    <2>2. mappings' \in [1..(n + c) -> MappingRows]
        BY <1>13, <2>1
    <2>3. n + c \in Nat
        BY <1>2, <1>4
    <2> QED BY <2>1, <2>2, <2>3, OverIsSeq
<1>15. Grows
    <2>1. n <= n + c /\ 1..n \subseteq 1..(n + c)
        BY <1>2, <1>4
    <2>2. ASSUME NEW i \in 1..n PROVE SameRow(mappings'[i], mappings[i])
        <3>1. SameRow(mappings'[i], S[i])
            BY <1>13, <2>1
        <3> QED BY <1>6, <1>11, <3>1 DEF SameRow
    <2>3. DOMAIN mappings \subseteq DOMAIN mappings' /\ Len(mappings) <= Len(mappings')
        BY <1>2, <1>14, <2>1 DEF n
    <2> QED BY <1>2, <1>14, <2>2, <2>3 DEF Grows
<1>16. ASSUME NEW i \in DOMAIN mappings
       PROVE  \/ mappings'[i].manual = mappings[i].manual /\ mappings'[i].seen = mappings[i].seen
              \/ \E w \in run.writes : /\ w.row = i /\ mappings'[i].manual = w.manual
                                       /\ mappings'[i].seen = run.seen
    <2>1. i \in 1..n /\ i \in 1..(n + c)
        BY <1>2, <1>4
    <2>2. mappings'[i].manual = rewritten[i].manual /\ mappings'[i].seen = rewritten[i].seen
        BY <1>11, <1>13, <2>1
    <2> QED BY <1>6, <2>1, <2>2
<1>17. \A i, j \in 1..c : added[i] = added[j] => i = j
    <2>1. added \in Surjection(1..c, fresh)
        <3>1. DOMAIN added = 1..c
            BY <1>5
        <3>2. \A w \in fresh : \E k \in 1..c : added[k] = w
            BY <1>5, <3>1
        <3> QED BY <1>5, <3>2 DEF Surjection
    <2>2. IsFiniteSet(1..c) /\ Cardinality(1..c) = c
        <3>1. c \in Int /\ 1 \in Int
            BY <1>4
        <3>2. IsFiniteSet(1..c) /\ Cardinality(1..c) = IF 1 > c THEN 0 ELSE c - 1 + 1
            BY <3>1, FS_Interval
        <3> QED BY <1>4, <3>2
    <2>3. Cardinality(1..c) = Cardinality(fresh)
        BY <2>2 DEF c
    <2>4. added \in Injection(1..c, fresh)
        BY <2>1, <2>2, <2>3, FS_SurjSameCardinalityImpliesInj
    <2> QED BY <2>4 DEF Injection, IsInjective
<1>18. Added = 1..(n + c) \ 1..n
    BY <1>2, <1>14 DEF Added
<1> DEFINE f == [i \in Added |-> added[i - n]]
<1>19. ASSUME NEW i \in Added
       PROVE  /\ i - n \in 1..c /\ f[i] = added[i - n] /\ f[i] \in fresh
              /\ mappings'[i].entity = f[i].entity /\ mappings'[i].ticker = f[i].ticker
              /\ mappings'[i].manual = f[i].manual /\ mappings'[i].seen = run.seen
              /\ ~mappings'[i].posted /\ ~mappings'[i].quiet
    <2>1. i \in 1..(n + c) /\ i - n \in 1..c /\ S[i] = new[i - n]
        BY <1>11, <1>18
    <2>2. f[i] = added[i - n]
        OBVIOUS
    <2>3. PICK k \in 1..c : k = i - n
        BY <2>1
    <2>4. /\ added[k] \in fresh /\ S[i] = new[k] /\ new[k].entity = added[k].entity
          /\ new[k].ticker = added[k].ticker /\ ~new[k].posted /\ ~new[k].quiet
          /\ new[k].manual = added[k].manual /\ new[k].seen = run.seen
        BY <1>7, <2>1, <2>3
    <2>5. /\ SameRow(mappings'[i], S[i])
          /\ mappings'[i].manual = S[i].manual /\ mappings'[i].seen = S[i].seen
        BY <1>13, <2>1
    <2> HIDE DEF f
    <2> QED BY <2>1, <2>2, <2>3, <2>4, <2>5 DEF SameRow
<1>20. fresh = {w \in run.writes : w.row = 0}
    BY DEF fresh, updates
<1>21. f \in [Added -> {w \in run.writes : w.row = 0}]
    BY <1>19, <1>20
<1>22. ASSUME NEW i \in Added, NEW j \in Added, f[i] = f[j] PROVE i = j
    <2>1. i - n \in 1..c /\ j - n \in 1..c /\ added[i - n] = added[j - n]
        BY <1>19, <1>22
    <2>2. i - n = j - n
        BY <1>17, <2>1
    <2>3. i \in Nat /\ j \in Nat
        BY <1>2, <1>4, <1>18
    <2> QED BY <1>2, <2>2, <2>3
<1>23. ASSUME NEW i \in DOMAIN mappings'
       PROVE  /\ mappings'[i].ticker \in T => mappings'[i].features = run.number
              /\ mappings'[i].ticker \notin T =>
                    i \in DOMAIN mappings /\ mappings'[i].features = mappings[i].features
    <2>1. i \in 1..(n + c)
        BY <1>14
    <2>2. mappings'[i].ticker \in T => mappings'[i].features = run.number
        BY <1>13, <2>1
    <2>3. ASSUME mappings'[i].ticker \notin T PROVE i \in 1..n
        <3>1. ASSUME i \notin 1..n PROVE FALSE
            <4>1. i \in Added
                BY <1>18, <2>1, <3>1
            <4>2. f[i] \in run.writes /\ mappings'[i].ticker = f[i].ticker
                BY <1>19, <1>20, <4>1
            <4>3. mappings'[i].ticker \in T
                BY <4>2 DEF T
            <4> QED BY <2>3, <4>3
        <3> QED BY <3>1
    <2>4. ASSUME mappings'[i].ticker \notin T PROVE mappings'[i].features = mappings[i].features
        <3>1. i \in 1..n
            BY <2>3, <2>4
        <3>2. mappings'[i].features = S[i].features
            BY <1>13, <2>1, <2>4
        <3> QED BY <1>6, <1>11, <3>1, <3>2
    <2> QED BY <1>2, <2>2, <2>3, <2>4
<1> HIDE DEF f
<1>24. \E g \in [Added -> {w \in run.writes : w.row = 0}] :
          /\ \A i, j \in Added : g[i] = g[j] => i = j
          /\ \A i \in Added :
                /\ mappings'[i].entity = g[i].entity /\ mappings'[i].ticker = g[i].ticker
                /\ mappings'[i].manual = g[i].manual /\ mappings'[i].seen = run.seen
                /\ ~mappings'[i].posted /\ ~mappings'[i].quiet
    <2> WITNESS f \in [Added -> {w \in run.writes : w.row = 0}]
    <2> QED BY <1>19, <1>22
<1>25. CommittedRows(r)
    BY <1>1, <1>16, <1>23, <1>24 DEF CommittedRows, T
<1> QED BY <1>15, <1>25

\* A row that an override adds.
LEMMA PostEffect ==
    ASSUME EnrichTypeOK, NEW e \in Entities, NEW t \in Targets, PostOverride(e, t)
    PROVE  /\ Grows /\ Added = {Len(mappings) + 1}
           /\ \A i \in DOMAIN mappings : mappings'[i] = mappings[i]
           /\ LET x == mappings'[Len(mappings) + 1]
              IN  /\ x.entity = e /\ x.ticker = t /\ x.manual /\ x.posted /\ x.seen = 0
                  /\ x.features = 0 /\ (x.quiet => UnderWay = {})
<1> DEFINE n == Len(mappings)
<1>0. PICK q \in BOOLEAN : q = (UnderWay = {})
    OBVIOUS
<1> DEFINE x == [entity |-> e, ticker |-> t, manual |-> TRUE, posted |-> TRUE, quiet |-> q,
                 seen |-> 0, features |-> 0]
<1>1. mappings \in Seq(MappingRows) /\ n \in Nat /\ DOMAIN mappings = 1..n
    BY DEF EnrichTypeOK
<1>2. mappings' = Append(mappings, x)
    BY <1>0 DEF PostOverride
<1>3. /\ x \in MappingRows /\ x.entity = e /\ x.ticker = t /\ x.manual /\ x.posted
      /\ x.seen = 0 /\ x.features = 0 /\ x.quiet = q
    BY NumbersAreBounded DEF MappingRows
<1> HIDE DEF x
<1>4. /\ mappings' \in Seq(MappingRows) /\ Len(mappings') = n + 1
      /\ DOMAIN mappings' = 1..(n + 1) /\ mappings'[n + 1] = x
      /\ \A i \in 1..n : mappings'[i] = mappings[i]
    BY <1>1, <1>2, <1>3
<1>5. Added = {n + 1} /\ n <= n + 1 /\ DOMAIN mappings \subseteq DOMAIN mappings'
    <2> HIDE DEF n
    <2> QED BY <1>1, <1>4 DEF Added
<1>6. \A i \in DOMAIN mappings : mappings'[i] = mappings[i]
    BY <1>1, <1>4
<1>7. Grows
    BY <1>4, <1>5, <1>6 DEF Grows, SameRow
<1> QED BY <1>0, <1>3, <1>4, <1>5, <1>6, <1>7

\* The types are inductive, given that what a run holds back is finite.
LEMMA EnrichTypesKept ==
    ASSUME EnrichTypeOK, RunsAreSound, [EnrichNext]_enrichVars
    PROVE  EnrichTypeOK'
<1>1. ASSUME NEW r \in Runs, BeginRun(r) PROVE EnrichTypeOK'
    BY <1>1, BeginEffect DEF EnrichTypeOK, BeginRun
<1>2. ASSUME NEW r \in Runs, UpsertSources(r) PROVE EnrichTypeOK'
    <2>1. lock' \in Runs \cup {NoRun}
        BY <1>2 DEF EnrichTypeOK, UpsertSources
    <2> QED BY <1>2, <2>1, UpsertEffect DEF EnrichTypeOK, UpsertSources
<1>3. ASSUME NEW r \in Runs, SyncProvider(r) PROVE EnrichTypeOK'
    <2>1. /\ lock' = r /\ UNCHANGED <<registered, entities, observations, mappings, health, begun>>
        BY <1>3 DEF SyncProvider
    <2>2. work' \in [Runs -> RunStates]
        BY <1>3, SyncEffect
    <2> QED BY <2>1, <2>2 DEF EnrichTypeOK
<1>4. ASSUME NEW r \in Runs, CommitRun(r) PROVE EnrichTypeOK'
    <2>1. work' \in [Runs -> RunStates] /\ mappings' \in Seq(MappingRows)
        BY <1>4, EndEffect, CommitEffect DEF RunsAreSound, HeldBack, Grows
    <2>2. /\ entities' = [e \in Entities |-> entities[e] + IF e \in work[r].inserted THEN 1 ELSE 0]
          /\ observations' = [e \in Entities |->
                (observations[e] \ work[r].deleted[e]) \cup
                IF e \in work[r].fetched THEN {work[r].number} ELSE {}]
          /\ registered' = TRUE /\ lock' = NoRun /\ health' = "running" /\ begun' = begun
        BY <1>4 DEF CommitRun
    <2>3. entities' \in [Entities -> Nat]
        BY <2>2 DEF EnrichTypeOK
    <2>4. work[r].number \in RunNumbers
        BY DEF EnrichTypeOK, RunStates
    <2>5. observations' \in [Entities -> ObservationRows]
        BY <2>2, <2>4 DEF EnrichTypeOK, ObservationRows
    <2> QED BY <2>1, <2>2, <2>3, <2>5 DEF EnrichTypeOK
<1>5. ASSUME NEW r \in Runs, FinishRun(r) PROVE EnrichTypeOK'
    BY <1>5, EndEffect DEF EnrichTypeOK, FinishRun
<1>6. ASSUME NEW r \in Runs, FailRun(r) PROVE EnrichTypeOK'
    <2>1. lock' \in Runs \cup {NoRun}
        BY <1>6 DEF EnrichTypeOK, FailRun
    <2> QED BY <1>6, <2>1, EndEffect DEF EnrichTypeOK, FailRun
<1>7. ASSUME NEW e \in Entities, NEW t \in Targets, PostOverride(e, t) PROVE EnrichTypeOK'
    <2>1. mappings' \in Seq(MappingRows)
        BY <1>7, PostEffect DEF Grows
    <2> QED BY <1>7, <2>1 DEF EnrichTypeOK, PostOverride
<1>8. CASE UNCHANGED enrichVars
    BY <1>8 DEF EnrichTypeOK, enrichVars
<1> QED BY <1>1, <1>2, <1>3, <1>4, <1>5, <1>6, <1>7, <1>8 DEF EnrichNext, RunStep

-----------------------------------------------------------------------------
(* The tables as the runs have read them. *)

\* The steps that leave the tables, and what a run does to the others.
Apart(r) ==
    \A t \in Runs : t # r => work'[t] = work[t] /\ (lock' = t <=> lock = t)

\* Tables that do not change say the same.
LEMMA TablesStand ==
    ASSUME UNCHANGED <<mappings, entities, observations>>
    PROVE  /\ TablesAreSound' = TablesAreSound /\ RowsAreSound' = RowsAreSound
           /\ \A id, t : (Backed(id, t))' = Backed(id, t)
           /\ \A e, t : (PairRows(e, t))' = PairRows(e, t)
<1>1. \A id : (Posted(id))' = Posted(id)
    BY DEF Posted
<1>2. \A id, t : (Backed(id, t))' = Backed(id, t)
    BY <1>1 DEF Backed
<1>3. \A e, t : (PairRows(e, t))' = PairRows(e, t)
    BY DEF PairRows
<1>4. \A i : (RowSound(i))' = RowSound(i)
    BY <1>2 DEF RowSound
<1> QED BY <1>2, <1>3, <1>4 DEF TablesAreSound, RowsAreSound

\* A step of one run that leaves the tables leaves what the others rely on.
LEMMA OthersStand ==
    ASSUME EnrichInv, NEW r \in Runs, Apart(r), UNCHANGED <<mappings, entities, observations>>,
           HeldBack(r, work[r])', ReadsOverrides(work[r])'
    PROVE  RunsAreSound' /\ TablesAreSound' /\ RowsAreSound'
<1>1. ASSUME NEW t \in Runs, t # r PROVE HeldBack(t, work[t])' /\ ReadsOverrides(work[t])'
    <2>1. PICK run : run = work[t]
        OBVIOUS
    <2>2. work'[t] = run /\ HeldBack(t, run) /\ ReadsOverrides(run)
        BY <1>1, <2>1 DEF Apart, EnrichInv, RunsAreSound
    <2>3. lock' = t <=> lock = t
        BY <1>1 DEF Apart
    <2>4. ASSUME NEW w \in run.writes PROVE WriteSound(run, w)'
        <3>1. WriteSound(run, w)
            BY <2>2, <2>4 DEF HeldBack
        <3> QED BY <3>1, TablesStand DEF WriteSound, Overridden
    <2>5. HeldBack(t, run)'
        BY <2>2, <2>3, <2>4 DEF HeldBack
    <2>6. ReadsOverrides(run)'
        BY <2>2, TablesStand DEF ReadsOverrides, Overridden
    <2> QED BY <2>2, <2>5, <2>6 DEF HeldBack, ReadsOverrides, WriteSound, Overridden
<1>2. RunsAreSound'
    BY <1>1 DEF RunsAreSound
<1>3. TablesAreSound' /\ RowsAreSound'
    BY TablesStand DEF EnrichInv
<1> QED BY <1>2, <1>3

\* A run that begins relies on nothing yet.
LEMMA RunBegun ==
    ASSUME EnrichInv, NEW r \in Runs, BeginRun(r)
    PROVE  RunsAreSound' /\ TablesAreSound' /\ RowsAreSound'
<1>1. EnrichTypeOK /\ HeldBack(r, work[r])
    BY DEF EnrichInv, RunsAreSound
<1>2. UNCHANGED <<mappings, entities, observations, lock>> /\ lock # r
    BY <1>1 DEF BeginRun, HeldBack
<1>3. PICK run : run = work'[r]
    OBVIOUS
<1>4. /\ run.pc = "register" /\ run.next = 1 /\ run.overrides = {} /\ run.inserted = {}
      /\ run.fetched = {} /\ run.writes = {} /\ run.seen = Len(mappings)
      /\ \A t \in Runs : t # r => work'[t] = work[t]
    BY <1>1, <1>3, BeginEffect
<1> DEFINE n == Len(mappings)
<1>5. n <= n
    <2>1. n \in Nat
        BY <1>1 DEF EnrichTypeOK
    <2> HIDE DEF n
    <2> QED BY <2>1
<1>6. HeldBack(r, work[r])' /\ ReadsOverrides(work[r])'
    BY <1>2, <1>3, <1>4, <1>5, FS_EmptySet DEF HeldBack, ReadsOverrides
<1>7. Apart(r)
    BY <1>2, <1>4 DEF Apart
<1> QED BY <1>2, <1>6, <1>7, OthersStand

\* A run that has ended or failed relies on nothing any more.
LEMMA RunEnded ==
    ASSUME EnrichInv, NEW r \in Runs, FinishRun(r) \/ FailRun(r)
    PROVE  RunsAreSound' /\ TablesAreSound' /\ RowsAreSound'
<1>1. EnrichTypeOK /\ HeldBack(r, work[r])
    BY DEF EnrichInv, RunsAreSound
<1>2. UNCHANGED <<mappings, entities, observations>>
    BY DEF FinishRun, FailRun
<1>3. lock' = (IF lock = r THEN NoRun ELSE lock) /\ NoRun \notin Runs
    BY <1>1, AbsentAssumption DEF FinishRun, FailRun, HeldBack
<1>4. lock' # r /\ \A t \in Runs : t # r => (lock' = t <=> lock = t)
    BY <1>3
<1>5. PICK run : run = work'[r]
    OBVIOUS
<1>6. /\ run.pc # "providers" /\ run.next = 1 /\ run.overrides = {} /\ run.inserted = {}
      /\ run.fetched = {} /\ run.writes = {} /\ run.seen = 0
      /\ \A t \in Runs : t # r => work'[t] = work[t]
    BY <1>1, <1>5, EndEffect
<1>7. 0 <= Len(mappings)
    <2>1. Len(mappings) \in Nat
        BY <1>1 DEF EnrichTypeOK
    <2> QED BY <2>1
<1>8. HeldBack(r, work[r])' /\ ReadsOverrides(work[r])'
    BY <1>2, <1>4, <1>5, <1>6, <1>7, FS_EmptySet DEF HeldBack, ReadsOverrides
<1>9. Apart(r)
    BY <1>4, <1>6 DEF Apart
<1> QED BY <1>2, <1>8, <1>9, OthersStand

\* Every override posted in quiet is among the rows that the run reads.
LEMMA SourcesUpserted ==
    ASSUME EnrichInv, NEW r \in Runs, UpsertSources(r)
    PROVE  RunsAreSound' /\ TablesAreSound' /\ RowsAreSound'
<1>1. EnrichTypeOK /\ RowsAreSound
    BY DEF EnrichInv
<1>2. PICK old : old = work[r]
    OBVIOUS
<1>3. HeldBack(r, old) /\ old.pc = "register"
    BY <1>2 DEF EnrichInv, RunsAreSound, UpsertSources
<1>4. UNCHANGED <<mappings, entities, observations>>
    BY DEF UpsertSources
<1>5. /\ old.inserted = {} /\ old.fetched = {} /\ old.writes = {} /\ old.next = 1
      /\ old.seen <= Len(mappings)
    BY <1>3 DEF HeldBack
<1>6. PICK run : run = work'[r]
    OBVIOUS
<1>7. /\ run.pc = "providers" /\ run.next = 1 /\ run.overrides = Manual /\ run.inserted = {}
      /\ run.fetched = {} /\ run.writes = {} /\ run.seen <= Len(mappings)
      /\ \A t \in Runs : t # r => work'[t] = work[t]
    BY <1>1, <1>2, <1>5, <1>6, UpsertEffect
<1>8. HeldBack(r, work[r])'
    BY <1>4, <1>6, <1>7, FS_EmptySet DEF HeldBack
<1>9. ASSUME NEW o \in Manual PROVE Backed(o.entity.id, o.ticker)
    <2>1. PICK i \in DOMAIN mappings : o = mappings[i] /\ mappings[i].manual
        BY DEF Manual
    <2> QED BY <1>1, <2>1 DEF RowsAreSound, RowSound
<1>10. ASSUME NEW j \in DOMAIN mappings, mappings[j].posted, mappings[j].quiet
       PROVE  \E o \in Manual : o.entity.id = mappings[j].entity.id
    <2>1. mappings[j].manual
        BY <1>1, <1>10 DEF RowsAreSound, RowSound
    <2>2. mappings[j] \in Manual
        BY <2>1 DEF Manual
    <2> QED BY <2>2
<1>11. ReadsOverrides(work[r])'
    BY <1>4, <1>6, <1>7, <1>9, <1>10, TablesStand DEF ReadsOverrides, Overridden
<1>12. Apart(r)
    <2>1. lock' = lock \/ (lock = NoRun /\ lock' = r)
        BY DEF UpsertSources
    <2> QED BY <1>7, <2>1, AbsentAssumption DEF Apart
<1> QED BY <1>4, <1>8, <1>11, <1>12, OthersStand

\* What a provider adds is read under the lock, and so is true of the tables.
LEMMA ProviderSynced ==
    ASSUME EnrichInv, NEW r \in Runs, SyncProvider(r)
    PROVE  RunsAreSound' /\ TablesAreSound' /\ RowsAreSound'
<1>1. EnrichTypeOK
    BY DEF EnrichInv
<1>2. PICK old \in RunStates : old = work[r]
    BY <1>1 DEF EnrichTypeOK
<1>3. HeldBack(r, old) /\ ReadsOverrides(old)
    BY <1>2 DEF EnrichInv, RunsAreSound
<1>4. /\ UNCHANGED <<mappings, entities, observations>> /\ lock' = r
      /\ lock \in {NoRun, r} /\ NoRun \notin Runs
    BY AbsentAssumption DEF SyncProvider, MayLock
<1>5. PICK F \in SUBSET Entities, W \in SUBSET Writes : Synced(r, F, W)
    BY <1>1, SyncEffect
<1>6. PICK run : run = work'[r]
    OBVIOUS
<1>7. /\ run.pc = "providers" /\ old.pc = "providers" /\ run.overrides = old.overrides
      /\ run.seen = old.seen /\ run.fetched = old.fetched \cup F
      /\ run.inserted = old.inserted \cup {e \in F : entities[e] = 0}
      /\ \A e \in Entities : run.deleted[e] = IF e \in F THEN observations[e] ELSE old.deleted[e]
      /\ run.writes = old.writes \cup W /\ IsFiniteSet(W)
    BY <1>2, <1>5, <1>6 DEF Synced
<1>8. \A w \in W : /\ w.manual <=> Overridden(old, w.entity.id)
                   /\ w.manual => \E o \in old.overrides :
                                     o.entity.id = w.entity.id /\ o.ticker = w.ticker
                   /\ w.row = 0 => PairRows(w.entity, w.ticker) = {}
                   /\ w.row # 0 => w.row \in PairRows(w.entity, w.ticker)
    BY <1>2, <1>5 DEF Synced
<1>9. ASSUME NEW w \in run.writes PROVE WriteSound(run, w)
    <2>1. \A id : Overridden(run, id) <=> Overridden(old, id)
        BY <1>7 DEF Overridden
    <2>2. CASE w \in old.writes
        BY <1>3, <2>1, <2>2 DEF HeldBack, WriteSound
    <2>3. CASE w \in W
        <3>1. w.manual => Backed(w.entity.id, w.ticker)
            BY <1>3, <1>8, <2>3 DEF ReadsOverrides
        <3>2. w.row # 0 => /\ w.row \in DOMAIN mappings
                           /\ mappings[w.row].entity = w.entity
                           /\ mappings[w.row].ticker = w.ticker
            BY <1>8, <2>3 DEF PairRows
        <3> QED BY <1>8, <2>1, <2>3, <3>1, <3>2 DEF WriteSound
    <2> QED BY <1>7, <2>2, <2>3
<1>10. IsFiniteSet(run.writes)
    <2>1. IsFiniteSet(old.writes)
        BY <1>3 DEF HeldBack
    <2>2. IsFiniteSet(W) /\ run.writes = old.writes \cup W
        BY <1>7
    <2>3. IsFiniteSet(old.writes \cup W)
        BY <2>1, <2>2, FS_Union
    <2> QED BY <2>2, <2>3
<1>11. \A e \in run.inserted : entities[e] = 0
    BY <1>3, <1>7 DEF HeldBack
<1>12. \A e \in run.fetched : run.deleted[e] = observations[e]
    <2>1. old.fetched \subseteq Entities
        BY DEF RunStates
    <2> QED BY <1>3, <1>7, <2>1 DEF HeldBack
<1>13. run.seen <= Len(mappings)
    BY <1>3, <1>7 DEF HeldBack
<1>14. \A w \in run.writes : WriteSound(run, w)'
    BY <1>4, <1>9, TablesStand DEF WriteSound, Overridden
<1>15. HeldBack(r, work[r])'
    BY <1>4, <1>6, <1>7, <1>10, <1>11, <1>12, <1>13, <1>14 DEF HeldBack, WriteSound, Overridden
<1>16. ReadsOverrides(work[r])'
    BY <1>3, <1>4, <1>6, <1>7, TablesStand DEF ReadsOverrides, Overridden
<1>17. Apart(r)
    BY <1>1, <1>4, SyncEffect DEF Apart
<1> QED BY <1>4, <1>15, <1>16, <1>17, OthersStand

-----------------------------------------------------------------------------
(* The steps that write the tables. *)

\* What was posted remains posted.
LEMMA GrowsBacked ==
    ASSUME EnrichTypeOK, Grows
    PROVE  \A id, t : Backed(id, t) => (Backed(id, t))'
<1> SUFFICES ASSUME NEW id, NEW t, Backed(id, t) PROVE (Backed(id, t))'
    OBVIOUS
<1>1. PICK j \in DOMAIN mappings : /\ mappings[j].posted /\ mappings[j].entity.id = id
                                   /\ mappings[j].ticker = t
    BY DEF Backed, Posted
<1>2. /\ j \in DOMAIN mappings' /\ mappings'[j].posted /\ mappings'[j].entity.id = id
      /\ mappings'[j].ticker = t
    BY <1>1 DEF Grows, SameRow
<1> QED BY <1>2 DEF Backed, Posted

\* A row that keeps what it says stays as sound as it was.
LEMMA RowStays ==
    ASSUME EnrichTypeOK, Grows, NEW i \in DOMAIN mappings, RowSound(i),
           mappings'[i].manual = mappings[i].manual, mappings'[i].seen = mappings[i].seen
    PROVE  (RowSound(i))'
<1>1. SameRow(mappings'[i], mappings[i])
    BY DEF Grows
<1> DEFINE n == Len(mappings)
<1> DEFINE m == Len(mappings')
<1> DEFINE k == mappings[i].seen
<1>2. n \in Nat /\ m \in Nat /\ n <= m /\ DOMAIN mappings = 1..n /\ DOMAIN mappings' = 1..m
    <2>1. mappings \in Seq(MappingRows) /\ mappings' \in Seq(MappingRows)
        BY DEF EnrichTypeOK, Grows
    <2> QED BY <2>1 DEF Grows
<1>3. k \in Nat /\ k <= n
    <2>1. mappings[i] \in MappingRows
        <3>1. mappings \in Seq(MappingRows)
            BY DEF EnrichTypeOK
        <3> QED BY <3>1, ElementOfSeq
    <2> QED BY <2>1 DEF MappingRows, RowSound
<1>4. k <= m /\ \A j \in 1..m : j <= k => j \in 1..n
    <2> HIDE DEF k, n, m
    <2> QED BY <1>2, <1>3
<1>5. ASSUME NEW j \in DOMAIN mappings', j <= k, mappings'[j].posted, mappings'[j].quiet,
             mappings'[j].entity.id = mappings'[i].entity.id
      PROVE  mappings'[i].manual
    <2>1. j \in DOMAIN mappings
        BY <1>2, <1>4, <1>5
    <2>2. SameRow(mappings'[j], mappings[j])
        BY <2>1 DEF Grows
    <2> QED BY <1>1, <1>5, <2>1, <2>2 DEF SameRow, RowSound
<1>6. mappings'[i].manual => (Backed(mappings[i].entity.id, mappings[i].ticker))'
    <2>1. ASSUME NEW id, NEW t, id = mappings[i].entity.id, t = mappings[i].ticker,
                 mappings[i].manual
          PROVE  (Backed(id, t))'
        BY <2>1, GrowsBacked DEF RowSound
    <2>2. mappings'[i].entity.id = mappings[i].entity.id /\ mappings'[i].ticker = mappings[i].ticker
        BY <1>1 DEF SameRow
    <2> QED BY <2>1, <2>2 DEF Backed, Posted
<1>7. mappings'[i].posted /\ mappings'[i].quiet => mappings'[i].manual
    BY <1>1 DEF SameRow, RowSound
<1> QED BY <1>4, <1>5, <1>6, <1>7 DEF RowSound

\* A posted row is quiet only if no run could have missed it.
LEMMA OverridePosted ==
    ASSUME EnrichInv, NEW e \in Entities, NEW t \in Targets, PostOverride(e, t)
    PROVE  RunsAreSound' /\ TablesAreSound' /\ RowsAreSound'
<1> DEFINE n == Len(mappings) + 1
<1>1. /\ EnrichTypeOK /\ UNCHANGED <<work, lock, entities, observations>>
    BY DEF EnrichInv, PostOverride
<1>2. PICK x : x = mappings'[n]
    OBVIOUS
<1>3. /\ Grows /\ Added = {n} /\ \A i \in DOMAIN mappings : mappings'[i] = mappings[i]
      /\ x.entity = e /\ x.ticker = t /\ x.manual /\ x.posted /\ x.seen = 0
      /\ x.features = 0 /\ (x.quiet => UnderWay = {})
    BY <1>1, <1>2, PostEffect
<1>4. DOMAIN mappings' = DOMAIN mappings \cup {n} /\ n \notin DOMAIN mappings
    BY <1>3 DEF Grows, Added
<1>5. Len(mappings) \in Nat /\ Len(mappings') \in Nat /\ Len(mappings) <= Len(mappings')
    <2>1. mappings \in Seq(MappingRows) /\ mappings' \in Seq(MappingRows)
        BY <1>1, <1>3 DEF EnrichTypeOK, Grows
    <2> QED BY <1>3, <2>1 DEF Grows
<1> HIDE DEF n
<1>6. ASSUME NEW i \in DOMAIN mappings' PROVE (RowSound(i))'
    <2>1. CASE i \in DOMAIN mappings
        BY <1>1, <1>3, <2>1, RowStays DEF EnrichInv, RowsAreSound
    <2>2. CASE i = n
        <3>1. mappings'[i] = x
            BY <1>2, <2>2 DEF n
        <3>2. mappings'[i].seen <= Len(mappings')
            BY <1>3, <1>5, <3>1
        <3>3. n \in (Posted(x.entity.id))'
            BY <1>2, <1>3, <1>4 DEF Posted, n
        <3>4. (Backed(mappings[i].entity.id, mappings[i].ticker))'
            BY <2>2, <3>1, <3>3 DEF Backed
        <3> QED BY <1>3, <3>1, <3>2, <3>4 DEF RowSound
    <2> QED BY <1>4, <2>1, <2>2
<1>7. RowsAreSound'
    BY <1>6 DEF RowsAreSound
<1>8. TablesAreSound'
    <2>1. ASSUME NEW i \in DOMAIN mappings', NEW j \in DOMAIN mappings',
                 mappings'[i].ticker = mappings'[j].ticker
          PROVE  \/ mappings'[i].features = mappings'[j].features
                 \/ mappings'[i].features = 0 \/ mappings'[j].features = 0
        <3>1. CASE i = n \/ j = n
            BY <1>2, <1>3, <3>1 DEF n
        <3>2. CASE i # n /\ j # n
            <4>1. i \in DOMAIN mappings /\ j \in DOMAIN mappings
                BY <1>4, <3>2
            <4> QED BY <1>3, <2>1, <4>1 DEF EnrichInv, TablesAreSound
        <3> QED BY <3>1, <3>2
    <2>2. ASSUME NEW i \in DOMAIN mappings', NEW j \in DOMAIN mappings',
                 ~mappings'[i].posted, ~mappings'[j].posted,
                 mappings'[i].entity = mappings'[j].entity,
                 mappings'[i].ticker = mappings'[j].ticker
          PROVE  i = j
        <3>1. i # n /\ j # n
            BY <1>2, <1>3, <2>2 DEF n
        <3>2. i \in DOMAIN mappings /\ j \in DOMAIN mappings
            BY <1>4, <3>1
        <3> QED BY <1>3, <2>2, <3>2 DEF EnrichInv, TablesAreSound
    <2> QED BY <1>1, <2>1, <2>2 DEF EnrichInv, TablesAreSound
<1>9. ASSUME NEW r \in Runs PROVE HeldBack(r, work[r])' /\ ReadsOverrides(work[r])'
    <2>1. PICK run \in RunStates : run = work[r]
        BY <1>1 DEF EnrichTypeOK
    <2>2. work'[r] = run /\ HeldBack(r, run) /\ ReadsOverrides(run)
        BY <1>1, <2>1 DEF EnrichInv, RunsAreSound
    <2>3. ASSUME NEW w \in run.writes PROVE WriteSound(run, w)'
        <3>1. WriteSound(run, w)
            BY <2>2, <2>3 DEF HeldBack
        <3>2. w.manual => (Backed(w.entity.id, w.ticker))'
            BY <1>1, <1>3, <3>1, GrowsBacked DEF WriteSound
        <3>3. ASSUME w.row = 0, NEW i \in (PairRows(w.entity, w.ticker))'
              PROVE  mappings'[i].posted
            <4>1. CASE i = n
                BY <1>2, <1>3, <4>1 DEF n
            <4>2. CASE i # n
                <5>1. i \in DOMAIN mappings /\ mappings'[i] = mappings[i]
                    BY <1>3, <1>4, <3>3, <4>2 DEF PairRows
                <5>2. i \in PairRows(w.entity, w.ticker)
                    BY <3>3, <5>1 DEF PairRows
                <5> QED BY <3>1, <3>3, <5>1, <5>2 DEF WriteSound
            <4> QED BY <4>1, <4>2
        <3>4. w.row # 0 => /\ w.row \in DOMAIN mappings'
                           /\ mappings'[w.row].entity = w.entity
                           /\ mappings'[w.row].ticker = w.ticker
            BY <1>3, <1>4, <3>1 DEF WriteSound
        <3> QED BY <3>1, <3>2, <3>3, <3>4 DEF WriteSound, Overridden
    <2>4. run.seen <= Len(mappings')
        <3>1. run.seen \in Nat /\ run.seen <= Len(mappings)
            BY <2>2 DEF HeldBack, RunStates
        <3> QED BY <1>5, <3>1
    <2>5. HeldBack(r, work[r])'
        BY <1>1, <2>2, <2>3, <2>4 DEF HeldBack, WriteSound, Overridden
    <2>6. \A o \in run.overrides : (Backed(o.entity.id, o.ticker))'
        BY <1>1, <1>3, <2>2, GrowsBacked DEF ReadsOverrides
    <2>7. ASSUME run.pc = "providers", NEW j \in DOMAIN mappings', mappings'[j].posted,
                 mappings'[j].quiet
          PROVE  Overridden(run, mappings'[j].entity.id)
        <3>1. r \in UnderWay
            BY <2>1, <2>7 DEF UnderWay
        <3>2. j # n
            BY <1>2, <1>3, <2>7, <3>1 DEF n
        <3>3. j \in DOMAIN mappings /\ mappings'[j] = mappings[j]
            BY <1>3, <1>4, <3>2
        <3> QED BY <2>2, <2>7, <3>3 DEF ReadsOverrides
    <2>8. ReadsOverrides(work[r])'
        BY <2>2, <2>6, <2>7 DEF ReadsOverrides, Overridden
    <2> QED BY <2>5, <2>8
<1> QED BY <1>7, <1>8, <1>9 DEF RunsAreSound

\* What a run that commits may rely on: it has the lock, so that nothing it has read
\* of the tables has changed since.
LEMMA CommitHasLock ==
    ASSUME EnrichInv, NEW r \in Runs, CommitRun(r)
    PROVE  /\ EnrichTypeOK /\ HeldBack(r, work[r]) /\ ReadsOverrides(work[r])
           /\ work[r].pc = "providers" /\ lock = r /\ lock' \notin Runs
           /\ Grows /\ CommittedRows(r)
<1>1. EnrichTypeOK /\ HeldBack(r, work[r]) /\ ReadsOverrides(work[r])
    BY DEF EnrichInv, RunsAreSound
<1>2. work[r].pc = "providers" /\ work[r].next > Len(Providers) /\ lock' = NoRun
    BY DEF CommitRun
<1>3. Len(Providers) \in Nat /\ Len(Providers) # 0
    BY ProvidersAssumption
<1>4. work[r].next # 1
    <2>1. PICK k : k = work[r].next
        OBVIOUS
    <2>2. PICK n \in Nat : n = Len(Providers)
        BY <1>3
    <2>3. k > n /\ n # 0
        BY <1>2, <1>3, <2>1, <2>2
    <2> QED BY <2>1, <2>2, <2>3
<1>5. lock = r
    BY <1>1, <1>4 DEF HeldBack
<1>6. Grows /\ CommittedRows(r)
    BY <1>1, CommitEffect DEF HeldBack
<1> QED BY <1>1, <1>2, <1>5, <1>6, AbsentAssumption

\* The rows that a commit leaves are manual just when they should be.
LEMMA CommittedRowsAreSound ==
    ASSUME EnrichInv, NEW r \in Runs, CommitRun(r)
    PROVE  RowsAreSound'
<1> DEFINE n == Len(mappings)
<1> DEFINE m == Len(mappings')
<1>1. /\ EnrichTypeOK /\ HeldBack(r, work[r]) /\ ReadsOverrides(work[r])
      /\ work[r].pc = "providers" /\ Grows /\ CommittedRows(r)
    BY CommitHasLock
<1>2. PICK run \in RunStates : run = work[r]
    BY <1>1 DEF EnrichTypeOK
<1>3. PICK f \in [Added -> {w \in run.writes : w.row = 0}] :
          \A i \in Added :
              /\ mappings'[i].entity = f[i].entity /\ mappings'[i].ticker = f[i].ticker
              /\ mappings'[i].manual = f[i].manual /\ mappings'[i].seen = run.seen
              /\ ~mappings'[i].posted /\ ~mappings'[i].quiet
    BY <1>1, <1>2 DEF CommittedRows
<1>4. n \in Nat /\ m \in Nat /\ n <= m /\ DOMAIN mappings = 1..n /\ DOMAIN mappings' = 1..m
    <2>1. mappings \in Seq(MappingRows) /\ mappings' \in Seq(MappingRows)
        BY <1>1 DEF EnrichTypeOK, Grows
    <2> QED BY <1>1, <2>1 DEF Grows
<1>5. run.seen \in Nat /\ run.seen <= n
    BY <1>1, <1>2 DEF HeldBack, RunStates
<1> HIDE DEF n, m
<1>6. ASSUME NEW w \in run.writes PROVE WriteSound(run, w)
    BY <1>1, <1>2, <1>6 DEF HeldBack
\* A row that the run has written says what its overrides say.
<1>7. ASSUME NEW i \in DOMAIN mappings', NEW w \in run.writes,
             mappings'[i].manual = w.manual, mappings'[i].seen = run.seen,
             mappings'[i].entity = w.entity, mappings'[i].ticker = w.ticker,
             i \in DOMAIN mappings \/ ~mappings'[i].posted
      PROVE  (RowSound(i))'
    <2>1. PICK s \in Nat : s = run.seen
        BY <1>5
    <2>2. WriteSound(run, w)
        BY <1>6
    <2>3. ASSUME NEW j \in DOMAIN mappings, mappings[j].posted, mappings[j].quiet,
                 mappings[j].entity.id = w.entity.id
          PROVE  w.manual
        <3>1. Overridden(run, w.entity.id)
            BY <1>1, <1>2, <2>3 DEF ReadsOverrides
        <3> QED BY <2>2, <3>1 DEF WriteSound
    <2>4. ASSUME NEW j \in DOMAIN mappings', j <= s, mappings'[j].posted, mappings'[j].quiet,
                 mappings'[j].entity.id = mappings'[i].entity.id
          PROVE  mappings'[i].manual
        <3>1. j \in DOMAIN mappings
            BY <1>4, <1>5, <2>1, <2>4
        <3>2. SameRow(mappings'[j], mappings[j])
            BY <1>1, <3>1 DEF Grows
        <3> QED BY <1>7, <2>3, <2>4, <3>1, <3>2 DEF SameRow
    <2>5. mappings'[i].posted /\ mappings'[i].quiet => mappings'[i].manual
        <3>1. CASE i \in DOMAIN mappings
            <4>1. SameRow(mappings'[i], mappings[i])
                BY <1>1, <3>1 DEF Grows
            <4> QED BY <1>7, <2>3, <3>1, <4>1 DEF SameRow
        <3>2. CASE ~mappings'[i].posted
            BY <3>2
        <3> QED BY <1>7, <3>1, <3>2
    <2>6. mappings'[i].manual => (Backed(mappings[i].entity.id, mappings[i].ticker))'
        <3>1. ASSUME NEW id, NEW t, id = w.entity.id, t = w.ticker, w.manual
              PROVE  (Backed(id, t))'
            BY <1>1, <2>2, <3>1, GrowsBacked DEF WriteSound
        <3>2. mappings'[i].entity.id = w.entity.id /\ mappings'[i].ticker = w.ticker
            BY <1>7
        <3> QED BY <1>7, <3>1, <3>2 DEF Backed, Posted
    <2>7. s <= m
        BY <1>4, <1>5, <2>1
    <2> QED BY <1>7, <2>1, <2>4, <2>5, <2>6, <2>7 DEF RowSound, m
<1>8. ASSUME NEW i \in DOMAIN mappings PROVE (RowSound(i))'
    <2>1. CASE mappings'[i].manual = mappings[i].manual /\ mappings'[i].seen = mappings[i].seen
        BY <1>1, <1>8, <2>1, RowStays DEF EnrichInv, RowsAreSound
    <2>2. CASE \E w \in run.writes : /\ w.row = i /\ mappings'[i].manual = w.manual
                                     /\ mappings'[i].seen = run.seen
        <3>1. PICK w \in run.writes : /\ w.row = i /\ mappings'[i].manual = w.manual
                                      /\ mappings'[i].seen = run.seen
            BY <2>2
        <3>2. i # 0
            BY <1>4
        <3>3. mappings[i].entity = w.entity /\ mappings[i].ticker = w.ticker
            BY <1>6, <3>1, <3>2 DEF WriteSound
        <3>4. SameRow(mappings'[i], mappings[i]) /\ i \in DOMAIN mappings'
            BY <1>1, <1>8 DEF Grows
        <3>5. mappings'[i].entity = w.entity /\ mappings'[i].ticker = w.ticker
            BY <3>3, <3>4 DEF SameRow
        <3> QED BY <1>7, <1>8, <3>1, <3>4, <3>5
    <2> QED BY <1>1, <1>2, <2>1, <2>2 DEF CommittedRows
<1>9. ASSUME NEW i \in Added PROVE (RowSound(i))'
    <2>1. PICK w \in run.writes : w = f[i]
        BY <1>9
    <2>2. i \in DOMAIN mappings'
        BY DEF Added
    <2> QED BY <1>3, <1>7, <2>1, <2>2
<1> QED BY <1>8, <1>9 DEF RowsAreSound, Added

\* A commit adds no second row of an entity or of a pair.
LEMMA CommittedTablesAreSound ==
    ASSUME EnrichInv, NEW r \in Runs, CommitRun(r)
    PROVE  TablesAreSound'
<1>1. /\ EnrichTypeOK /\ HeldBack(r, work[r]) /\ Grows /\ CommittedRows(r) /\ TablesAreSound
    BY CommitHasLock DEF EnrichInv
<1>2. PICK run \in RunStates : run = work[r]
    BY <1>1 DEF EnrichTypeOK
<1>3. /\ entities' = [e \in Entities |-> entities[e] + IF e \in run.inserted THEN 1 ELSE 0]
      /\ observations' = [e \in Entities |->
            (observations[e] \ run.deleted[e]) \cup
            IF e \in run.fetched THEN {run.number} ELSE {}]
    BY <1>2 DEF CommitRun
<1>4. ASSUME NEW e \in Entities PROVE entities'[e] \in {0, 1}
    <2>1. entities[e] \in {0, 1} /\ (e \in run.inserted => entities[e] = 0)
        BY <1>1, <1>2 DEF TablesAreSound, HeldBack
    <2>2. entities'[e] = entities[e] + IF e \in run.inserted THEN 1 ELSE 0
        BY <1>3
    <2> QED BY <2>1, <2>2
<1>5. ASSUME NEW e \in Entities, NEW m \in observations'[e], NEW n \in observations'[e]
      PROVE  m = n
    <2>1. CASE e \in run.fetched
        <3>1. run.deleted[e] = observations[e]
            BY <1>1, <1>2, <2>1 DEF HeldBack
        <3>2. observations'[e] = {run.number}
            BY <1>3, <2>1, <3>1
        <3> QED BY <1>5, <3>2
    <2>2. CASE e \notin run.fetched
        <3>1. observations'[e] \subseteq observations[e]
            BY <1>3, <2>2
        <3>2. m \in observations[e] /\ n \in observations[e]
            BY <1>5, <3>1
        <3> QED BY <1>1, <3>2 DEF TablesAreSound
    <2> QED BY <2>1, <2>2
<1> DEFINE T == {w.ticker : w \in run.writes}
<1>6. \A i \in DOMAIN mappings' :
         /\ mappings'[i].ticker \in T => mappings'[i].features = run.number
         /\ mappings'[i].ticker \notin T =>
               i \in DOMAIN mappings /\ mappings'[i].features = mappings[i].features
    BY <1>1, <1>2 DEF CommittedRows
<1>7. ASSUME NEW i \in DOMAIN mappings', NEW j \in DOMAIN mappings',
             mappings'[i].ticker = mappings'[j].ticker
      PROVE  \/ mappings'[i].features = mappings'[j].features
             \/ mappings'[i].features = 0 \/ mappings'[j].features = 0
    <2> HIDE DEF T
    <2>1. CASE mappings'[i].ticker \in T
        BY <1>6, <1>7, <2>1
    <2>2. CASE mappings'[i].ticker \notin T
        <3>1. /\ i \in DOMAIN mappings /\ mappings'[i].features = mappings[i].features
              /\ j \in DOMAIN mappings /\ mappings'[j].features = mappings[j].features
            BY <1>6, <1>7, <2>2
        <3>2. mappings[i].ticker = mappings[j].ticker
            BY <1>1, <1>7, <3>1 DEF Grows, SameRow
        <3> QED BY <1>1, <3>1, <3>2 DEF TablesAreSound
    <2> QED BY <2>1, <2>2
<1>8. PICK f \in [Added -> {w \in run.writes : w.row = 0}] :
          /\ \A i, j \in Added : f[i] = f[j] => i = j
          /\ \A i \in Added :
              /\ mappings'[i].entity = f[i].entity /\ mappings'[i].ticker = f[i].ticker
              /\ mappings'[i].manual = f[i].manual /\ mappings'[i].seen = run.seen
              /\ ~mappings'[i].posted /\ ~mappings'[i].quiet
    BY <1>1, <1>2 DEF CommittedRows
<1>9. ASSUME NEW w \in run.writes PROVE w \in Writes /\ WriteSound(run, w)
    BY <1>1, <1>2, <1>9 DEF HeldBack, RunStates
\* A new row is of a pair that had none but those of overrides.
<1>10. ASSUME NEW i \in DOMAIN mappings, NEW j \in Added, ~mappings'[i].posted,
              mappings'[i].entity = mappings'[j].entity,
              mappings'[i].ticker = mappings'[j].ticker
       PROVE  FALSE
    <2>1. PICK w \in run.writes : w = f[j] /\ w.row = 0
        BY <1>10
    <2>2. mappings'[j].entity = w.entity /\ mappings'[j].ticker = w.ticker
        BY <1>8, <1>10, <2>1
    <2>3. SameRow(mappings'[i], mappings[i])
        BY <1>1, <1>10 DEF Grows
    <2>4. i \in PairRows(w.entity, w.ticker) /\ ~mappings[i].posted
        BY <1>10, <2>2, <2>3 DEF SameRow, PairRows
    <2> QED BY <1>9, <2>1, <2>4 DEF WriteSound
<1>11. ASSUME NEW i \in Added, NEW j \in Added,
              mappings'[i].entity = mappings'[j].entity,
              mappings'[i].ticker = mappings'[j].ticker
       PROVE  i = j
    <2>1. PICK v \in run.writes : v = f[i] /\ v.row = 0
        BY <1>11
    <2>2. PICK w \in run.writes : w = f[j] /\ w.row = 0
        BY <1>11
    <2>3. v.entity = w.entity /\ v.ticker = w.ticker
        BY <1>8, <1>11, <2>1, <2>2
    <2>4. v \in Writes /\ w \in Writes
        BY <1>9
    <2>5. v.manual = w.manual
        <3>1. v.manual <=> w.manual
            BY <1>9, <2>3 DEF WriteSound
        <3>2. v.manual \in BOOLEAN /\ w.manual \in BOOLEAN
            BY <2>4 DEF Writes
        <3> QED BY <3>1, <3>2
    <2>6. v = w
        BY <2>1, <2>2, <2>3, <2>4, <2>5 DEF Writes
    <2> QED BY <1>8, <1>11, <2>1, <2>2, <2>6
<1>12. ASSUME NEW i \in DOMAIN mappings', NEW j \in DOMAIN mappings',
              ~mappings'[i].posted, ~mappings'[j].posted,
              mappings'[i].entity = mappings'[j].entity,
              mappings'[i].ticker = mappings'[j].ticker
       PROVE  i = j
    <2>1. CASE i \in DOMAIN mappings /\ j \in DOMAIN mappings
        <3>1. SameRow(mappings'[i], mappings[i]) /\ SameRow(mappings'[j], mappings[j])
            BY <1>1, <2>1 DEF Grows
        <3>2. /\ ~mappings[i].posted /\ ~mappings[j].posted
              /\ mappings[i].entity = mappings[j].entity
              /\ mappings[i].ticker = mappings[j].ticker
            BY <1>12, <3>1 DEF SameRow
        <3> QED BY <1>1, <2>1, <3>2 DEF TablesAreSound
    <2>2. CASE i \in DOMAIN mappings /\ j \in Added
        BY <1>10, <1>12, <2>2
    <2>3. CASE i \in Added /\ j \in DOMAIN mappings
        BY <1>10, <1>12, <2>3
    <2>4. CASE i \in Added /\ j \in Added
        BY <1>11, <1>12, <2>4
    <2> QED BY <2>1, <2>2, <2>3, <2>4 DEF Added
<1> QED BY <1>4, <1>5, <1>7, <1>12 DEF TablesAreSound

\* No other run has read what a commit changes.
LEMMA CommitLeavesRunsSound ==
    ASSUME EnrichInv, NEW r \in Runs, CommitRun(r)
    PROVE  RunsAreSound'
<1> DEFINE n == Len(mappings)
<1> DEFINE m == Len(mappings')
<1>1. EnrichTypeOK /\ lock = r /\ lock' \notin Runs /\ Grows /\ CommittedRows(r)
    BY CommitHasLock
<1>2. n \in Nat /\ m \in Nat /\ n <= m
    <2>1. mappings \in Seq(MappingRows) /\ mappings' \in Seq(MappingRows)
        BY <1>1 DEF EnrichTypeOK, Grows
    <2> QED BY <1>1, <2>1 DEF Grows
<1> HIDE DEF n, m
<1>3. PICK run : run = work'[r]
    OBVIOUS
<1>4. /\ run.pc # "providers" /\ run.next = 1 /\ run.overrides = {} /\ run.inserted = {}
      /\ run.fetched = {} /\ run.writes = {} /\ run.seen = 0
      /\ \A t \in Runs : t # r => work'[t] = work[t]
    BY <1>1, <1>3, EndEffect
<1>5. HeldBack(r, work[r])' /\ ReadsOverrides(work[r])'
    <2>1. 0 <= m
        BY <1>2
    <2> QED BY <1>1, <1>3, <1>4, <2>1, FS_EmptySet DEF HeldBack, ReadsOverrides, m
\* The rows a run adds were not posted, and the others hold nothing back.
<1>6. ASSUME NEW t \in Runs, t # r PROVE HeldBack(t, work[t])' /\ ReadsOverrides(work[t])'
    <2>1. PICK other \in RunStates : other = work[t]
        BY <1>1 DEF EnrichTypeOK
    <2>2. work'[t] = other /\ HeldBack(t, other) /\ ReadsOverrides(other)
        BY <1>4, <1>6, <2>1 DEF EnrichInv, RunsAreSound
    <2>3. /\ other.inserted = {} /\ other.fetched = {} /\ other.writes = {} /\ other.next = 1
          /\ other.seen \in Nat /\ other.seen <= n
        BY <1>1, <1>6, <2>2 DEF HeldBack, RunStates, n
    <2>4. other.seen <= m
        BY <1>2, <2>3
    <2>5. HeldBack(t, work[t])'
        BY <1>1, <2>2, <2>3, <2>4, FS_EmptySet DEF HeldBack, m
    <2>6. \A o \in other.overrides : (Backed(o.entity.id, o.ticker))'
        BY <1>1, <2>2, GrowsBacked DEF ReadsOverrides
    <2>7. ASSUME other.pc = "providers", NEW j \in DOMAIN mappings', mappings'[j].posted,
                 mappings'[j].quiet
          PROVE  Overridden(other, mappings'[j].entity.id)
        <3>1. j \in DOMAIN mappings
            BY <1>1, <2>7 DEF CommittedRows, Added
        <3>2. SameRow(mappings'[j], mappings[j])
            BY <1>1, <3>1 DEF Grows
        <3> QED BY <2>2, <2>7, <3>1, <3>2 DEF ReadsOverrides, SameRow
    <2>8. ReadsOverrides(work[t])'
        BY <2>2, <2>6, <2>7 DEF ReadsOverrides, Overridden
    <2> QED BY <2>5, <2>8
<1> QED BY <1>5, <1>6 DEF RunsAreSound

-----------------------------------------------------------------------------
(* The invariant, and what it says of the tables. *)

\* The invariant holds at the start.
LEMMA EnrichBegins == EnrichInit => EnrichInv
<1> SUFFICES ASSUME EnrichInit PROVE EnrichInv
    OBVIOUS
<1>1. \A r \in Runs : work[r] = NoWork
    BY DEF EnrichInit
<1>2. mappings \in Seq(MappingRows) /\ Len(mappings) = 0 /\ DOMAIN mappings = {}
    BY DEF EnrichInit
<1>3. EnrichTypeOK
    <2>1. work \in [Runs -> RunStates]
        BY NoWorkIsState DEF EnrichInit
    <2>2. begun \in RunNumbers /\ entities \in [Entities -> Nat]
        BY NumbersAreBounded DEF EnrichInit
    <2>3. observations \in [Entities -> ObservationRows]
        BY DEF EnrichInit, ObservationRows
    <2> QED BY <1>2, <2>1, <2>2, <2>3 DEF EnrichInit, EnrichTypeOK
<1>4. RunsAreSound
    <2>1. ASSUME NEW r \in Runs PROVE HeldBack(r, work[r]) /\ ReadsOverrides(work[r])
        <3>1. PICK run : run = work[r]
            OBVIOUS
        <3>2. run = NoWork
            BY <1>1, <3>1
        <3>3. lock # r
            BY AbsentAssumption DEF EnrichInit
        <3>4. HeldBack(r, run)
            BY <1>2, <3>2, <3>3, NoWorkIsState, FS_EmptySet DEF HeldBack
        <3>5. ReadsOverrides(run)
            BY <3>2, NoWorkIsState DEF ReadsOverrides
        <3> QED BY <3>1, <3>4, <3>5
    <2> QED BY <2>1 DEF RunsAreSound
<1>5. TablesAreSound /\ RowsAreSound
    BY <1>2 DEF EnrichInit, TablesAreSound, RowsAreSound
<1> QED BY <1>3, <1>4, <1>5 DEF EnrichInv

\* The invariant is inductive.
LEMMA EnrichKept == EnrichInv /\ [EnrichNext]_enrichVars => EnrichInv'
<1> SUFFICES ASSUME EnrichInv, [EnrichNext]_enrichVars PROVE EnrichInv'
    OBVIOUS
<1>1. EnrichTypeOK'
    BY EnrichTypesKept DEF EnrichInv
<1>2. ASSUME NEW r \in Runs, BeginRun(r) \/ RunStep(r)
      PROVE  RunsAreSound' /\ TablesAreSound' /\ RowsAreSound'
    <2>1. CASE BeginRun(r)
        BY <2>1, RunBegun
    <2>2. CASE UpsertSources(r)
        BY <2>2, SourcesUpserted
    <2>3. CASE SyncProvider(r)
        BY <2>3, ProviderSynced
    <2>4. CASE CommitRun(r)
        BY <2>4, CommitLeavesRunsSound, CommittedTablesAreSound, CommittedRowsAreSound
    <2>5. CASE FinishRun(r) \/ FailRun(r)
        BY <2>5, RunEnded
    <2> QED BY <1>2, <2>1, <2>2, <2>3, <2>4, <2>5 DEF RunStep
<1>3. ASSUME NEW e \in Entities, NEW t \in Targets, PostOverride(e, t)
      PROVE  RunsAreSound' /\ TablesAreSound' /\ RowsAreSound'
    BY <1>3, OverridePosted
<1>4. ASSUME UNCHANGED enrichVars PROVE RunsAreSound' /\ TablesAreSound' /\ RowsAreSound'
    <2>1. TablesAreSound' /\ RowsAreSound'
        BY <1>4, TablesStand DEF EnrichInv, enrichVars
    <2>2. ASSUME NEW r \in Runs PROVE HeldBack(r, work[r])' /\ ReadsOverrides(work[r])'
        <3>1. Apart(r) /\ UNCHANGED <<work, lock, mappings, entities, observations>>
            BY <1>4 DEF Apart, enrichVars
        <3>2. PICK run : run = work[r]
            OBVIOUS
        <3>3. HeldBack(r, run) /\ ReadsOverrides(run) /\ work'[r] = run
            BY <3>1, <3>2 DEF EnrichInv, RunsAreSound
        <3>4. ASSUME NEW w \in run.writes PROVE WriteSound(run, w)'
            <4>1. WriteSound(run, w)
                BY <3>3, <3>4 DEF HeldBack
            <4> QED BY <3>1, <4>1, TablesStand DEF WriteSound, Overridden
        <3> QED BY <3>1, <3>3, <3>4, TablesStand
                DEF HeldBack, ReadsOverrides, WriteSound, Overridden
    <2> QED BY <2>1, <2>2 DEF RunsAreSound
<1> QED BY <1>1, <1>2, <1>3, <1>4 DEF EnrichNext, EnrichInv

\* Whatever a run has read under the lock, and holds back until it commits, is still
\* true of the tables; entities, observations, mappings and snapshots stay single.
THEOREM EnrichInvariance == EnrichSpec => []EnrichInv
<1> QED BY EnrichBegins, EnrichKept, PTL DEF EnrichSpec

\* Every variable holds values of its kind.
THEOREM EnrichTypes == EnrichSpec => []EnrichTypeOK
<1>1. EnrichInv => EnrichTypeOK
    BY DEF EnrichInv
<1> QED BY <1>1, EnrichInvariance, PTL

\* A set with no two elements has at most one.
LEMMA AtMostOne ==
    ASSUME NEW S, \A x, y \in S : x = y
    PROVE  Cardinality(S) <= 1
<1>1. CASE S = {}
    <2>1. Cardinality(S) = 0
        BY <1>1, FS_EmptySet
    <2> QED BY <2>1
<1>2. CASE S # {}
    <2>1. PICK x \in S : S = {x}
        BY <1>2
    <2>2. Cardinality(S) = 1
        BY <2>1, FS_Singleton
    <2> QED BY <2>2
<1> QED BY <1>1, <1>2

\* Overlapping runs leave one row of an entity, the observations of one run, one
\* snapshot of a market and, beside the posted ones, one mapping of a pair.
THEOREM RunsStayApart == EnrichSpec => []RunsDoNotMix
<1>1. EnrichInv => RunsDoNotMix
    <2> SUFFICES ASSUME EnrichInv PROVE RunsDoNotMix
        OBVIOUS
    <2>1. TablesAreSound
        BY DEF EnrichInv
    <2>2. ASSUME NEW e \in Entities
          PROVE  entities[e] <= 1 /\ Cardinality(observations[e]) <= 1
        <3>1. entities[e] \in {0, 1} /\ \A m, n \in observations[e] : m = n
            BY <2>1 DEF TablesAreSound
        <3>2. entities[e] <= 1
            BY <3>1
        <3>3. Cardinality(observations[e]) <= 1
            BY <3>1, AtMostOne
        <3> QED BY <3>2, <3>3
    <2>3. ASSUME NEW e \in Entities, NEW t \in Targets
          PROVE  Cardinality({i \in PairRows(e, t) : ~mappings[i].posted}) <= 1
        <3> DEFINE S == {i \in PairRows(e, t) : ~mappings[i].posted}
        <3>1. \A i, j \in S : i = j
            BY <2>1 DEF TablesAreSound, PairRows
        <3> HIDE DEF S
        <3>2. Cardinality(S) <= 1
            BY <3>1, AtMostOne
        <3> QED BY <3>2 DEF S
    <2>4. \A i, j \in DOMAIN mappings :
             mappings[i].ticker = mappings[j].ticker =>
                 mappings[i].features = mappings[j].features
                 \/ 0 \in {mappings[i].features, mappings[j].features}
        BY <2>1 DEF TablesAreSound
    <2> QED BY <2>2, <2>3, <2>4 DEF RunsDoNotMix
<1> QED BY <1>1, EnrichInvariance, PTL

\* An override posted while no run is under way is not demoted, a run that began
\* after it maps by it, and what is manual was posted.
THEOREM OverridesAlwaysWin == EnrichSpec => []OverridesWin
<1>1. EnrichInv => OverridesWin
    <2> SUFFICES ASSUME EnrichInv, NEW i \in DOMAIN mappings
                 PROVE  LET row == mappings[i]
                            PostedOf(S) == {j \in S : mappings[j].posted
                                                      /\ mappings[j].entity.id = row.entity.id}
                        IN  /\ row.posted /\ row.quiet => row.manual
                            /\ (\E j \in PostedOf(1..row.seen) : mappings[j].quiet) => row.manual
                            /\ row.manual => \E j \in PostedOf(DOMAIN mappings) :
                                                mappings[j].ticker = row.ticker
        BY DEF OverridesWin
    <2>1. PICK row \in MappingRows : row = mappings[i]
        <3>1. mappings \in Seq(MappingRows)
            BY DEF EnrichInv, EnrichTypeOK
        <3> QED BY <3>1, ElementOfSeq
    <2>2. RowSound(i)
        BY DEF EnrichInv, RowsAreSound
    <2>3. DOMAIN mappings = 1..Len(mappings) /\ Len(mappings) \in Nat
        BY DEF EnrichInv, EnrichTypeOK
    <2> DEFINE n == Len(mappings)
    <2> DEFINE s == row.seen
    <2>4. s \in Nat /\ s <= n /\ n \in Nat
        BY <2>1, <2>2, <2>3 DEF MappingRows, RowSound
    <2>5. \A j \in 1..s : j \in 1..n /\ j <= s
        <3> HIDE DEF s, n
        <3> QED BY <2>4
    <2>6. ASSUME NEW j \in 1..row.seen, mappings[j].posted, mappings[j].quiet,
                 mappings[j].entity.id = row.entity.id
          PROVE  row.manual
        BY <2>1, <2>2, <2>3, <2>5, <2>6 DEF RowSound
    <2>7. row.manual => \E j \in DOMAIN mappings :
                            /\ mappings[j].posted /\ mappings[j].entity.id = row.entity.id
                            /\ mappings[j].ticker = row.ticker
        BY <2>1, <2>2 DEF RowSound, Backed, Posted
    <2>8. row.posted /\ row.quiet => row.manual
        BY <2>1, <2>2 DEF RowSound
    <2> QED BY <2>1, <2>6, <2>7, <2>8
<1> QED BY <1>1, EnrichInvariance, PTL
=============================================================================
