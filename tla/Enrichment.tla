------------------------------ MODULE Enrichment ------------------------------
(***************************************************************************)
(* The external-enrichment worker (external_enrichment/service.py), the    *)
(* mapping engine (mappers/engine.py) and POST /enrichments/mappings/      *)
(* override (routes/enrichments.py).                                       *)
(*                                                                         *)
(* A run of the worker is one transaction, under READ COMMITTED: what it   *)
(* writes appears with its commit, what it reads is what was committed at  *)
(* the time of each query.  The scheduler and POST /enrichments/sync run   *)
(* it at the same time.  Nothing in the schema forbids a second row of an  *)
(* entity or of a mapping; two runs are kept apart by the lock of the      *)
(* external_sources row, which is flushed before the first entity is read. *)
(***************************************************************************)
EXTENDS Naturals, Sequences, FiniteSets

CONSTANTS
    Providers,     \* the sources, in the order a run visits them
    Forecasters,   \* those that make an item up if they find none
    Ids,           \* external ids; two sources may use the same one
    Targets,       \* tickers of kalshi_markets
    Similar,       \* entity -> tickers that its own reference or its likeness may yield
    Runs,          \* the scheduler, a request of POST /enrichments/sync
    MaxRuns,       \* bound: runs begun
    MaxOverrides,  \* bound: overrides posted
    NoRun, NoTarget

ASSUME ProvidersAssumption == Providers \in Seq(STRING) /\ Providers # <<>>
ASSUME SimilarAssumption ==
    \A e \in [source : {Providers[k] : k \in DOMAIN Providers}, id : Ids] :
        Similar[e] \in SUBSET (Targets \cup {NoTarget}) \ {{}}
ASSUME AbsentAssumption == NoRun \notin Runs /\ NoTarget \notin Targets
ASSUME BoundedAssumption == MaxRuns \in Nat /\ IsFiniteSet(Ids)

VARIABLES
    work,          \* run -> its place, and what its transaction has read and written
    lock,          \* the run that holds the rows of external_sources
    registered,    \* these rows exist
    entities,      \* entity -> how many rows it has
    observations,  \* entity -> the runs its observation rows stem from
    mappings,      \* external_market_mappings, in the order of their commits
    health,        \* the newest service_health_events row of the service
    begun          \* runs begun so far

enrichVars == <<work, lock, registered, entities, observations, mappings, health, begun>>

-----------------------------------------------------------------------------
SourceNames == {Providers[k] : k \in DOMAIN Providers}
Entities == [source : SourceNames, id : Ids]
OfSource(k) == {e \in Entities : e.source = Providers[k]}
\* What a provider may return: a forecast platform never nothing.
Fetches(k) == {S \in SUBSET OfSource(k) : Providers[k] \in Forecasters => S # {}}
RunNumbers == 0..MaxRuns

\* Of the external_observations rows of an entity, the run that inserted them counts.
ObservationRows == SUBSET RunNumbers

\* posted: inserted by the override route, and quiet: while no run was under way.
\* seen: how many rows there were when the run that wrote it last began.
\* features: the run its feature_snapshot is of.
MappingRows == [entity : Entities, ticker : Targets, manual : BOOLEAN, posted : BOOLEAN,
                quiet : BOOLEAN, seen : Nat, features : RunNumbers]

\* A row to be written for an entity: a stored one (its index), or a new one (0).
Writes == [row : Nat, entity : Entities, ticker : Targets, manual : BOOLEAN]

RunStates == [pc : {"idle", "register", "providers", "finish"}, number : RunNumbers,
              fresh : BOOLEAN, seen : Nat, overrides : SUBSET MappingRows, next : Nat \ {0},
              inserted : SUBSET Entities, deleted : [Entities -> SUBSET RunNumbers],
              fetched : SUBSET Entities, writes : SUBSET Writes]
NoWork == [pc |-> "idle", number |-> 0, fresh |-> FALSE, seen |-> 0, overrides |-> {},
           next |-> 1, inserted |-> {}, deleted |-> [e \in Entities |-> {}],
           fetched |-> {}, writes |-> {}]

UnderWay == {r \in Runs : work[r].pc \in {"register", "providers"}}
Manual == {mappings[i] : i \in {j \in DOMAIN mappings : mappings[j].manual}}

\* The rows of a pair, which nothing keeps unique.
PairRows(e, t) == {i \in DOMAIN mappings : mappings[i].entity = e /\ mappings[i].ticker = t}

-----------------------------------------------------------------------------
(* run_once. *)

\* "running" is added, and the sources are looked up.
BeginRun(r) ==
    /\ work[r].pc = "idle" /\ begun < MaxRuns
    /\ begun' = begun + 1
    /\ work' = [work EXCEPT ![r] = [NoWork EXCEPT !.pc = "register", !.number = begun',
                                                  !.fresh = ~registered,
                                                  !.seen = Len(mappings)]]
    /\ UNCHANGED <<lock, registered, entities, observations, mappings, health>>

\* _upsert_sources: a missing source is inserted, which waits for a run that has
\* inserted it too and fails if that one commits (slug is unique).  Then the
\* markets and the overrides are read, once for the whole run.
UpsertSources(r) ==
    /\ work[r].pc = "register"
    /\ work[r].fresh => lock = NoRun /\ ~registered
    /\ lock' = IF work[r].fresh THEN r ELSE lock
    /\ work' = [work EXCEPT ![r].pc = "providers", ![r].overrides = Manual]
    /\ UNCHANGED <<registered, entities, observations, mappings, health, begun>>

\* As if a market that resembles the entity went first.
MapByLikeness(r, e) ==
    {IF t = NoTarget THEN NoTarget ELSE [ticker |-> t, manual |-> FALSE] : t \in Similar[e]}

\* MappingEngine.map_entity: an override of the external id, whatever its source,
\* else the market the provider names or the most similar one, if any.
MapEntity(r, e) ==
    LET overriding == {o \in work[r].overrides : o.entity.id = e.id}
    IN  IF overriding # {}
        THEN {[ticker |-> o.ticker, manual |-> TRUE] : o \in overriding}
        ELSE {IF t = NoTarget THEN NoTarget ELSE [ticker |-> t, manual |-> FALSE] :
                 t \in Similar[e]}

\* _refresh_mappings for one entity.
MappingWrite(e, mapping) ==
    [row |-> IF PairRows(e, mapping.ticker) = {} THEN 0
             ELSE CHOOSE i \in PairRows(e, mapping.ticker) : TRUE,
     entity |-> e, ticker |-> mapping.ticker, manual |-> mapping.manual]

\* As if the source row were not written, or written last.
WithoutLock(r) == TRUE

\* last_synced_at of the source row is updated, and the update is flushed before
\* the first query of an entity.
MayLock(r) == lock \in {NoRun, r}

\* One provider: the source row is updated, or its update waited for; then its
\* entities, their observations and their mappings are read and written.  Where
\* scalar_one_or_none meets two rows the run raises: see FailRun.
SyncProvider(r) ==
    /\ work[r].pc = "providers" /\ work[r].next <= Len(Providers)
    /\ MayLock(r)
    /\ lock' = r
    /\ \E fetched \in Fetches(work[r].next) :
       \E mapping \in [fetched -> [ticker : Targets, manual : BOOLEAN] \cup {NoTarget}] :
          /\ \A e \in fetched :
                /\ entities[e] <= 1
                /\ mapping[e] \in MapEntity(r, e)
                /\ mapping[e] # NoTarget =>
                      Cardinality(PairRows(e, mapping[e].ticker)) <= 1
          /\ work' = [work EXCEPT
                ![r].next = @ + 1,
                ![r].inserted = @ \cup {e \in fetched : entities[e] = 0},
                ![r].deleted = [e \in Entities |->
                                   IF e \in fetched THEN observations[e] ELSE @[e]],
                ![r].fetched = @ \cup fetched,
                ![r].writes = @ \cup {MappingWrite(e, mapping[e]) :
                                         e \in {d \in fetched : mapping[d] # NoTarget}}]
    /\ UNCHANGED <<registered, entities, observations, mappings, health, begun>>

WrittenRow(i, write, run) ==
    [mappings[i] EXCEPT !.manual = write.manual, !.seen = run.seen]
NewRow(write, run) ==
    [entity |-> write.entity, ticker |-> write.ticker, manual |-> write.manual,
     posted |-> FALSE, quiet |-> FALSE, seen |-> run.seen, features |-> 0]

\* _compute_features: every mapping of a market that the run has mapped something
\* to gets the snapshot, those of other runs and of overrides included.
ComputeFeatures(rows, tickers, run) ==
    [i \in DOMAIN rows |-> IF rows[i].ticker \in tickers
                           THEN [rows[i] EXCEPT !.features = run.number] ELSE rows[i]]

\* The commit of everything, "running" included.
CommitRun(r) ==
    LET run == work[r]
        updates == {w \in run.writes : w.row # 0}
        rewritten == [i \in DOMAIN mappings |->
                         IF \E w \in updates : w.row = i
                         THEN WrittenRow(i, CHOOSE w \in updates : w.row = i, run)
                         ELSE mappings[i]]
    IN  /\ run.pc = "providers" /\ run.next > Len(Providers)
        /\ \E added \in [1..Cardinality(run.writes \ updates) -> run.writes \ updates] :
              /\ \A w \in run.writes \ updates : \E k \in DOMAIN added : added[k] = w
              /\ mappings' = ComputeFeatures(
                                rewritten \o [k \in DOMAIN added |-> NewRow(added[k], run)],
                                {w.ticker : w \in run.writes}, run)
        /\ entities' = [e \in Entities |-> entities[e] + IF e \in run.inserted THEN 1 ELSE 0]
        /\ observations' = [e \in Entities |->
              (observations[e] \ run.deleted[e]) \cup
              IF e \in run.fetched THEN {run.number} ELSE {}]
        /\ registered' = TRUE
        /\ lock' = NoRun
        /\ health' = "running"
        /\ work' = [work EXCEPT ![r] = [NoWork EXCEPT !.pc = "finish"]]
        /\ UNCHANGED begun

\* The second commit of run_once.
FinishRun(r) ==
    /\ work[r].pc = "finish"
    /\ health' = "healthy"
    /\ work' = [work EXCEPT ![r] = NoWork]
    /\ UNCHANGED <<lock, registered, entities, observations, mappings, begun>>

\* A provider, a query or a constraint raises, or the process dies: all of the
\* transaction is rolled back, "running" included.
FailRun(r) ==
    /\ work[r].pc # "idle"
    /\ lock' = IF lock = r THEN NoRun ELSE lock
    /\ work' = [work EXCEPT ![r] = NoWork]
    /\ UNCHANGED <<registered, entities, observations, mappings, health, begun>>

\* create_mapping_override, which looks at the entity only.
PostOverride(e, t) ==
    /\ entities[e] > 0
    /\ Cardinality({i \in DOMAIN mappings : mappings[i].posted}) < MaxOverrides
    /\ mappings' = Append(mappings,
           [entity |-> e, ticker |-> t, manual |-> TRUE, posted |-> TRUE,
            quiet |-> UnderWay = {}, seen |-> 0, features |-> 0])
    /\ UNCHANGED <<work, lock, registered, entities, observations, health, begun>>

-----------------------------------------------------------------------------
EnrichInit ==
    /\ work = [r \in Runs |-> NoWork]
    /\ lock = NoRun
    /\ registered = FALSE
    /\ entities = [e \in Entities |-> 0]
    /\ observations = [e \in Entities |-> {}]
    /\ mappings = <<>>
    /\ health = "none"
    /\ begun = 0

RunStep(r) ==
    UpsertSources(r) \/ SyncProvider(r) \/ CommitRun(r) \/ FinishRun(r) \/ FailRun(r)

EnrichNext ==
    \/ \E r \in Runs : BeginRun(r) \/ RunStep(r)
    \/ \E e \in Entities, t \in Targets : PostOverride(e, t)

EnrichSpec == EnrichInit /\ [][EnrichNext]_enrichVars

-----------------------------------------------------------------------------
(* Properties. *)

\* Every variable holds values of its kind.
EnrichTypeOK ==
    /\ work \in [Runs -> RunStates]
    /\ lock \in Runs \cup {NoRun}
    /\ registered \in BOOLEAN
    /\ entities \in [Entities -> Nat]
    /\ observations \in [Entities -> ObservationRows]
    /\ mappings \in Seq(MappingRows)
    /\ health \in {"none", "running", "healthy"}
    /\ begun \in RunNumbers

\* Overlapping runs leave one row per entity and the observations of one run, and
\* all mappings of a market show the same snapshot; a pair has a second mapping
\* only because an override was posted beside it.
RunsDoNotMix ==
    /\ \A e \in Entities : entities[e] <= 1 /\ Cardinality(observations[e]) <= 1
    /\ \A i, j \in DOMAIN mappings :
          mappings[i].ticker = mappings[j].ticker =>
              mappings[i].features = mappings[j].features \/ 0 \in {mappings[i].features, mappings[j].features}
    /\ \A e \in Entities, t \in Targets :
          Cardinality({i \in PairRows(e, t) : ~mappings[i].posted}) <= 1

\* An override posted while no run is under way is never demoted, and a run that
\* began after it maps every entity of its id by an override; a mapping is marked
\* manual only if one of its id and market was posted.
OverridesWin ==
    \A i \in DOMAIN mappings :
        LET row == mappings[i]
            PostedOf(S) == {j \in S : mappings[j].posted /\ mappings[j].entity.id = row.entity.id}
        IN  /\ row.posted /\ row.quiet => row.manual
            /\ (\E j \in PostedOf(1..row.seen) : mappings[j].quiet) => row.manual
            /\ row.manual => \E j \in PostedOf(DOMAIN mappings) : mappings[j].ticker = row.ticker
=============================================================================
