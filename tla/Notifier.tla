------------------------------- MODULE Notifier -------------------------------
(***************************************************************************)
(* The notifier (notifier/delivery.py, dedupe.py, main.py) on the signals  *)
(* that the engine of SignalEngine writes.  A pass reads the newest        *)
(* signals with a candidate and offers each to every endpoint in one       *)
(* transaction: the policy, the delivery row, the dedupe key, the device,  *)
(* the provider.  Two workers may be at it, as during a deployment.        *)
(*                                                                         *)
(* Redis may be away, and come back with or without its keys; the dedupe   *)
(* check then reads the delivery rows of the window.  Their number matters *)
(* up to two and is counted up to two.                                     *)
(***************************************************************************)
EXTENDS SignalEngine

CONSTANTS
    Workers,
    Endpoints,     \* how many are enabled; their user is the same
    PollLimit,     \* signals a pass takes, 20
    Attempts,      \* delivery_retry_attempts
    MaxMishaps     \* bound: crashes of a worker, outages of Redis, second rows of the user

ASSUME EndpointsAssumption ==
    {Endpoints, PollLimit, Attempts} \subseteq Nat \ {0} /\ MaxMishaps \in Nat

VARIABLES
    workers,   \* worker -> its place, the candidates left, what it has to commit
    redis,     \* Redis answers
    marks,     \* its keys notify:<dedupe_key>
    recent,    \* key -> its "sent" and "suppressed_duplicate" rows in the window
    preferences,  \* the user's quiet_hour_policies and enabled user_device_targets
    mishaps,
    guarded,   \* history: keys whose mark has kept every other worker back so far, while
               \* no answer of the provider was lost
    sends,     \* history: key -> what arrived at the provider while it is guarded
    answered   \* history: keys offered to the provider or suppressed by policy

deliveryVars == <<workers, redis, marks, recent, preferences, mishaps, sends, guarded, answered>>
pipelineVars == <<listed, signals, engines, locks, started, overlapped, workers, redis, marks, recent,
                  preferences, mishaps, sends, guarded, answered>>

-----------------------------------------------------------------------------
WorkerStates == [pc : {"idle", "offer", "send", "commit"}, queue : SUBSET SignalRows,
                 endpoint : 1..Endpoints, own : 0..2]
AtRest == [pc |-> "idle", queue |-> {}, endpoint |-> 1, own |-> 0]

\* At most one row of each kind; or a second device; or second quiet hours.
PreferenceStates == {"none", "one", "devices", "policies"}

UpToTwo(n) == IF n > 2 THEN 2 ELSE n

\* The candidate being dispatched: the newest one left.
Current(w) == CHOOSE row \in workers[w].queue : \A s \in workers[w].queue : s.run <= row.run
Key(w) == Current(w).key

Release(w) == locks' = {lock \in locks : lock[1] # w}

\* As if the loop over the endpoints went one too far.
NextEndpointAlways(w, own) ==
    workers' = [workers EXCEPT ![w].own = own, ![w].pc = "offer", ![w].endpoint = @ + 1]

\* On to the next endpoint, with the rows this transaction has written of the key.
NextEndpoint(w, own) ==
    workers' = [workers EXCEPT
        ![w].own = own,
        ![w].pc = IF workers[w].endpoint < Endpoints THEN "offer" ELSE "commit",
        ![w].endpoint = IF @ < Endpoints THEN @ + 1 ELSE @]

-----------------------------------------------------------------------------
(* process_signal_queue and dispatch_candidate. *)

Standing == {row \in signals : row.key # NoKey}
FillsPass(batch) ==
    Cardinality(batch) <= PollLimit /\ (batch # Standing => Cardinality(batch) = PollLimit)

\* By created_at, the time of the insertion: the order of the runs, unless these overlap,
\* and within a run the order of its writes.
Newer(a, b) == a.run > b.run \/ (a.run = b.run /\ b.ticker \in a.after)

\* As if the oldest were taken.
OldestFirst ==
    {batch \in SUBSET Standing :
        /\ FillsPass(batch)
        /\ \A row \in batch, left \in Standing \ batch : overlapped \/ ~Newer(row, left)}

NewestFirst ==
    {batch \in SUBSET Standing :
        /\ FillsPass(batch)
        /\ \A row \in batch, left \in Standing \ batch : overlapped \/ ~Newer(left, row)}

Poll(w) ==
    /\ workers[w].pc = "idle" /\ Standing # {}
    /\ \E batch \in NewestFirst :
          workers' = [workers EXCEPT ![w] = [AtRest EXCEPT !.pc = "offer", !.queue = batch]]
    /\ UNCHANGED <<signalVars, locks, redis, marks, recent, preferences, mishaps, sends, guarded,
                   answered>>

\* The quiet hours are read and the delivery row is flushed: it refers to the signal,
\* and waits for a run of the engine that is deleting it.
Flushes(w) ==
    /\ workers[w].pc = "offer" /\ preferences # "policies"
    /\ Current(w) \in signals
    /\ \A e \in Engines : Current(w) \notin engines[e].deleted
    /\ locks' = locks \cup {<<w, Current(w)>>}

\* decide_delivery_policy keeps a candidate back: at which hours and under which
\* preferences is the subject of AlertPolicy.
SuppressByPolicy(w) ==
    /\ Flushes(w)
    /\ NextEndpoint(w, workers[w].own)
    /\ answered' = answered \cup {Key(w)}
    /\ UNCHANGED <<signalVars, redis, marks, recent, preferences, mishaps, sends, guarded>>

\* check_and_mark without Redis: the delivery rows of the window, those of this
\* transaction included, for scalar_one_or_none.
RowsInWindow(w) == recent[Key(w)] + workers[w].own

SuppressDuplicate(w) ==
    /\ Flushes(w)
    /\ IF redis THEN Key(w) \in marks ELSE RowsInWindow(w) = 1
    /\ NextEndpoint(w, UpToTwo(workers[w].own + 1))
    /\ UNCHANGED <<signalVars, redis, marks, recent, preferences, mishaps, sends, guarded,
                   answered>>

\* As if it were SET without NX.
SetsAnyway(k) == redis
SetsMark(k) == redis /\ k \notin marks

\* SET NX: this worker and no other may send.
Mark(w) ==
    LET k == Key(w)
        others == {v \in Workers \ {w} : workers[v].pc = "send" /\ Key(v) = k}
    IN  /\ Flushes(w)
        /\ SetsMark(k)
        /\ marks' = marks \cup {k}
        /\ guarded' = IF others = {} THEN guarded \cup {k} ELSE guarded
        /\ workers' = [workers EXCEPT ![w].pc = "send"]
        /\ UNCHANGED <<signalVars, redis, recent, preferences, mishaps, sends, answered>>

\* The database knows of no row, and nothing is marked.
GoUnmarked(w) ==
    /\ Flushes(w)
    /\ ~redis /\ RowsInWindow(w) = 0
    /\ workers' = [workers EXCEPT ![w].pc = "send"]
    /\ UNCHANGED <<signalVars, redis, marks, recent, preferences, mishaps, sends, guarded,
                   answered>>

\* A POST to Pushover fails before it got there or after: tries are made until one
\* is answered.  arrived: how many got there; sent: the last of them was answered.
Deliveries == [arrived : 0..Attempts, sent : BOOLEAN]
Tried == {d \in Deliveries : d.sent => d.arrived > 0}
Lost(d) == IF d.sent THEN d.arrived > 1 ELSE d.arrived > 0

\* "sent" or "failed".  A try whose answer is lost is made again, guarded or not.
Send(w) ==
    /\ workers[w].pc = "send" /\ preferences # "devices"
    /\ \E d \in Tried :
          /\ NextEndpoint(w, IF d.sent THEN UpToTwo(workers[w].own + 1) ELSE workers[w].own)
          /\ guarded' = IF Lost(d) THEN guarded \ {Key(w)} ELSE guarded
          /\ sends' = [sends EXCEPT ![Key(w)] =
                          IF Key(w) \in guarded' THEN UpToTwo(@ + d.arrived) ELSE 0]
    /\ answered' = answered \cup {Key(w)}
    /\ UNCHANGED <<signalVars, locks, redis, marks, recent, preferences, mishaps>>

CommitDelivery(w) ==
    /\ workers[w].pc = "commit"
    /\ recent' = [recent EXCEPT ![Key(w)] = UpToTwo(@ + workers[w].own)]
    /\ LET rest == workers[w].queue \ {Current(w)}
       IN  workers' = [workers EXCEPT ![w] =
                          IF rest = {} THEN AtRest
                          ELSE [AtRest EXCEPT !.pc = "offer", !.queue = rest]]
    /\ Release(w)
    /\ UNCHANGED <<signalVars, redis, marks, preferences, mishaps, sends, guarded, answered>>

\* The transaction is rolled back and the process ends, to be started again.
StartOver(w) ==
    /\ workers' = [workers EXCEPT ![w] = AtRest]
    /\ Release(w)

\* The signal is gone, the user has second quiet hours or a second device, a second
\* row is in the window (scalar_one_or_none in _quiet_rule, in _primary_device and in
\* dedupe.py).
Raise(w) ==
    /\ \/ /\ workers[w].pc = "offer"
          /\ Current(w) \notin signals \/ preferences = "policies"
       \/ /\ workers[w].pc = "offer" /\ Current(w) \in signals
          /\ ~redis /\ RowsInWindow(w) >= 2
       \/ workers[w].pc = "send" /\ preferences = "devices"
    /\ StartOver(w)
    /\ UNCHANGED <<signalVars, redis, marks, recent, preferences, mishaps, sends, guarded,
                   answered>>

CrashWorker(w) ==
    /\ workers[w].pc # "idle" /\ mishaps < MaxMishaps
    /\ mishaps' = mishaps + 1
    /\ StartOver(w)
    /\ UNCHANGED <<signalVars, redis, marks, recent, preferences, sends, guarded, answered>>

-----------------------------------------------------------------------------
(* Its surroundings. *)

\* The TTL of a mark is far longer than the calls of a send.
Expires(k) == k \in marks /\ \A w \in Workers : workers[w].pc = "send" => Key(w) # k

ExpireMark(k) ==
    /\ Expires(k)
    /\ marks' = marks \ {k}
    /\ guarded' = guarded \ {k}
    /\ sends' = [sends EXCEPT ![k] = 0]
    /\ UNCHANGED <<signalVars, locks, workers, redis, recent, preferences, mishaps, answered>>

\* The oldest row of a key leaves the window.
AgeRow(k) ==
    /\ recent[k] > 0
    /\ recent' = [recent EXCEPT ![k] = @ - 1]
    /\ UNCHANGED <<signalVars, locks, workers, redis, marks, preferences, mishaps, sends, guarded,
                   answered>>

RedisFails ==
    /\ redis /\ mishaps < MaxMishaps
    /\ redis' = FALSE
    /\ mishaps' = mishaps + 1
    /\ guarded' = {}
    /\ sends' = [k \in Keys |-> 0]
    /\ \E kept \in {marks, {}} : marks' = kept
    /\ UNCHANGED <<signalVars, locks, workers, recent, preferences, answered>>

RedisReturns ==
    /\ ~redis
    /\ redis' = TRUE
    /\ UNCHANGED <<signalVars, locks, workers, marks, recent, preferences, mishaps, sends, guarded,
                   answered>>

\* PUT /notifications/preferences: the first one inserts the quiet hours, one with a
\* new device name inserts the device.
SavePreferences ==
    /\ \/ preferences = "none" /\ preferences' = "one" /\ mishaps' = mishaps
       \/ /\ preferences = "one" /\ mishaps < MaxMishaps
          /\ preferences' = "devices" /\ mishaps' = mishaps + 1
    /\ UNCHANGED <<signalVars, locks, workers, redis, marks, recent, sends, guarded, answered>>

\* Two of them at once both find no quiet hours, and insert theirs.
SaveTwice ==
    /\ preferences = "none" /\ mishaps < MaxMishaps
    /\ preferences' = "policies"
    /\ mishaps' = mishaps + 1
    /\ UNCHANGED <<signalVars, locks, workers, redis, marks, recent, sends, guarded, answered>>

-----------------------------------------------------------------------------
PipelineInit ==
    /\ SignalInit
    /\ workers = [w \in Workers |-> AtRest]
    /\ redis = TRUE
    /\ marks = {}
    /\ recent = [k \in Keys |-> 0]
    /\ preferences = "none"
    /\ mishaps = 0
    /\ sends = [k \in Keys |-> 0]
    /\ guarded = {}
    /\ answered = {}

Offer(w) == SuppressByPolicy(w) \/ SuppressDuplicate(w) \/ Mark(w) \/ GoUnmarked(w)
WorkerStep(w) == Poll(w) \/ Offer(w) \/ Send(w) \/ CommitDelivery(w) \/ Raise(w)
Aging == \E k \in Keys : ExpireMark(k) \/ AgeRow(k)

PipelineNext ==
    \/ SignalNext /\ UNCHANGED deliveryVars
    \/ \E w \in Workers : WorkerStep(w) \/ CrashWorker(w)
    \/ Aging \/ RedisFails \/ RedisReturns \/ SavePreferences \/ SaveTwice

EngineSteps == (\E e \in Engines : EngineStep(e)) /\ UNCHANGED deliveryVars

\* The transactions of the engine go on, a worker goes on and polls again, and the
\* time of a mark passes.
PipelineFairness ==
    /\ WF_pipelineVars(EngineSteps)
    /\ \A w \in Workers : WF_pipelineVars(WorkerStep(w))
    /\ \A k \in Keys : WF_pipelineVars(ExpireMark(k))
PipelineSpec == PipelineInit /\ [][PipelineNext]_pipelineVars /\ PipelineFairness

-----------------------------------------------------------------------------
(* Properties. *)

\* Every variable holds values of its kind.
PipelineTypeOK ==
    /\ SignalTypeOK
    /\ locks \subseteq Workers \X SignalRows
    /\ workers \in [Workers -> WorkerStates]
    /\ redis \in BOOLEAN
    /\ marks \subseteq Keys
    /\ recent \in [Keys -> 0..2]
    /\ preferences \in PreferenceStates
    /\ mishaps \in 0..MaxMishaps
    /\ sends \in [Keys -> 0..2]
    /\ guarded \subseteq Keys
    /\ answered \subseteq Keys

\* While Redis guards a key all through its window, and no answer of the provider is
\* lost, the user gets it once at most, whatever the workers, their crashes, their
\* tries, the endpoints and the signals under it.
AtMostOncePerWindow ==
    \A k \in Keys : sends[k] <= 1

\* What the provider is called for is a signal that still stands: the engine
\* cannot replace it between the flush of the delivery and its commit.
SendsAreCurrent ==
    \A w \in Workers : workers[w].pc \in {"send", "commit"} => Current(w) \in signals

\* A candidate that every pass takes: fewer than PollLimit others may be newer.
Offered(k) ==
    \E row \in Standing :
        /\ row.key = k
        /\ Cardinality({other \in Standing \ {row} : overlapped \/ Newer(other, row)}) < PollLimit

OneRowEach == preferences \in {"none", "one"}

\* A candidate that stays among the newest is offered to the provider or kept back by
\* policy in the end, if the user has one row of quiet hours and one device at most and
\* Redis comes back: crashes, outages and a full window only delay it.  (Without Redis
\* a row "suppressed_duplicate" is reason enough for the next one, whether the key was
\* ever sent or not.)
AlertsAnswered ==
    []OneRowEach /\ <>[]redis => \A k \in Keys : <>[]Offered(k) => <>(k \in answered)
=============================================================================
