----------------------------- MODULE AlertPolicy -----------------------------
(***************************************************************************)
(* What becomes of a market's scores: the signal engine's alert policy     *)
(* (signal_engine/policies/rules.py), which looks at the hour in UTC when  *)
(* it classifies a signal, and the notifier's delivery policy              *)
(* (notifier/policies.py), which looks at the user's preferences and the   *)
(* hour in the user's zone each time it offers the signal again.  In       *)
(* between hours pass and preferences change.                              *)
(*                                                                         *)
(* Notifier leaves the outcome of both policies open; this module says     *)
(* which it is.  Thresholds are percentages, scores hundredths of one.     *)
(***************************************************************************)
EXTENDS SignalScores

CONSTANTS
    Hours,                       \* hours of a day
    OvernightStart, OvernightEnd,
    DaytimeConfidence,           \* daytime_confidence_threshold and so on
    OvernightConfidence,
    OvernightRisk,
    MinLiquidity,
    MaxSpread,
    CriticalPriority,
    RiskWarning,
    Observed,                    \* what the engine may find of a market
    Rules                        \* what a user may prefer

ASSUME HoursAssumption == Hours \in Nat \ {0} /\ {OvernightStart, OvernightEnd} \subseteq 0..Hours
ASSUME ThresholdsAssumption ==
    {DaytimeConfidence, OvernightConfidence, OvernightRisk, MinLiquidity, MaxSpread,
     CriticalPriority, RiskWarning} \subseteq 0..100
ASSUME SituationsAssumption == Observed \subseteq Situations
\* What the sums over a market's lists come to.
ASSUME SumsAssumption ==
    \A s \in Observed :
        /\ {Volatility(s), Disagreement(s), Recency(s)} \subseteq 0..100
        /\ Delta(s) \in Int

\* Quiet hours of a user: from start up to end in the zone; critical and daytime: what
\* it allows in them and out of them.
Preferences == [enabled : BOOLEAN, start : 0..(Hours - 1), end : 0..(Hours - 1),
                zone : 0..(Hours - 1), critical : BOOLEAN, daytime : BOOLEAN]
ASSUME RulesAssumption == Rules \subseteq Preferences

VARIABLES
    hour,       \* in UTC
    candidate,  \* the notification candidate of the signal that stands, if any
    rule        \* the user's quiet hours

policyVars == <<hour, candidate, rule>>

-----------------------------------------------------------------------------
(* signal_engine.policies.rules *)

HoursOfDay == 0..(Hours - 1)

\* What the policy reads of a market: its scores and some of its figures.
ScoresOf(s) ==
    [confidence |-> Confidence(s), risk |-> RiskPenalty(s), priority |-> OvernightPriority(s),
     liquid |-> Depth(s) >= MinLiquidity, narrow |-> Spread(s) <= MaxSpread,
     sourced |-> SourceCount(s) >= 1 \/ KalshiSupport(s) >= 9000,
     directed |-> Directed(s), computed |-> Computed(s), above |-> Delta(s) > 0,
     twosided |-> Spread(s) >= 0]
Scores == {ScoresOf(s) : s \in Observed}

IsOvernight(h) == h >= OvernightStart \/ h < OvernightEnd

\* The support of one external source, or of Kalshi's own figures alone.
OvernightGate(s) ==
    /\ s.confidence >= 100 * OvernightConfidence
    /\ s.liquid /\ s.narrow
    /\ s.risk <= 100 * OvernightRisk
    /\ s.sourced
DaytimeGate(s) == s.confidence >= 100 * DaytimeConfidence /\ s.risk <= 3500

\* As if confidence alone made a signal critical.
ClassBySureness(s, overnight) ==
    IF s.confidence >= 100 * RiskWarning THEN "critical_opportunity"
    ELSE IF DaytimeGate(s) THEN "daytime_alert" ELSE "digest_only"

\* Overnight a signal that fails the gate of the night may still pass that of the
\* day.  (duplicate_found and cooldown_active are false in every call: the key that
\* recent alerts are looked up under is never written.)
Classification(s, overnight) ==
    IF overnight /\ OvernightGate(s)
    THEN IF s.priority >= 100 * CriticalPriority
         THEN IF s.directed THEN "critical_opportunity" ELSE "critical_risk_warning"
         ELSE IF s.confidence >= 100 * RiskWarning THEN "critical_risk_warning" ELSE "digest_only"
    ELSE IF DaytimeGate(s) THEN "daytime_alert"
    ELSE IF s.confidence < 4500 THEN "no_alert" ELSE "digest_only"

ShouldAlert(s, overnight) == (overnight /\ OvernightGate(s)) \/ DaytimeGate(s)

Classes == {"critical_opportunity", "critical_risk_warning", "daytime_alert",
            "digest_only", "no_alert"}

\* gated: the scores passed the gate of the night, whenever it was.  sure: the
\* confidence that makes an emergency.  The rest is what the scores were made of.
Candidate(s, overnight) ==
    [class |-> Classification(s, overnight), overnight |-> overnight,
     sure |-> s.confidence >= 9500, gated |-> OvernightGate(s),
     computed |-> s.computed, above |-> s.above, twosided |-> s.twosided]
Candidates ==
    [class : Classes, overnight : BOOLEAN, sure : BOOLEAN, gated : BOOLEAN,
     computed : BOOLEAN, above : BOOLEAN, twosided : BOOLEAN]
NoCandidate ==
    [class |-> "no_alert", overnight |-> FALSE, sure |-> FALSE, gated |-> FALSE,
     computed |-> FALSE, above |-> FALSE, twosided |-> FALSE]

Outcome(s, overnight) ==
    IF ShouldAlert(s, overnight) THEN Candidate(s, overnight) ELSE NoCandidate
Outcomes == [overnight \in BOOLEAN |-> {Outcome(s, overnight) : s \in Scores}]

-----------------------------------------------------------------------------
(* notifier.policies *)

\* As if an interval over midnight were none.
WithinDay(h, r) == r.start <= h /\ h < r.end

\* start = end: no quiet hours.  Otherwise from start up to end, over midnight if
\* that is how they lie.
WithinQuietHours(h, r) ==
    IF r.start < r.end THEN r.start <= h /\ h < r.end
    ELSE r.start # r.end /\ (h >= r.start \/ h < r.end)

LocalHour(r) == (hour + r.zone) % Hours
InQuietHours(r) == r.enabled /\ WithinQuietHours(LocalHour(r), r)

IsCritical(c) == c.class \in {"critical_opportunity", "critical_risk_warning"}

\* As if nothing went out in quiet hours.
SendsByDay(c, r) == IsCritical(c) /\ ~InQuietHours(r)

\* decide_delivery_policy: quiet hours let a critical alert of the night through, if
\* the user allows it; digests and daytime alerts that are not wanted never go.
ShouldSend(c, r) ==
    /\ IsCritical(c) \/ (c.class = "daytime_alert" /\ r.daytime)
    /\ InQuietHours(r) => c.overnight /\ IsCritical(c) /\ r.critical

\* Emergency: repeated until it is acknowledged.
Priority(c) ==
    IF IsCritical(c) THEN IF c.overnight /\ c.sure THEN 2 ELSE 1 ELSE 0

-----------------------------------------------------------------------------
\* A run of the engine replaces the signal, with a candidate or without one.
Classify ==
    /\ candidate' \in Outcomes[IsOvernight(hour)]
    /\ UNCHANGED <<hour, rule>>

HourPasses ==
    /\ hour' = (hour + 1) % Hours
    /\ UNCHANGED <<candidate, rule>>

\* PUT /notifications/preferences, or quiet_hours_enabled of the endpoint.
PutPreferences ==
    /\ rule' \in Rules
    /\ UNCHANGED <<hour, candidate>>

PolicyInit ==
    /\ hour = 0
    /\ candidate = NoCandidate
    /\ rule \in Rules

PolicyNext == Classify \/ HourPasses \/ PutPreferences

PolicySpec == PolicyInit /\ [][PolicyNext]_policyVars

-----------------------------------------------------------------------------
(* Properties. *)

\* Every variable holds values of its kind.
PolicyTypeOK ==
    /\ hour \in HoursOfDay
    /\ candidate \in Candidates
    /\ rule \in Rules

\* What is sent in the user's quiet hours, or as an emergency at any hour, passed
\* the strict gate of the night in the engine: the two hours are in different zones
\* and hours apart, and an overnight signal may have passed the gate of the day only.
WakesOnlyForGated ==
    ShouldSend(candidate, rule) /\ (InQuietHours(rule) \/ Priority(candidate) = 2) =>
        candidate.gated

\* A candidate that the engine called critical goes out at whatever hour, unless the
\* user has quiet hours at the time and excluded it from the exception.
CriticalGoesOut ==
    IsCritical(candidate) => ShouldSend(candidate, rule) \/ (InQuietHours(rule) /\ ~rule.critical)

\* Quiet hours are the hours met on the way from start to end, around the clock.
QuietHoursGoRound ==
    LET r == rule
        length == (r.end + Hours - r.start) % Hours
    IN  r.enabled =>
            (InQuietHours(r) <=> \E n \in 0..(Hours - 1) : n < length /\ LocalHour(r) = (r.start + n) % Hours)

\* An alert that rests on the exchange's figures alone is of a market with one side of
\* the book missing, whose spread counts below zero (features/kalshi.py), and came
\* through the gate of the day.
NeedsSources ==
    candidate.class # "no_alert" /\ ~candidate.computed =>
        ~candidate.twosided /\ ~candidate.gated

\* A critical opportunity of a market with both sides of the book lies below the
\* consensus of the external sources, whichever way the signal points.
OpportunityAboveMarket ==
    candidate.class = "critical_opportunity" /\ candidate.twosided => candidate.above
=============================================================================
