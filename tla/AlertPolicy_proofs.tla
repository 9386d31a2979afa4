-------------------------- MODULE AlertPolicy_proofs --------------------------
(***************************************************************************)
(* The alert policy and the delivery policy for any thresholds, hours and  *)
(* preferences, and what the weights of the scores put out of reach for    *)
(* any figures of a market.                                                *)
(***************************************************************************)
EXTENDS AlertPolicy, SequenceTheorems, TLAPS

-----------------------------------------------------------------------------
(* The two policies. *)

\* A critical candidate is one of the night that passed its gate.
CriticalIsGated == IsCritical(candidate) => candidate.gated /\ candidate.overnight

PolicyInv == PolicyTypeOK /\ CriticalIsGated

\* The three Boolean figures of the scores.
LEMMA ScoresType ==
    ASSUME NEW s \in Scores
    PROVE  s.computed \in BOOLEAN /\ s.above \in BOOLEAN /\ s.twosided \in BOOLEAN
<1>1. PICK m \in Observed : s = ScoresOf(m)
    BY DEF Scores
<1>2. s.computed = Computed(m) /\ s.above = (Delta(m) > 0) /\ s.twosided = (Spread(m) >= 0)
    BY <1>1, Zenon DEF ScoresOf
<1>3. s.computed \in BOOLEAN
    BY <1>2, Zenon DEF Computed
<1>4. s.above \in BOOLEAN
    BY <1>2
<1>5. s.twosided \in BOOLEAN
    BY <1>2
<1> QED
    BY <1>3, <1>4, <1>5

\* A critical class is given at night only, and past the strict gate.
LEMMA ClassificationType ==
    ASSUME NEW s \in Scores, NEW overnight \in BOOLEAN
    PROVE  /\ Classification(s, overnight) \in Classes
           /\ Classification(s, overnight) \in {"critical_opportunity", "critical_risk_warning"}
                => overnight /\ OvernightGate(s)
BY DEF Classification, Classes

\* What a candidate says of its scores.
LEMMA CandidateFields ==
    ASSUME NEW s \in Scores, NEW overnight \in BOOLEAN
    PROVE  /\ Candidate(s, overnight).class = Classification(s, overnight)
           /\ Candidate(s, overnight).overnight = overnight
           /\ Candidate(s, overnight).gated <=> OvernightGate(s)
           /\ Candidate(s, overnight).computed = s.computed
           /\ Candidate(s, overnight).above = s.above
           /\ Candidate(s, overnight).twosided = s.twosided
BY DEF Candidate

\* A candidate is of its kind.
LEMMA CandidateType ==
    ASSUME NEW s \in Scores, NEW overnight \in BOOLEAN
    PROVE  Candidate(s, overnight) \in Candidates
<1>1. (s.confidence >= 9500) \in BOOLEAN
    OBVIOUS
<1>2. OvernightGate(s) \in BOOLEAN
    BY Zenon DEF OvernightGate
<1>3. Classification(s, overnight) \in Classes
    BY ClassificationType
<1>4. s.computed \in BOOLEAN /\ s.above \in BOOLEAN /\ s.twosided \in BOOLEAN
    BY ScoresType
<1> QED
    BY <1>1, <1>2, <1>3, <1>4 DEF Candidate, Candidates

\* A signal without a candidate comes with none of what a candidate has.
LEMMA NoCandidateType ==
    /\ NoCandidate \in Candidates
    /\ NoCandidate.class = "no_alert" /\ ~NoCandidate.gated /\ ~NoCandidate.twosided
BY DEF NoCandidate, Candidates, Classes

\* The invariant holds at the start.
LEMMA InitPolicyInv == PolicyInit => PolicyInv
<1> SUFFICES ASSUME PolicyInit PROVE PolicyInv
    OBVIOUS
<1>1. hour \in HoursOfDay
    BY HoursAssumption DEF PolicyInit, HoursOfDay
<1>2. candidate = NoCandidate /\ rule \in Rules
    BY DEF PolicyInit
<1> QED
    BY <1>1, <1>2, NoCandidateType DEF PolicyInv, PolicyTypeOK, CriticalIsGated, IsCritical

\* What a run of the engine leaves is a candidate of some scores, or none.
LEMMA ClassifiedCandidate ==
    ASSUME Classify
    PROVE  \/ candidate' = NoCandidate
           \/ \E s \in Scores, overnight \in BOOLEAN :
                 ShouldAlert(s, overnight) /\ candidate' = Candidate(s, overnight)
<1>1. IsOvernight(hour) \in BOOLEAN
    BY Zenon DEF IsOvernight
<1>2. candidate' \in {Outcome(s, IsOvernight(hour)) : s \in Scores}
    BY <1>1, Zenon DEF Classify, Outcomes
<1>3. PICK s \in Scores : candidate' = Outcome(s, IsOvernight(hour))
    BY <1>2
<1> QED
    BY <1>1, <1>3 DEF Outcome

\* The invariant is inductive.
LEMMA StepPolicyInv ==
    ASSUME PolicyInv, [PolicyNext]_policyVars
    PROVE  PolicyInv'
<1>1. CASE Classify
  <2>1. candidate' \in Candidates /\ CriticalIsGated'
    <3>1. CASE candidate' = NoCandidate
        BY <3>1, NoCandidateType DEF CriticalIsGated, IsCritical
    <3>2. ASSUME NEW s \in Scores, NEW overnight \in BOOLEAN,
                 candidate' = Candidate(s, overnight)
          PROVE  candidate' \in Candidates /\ CriticalIsGated'
        BY <3>2, CandidateType, CandidateFields, ClassificationType
           DEF CriticalIsGated, IsCritical
    <3> QED
        BY <1>1, <3>1, <3>2, ClassifiedCandidate
  <2> QED
    BY <1>1, <2>1 DEF Classify, PolicyInv, PolicyTypeOK
<1>2. CASE HourPasses
  <2>1. hour' \in HoursOfDay
    BY <1>2, HoursAssumption DEF HourPasses, PolicyInv, PolicyTypeOK, HoursOfDay
  <2> QED
    BY <1>2, <2>1 DEF HourPasses, PolicyInv, PolicyTypeOK, CriticalIsGated, IsCritical
<1>3. CASE PutPreferences \/ UNCHANGED policyVars
    BY <1>3 DEF PutPreferences, policyVars, PolicyInv, PolicyTypeOK, CriticalIsGated, IsCritical
<1> QED
    BY <1>1, <1>2, <1>3 DEF PolicyNext

\* The hour, the candidate and the preferences keep their types, and no candidate is
\* critical that did not pass the gate of the night at night.
THEOREM PolicyInvariance == PolicySpec => []PolicyInv
BY InitPolicyInv, StepPolicyInv, PTL DEF PolicySpec

\* What wakes the user, or repeats until acknowledged, passed the gate of the night.
THEOREM OnlyGatedWake == PolicySpec => []WakesOnlyForGated
<1>1. PolicyInv => WakesOnlyForGated
  <2> SUFFICES ASSUME PolicyInv, ShouldSend(candidate, rule),
                      InQuietHours(rule) \/ Priority(candidate) = 2
               PROVE  candidate.gated
    BY DEF WakesOnlyForGated
  <2>1. IsCritical(candidate)
    BY DEF ShouldSend, Priority
  <2> QED
    BY <2>1 DEF PolicyInv, CriticalIsGated
<1> QED
    BY <1>1, PolicyInvariance, PTL

\* A critical candidate goes out, unless the user keeps its quiet hours from it.
THEOREM CriticalsGoOut == PolicySpec => []CriticalGoesOut
<1>1. PolicyInv => CriticalGoesOut
    BY DEF PolicyInv, CriticalIsGated, CriticalGoesOut, ShouldSend
<1> QED
    BY <1>1, PolicyInvariance, PTL

-----------------------------------------------------------------------------
(* The clock. *)

\* Arithmetic around the clock.
LEMMA ClockSum ==
    ASSUME NEW H \in Nat \ {0}, NEW a \in 0..(H - 1), NEW b \in 0..(H - 1)
    PROVE  (a + b) % H = IF a + b < H THEN a + b ELSE a + b - H
OBVIOUS

\* The hours from one to another, round the clock.
LEMMA ClockDifference ==
    ASSUME NEW H \in Nat \ {0}, NEW a \in 0..(H - 1), NEW b \in 0..(H - 1)
    PROVE  (a + H - b) % H = IF a < b THEN a + H - b ELSE a - b
OBVIOUS

\* Quiet hours are those met on the way from start to end, whichever of the two is
\* the larger, in any zone and for a day of any length.
THEOREM QuietHoursClose == PolicySpec => []QuietHoursGoRound
<1>1. PolicyInv => QuietHoursGoRound
  <2> SUFFICES ASSUME PolicyInv, rule.enabled
               PROVE  LET length == (rule.end + Hours - rule.start) % Hours
                      IN  InQuietHours(rule) <=>
                             \E n \in 0..(Hours - 1) :
                                n < length /\ LocalHour(rule) = (rule.start + n) % Hours
    BY DEF QuietHoursGoRound
  <2>1. Hours \in Nat \ {0} /\ hour \in 0..(Hours - 1) /\ rule \in Preferences
    <3>1. hour \in HoursOfDay /\ rule \in Rules
        BY DEF PolicyInv, PolicyTypeOK
    <3> QED
        BY <3>1, HoursAssumption, RulesAssumption DEF HoursOfDay
  <2> DEFINE first == rule.start  last == rule.end  here == LocalHour(rule)
             length == (last + Hours - first) % Hours
  <2>2. first \in 0..(Hours - 1) /\ last \in 0..(Hours - 1) /\ rule.zone \in 0..(Hours - 1)
    BY <2>1 DEF Preferences
  <2>3. here \in 0..(Hours - 1)
    <3>1. here = IF hour + rule.zone < Hours THEN hour + rule.zone ELSE hour + rule.zone - Hours
        BY <2>1, <2>2, ClockSum DEF LocalHour
    <3> QED
        BY <2>1, <2>2, <3>1
  <2>4. length = IF last < first THEN last + Hours - first ELSE last - first
    BY <2>1, <2>2, ClockDifference
  <2>5. \A n \in 0..(Hours - 1) :
           (first + n) % Hours = IF first + n < Hours THEN first + n ELSE first + n - Hours
    BY <2>1, <2>2, ClockSum
  <2>6. InQuietHours(rule) <=> IF first < last THEN first <= here /\ here < last
                               ELSE first # last /\ (here >= first \/ here < last)
    BY DEF InQuietHours, WithinQuietHours
  <2> HIDE DEF first, last, here, length
  <2>7. ASSUME InQuietHours(rule)
        PROVE  \E n \in 0..(Hours - 1) : n < length /\ here = (first + n) % Hours
    <3> DEFINE n == IF here >= first THEN here - first ELSE here + Hours - first
    <3>1. n \in 0..(Hours - 1) /\ n < length
        BY <2>1, <2>2, <2>3, <2>4, <2>6, <2>7
    <3>2. here = IF first + n < Hours THEN first + n ELSE first + n - Hours
        BY <2>1, <2>2, <2>3
    <3> QED
        BY <2>5, <3>1, <3>2
  <2>8. ASSUME NEW n \in 0..(Hours - 1), n < length, here = (first + n) % Hours
        PROVE  InQuietHours(rule)
    <3>1. here = IF first + n < Hours THEN first + n ELSE first + n - Hours
        BY <2>5, <2>8
    <3> QED
        BY <2>1, <2>2, <2>3, <2>4, <2>6, <2>8, <3>1
  <2> QED
    BY <2>7, <2>8 DEF first, last, here, length
<1> QED
    BY <1>1, PolicyInvariance, PTL
-----------------------------------------------------------------------------
(* The scores. *)

\* A score is between 0 and 1, and no larger than the sum it is clamped from.
LEMMA ClampedType ==
    \A x : x \in Int => Clamped(x) \in 0..10000
BY DEF Clamped

\* A missing price counts as 50.
LEMMA MiddleType ==
    \A p \in 0..99 : OrMiddle(p) \in 1..99 /\ (p # 0 => OrMiddle(p) = p) /\ (p = 0 => OrMiddle(p) = 50)
BY DEF OrMiddle

\* The figures of the exchange are numbers, and bounded where a cap is applied.
LEMMA KalshiFigures ==
    ASSUME NEW m \in Situations
    PROVE  /\ Spread(m) \in Int /\ Spread(m) >= -49
           /\ Depth(m) \in 0..100
           /\ Move(m) \in Nat /\ Momentum(m) \in Int /\ Imbalance(m) \in Int
           /\ Activity(m) \in Int /\ Resolution(m) \in Int
<1>1. /\ m.prices \in Seq(0..99)
      /\ m.liquidity \in Nat /\ m.volume \in Nat /\ m.bids \in Nat /\ m.asks \in Nat
      /\ m.events \in Nat /\ m.hours \in Nat \cup {-1}
    BY DEF Situations
<1>2. Spread(m) \in Int /\ Spread(m) >= -49
  <2>1. m.bid \in 0..99 /\ m.ask \in 0..99 /\ (m.bid = 0 \/ m.ask = 0 \/ m.bid <= m.ask)
    BY DEF Situations
  <2> QED
    BY <2>1, MiddleType, SMTT(30) DEF Spread
<1>3. Depth(m) \in 0..100
  <2>1. (m.liquidity + m.volume) \div 250 \in Nat
    BY <1>1
  <2> QED
    BY <2>1 DEF Depth, Lesser
<1>4. Change(m) \in Int
  <2> DEFINE prices == m.prices
  <2>1. prices \in Seq(0..99)
    BY <1>1
  <2>2. prices # <<>> =>
           OrMiddle(prices[Len(prices)]) \in 1..99 /\ OrMiddle(prices[1]) \in 1..99
    <3> SUFFICES ASSUME prices # <<>>
                 PROVE  OrMiddle(prices[Len(prices)]) \in 1..99 /\ OrMiddle(prices[1]) \in 1..99
        OBVIOUS
    <3> HIDE DEF prices
    <3>1. Len(prices) \in 1..Len(prices) /\ 1 \in 1..Len(prices)
        BY <2>1, EmptySeq
    <3>2. prices[Len(prices)] \in 0..99 /\ prices[1] \in 0..99
        BY <2>1, <3>1, ElementOfSeq
    <3> QED
        BY <3>2, MiddleType
  <2>3. CASE prices = <<>>
    BY <2>3 DEF Change
  <2>4. CASE prices # <<>>
    <3> DEFINE newest == OrMiddle(prices[Len(prices)])  oldest == OrMiddle(prices[1])
    <3>1. Change(m) = newest - oldest
        BY <2>4 DEF Change
    <3>2. newest \in 1..99 /\ oldest \in 1..99
        BY <2>2, <2>4
    <3> HIDE DEF newest, oldest
    <3> QED
        BY <3>1, <3>2
  <2> QED
    BY <2>3, <2>4
<1>5. Move(m) \in Nat
    BY <1>4 DEF Move, Magnitude
<1>6. Momentum(m) \in Int
    BY <1>4, <1>5 DEF Momentum
<1>7. Imbalance(m) \in Int
    BY <1>1 DEF Imbalance
<1>8. Activity(m) \in Int
    BY <1>1 DEF Activity, Lesser
<1>9. Resolution(m) \in Int
    BY <1>1 DEF Resolution, Lesser
<1> QED
    BY <1>2, <1>3, <1>5, <1>6, <1>7, <1>8, <1>9

\* The two weighted sums stay within their range, whatever the book.
LEMMA KalshiScores ==
    ASSUME NEW m \in Situations, Volatility(m) \in 0..100
    PROVE  KalshiSupport(m) \in 0..10000 /\ RiskPenalty(m) \in 0..10000
<1>1. KalshiSupport(m) \in 0..10000
  <2> DEFINE moved == (2520 * Move(m)) \div 100
             swing == Magnitude(Momentum(m))
             tilt == Magnitude(Imbalance(m))
  <2>1. swing \in Int /\ tilt \in Int
    BY KalshiFigures DEF Magnitude
  <2>2. moved \in Int
    BY KalshiFigures
  <2> DEFINE sum == 2500 + 22 * swing + moved + 18 * tilt + 14 * Activity(m) + 7 * Depth(m)
  <2>3. KalshiSupport(m) = Clamped(sum)
    BY DEF KalshiSupport
  <2> HIDE DEF moved, swing, tilt
  <2>4. sum \in Int
    BY <2>1, <2>2, KalshiFigures
  <2> HIDE DEF sum
  <2> QED
    BY <2>3, <2>4, ClampedType
<1>2. RiskPenalty(m) \in 0..10000
  <2> DEFINE sum == 170 * Spread(m) + 25 * (100 - Depth(m)) + 10 * Volatility(m) + 8 * Resolution(m)
  <2>1. sum \in Int
    BY KalshiFigures
  <2>2. RiskPenalty(m) = Clamped(sum)
    BY DEF RiskPenalty
  <2> HIDE DEF sum
  <2> QED
    BY <2>1, <2>2, ClampedType
<1> QED
    BY <1>1, <1>2

\* Without features of external observations the confidence stays below 62 percent
\* in a market with both sides of the book, and below 79 in any.
LEMMA KalshiAlone ==
    ASSUME NEW m \in Situations, ~Computed(m), Volatility(m) \in 0..100
    PROVE  /\ Confidence(m) \in 0..7880
           /\ Spread(m) >= 0 => Confidence(m) <= 6165
<1>1. Delta(m) = 0 /\ Disagreement(m) = 0 /\ Recency(m) = 0 /\ Support(m) = 0
  <2>1. Delta(m) = 0
    BY Zenon DEF Delta
  <2>2. Disagreement(m) = 0
    BY Zenon DEF Disagreement
  <2>3. Recency(m) = 0
    BY Zenon DEF Recency
  <2>4. Support(m) = 0
    BY DEF Support
  <2> QED
    BY <2>1, <2>2, <2>3, <2>4
<1>2. ExternalSupport(m) = 1500
    BY <1>1 DEF ExternalSupport, Clamped, Lesser, Magnitude
<1>3. Catalyst(m) = 0
    BY <1>1 DEF Catalyst, CatalystPresence, Clamped
<1> DEFINE narrow == Lesser(100, 5 * Spread(m))
           kalshi == KalshiSupport(m)  risk == RiskPenalty(m)
           weighed == 42 * kalshi + 31 * 1500 + 12 * 0 - 20 * risk
<1>4. narrow \in Int /\ narrow >= -245 /\ (Spread(m) >= 0 => narrow >= 0)
    BY KalshiFigures DEF Lesser
<1>5. weighed \in Int /\ weighed <= 466500
  <2>1. kalshi \in 0..10000 /\ risk \in 0..10000
    BY KalshiScores
  <2> HIDE DEF kalshi, risk
  <2> QED
    BY <2>1
<1>6. Confidence(m) = Clamped(weighed \div 100 + 8 * Depth(m) + 7 * (100 - narrow))
    BY <1>2, <1>3 DEF Confidence
<1>7. Depth(m) \in 0..100
    BY KalshiFigures
<1> HIDE DEF narrow, weighed
<1>8. weighed \div 100 \in Int /\ weighed \div 100 <= 4665
    BY <1>5
<1> DEFINE sum == weighed \div 100 + 8 * Depth(m) + 7 * (100 - narrow)
<1>9. sum \in Int /\ sum <= 7880 /\ (Spread(m) >= 0 => sum <= 6165)
    BY <1>4, <1>7, <1>8
<1> HIDE DEF sum
<1>10. Confidence(m) = Clamped(sum)
    BY <1>6 DEF sum
<1> QED
    BY <1>9, <1>10 DEF Clamped

\* A consensus below the price leaves the external support below 67 percent, and the
\* catalysts stay below 90.
LEMMA ConsensusBelow ==
    \A m \in Situations :
        /\ Computed(m) /\ Delta(m) \in Int /\ Delta(m) <= 0
        /\ Disagreement(m) \in 0..100 /\ Recency(m) \in 0..100
        => ExternalSupport(m) \in 0..6700 /\ Catalyst(m) \in 0..9000
<1>1. ASSUME NEW m \in Situations, Computed(m), Delta(m) \in Int, Delta(m) <= 0,
             Disagreement(m) \in 0..100, Recency(m) \in 0..100
      PROVE  ExternalSupport(m) \in 0..6700 /\ Catalyst(m) \in 0..9000
  <2> DEFINE below == -Delta(m)  disagreement == Disagreement(m)  recency == Recency(m)
             support == Support(m)
             consensus == 5000 + 100 * Delta(m) + 10 * recency - 15 * disagreement
  <2>1. below \in Nat /\ Magnitude(Delta(m)) = below
    BY <1>1 DEF Magnitude
  <2>2. support = Clamped(consensus)
    BY <1>1 DEF Support
  <2>4. disagreement \in 0..100 /\ recency \in 0..100 /\ Delta(m) \in Int
    BY <1>1
  <2> HIDE DEF support, disagreement, recency
  <2>3. consensus \in Int /\ consensus <= 6000 - 100 * below
    <3> DEFINE delta == Delta(m)
    <3>1. delta \in Int /\ below = -delta
      BY <2>4
    <3> HIDE DEF delta
    <3>2. 5000 + 100 * delta + 10 * recency - 15 * disagreement <= 6000 + 100 * delta
      BY <2>4, <3>1
    <3> QED BY <2>4, <3>1, <3>2 DEF delta
  <2> HIDE DEF consensus
  <2>5. support \in 0..10000
    BY <2>2, <2>3 DEF Clamped
  <2> DEFINE apart == Lesser(100, 5 * below)
             weighed == (55 * support) \div 100
             sum == weighed + 20 * apart + 15 * (100 - disagreement) + 10 * recency
  <2>6. ExternalSupport(m) = Clamped(sum)
    BY <2>1 DEF ExternalSupport, support, disagreement, recency
  <2> HIDE DEF below
  <2>7. apart \in 0..100 /\ apart <= 5 * below
    BY <2>1 DEF Lesser
  <2>8. support = 0 \/ support <= 6000 - 100 * below
    BY <2>1, <2>2, <2>3 DEF Clamped
  <2> HIDE DEF apart
  <2>9. weighed \in Nat
    BY <2>5
  <2>10. weighed = 0 \/ weighed <= 3300 - 55 * below
    BY <2>1, <2>5, <2>8
  <2> HIDE DEF weighed
  <2>11. sum \in Nat
    BY <2>4, <2>7, <2>9
  <2>12. sum <= 6700
    BY <2>1, <2>4, <2>7, <2>9, <2>10
  <2> HIDE DEF sum
  <2>13. ExternalSupport(m) \in 0..6700
    BY <2>6, <2>11, <2>12 DEF Clamped
  <2>14. Catalyst(m) \in 0..9000
    BY <1>1 DEF Catalyst, Clamped
  <2> QED
    BY <2>13, <2>14
<1> QED
    BY <1>1

\* Then the priority stays below 82 percent, if both sides of the book are there.
LEMMA PriorityBelow ==
    \A m \in Situations :
        /\ Computed(m) /\ Delta(m) \in Int /\ Delta(m) <= 0
        /\ Volatility(m) \in 0..100 /\ Disagreement(m) \in 0..100 /\ Recency(m) \in 0..100
        /\ Spread(m) >= 0
        => OvernightPriority(m) \in 0..8154
<1>1. ASSUME NEW m \in Situations, Computed(m), Delta(m) \in Int, Delta(m) <= 0,
             Volatility(m) \in 0..100, Disagreement(m) \in 0..100, Recency(m) \in 0..100,
             Spread(m) >= 0
      PROVE  OvernightPriority(m) \in 0..8154
  <2> DEFINE kalshi == KalshiSupport(m)  external == ExternalSupport(m)
             catalyst == Catalyst(m)  risk == RiskPenalty(m)
             depth == Depth(m)  confidence == Confidence(m)
             narrow == Lesser(100, 5 * Spread(m))
             weighed == 42 * kalshi + 31 * external + 12 * catalyst - 20 * risk
             sum == weighed \div 100 + 8 * depth + 7 * (100 - narrow)
             total == 50 * confidence + 18 * kalshi + 18 * external + 8 * catalyst - 14 * risk
             rounded == total \div 100
  <2>1. kalshi \in 0..10000 /\ risk \in 0..10000
    BY <1>1, KalshiScores
  <2>2. external \in 0..6700 /\ catalyst \in 0..9000
    BY <1>1, ConsensusBelow
  <2>3. depth \in 0..100
    BY <1>1, KalshiFigures
  <2>4. narrow \in 0..100
    BY <1>1, KalshiFigures DEF Lesser
  <2>5. confidence = Clamped(sum)
    BY DEF Confidence
  <2>6. OvernightPriority(m) = Clamped(rounded)
    BY DEF OvernightPriority
  <2> HIDE DEF kalshi, external, catalyst, risk, narrow, depth, confidence
  <2>7. weighed \in Int
    BY <2>1, <2>2
  <2>8. weighed <= 735700
    BY <2>1, <2>2
  <2> HIDE DEF weighed
  <2>9. sum \in Int
    BY <2>3, <2>4, <2>7
  <2>10. sum <= 8857
    BY <2>3, <2>4, <2>7, <2>8
  <2> HIDE DEF sum
  <2>11. confidence \in 0..8857
    BY <2>5, <2>9, <2>10 DEF Clamped
  <2>12. total \in Int
    BY <2>1, <2>2, <2>11
  <2>13. total <= 815450
    <3>1. 50 * confidence \in Int /\ 50 * confidence <= 442850
        BY <2>11
    <3>2. 18 * kalshi - 14 * risk \in Int /\ 18 * kalshi - 14 * risk <= 180000
        BY <2>1
    <3>3. 18 * external + 8 * catalyst \in Int /\ 18 * external + 8 * catalyst <= 192600
        BY <2>2
    <3> QED
        BY <2>1, <2>2, <2>11, <3>1, <3>2, <3>3
  <2> HIDE DEF total
  <2>14. rounded \in Int /\ rounded <= 8154
    BY <2>12, <2>13
  <2> HIDE DEF rounded
  <2> QED
    BY <2>6, <2>14 DEF Clamped
<1> QED
    BY <1>1

-----------------------------------------------------------------------------
(* The scores and the policies. *)

\* A candidate stems from the scores of a market that has been observed.
FromScores ==
    \/ candidate = NoCandidate
    \/ \E m \in Observed, overnight \in BOOLEAN :
          /\ ShouldAlert(ScoresOf(m), overnight)
          /\ candidate = Candidate(ScoresOf(m), overnight)

\* Candidates always stem from the scores of a market.
LEMMA FromScoresKept ==
    /\ PolicyInit => FromScores
    /\ FromScores /\ [PolicyNext]_policyVars => FromScores'
<1>1. PolicyInit => FromScores
    BY DEF PolicyInit, FromScores
<1>2. ASSUME FromScores, [PolicyNext]_policyVars PROVE FromScores'
  <2>1. CASE Classify
    <3>1. CASE candidate' = NoCandidate
        BY <3>1 DEF FromScores
    <3>2. ASSUME NEW s \in Scores, NEW overnight \in BOOLEAN,
                 ShouldAlert(s, overnight), candidate' = Candidate(s, overnight)
          PROVE  FromScores'
      <4>1. PICK m \in Observed : s = ScoresOf(m)
        BY DEF Scores
      <4>2. ShouldAlert(ScoresOf(m), overnight) /\ candidate' = Candidate(ScoresOf(m), overnight)
        BY <3>2, <4>1
      <4> QED
        BY <4>2 DEF FromScores
    <3> QED
        BY <2>1, <3>1, <3>2, ClassifiedCandidate
  <2>2. CASE HourPasses \/ PutPreferences \/ UNCHANGED policyVars
    BY <1>2, <2>2, Zenon DEF HourPasses, PutPreferences, policyVars, FromScores
  <2> QED
    BY <1>2, <2>1, <2>2 DEF PolicyNext
<1> QED
    BY <1>1, <1>2

\* What the scores say of a market.
LEMMA ScoresFields ==
    ASSUME NEW m
    PROVE  /\ ScoresOf(m).confidence = Confidence(m)
           /\ ScoresOf(m).priority = OvernightPriority(m)
           /\ ScoresOf(m).computed <=> Computed(m)
           /\ ScoresOf(m).above <=> Delta(m) > 0
           /\ ScoresOf(m).twosided <=> Spread(m) >= 0
<1>1. ScoresOf(m).confidence = Confidence(m) /\ ScoresOf(m).priority = OvernightPriority(m)
    BY Zenon DEF ScoresOf
<1>2. /\ ScoresOf(m).computed = Computed(m)
      /\ ScoresOf(m).above = (Delta(m) > 0)
      /\ ScoresOf(m).twosided = (Spread(m) >= 0)
    BY Zenon DEF ScoresOf
<1> QED
    BY <1>1, <1>2

\* What either gate lets through has external features, or one side of its book only.
LEMMA GatesNeedSources ==
    ASSUME NEW m \in Observed, DaytimeConfidence >= 62, OvernightConfidence >= 79
    PROVE  /\ OvernightGate(ScoresOf(m)) => Computed(m)
           /\ DaytimeGate(ScoresOf(m)) /\ Spread(m) >= 0 => Computed(m)
<1>1. m \in Situations /\ Volatility(m) \in 0..100
    BY SituationsAssumption, SumsAssumption
<1>2. DaytimeConfidence \in 0..100 /\ OvernightConfidence \in 0..100
    BY ThresholdsAssumption
<1>3. ASSUME ~Computed(m)
      PROVE  /\ ~OvernightGate(ScoresOf(m))
             /\ ~(DaytimeGate(ScoresOf(m)) /\ Spread(m) >= 0)
  <2>1. Confidence(m) \in 0..7880 /\ (Spread(m) >= 0 => Confidence(m) <= 6165)
    BY <1>1, <1>3, KalshiAlone
  <2>2. OvernightGate(ScoresOf(m)) => Confidence(m) >= 100 * OvernightConfidence
    BY ScoresFields DEF OvernightGate
  <2>3. DaytimeGate(ScoresOf(m)) => Confidence(m) >= 100 * DaytimeConfidence
    BY ScoresFields DEF DaytimeGate
  <2> DEFINE confidence == Confidence(m)
  <2> HIDE DEF confidence
  <2>4. confidence \in 0..7880 /\ (Spread(m) >= 0 => confidence <= 6165)
    BY <2>1 DEF confidence
  <2>5. ~(confidence >= 100 * OvernightConfidence)
    BY <1>2, <2>4
  <2>6. Spread(m) >= 0 => ~(confidence >= 100 * DaytimeConfidence)
    BY <1>2, <2>4
  <2> QED
    BY <2>2, <2>3, <2>5, <2>6 DEF confidence
<1> QED
    BY <1>3

\* The weights keep the figures of the exchange alone below the gate of the night, and
\* those of a market with both sides of its book below that of the day as well: whatever
\* they are, if the thresholds are no lower than 62 and 79 percent.
THEOREM AlertsNeedSources ==
    ASSUME DaytimeConfidence >= 62, OvernightConfidence >= 79
    PROVE  PolicySpec => []NeedsSources
<1>1. FromScores => NeedsSources
  <2>1. CASE candidate = NoCandidate
    BY <2>1 DEF NeedsSources, NoCandidate
  <2>2. ASSUME NEW m \in Observed, NEW overnight \in BOOLEAN,
               ShouldAlert(ScoresOf(m), overnight),
               candidate = Candidate(ScoresOf(m), overnight)
        PROVE  NeedsSources
    <3>1. ScoresOf(m) \in Scores
        BY DEF Scores
    <3>2. /\ candidate.gated <=> OvernightGate(ScoresOf(m))
          /\ candidate.computed = ScoresOf(m).computed
          /\ candidate.twosided = ScoresOf(m).twosided
        BY <2>2, <3>1, CandidateFields
    <3>3. /\ ScoresOf(m).computed <=> Computed(m)
          /\ ScoresOf(m).twosided <=> Spread(m) >= 0
        BY ScoresFields
    <3>4. OvernightGate(ScoresOf(m)) \/ DaytimeGate(ScoresOf(m))
        BY <2>2 DEF ShouldAlert
    <3> QED
        BY <3>2, <3>3, <3>4, GatesNeedSources DEF NeedsSources
  <2> QED
    BY <2>1, <2>2 DEF FromScores
<1> QED
    BY <1>1, FromScoresKept, PTL DEF PolicySpec

\* A priority below 82 percent does not reach a threshold of 82 percent.
LEMMA CriticalReach ==
    ASSUME NEW m, OvernightPriority(m) \in 0..8154, CriticalPriority \in 82..100
    PROVE  ~(OvernightPriority(m) >= 100 * CriticalPriority)
<1> DEFINE priority == OvernightPriority(m)
<1>1. priority \in 0..8154
    OBVIOUS
<1> HIDE DEF priority
<1>2. ~(priority >= 100 * CriticalPriority)
    BY <1>1
<1> QED
    BY <1>2 DEF priority

\* A critical opportunity in a two-sided market lies below the consensus, whatever the
\* figures, if its priority has to reach 82 percent.
THEOREM OpportunitiesLieBelow ==
    ASSUME DaytimeConfidence >= 62, OvernightConfidence >= 79, CriticalPriority >= 82
    PROVE  PolicySpec => []OpportunityAboveMarket
<1>1. FromScores => OpportunityAboveMarket
  <2>1. CASE candidate = NoCandidate
    BY <2>1, NoCandidateType DEF OpportunityAboveMarket
  <2>2. ASSUME NEW m \in Observed, NEW overnight \in BOOLEAN,
               candidate = Candidate(ScoresOf(m), overnight),
               candidate.class = "critical_opportunity", candidate.twosided, ~candidate.above
        PROVE  FALSE
    <3>1. ScoresOf(m) \in Scores
        BY DEF Scores
    <3>2. /\ Classification(ScoresOf(m), overnight) = "critical_opportunity"
          /\ ScoresOf(m).twosided /\ ~ScoresOf(m).above
        BY <2>2, <3>1, CandidateFields
    <3>3. OvernightGate(ScoresOf(m)) /\ ScoresOf(m).priority >= 100 * CriticalPriority
        BY <3>2 DEF Classification
    <3>4. Spread(m) >= 0 /\ ~(Delta(m) > 0) /\ OvernightPriority(m) >= 100 * CriticalPriority
        BY <3>2, <3>3, ScoresFields
    <3>5. /\ m \in Situations /\ Delta(m) \in Int
          /\ {Volatility(m), Disagreement(m), Recency(m)} \subseteq 0..100
        BY SituationsAssumption, SumsAssumption
    <3>6. Computed(m)
        BY <3>3, GatesNeedSources
    <3>7. OvernightPriority(m) \in 0..8154
        BY <3>4, <3>5, <3>6, PriorityBelow
    <3>8. CriticalPriority \in 82..100
      <4>1. CriticalPriority \in 0..100
        BY ThresholdsAssumption
      <4> QED
        BY <4>1
    <3>9. ~(OvernightPriority(m) >= 100 * CriticalPriority)
        BY <3>7, <3>8, CriticalReach
    <3> QED
        BY <3>4, <3>9
  <2> QED
    BY <2>1, <2>2 DEF FromScores, OpportunityAboveMarket
<1> QED
    BY <1>1, FromScoresKept, PTL DEF PolicySpec
=============================================================================
