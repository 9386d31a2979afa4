----------------------------- MODULE SignalScores -----------------------------
(***************************************************************************)
(* How the figures of a market become the scores that its alerts are       *)
(* decided by: the features of the exchange's own data                     *)
(* (signal_engine/features/kalshi.py), those of the external observations  *)
(* (external_enrichment/features/builders.py, as far as the stored         *)
(* snapshot carries them), and their weighted sums                         *)
(* (signal_engine/scorers/components.py).  The raw data both are made of   *)
(* is a parameter, and whatever the two services may read of a market.     *)
(*                                                                         *)
(* Figures are in percent, scores in hundredths of a percent, rounded down.*)
(***************************************************************************)
EXTENDS Integers, Sequences, Functions

\* What a bookmaker quotes: a probability, -1 if it quotes none, or American odds,
\* 0 if it quotes none.
Quotes == [probability : -1..100, odds : Int]

\* What the engine finds of a market, prices in cents.  prices: the last_price of the
\* snapshots loaded, the oldest first; like bid and ask 0 if it is missing.  bids and
\* asks: the contracts in the newest order book, which is never crossed; hours: to its
\* close, -1 if it has none.
\* external: there is no mapping, one whose features are yet to be computed, or
\* features; these are of the market's price at the time and of the observations
\* of forecast platforms (probabilities, -1 if there is none), bookmakers and news.
Situations ==
    {s \in [prices : Seq(0..99), bid : 0..99, ask : 0..99, liquidity : Nat, volume : Nat,
            bids : Nat, asks : Nat, events : Nat, hours : Nat \cup {-1},
            external : {"unmapped", "blank", "computed"}, mappings : Nat \ {0}, price : 1..99,
            forecasts : Seq(-1..100), quotes : Seq(Quotes), news : BOOLEAN] :
        0 \in {s.bid, s.ask} \/ s.bid <= s.ask}

Magnitude(x) == IF x < 0 THEN -x ELSE x
Lesser(x, y) == IF x <= y THEN x ELSE y

\* max(0.0, min(1.0, x))
Clamped(x) == IF x < 0 THEN 0 ELSE IF x > 10000 THEN 10000 ELSE x

-----------------------------------------------------------------------------
(* The exchange's own figures: build_kalshi_features. *)

\* "or 50" in the code, of a price that is missing.
OrMiddle(p) == IF p = 0 THEN 50 ELSE p

Change(s) ==
    IF s.prices = <<>> THEN 0
    ELSE OrMiddle(s.prices[Len(s.prices)]) - OrMiddle(s.prices[1])
Move(s) == Magnitude(Change(s))

\* A change of 15 cents is full momentum.
Momentum(s) ==
    IF Move(s) >= 15 THEN IF Change(s) > 0 THEN 100 ELSE -100
    ELSE (Change(s) * 100) \div 15

\* Below zero if one side of the book is missing.
Spread(s) == OrMiddle(s.ask) - OrMiddle(s.bid)

Depth(s) == Lesser(100, (s.liquidity + s.volume) \div 250)

Imbalance(s) ==
    IF s.bids + s.asks = 0 THEN 0 ELSE ((s.bids - s.asks) * 100) \div (s.bids + s.asks)

\* The mean change from snapshot to snapshot, full at 8 cents.
Volatility(s) ==
    LET changes == {i \in DOMAIN s.prices : i > 1}
        total == SumFunction([i \in changes |->
                     Magnitude(OrMiddle(s.prices[i]) - OrMiddle(s.prices[i - 1]))])
    IN  IF changes = {} THEN 0
        ELSE Lesser(100, (100 * total) \div (8 * (Len(s.prices) - 1)))

\* It grows over the last week.
Resolution(s) ==
    IF s.hours = -1 THEN 25 ELSE 100 - Lesser(100, (100 * s.hours) \div 168)

Activity(s) == Lesser(100, (5 * s.events + s.volume \div 150) \div 2)

-----------------------------------------------------------------------------
(* The external figures: build_consensus_feature when the worker ran, and what    *)
(* _build_enrichment_inputs makes of the stored snapshot.                         *)

Computed(s) == s.external = "computed"

\* american_odds_to_probability
OfOdds(odds) ==
    IF odds > 0 THEN 10000 \div (odds + 100) ELSE (-100 * odds) \div (100 - odds)

\* The odds count if there is no probability.
OfQuote(q) ==
    IF q.probability = -1 /\ q.odds # 0 THEN OfOdds(q.odds) ELSE q.probability

\* What the worker observed; age: the minutes it is dated back by.
Forecast(p) == [kind |-> "forecast_snapshot", probability |-> p, age |-> 30]
Quotation(q) == [kind |-> "price_snapshot", probability |-> OfQuote(q), age |-> 10]
Article == [kind |-> "news_article", probability |-> -1, age |-> 0]
Observations(s) ==
    [i \in DOMAIN s.forecasts |-> Forecast(s.forecasts[i])]
    \o [i \in DOMAIN s.quotes |-> Quotation(s.quotes[i])]
    \o (IF s.news THEN <<Article>> ELSE <<>>)
Seen(s) == Range(Observations(s))

Probabilities(s) ==
    LET all == [i \in DOMAIN Observations(s) |-> Observations(s)[i].probability]
    IN  SelectSeq(all, LAMBDA p : p # -1)

\* A mapping without features counts as a source all the same.
SourceCount(s) ==
    CASE s.external = "unmapped" -> 0
      [] s.external = "blank" -> s.mappings
      [] s.external = "computed" -> Len(Probabilities(s))

Delta(s) ==
    LET values == Probabilities(s)
    IN  IF ~Computed(s) \/ values = <<>> THEN 0
        ELSE SumFunction(values) \div Len(values) - s.price

\* The standard deviation of the probabilities, full at 20.
Disagreement(s) ==
    LET values == Probabilities(s)
        n == Len(values)
        squares == n * SumFunction([i \in 1..n |-> values[i] * values[i]])
                   - SumFunction(values) * SumFunction(values)
        deviation == CHOOSE d \in 0..50 : d * d * n * n <= squares
                                           /\ squares < (d + 1) * (d + 1) * n * n
    IN  IF ~Computed(s) \/ n < 2 THEN 0 ELSE Lesser(100, 5 * deviation)

\* By the freshest observation, over two days.  It is as the worker computed it, and
\* does not fade until the worker computes it again.
Recency(s) ==
    IF ~Computed(s) \/ Seen(s) = {} THEN 0
    ELSE LET freshest == CHOOSE o \in Seen(s) : \A p \in Seen(s) : o.age <= p.age
         IN  (100 * (48 * 60 - freshest.age)) \div (48 * 60)

CatalystPresence(s) == Computed(s) /\ \E o \in Seen(s) : o.kind = "news_article"

\* As if a consensus on either side of the price were as good.
SupportEitherWay(s) ==
    IF Computed(s)
    THEN Clamped(5000 + 100 * Magnitude(Delta(s)) + 10 * Recency(s) - 15 * Disagreement(s))
    ELSE 0

\* What lies above the price supports, what lies below does not, whatever side the
\* signal will take.
Support(s) ==
    IF Computed(s)
    THEN Clamped(5000 + 100 * Delta(s) + 10 * Recency(s) - 15 * Disagreement(s))
    ELSE 0

-----------------------------------------------------------------------------
(* score_signal_components. *)

KalshiSupport(s) ==
    Clamped(2500 + 22 * Magnitude(Momentum(s)) + (2520 * Move(s)) \div 100
            + 18 * Magnitude(Imbalance(s)) + 14 * Activity(s) + 7 * Depth(s))

ExternalSupport(s) ==
    Clamped((55 * Support(s)) \div 100 + 20 * Lesser(100, 5 * Magnitude(Delta(s)))
            + 15 * (100 - Disagreement(s)) + 10 * Recency(s))

Catalyst(s) ==
    Clamped((IF CatalystPresence(s) THEN 7000 ELSE 0) + 20 * Recency(s))

RiskPenalty(s) ==
    Clamped(170 * Spread(s) + 25 * (100 - Depth(s)) + 10 * Volatility(s) + 8 * Resolution(s))

\* As if the weights were those of the parts there are.
ConfidenceOfParts(s) ==
    Clamped((IF Computed(s)
             THEN (42 * KalshiSupport(s) + 31 * ExternalSupport(s) + 12 * Catalyst(s)) \div 100
             ELSE (85 * KalshiSupport(s)) \div 100)
            - RiskPenalty(s) \div 5 + 8 * Depth(s) + 7 * (100 - Lesser(100, 5 * Spread(s))))

Confidence(s) ==
    Clamped((42 * KalshiSupport(s) + 31 * ExternalSupport(s) + 12 * Catalyst(s)
             - 20 * RiskPenalty(s)) \div 100
            + 8 * Depth(s) + 7 * (100 - Lesser(100, 5 * Spread(s))))

OvernightPriority(s) ==
    Clamped((50 * Confidence(s) + 18 * KalshiSupport(s) + 18 * ExternalSupport(s)
             + 8 * Catalyst(s) - 14 * RiskPenalty(s)) \div 100)

\* apply_signal_policy: "yes" or "no" instead of "watch".
Directed(s) == Magnitude(Momentum(s) + Delta(s)) > 5
=============================================================================
