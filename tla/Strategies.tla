----------------------------- MODULE Strategies -----------------------------
(***************************************************************************)
(* The strategies of the algo engine, the router that chooses among them,  *)
(* and the scores it attaches to a bar (FeatureScorer, MTFConfirmation,    *)
(* CompositeConfidence).  Pure operators over a record of features.        *)
(*                                                                         *)
(* A feature is an integer: indicators from 0 to 100 and percentages as    *)
(* they are, prices and ATR in points, the OU score in tenths.  Scores and *)
(* confidences are in percent; a Decimal quotient is cut to that unit.     *)
(* Missing is a feature that was not computed.                             *)
(***************************************************************************)
EXTENDS Integers, SequencesExt

Missing == -9999

Side(x) == IF x > 0 THEN 1 ELSE IF x < 0 THEN -1 ELSE 0
Size(x) == IF x < 0 THEN -x ELSE x
AtMost(x, hi) == IF x > hi THEN hi ELSE x
Within(x, lo, hi) == IF x < lo THEN lo ELSE AtMost(x, hi)
Unit(x) == Within(x, -100, 100)

\* Quotient cut toward zero.
Quot(n, d) == Side(n) * (Size(n) \div d)

Given(condition, x) == IF condition THEN <<x>> ELSE <<>>

Mean(scores) ==
    IF scores = <<>> THEN 0 ELSE Quot(FoldSeq(LAMBDA x, y : x + y, 0, scores), Len(scores))

Hold(conf) == [dir |-> "HOLD", conf |-> conf]
Toward(side, conf) == [dir |-> IF side = 1 THEN "BUY" ELSE "SELL", conf |-> conf]

-----------------------------------------------------------------------------
(* Strategies.                                                             *)

\* Which way each indicator points: 1 up, -1 down, 0 neither or unknown.
AveragesPoint(f) == IF f.emaFast > 0 /\ f.emaSlow > 0 THEN Side(f.emaFast - f.emaSlow) ELSE 0
LongTermPoints(f) == IF f.sma200 > 0 /\ f.close > 0 THEN Side(f.close - f.sma200) ELSE 0

VotesFor(votes, side) == Cardinality({i \in DOMAIN votes : votes[i] = side})
Majority(votes) == Side(VotesFor(votes, 1) - VotesFor(votes, -1))

\* A strong ADX is one more vote for the side that leads.
TrendVotes(f) ==
    LET votes == <<AveragesPoint(f), LongTermPoints(f), Side(f.macd)>>
    IN  IF f.adx > 25 THEN Append(votes, Majority(votes)) ELSE votes

TrendFollowing(f) ==
    LET votes == TrendVotes(f)
        side == Majority(votes)
    IN  IF side # 0 /\ VotesFor(votes, side) >= 3
        THEN Toward(side, AtMost(50 + Within(f.adx, 0, 100), 90))
        ELSE Hold(30)

MeanReversion(f) ==
    CASE f.bb < 10 /\ f.rsi < 30 -> Toward(1, IF f.stoch < 20 THEN 75 ELSE 65)
      [] f.bb > 90 /\ f.rsi > 70 -> Toward(-1, IF f.stoch > 80 THEN 75 ELSE 65)
      [] OTHER -> Hold(40)

Breakout(f) ==
    LET confirmations == Given(f.adx > 20, 1)
                         \o Given(f.atrSma > 0 /\ 10 * f.atr > 12 * f.atrSma, 1)
                         \o Given(f.volume > 150, 1)
        conf == AtMost(50 + 10 * Len(confirmations), 85)
    IN  IF f.donUpper = 0 \/ f.donLower = 0 THEN Hold(30)
        ELSE IF f.close >= f.donUpper THEN Toward(1, conf)
        ELSE IF f.close <= f.donLower THEN Toward(-1, conf) ELSE Hold(40)

Defensive(f) == Hold(80)

VolMomentum(f) ==
    LET realized == IF f.atrPct * 1587 < 500 THEN 500 ELSE f.atrPct * 1587
        scalar == AtMost(150000 \div realized, 200)
        conf == AtMost(50 + (Size(f.roc) * scalar) \div 20, 85)
    IN  IF f.roc = 0 \/ f.adx < 15 THEN Hold(20)
        ELSE IF f.adx < 20 THEN Hold(25)
        ELSE Toward(Side(f.roc), IF f.hurst # Missing /\ f.hurst > 55
                                 THEN AtMost(conf + 5, 85) ELSE conf)

\* The votes of the trend strategy and of the RSI; a market that is not persistent
\* is left alone, a detected cycle adds confidence.
AdaptiveTrend(f) ==
    LET votes == Append(TrendVotes(f), Side(f.rsi - 50))
        side == Majority(votes)
    IN  IF side = 0 \/ VotesFor(votes, side) < 3 THEN Hold(30)
        ELSE IF f.hurst # Missing /\ f.hurst < 45 THEN Hold(25)
        ELSE IF f.hurst # Missing /\ f.hurst < 55 THEN Hold(30)
        ELSE Toward(side, AtMost(50 + f.adx + (IF f.cycle # Missing THEN 5 ELSE 0), 90))

\* OUMeanReversionStrategy, once its history of prices is long enough; fit is what
\* the estimation finds: [valid, halfLife, score].
OUReversion(f, enough) ==
    LET s == f.fit.score
        conf == AtMost(50 + Size(s), 85)
        confirmed == IF s < 0 THEN f.bb < 20 ELSE f.bb > 80
    IN  IF \/ ~enough \/ ~f.fit.valid
           \/ f.fit.halfLife < 3 \/ f.fit.halfLife > 50
           \/ f.hurst # Missing /\ f.hurst >= 45
        THEN Hold(30)
        ELSE IF Size(s) > 15 THEN Toward(-Side(s), IF confirmed THEN AtMost(conf + 5, 85) ELSE conf)
        ELSE Hold(IF Size(s) < 5 THEN 40 ELSE 35)

-----------------------------------------------------------------------------
(* MultiFactorStrategy.                                                    *)

MomentumFactor(f) ==
    Mean(<<Unit(20 * f.roc),
           IF f.rsi > 70 THEN -50 ELSE IF f.rsi < 30 THEN 50 ELSE 2 * (f.rsi - 50),
           Unit(IF f.atr > 0 THEN Quot(100 * f.macd, f.atr) ELSE 100 * f.macd)>>)

MeanReversionFactor(f) ==
    Mean(<<IF f.bb < 20 THEN 5 * (20 - f.bb) ELSE IF f.bb > 80 THEN -5 * (f.bb - 80) ELSE 0,
           IF f.stoch < 20 THEN 100 ELSE IF f.stoch > 80 THEN -100 ELSE 2 * (50 - f.stoch),
           IF f.williams > -20 THEN -100 ELSE IF f.williams < -80 THEN 100 ELSE 0>>
         \o Given(f.ouScore # Missing, Unit(-5 * f.ouScore)))

TrendFactor(f) ==
    Mean(<<100 * Side(f.emaFast - f.emaSlow),
           (IF f.plusDI > f.minusDI THEN 1 ELSE -1) * AtMost(f.adx, 50)>>
         \o Given(f.sma200 > 0, Unit(Quot(100 * (f.close - f.sma200), f.sma200))))

VolumeFactor(f, side) == IF f.volume > 150 THEN 100 * side ELSE 0

\* Its features, mtf_h1_trend, mtf_m15_trend and mtf_conflict_score, are computed by
\* nobody: MultiTimeframeAnalyzer writes h1_trend and m15_trend.
MTFFactor(f, trend) ==
    LET agrees(t) == IF t * trend > 0 THEN 100 ELSE -100
    IN  Mean(Given(f.mtfH1 \notin {Missing, 0}, agrees(f.mtfH1))
             \o Given(f.mtfM15 \notin {Missing, 0}, agrees(f.mtfM15))
             \o Given(f.conflict # Missing, Unit(-f.conflict)))

\* Weights of the three factors that have a direction, then of the two that follow one.
Directional(momentum, reversion, trend) == 30 * momentum + 20 * reversion + 20 * trend
WithFollowers(f, directional, trend) ==
    directional + 15 * VolumeFactor(f, Side(directional)) + 15 * MTFFactor(f, trend)

OfTotal(total) ==
    IF Size(total) < 1500 THEN Hold(30) ELSE Toward(Side(total), AtMost(40 + Size(total) \div 200, 85))

MultiFactor(f) ==
    OfTotal(WithFollowers(f, Directional(MomentumFactor(f), MeanReversionFactor(f), TrendFactor(f)), TrendFactor(f)))

-----------------------------------------------------------------------------
(* RegimeRouter: a table from regimes to strategies, some may be missing,  *)
(* and a default strategy, or "none".                                      *)

Analyze(strategy, f, enough) ==
    CASE strategy = "trend" -> TrendFollowing(f)
      [] strategy = "reversion" -> MeanReversion(f)
      [] strategy = "breakout" -> Breakout(f)
      [] strategy = "defensive" -> Defensive(f)
      [] strategy = "momentum" -> VolMomentum(f)
      [] strategy = "adaptive" -> AdaptiveTrend(f)
      [] strategy = "ou" -> OUReversion(f, enough)
      [] strategy = "factors" -> MultiFactor(f)
      [] OTHER -> Hold(0)

\* build_algo_router.
AlgoRouter ==
    [table |-> [TRENDING_UP |-> "trend", TRENDING_DOWN |-> "trend", RANGING |-> "reversion",
                HIGH_VOLATILITY |-> "defensive", REVERSAL |-> "breakout"],
     default |-> "defensive"]

Routed(router, regime) ==
    IF regime \in DOMAIN router.table THEN router.table[regime] ELSE router.default

Route(router, regime, f, enough) == Analyze(Routed(router, regime), f, enough)

\* The regimes that route_probabilistic asks: likely enough, and with a strategy.
Asked(router, posteriors) ==
    {r \in DOMAIN router.table \cap DOMAIN posteriors : posteriors[r] >= 10}

\* The suggestions weighted by probability.  A HOLD has no direction but its confidence
\* counts in the blend.
Blend(answers, posteriors) ==
    LET pull(a) == CASE a.dir = "BUY" -> a.conf
                     [] a.dir = "SELL" -> -a.conf
                     [] OTHER -> 0
        weight == MapThenSumSet(LAMBDA r : posteriors[r], DOMAIN answers)
        score == MapThenSumSet(LAMBDA r : posteriors[r] * pull(answers[r]), DOMAIN answers)
        conf == MapThenSumSet(LAMBDA r : posteriors[r] * answers[r].conf, DOMAIN answers)
    IN  IF Size(score) < 10 * weight THEN Hold(30)
        ELSE Toward(Side(score), AtMost(conf \div weight, 85))

RouteProbabilistic(router, posteriors, f, enough) ==
    IF Asked(router, posteriors) = {} THEN Analyze(router.default, f, enough)
    ELSE Blend([r \in Asked(router, posteriors) |-> Route(router, r, f, enough)], posteriors)

-----------------------------------------------------------------------------
(* Scores.                                                                 *)

TrendScore(f) ==
    LET average == Unit(Quot(20000 * (f.emaFast - f.emaSlow), f.emaSlow))
        strength == IF f.adx > 0 THEN Within(Quot(100 * (f.adx - 20), 30), -30, 50) ELSE 0
        bias == IF f.smaLong > 0
                THEN Within(Quot(5000 * (f.close - f.smaLong), f.smaLong), -30, 30) ELSE 0
    IN  IF f.emaSlow = 0 \/ f.close = 0 THEN 0
        ELSE Unit(Quot(average * (100 + strength), 100) + bias)

MomentumScore(f) ==
    LET macd == IF f.close > 0 THEN Unit(Quot(100000 * f.macd, f.close)) ELSE 0
    IN  Unit(Quot(40 * Unit(2 * (f.rsi - 50)) + 35 * macd + 25 * Unit(2 * (f.stoch - 50)), 100))

VolatilityScore(f) ==
    LET atr == IF f.atrSma > 0 THEN Unit(Quot(300 * (f.atr - f.atrSma), f.atrSma)) ELSE 0
    IN  Quot(60 * atr + 40 * Unit(100 * (f.bbWidth - 1)), 100)

VolumeScore(f) == IF f.volume = 0 THEN 0 ELSE Unit(2 * (f.volume - 100))

FeatureScore(f) ==
    Quot(35 * TrendScore(f) + 30 * MomentumScore(f) + 20 * VolatilityScore(f)
         + 15 * VolumeScore(f), 100)

Share(votes) == IF votes = <<>> THEN 0 ELSE (100 * VotesFor(votes, 1)) \div Len(votes)

Vote(condition) == IF condition THEN 1 ELSE 0

\* On which side of its middle a value is, seen from a direction.
Agrees(up, x, middle) == IF up THEN x > middle ELSE x < middle

\* MTFConfirmation: higher time frames are records [trend, rsi, adx], trend -1, 0, 1.
MTFConfirmation(f, frames, up) ==
    LET expected == IF up THEN 1 ELSE -1
        own == IF f.emaFast > f.emaSlow THEN 1 ELSE -1
        trend == Given(f.emaFast > 0 /\ f.emaSlow > 0, Vote(own = expected))
                 \o [i \in DOMAIN frames |-> Vote(frames[i].trend = expected)]
        known(field(_)) == SelectSeq(frames, LAMBDA h : field(h) > 0)
        rsis == known(LAMBDA h : h.rsi)
        adxs == known(LAMBDA h : h.adx)
        momentum == <<Vote(Agrees(up, f.rsi, 50))>>
                    \o [i \in DOMAIN rsis |-> Vote(Agrees(up, rsis[i].rsi, 50))]
        strength == <<Vote(f.adx > 25)>> \o [i \in DOMAIN adxs |-> Vote(adxs[i].adx > 25)]
        volatility == IF f.atrSma <= 0 THEN 50 ELSE 100 * Vote(f.atr > f.atrSma)
    IN  (40 * Share(trend) + 30 * Share(momentum) + 20 * Share(strength) + 10 * volatility) \div 100

IndicatorAgreement(f, up) ==
    Share(Given(f.emaFast # 0 /\ f.emaSlow # 0, Vote(Agrees(up, f.emaFast, f.emaSlow)))
          \o <<Vote(Agrees(up, f.rsi, 50)), Vote(Agrees(up, f.macd, 0)),
               Vote(Agrees(up, f.stoch, 50))>>
          \o Given(f.plusDI # 0 \/ f.minusDI # 0, Vote(Agrees(up, f.plusDI, f.minusDI))))

HistoricalEdge(edge) == Within((edge + 100) \div 2, 0, 100)

SignalQuality(f, score, up) ==
    LET part(x, middle, size) == IF Agrees(up, x, middle) THEN size ELSE 0
    IN  Within(Mean(<<part(f.rsi, 50, 2 * Size(f.rsi - 50))>>
                    \o Given(score # 0, part(score, 0, Size(score)))
                    \o <<part(f.bb, 50, 2 * Size(f.bb - 50))>>), 0, 100)

CompositeConfidence(f, score, up, edge) ==
    Within((40 * IndicatorAgreement(f, up) + 35 * HistoricalEdge(edge)
            + 25 * SignalQuality(f, score, up)) \div 100, 0, 100)
=============================================================================
