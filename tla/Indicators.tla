----------------------------- MODULE Indicators -----------------------------
(***************************************************************************)
(* The technical indicators and the pipeline that computes all of them for *)
(* each bar from the buffered window, oldest bar first.                    *)
(*                                                                         *)
(* Prices are integers and quotients are cut, where the code has Decimals; *)
(* an indicator in percent is an integer.  An indicator without enough     *)
(* bars is 0, as in the code.  The two volatilities that need a logarithm  *)
(* are left out.                                                           *)
(***************************************************************************)
EXTENDS Strategies

CONSTANTS
    FeatureBars,    \* input bars [high, low, close, volume]
    WindowLen,      \* bound: bars of the buffer
    WarmUp,         \* min_bars of the engine
    WilderPeriod,   \* rsi, atr, adx, stoch_k, williams, keltner_atr, stoch_rsi: 14
    BandPeriod,     \* sma, bb, donchian, cci, keltner_ema, cmf, volume_sma: 20
    DemaPeriod,
    FastPeriod, SlowPeriod, SignalPeriod,
    SmoothPeriod,   \* stoch_d, smooth_k and smooth_d: 3
    UltimatePeriod, \* uo_period1; the others are two and four times as long
    RocPeriod, ForcePeriod, LongPeriod, AtrHistoryLen

\* The defaults of the pipeline and min_bars satisfy this.
ASSUME IndicatorAssumption ==
    /\ \A p \in {WilderPeriod, BandPeriod, DemaPeriod, FastPeriod, SignalPeriod, SmoothPeriod,
                 UltimatePeriod, RocPeriod, ForcePeriod, LongPeriod, AtrHistoryLen} : p \in Nat \ {0}
    /\ FastPeriod < SlowPeriod /\ WarmUp <= WindowLen
    /\ \A need \in {SlowPeriod + SignalPeriod, 2 * WilderPeriod + 1, BandPeriod, 2 * DemaPeriod,
                    4 * UltimatePeriod + 1, 2 * WilderPeriod + 2 * SmoothPeriod - 2, RocPeriod + 1, ForcePeriod + 1} :
          need <= WarmUp

VARIABLES
    window,     \* the buffered bars
    atrHistory, \* FeaturePipeline._atr_history of the symbol
    features    \* what the last bar produced, <<>> before

indicatorVars == <<window, atrHistory, features>>

-----------------------------------------------------------------------------
Total(s) == FoldLeft(LAMBDA x, y : x + y, 0, s)
LastOf(s, n) == SubSeq(s, Len(s) - n + 1, Len(s))
Largest(s) == Max(ToSet(s))
Smallest(s) == Min(ToSet(s))
Column(bars, name) == [i \in DOMAIN bars |-> bars[i][name]]
Changes(s) == [i \in 1..(Len(s) - 1) |-> s[i + 1] - s[i]]
Positive(x) == IF x > 0 THEN x ELSE 0

CalculateSma(s, n) == IF Len(s) < n THEN 0 ELSE Total(LastOf(s, n)) \div n

\* value * k + ema * (1 - k) with k = 2 / (n + 1).
EmaStep(e, v, n) == (2 * v + (n - 1) * e) \div (n + 1)

CalculateEma(s, n) ==
    IF Len(s) < n THEN 0
    ELSE FoldLeft(LAMBDA e, v : EmaStep(e, v, n), CalculateSma(SubSeq(s, 1, n), n), SubSeq(s, n + 1, Len(s)))

\* Wilder's smoothing.
Wilder(avg, x) == (avg * (WilderPeriod - 1) + x) \div WilderPeriod
WilderSeed(s) == Total(SubSeq(s, 1, WilderPeriod)) \div WilderPeriod
WilderRest(s) == SubSeq(s, WilderPeriod + 1, Len(s))

\* 100 - 100 / (1 + gain / loss).
Strength(gain, loss) == IF loss = 0 THEN 100 ELSE (100 * gain) \div (gain + loss)
Gains(s) == [i \in DOMAIN s |-> Positive(s[i])]
Losses(s) == [i \in DOMAIN s |-> Positive(-s[i])]

CalculateRsi(closes) ==
    LET gains == Gains(Changes(closes))
        losses == Losses(Changes(closes))
    IN  IF Len(closes) < WilderPeriod + 1 THEN 0
        ELSE Strength(FoldLeft(Wilder, WilderSeed(gains), WilderRest(gains)),
                      FoldLeft(Wilder, WilderSeed(losses), WilderRest(losses)))

\* The same loop again, with the value after every bar.
RsiSeries(closes) ==
    LET changes == Changes(closes)
        seed == [gain |-> WilderSeed(Gains(changes)), loss |-> WilderSeed(Losses(changes))]
        step(r, c) ==
            LET gain == Wilder(r.gain, Positive(c))
                loss == Wilder(r.loss, Positive(-c))
            IN  [gain |-> gain, loss |-> loss, values |-> Append(r.values, Strength(gain, loss))]
    IN  IF Len(closes) < WilderPeriod + 1 THEN <<>>
        ELSE FoldLeft(step, [gain |-> seed.gain, loss |-> seed.loss,
                             values |-> <<Strength(seed.gain, seed.loss)>>],
                      WilderRest(changes)).values

MacdOf(lines, signal) == [line |-> Last(lines), signal |-> signal, histogram |-> Last(lines) - signal]

\* Both averages advance together, past the seed of the slow one.
CalculateMacd(closes) ==
    LET fast == FoldLeft(LAMBDA e, v : EmaStep(e, v, FastPeriod), CalculateSma(SubSeq(closes, 1, FastPeriod), FastPeriod),
                         SubSeq(closes, FastPeriod + 1, SlowPeriod))
        slow == CalculateSma(SubSeq(closes, 1, SlowPeriod), SlowPeriod)
        step(r, v) ==
            LET f == EmaStep(r.fast, v, FastPeriod)
                s == EmaStep(r.slow, v, SlowPeriod)
            IN  [fast |-> f, slow |-> s, lines |-> Append(r.lines, f - s)]
        lines == FoldLeft(step, [fast |-> fast, slow |-> slow, lines |-> <<fast - slow>>],
                          SubSeq(closes, SlowPeriod + 1, Len(closes))).lines
    IN  IF Len(closes) < SlowPeriod + SignalPeriod THEN [line |-> 0, signal |-> 0, histogram |-> 0]
        ELSE MacdOf(lines, CalculateEma(lines, SignalPeriod))

\* Newton's method, 28 times.
DecimalSqrt(v) ==
    IF v = 0 THEN 0 ELSE FoldLeft(LAMBDA x, i : (x + v \div x) \div 2, v, [i \in 1..28 |-> i])

Channel(middle, half) == [upper |-> middle + half, middle |-> middle, lower |-> middle - half]
NoChannel == Channel(0, 0)

BollingerBands(closes) ==
    LET recent == LastOf(closes, BandPeriod)
        middle == Total(recent) \div BandPeriod
        squares == [i \in DOMAIN recent |-> (recent[i] - middle) * (recent[i] - middle)]
    IN  IF Len(closes) < BandPeriod THEN NoChannel
        ELSE Channel(middle, 2 * DecimalSqrt(Total(squares) \div BandPeriod))

\* Sensitivity variant: the gap to the previous close is left out.
TrueRangeOfBar(b, before) == b.high - b.low

TrueRange(b, before) == Max({b.high - b.low, Size(b.high - before.close), Size(b.low - before.close)})
TrueRanges(bars) == [i \in 1..(Len(bars) - 1) |-> TrueRange(bars[i + 1], bars[i])]

CalculateAtr(bars) ==
    IF Len(bars) < WilderPeriod + 1 THEN 0
    ELSE FoldLeft(Wilder, WilderSeed(TrueRanges(bars)), WilderRest(TrueRanges(bars)))

\* Directional movement of a bar: the larger of the two moves, if it is one.
Movement(b, before) ==
    LET up == b.high - before.high
        down == before.low - b.low
    IN  [plus |-> IF up > down THEN Positive(up) ELSE 0, minus |-> IF down > up THEN Positive(down) ELSE 0,
         range |-> TrueRange(b, before)]

Percent(x, whole) == IF whole = 0 THEN 0 ELSE (100 * x) \div whole

AdxOf(end) ==
    IF Len(end.dx) < WilderPeriod THEN [adx |-> 0, plus |-> 0, minus |-> 0]
    ELSE [adx |-> FoldLeft(Wilder, WilderSeed(end.dx), WilderRest(end.dx)),
          plus |-> Percent(end.plus, end.range), minus |-> Percent(end.minus, end.range)]

\* Sums, in hundredths, that lose one part in WilderPeriod with each bar.  A bar after
\* nothing but flat ones gives no DX, and too few DX give no ADX.
CalculateAdx(bars) ==
    LET moves == [i \in 1..(Len(bars) - 1) |-> Movement(bars[i + 1], bars[i])]
        sum(field) == 100 * Total(SubSeq(Column(moves, field), 1, WilderPeriod))
        fade(x, y) == x - x \div WilderPeriod + 100 * y
        step(r, m) ==
            LET s == [plus |-> fade(r.plus, m.plus), minus |-> fade(r.minus, m.minus), range |-> fade(r.range, m.range)]
                plus == Percent(s.plus, s.range)
                minus == Percent(s.minus, s.range)
            IN  [plus |-> s.plus, minus |-> s.minus, range |-> s.range,
                 dx |-> IF s.range = 0 THEN r.dx ELSE Append(r.dx, Percent(Size(plus - minus), plus + minus))]
    IN  IF Len(bars) < 2 * WilderPeriod + 1 THEN [adx |-> 0, plus |-> 0, minus |-> 0]
        ELSE AdxOf(FoldLeft(step, [plus |-> sum("plus"), minus |-> sum("minus"), range |-> sum("range"),
                                   dx |-> <<>>], WilderRest(moves)))

\* Where x lies between two levels, and what is said when they are the same.
Position(x, lo, hi, same) == IF hi = lo THEN same ELSE (100 * (x - lo)) \div (hi - lo)

\* The stretch of n bars that ends with bar i.
Stretch(bars, i, n) == SubSeq(bars, i - n + 1, i)
HighOf(bars) == Largest(Column(bars, "high"))
LowOf(bars) == Smallest(Column(bars, "low"))

CalculateStochastic(bars) ==
    LET k == [j \in 1..(Len(bars) - WilderPeriod + 1) |->
                 LET s == Stretch(bars, j + WilderPeriod - 1, WilderPeriod)
                 IN  Position(Last(s).close, LowOf(s), HighOf(s), 50)]
    IN  IF Len(bars) < WilderPeriod + SmoothPeriod - 1 THEN [k |-> 0, d |-> 0]
        ELSE [k |-> Last(k), d |-> CalculateSma(k, SmoothPeriod)]

CalculateWilliams(bars) ==
    LET s == LastOf(bars, WilderPeriod)
    IN  IF Len(bars) < WilderPeriod THEN 0
        ELSE -Position(HighOf(s) - Last(bars).close, 0, HighOf(s) - LowOf(s), 50)

CalculateObv(bars) ==
    Total([i \in 1..(Len(bars) - 1) |-> Side(bars[i + 1].close - bars[i].close) * bars[i + 1].volume])

DonchianChannels(bars) ==
    LET s == LastOf(bars, BandPeriod)
    IN  IF Len(bars) < BandPeriod THEN NoChannel
        ELSE [upper |-> HighOf(s), middle |-> (HighOf(s) + LowOf(s)) \div 2, lower |-> LowOf(s)]

CalculateRoc(closes) ==
    LET old == closes[Len(closes) - RocPeriod]
    IN  IF Len(closes) < RocPeriod + 1 \/ old = 0 THEN 0 ELSE Quot(100 * (Last(closes) - old), old)

Typical(b) == (b.high + b.low + b.close) \div 3

CalculateCci(bars) ==
    LET prices == [i \in 1..BandPeriod |-> Typical(LastOf(bars, BandPeriod)[i])]
        mean == Total(prices) \div BandPeriod
        deviation == Total([i \in DOMAIN prices |-> Size(prices[i] - mean)]) \div BandPeriod
    IN  IF Len(bars) < BandPeriod \/ deviation = 0 THEN 0
        ELSE Quot(1000 * (Last(prices) - mean), 15 * deviation)

CalculateDema(s) ==
    LET n == DemaPeriod
        seed == CalculateSma(SubSeq(s, 1, n), n)
        series == FoldLeft(LAMBDA r, v : Append(r, EmaStep(Last(r), v, n)), <<seed>>, SubSeq(s, n + 1, Len(s)))
    IN  IF Len(s) < 2 * n THEN 0 ELSE 2 * CalculateEma(s, n) - CalculateEma(series, n)

KeltnerChannels(bars) ==
    LET middle == CalculateEma(Column(bars, "close"), BandPeriod)
        atr == CalculateAtr(bars)
    IN  IF middle = 0 \/ atr = 0 THEN NoChannel ELSE Channel(middle, 2 * atr)

-----------------------------------------------------------------------------
\* Parabolic SAR.  r is [up, sar, ep, af], af in hundredths; the bar that turns the
\* trend starts from the old extreme point.
SarStep(bars, r, i) ==
    LET b == bars[i]
        before == SubSeq(bars, IF i > 2 THEN i - 2 ELSE i - 1, i - 1)
        moved == r.sar + Quot(r.af * (r.ep - r.sar), 100)
        sar == IF r.up THEN Min({moved, LowOf(before)}) ELSE Max({moved, HighOf(before)})
        crossed == IF r.up THEN b.low < sar ELSE b.high > sar
        extreme == IF r.up THEN b.high > r.ep ELSE b.low < r.ep
        reach == IF r.up THEN b.high ELSE b.low
    IN  CASE crossed -> [up |-> ~r.up, sar |-> r.ep, ep |-> IF r.up THEN b.low ELSE b.high, af |-> 2]
          [] ~crossed /\ extreme -> [up |-> r.up, sar |-> sar, ep |-> reach, af |-> AtMost(r.af + 2, 20)]
          [] OTHER -> [r EXCEPT !.sar = sar]

ParabolicSar(bars) ==
    LET up == bars[2].high > bars[1].high \/ bars[2].low > bars[1].low
        seed == [up |-> up, sar |-> IF up THEN bars[1].low ELSE bars[1].high,
                 ep |-> IF up THEN bars[1].high ELSE bars[1].low, af |-> 2]
        end == FoldLeft(LAMBDA r, i : SarStep(bars, r, i), seed, [i \in 1..(Len(bars) - 1) |-> i + 1])
    IN  IF Len(bars) < 2 THEN [sar |-> 0, trend |-> "unknown"]
        ELSE [sar |-> end.sar, trend |-> IF end.up THEN "bullish" ELSE "bearish"]

CalculateVwap(bars) ==
    LET volume == Total(Column(bars, "volume"))
    IN  IF volume = 0 THEN 0 ELSE Total([i \in DOMAIN bars |-> Typical(bars[i]) * bars[i].volume]) \div volume

\* In percent; flat bars count neither way.
CalculateCmf(bars) ==
    LET s == SelectSeq(LastOf(bars, BandPeriod), LAMBDA b : b.high # b.low)
        flow(b) == Quot(100 * ((b.close - b.low) - (b.high - b.close)) * b.volume, b.high - b.low)
        volume == Total(Column(s, "volume"))
    IN  IF Len(bars) < BandPeriod \/ volume = 0 THEN 0
        ELSE Quot(Total([i \in DOMAIN s |-> flow(s[i])]), volume)

RawStochastic(rsi) ==
    [j \in 1..(Len(rsi) - WilderPeriod + 1) |->
        LET s == Stretch(rsi, j + WilderPeriod - 1, WilderPeriod)
        IN  Position(Last(s), Smallest(s), Largest(s), 100)]

\* %K and its average %D; none without enough raw values.
SmoothedTwice(raw) ==
    LET k == [j \in 1..(Len(raw) - SmoothPeriod + 1) |->
                 CalculateSma(Stretch(raw, j + SmoothPeriod - 1, SmoothPeriod), SmoothPeriod)]
    IN  IF Len(raw) < SmoothPeriod THEN [k |-> 0, d |-> 0]
        ELSE [k |-> Last(k), d |-> CalculateSma(k, SmoothPeriod)]

StochasticRsi(closes) == SmoothedTwice(RawStochastic(RsiSeries(closes)))

UltimateOscillator(bars) ==
    LET pairs == [i \in 1..(Len(bars) - 1) |->
                     LET low == Min({bars[i + 1].low, bars[i].close})
                         high == Max({bars[i + 1].high, bars[i].close})
                     IN  [pressure |-> bars[i + 1].close - low, range |-> high - low]]
        ratio(n) == Position(Total(Column(LastOf(pairs, n), "pressure")), 0,
                             Total(Column(LastOf(pairs, n), "range")), 0)
    IN  IF Len(bars) < 4 * UltimatePeriod + 1 THEN 0
        ELSE (4 * ratio(UltimatePeriod) + 2 * ratio(2 * UltimatePeriod) + ratio(4 * UltimatePeriod)) \div 7

ForceIndex(bars) ==
    IF Len(bars) < ForcePeriod + 1 THEN 0
    ELSE CalculateEma([i \in 1..(Len(bars) - 1) |-> (bars[i + 1].close - bars[i].close) * bars[i + 1].volume],
                      ForcePeriod)

-----------------------------------------------------------------------------
(* FeaturePipeline.compute_features.                                       *)

AtrHistoryAfter(atr) ==
    IF atr > 0 THEN LastOf(Append(atrHistory, atr), AtMost(Len(atrHistory) + 1, AtrHistoryLen)) ELSE atrHistory

\* The features the strategies read, and those only the scores and the logs read.
Gathered(bars, closes, bands, atr, adx, stochastic, donchian, volumes, history, macd) ==
    LET now == Last(bars)
        known == bands.upper # 0 /\ bands.lower # 0 /\ bands.middle # 0
        rest == [sma |-> CalculateSma(closes, BandPeriod), macdAll |-> macd, bands |-> bands,
                 stochD |-> stochastic.d, obv |-> CalculateObv(bars), donchian |-> donchian,
                 cci |-> CalculateCci(bars), dema |-> CalculateDema(closes), keltner |-> KeltnerChannels(bars),
                 sar |-> ParabolicSar(bars), vwap |-> CalculateVwap(bars), cmf |-> CalculateCmf(bars),
                 stochRsi |-> StochasticRsi(closes), ultimate |-> UltimateOscillator(bars),
                 force |-> ForceIndex(bars)]
    IN  [rsi |-> CalculateRsi(closes), emaFast |-> CalculateEma(closes, FastPeriod),
         emaSlow |-> CalculateEma(closes, SlowPeriod), macd |-> macd.histogram,
         bb |-> IF known THEN Position(now.close, bands.lower, bands.upper, 0) ELSE 0,
         bbWidth |-> IF known THEN (100 * (bands.upper - bands.lower)) \div bands.middle ELSE 0,
         atr |-> atr, atrSma |-> IF atr > 0 THEN Total(history) \div Len(history) ELSE 0,
         atrPct |-> IF atr = 0 THEN 0 ELSE (100 * atr) \div now.close,
         adx |-> adx.adx, plusDI |-> adx.plus, minusDI |-> adx.minus, stoch |-> stochastic.k,
         donUpper |-> donchian.upper, donLower |-> donchian.lower, williams |-> CalculateWilliams(bars),
         roc |-> CalculateRoc(closes), sma200 |-> CalculateSma(closes, LongPeriod), close |-> now.close,
         volume |-> IF volumes = 0 THEN 0 ELSE (100 * now.volume) \div volumes, rest |-> rest]

ComputeFeatures(bars) ==
    LET closes == Column(bars, "close")
        atr == CalculateAtr(bars)
    IN  Gathered(bars, closes, BollingerBands(closes), atr, CalculateAdx(bars), CalculateStochastic(bars),
                 DonchianChannels(bars), CalculateSma(Column(bars, "volume"), BandPeriod),
                 AtrHistoryAfter(atr), CalculateMacd(closes))

FeatureBar(b) ==
    /\ window' = Append(window, b)
    /\ atrHistory' = AtrHistoryAfter(CalculateAtr(window'))
    /\ features' = <<ComputeFeatures(window')>>

IndicatorsInit == window = <<>> /\ atrHistory = <<>> /\ features = <<>>

\* The features but atrSma are a function of the window, so that a window that drops
\* its oldest bars is one of those that start with its first.
IndicatorsNext == Len(window) < WindowLen /\ \E b \in FeatureBars : FeatureBar(b)

-----------------------------------------------------------------------------
\* From min_bars on the indicators that are computed twice agree with each other: MACD
\* with the two averages, the RSI with the series under the stochastic RSI, Williams with
\* the stochastic; those in percent stay in their range although bars may gap, the
\* two directional indicators even together; averages and channels stay among the
\* prices they come from; and the mean reversion buys only below the middle band
\* and sells only above it, unless the band is closed (compute_features).
IndicatorsAgree ==
    Len(window) >= WarmUp =>
        LET f == features[1]
            r == f.rest
            closes == Column(window, "close")
            among(x) == LowOf(window) <= x /\ x <= HighOf(window)
        IN  /\ r.macdAll.line = f.emaFast - f.emaSlow
            /\ f.rsi = Last(RsiSeries(closes))
            /\ f.stoch - (f.williams + 100) \in {-1, 0}
            /\ {f.rsi, f.adx, f.stoch, r.stochD, r.stochRsi.k, r.stochRsi.d, r.ultimate} \subseteq 0..100
            /\ f.plusDI + f.minusDI <= 101 /\ r.cmf \in -100..100
            /\ among(f.emaFast) /\ among(f.emaSlow) /\ among(r.sma) /\ among(r.sar.sar)
            /\ Total(Column(window, "volume")) > 0 => among(r.vwap)
            /\ f.donLower <= f.close /\ f.close <= f.donUpper
            /\ r.bands.lower <= r.bands.middle /\ r.keltner.lower <= r.keltner.upper
            /\ r.bands.upper # r.bands.lower =>
                  /\ MeanReversion(f).dir = "BUY" => f.close < r.bands.middle
                  /\ MeanReversion(f).dir = "SELL" => f.close > r.bands.middle
=============================================================================
