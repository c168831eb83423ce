--------------------------- MODULE SignalDecision ---------------------------
(***************************************************************************)
(* AlgoEngine.process_bar up to the suggestion: quality check, buffers,    *)
(* features of the bar and of higher time frames, scores, regime, beliefs  *)
(* and the router.  One engine serves all symbols and time frames, and     *)
(* quality check, regime classifier and beliefs have one state for all of  *)
(* them; the bar buffer has one per symbol, whatever the time frame.       *)
(*                                                                         *)
(* The features are computed outside: a bar comes with those of the mixed  *)
(* buffer (f) and those of its own time frame (own).  process_bar awaits   *)
(* nothing inside its wait_for, so a bar is one step and never times out.  *)
(***************************************************************************)
EXTENDS Strategies, Rounding

CONSTANTS
    BarInputs,      \* [sym, tf, open, high, low, close, f, own]
    Routers,        \* routers the engine may be built with: [table, default]
    Posteriors,     \* what the Bayesian classifier may answer
    PrimaryTF,      \* algo_primary_timeframe
    MinBars,        \* min_bars of the bar buffer, and of every time frame
    SpikeAfter,     \* bars seen before a spike is refused (20)
    AtrWindow,      \* window of the ATR average (50)
    Hysteresis,     \* _HYSTERESIS_BARS
    Lookback,       \* prices the OU strategy needs (100)
    TuneEvery,      \* update_interval of the parameter tuner (100)
    MaxBars         \* bound: bars of a behaviour

ASSUME DecisionAssumption ==
    /\ MinBars \in Nat \ {0} /\ SpikeAfter \in Nat /\ AtrWindow \in Nat \ {0}
    /\ Hysteresis \in Nat \ {0} /\ Lookback \in Nat \ {0} /\ TuneEvery \in Nat \ {0}
    /\ MaxBars \in Nat
    /\ \A b \in BarInputs : \A f \in {b.f, b.own} : {f.adx, f.emaFast, f.emaSlow} \subseteq Int
    /\ \A r \in Routers : Cardinality({g \in DOMAIN r.table : r.table[g] = "ou"}) <= 1

VARIABLES
    engine,     \* how it is built: [router, advanced]
    quality,    \* [avg, n]: average range in hundredths, ranges seen
    buffers,    \* bars buffered per symbol, up to MinBars
    frames,     \* per symbol and time frame: [n, last], last its features or none, <<>>
    regime,     \* [current, candidate, count, prevAdx, atrs]
    belief,     \* [trend, momentum, regime, edge]
    prices,     \* per symbol: prices the OU strategy has, up to Lookback
    tuner,      \* [n, rsi, fast, slow]
    suggestion, \* of the last bar: [dir, conf]
    confirmed,  \* mtf_confirmation_ratio of the last bar, which nothing reads
    seen,       \* bars seen
    recent      \* history: the last Hysteresis bars that were classified: [raw, flat]

decisionVars == <<engine, quality, buffers, frames, regime, belief, prices, tuner, suggestion,
                  confirmed, seen, recent>>

BarSymbols == {b.sym : b \in BarInputs}
Frames == {b.tf : b \in BarInputs}

-----------------------------------------------------------------------------
(* DataQualityChecker and buffers.                                         *)

\* high and low enclose open and close.
WellFormed(b) == b.high >= b.open /\ b.high >= b.close /\ b.low <= b.open /\ b.low <= b.close

\* The average takes the bar in before the bar is compared with it.
QualityAfter(b) ==
    LET range == b.high - b.low
    IN  IF range = 0 THEN quality
        ELSE [avg |-> IF quality.avg = 0 THEN 100 * range
                      ELSE (5 * 100 * range + 95 * quality.avg) \div 100,
              n |-> AtMost(quality.n + 1, SpikeAfter + 1)]

Spike(b, q) == q.n > SpikeAfter /\ 100 * (b.high - b.low) > 5 * q.avg

\* MultiTimeframeAnalyzer.add_bar.
FramesAfter(b) ==
    LET n == AtMost(frames[b.sym][b.tf].n + 1, MinBars)
        ready == n >= MinBars /\ b.tf # PrimaryTF
    IN  [frames EXCEPT ![b.sym][b.tf] = [n |-> n, last |-> IF ready THEN <<b.own>> ELSE @.last]]

\* _enrich_with_htf: what the higher time frames of the symbol said last.
HigherFrames(fr, sym) ==
    LET known == {tf \in Frames \ {PrimaryTF} : fr[sym][tf].last # <<>>}
        view(h) == [trend |-> IF h.emaFast > 0 /\ h.emaSlow > 0
                              THEN (IF h.emaFast > h.emaSlow THEN 1 ELSE -1) ELSE 0,
                    rsi |-> h.rsi, adx |-> h.adx]
    IN  [i \in 1..Cardinality(known) |-> view(fr[sym][SetToSeq(known)[i]].last[1])]

\* The bar of the primary time frame brings its own features, others the mixed ones.
OwnFrame(b, fr) == b.tf = PrimaryTF /\ fr[b.sym][b.tf].n >= MinBars
FeaturesOf(b, fr) == IF OwnFrame(b, fr) THEN b.own ELSE b.f
FramesOf(b, fr) == IF OwnFrame(b, fr) THEN HigherFrames(fr, b.sym) ELSE <<>>

-----------------------------------------------------------------------------
(* RegimeClassifier.                                                       *)

Trending == {"TRENDING_UP", "TRENDING_DOWN"}

AtrSum(r) == FoldSeq(LAMBDA x, y : x + y, 0, r.atrs)

\* ATR ratio, in percent.
AtrRatio(r, f) == IF AtrSum(r) = 0 THEN 0 ELSE (100 * f.atr * Len(r.atrs)) \div AtrSum(r)

ClassifyRaw(r, f) ==
    LET limit == IF r.current = "HIGH_VOLATILITY" THEN 150 ELSE 200
        volatile == AtrSum(r) > 0 /\ 100 * f.atr * Len(r.atrs) > limit * AtrSum(r)
        strong == f.emaSlow > 0 /\ f.adx > (IF r.current \in Trending THEN 23 ELSE 27)
        turning == /\ r.prevAdx # Missing /\ r.prevAdx > 40 /\ f.adx < r.prevAdx
                   /\ f.rsi > 70 \/ f.rsi < 30
    IN  IF volatile THEN "HIGH_VOLATILITY"
        ELSE IF strong /\ f.emaFast > f.emaSlow THEN "TRENDING_UP"
        ELSE IF strong /\ f.emaFast < f.emaSlow THEN "TRENDING_DOWN"
        ELSE IF turning THEN "REVERSAL" ELSE "RANGING"

\* Sensitivity variant: the candidate survives a bar that confirms the current regime.
ApplyHysteresisKeeps(r, raw) ==
    LET count == IF raw = r.candidate THEN r.count + 1 ELSE 1
    IN  IF raw = r.current THEN r
        ELSE IF count >= Hysteresis
        THEN [r EXCEPT !.current = raw, !.candidate = "none", !.count = 0]
        ELSE [r EXCEPT !.candidate = raw, !.count = count]

ApplyHysteresis(r, raw) ==
    LET count == IF raw = r.candidate THEN r.count + 1 ELSE 1
    IN  IF raw = r.current THEN [r EXCEPT !.candidate = "none", !.count = 0]
        ELSE IF count >= Hysteresis
        THEN [r EXCEPT !.current = raw, !.candidate = "none", !.count = 0]
        ELSE [r EXCEPT !.candidate = raw, !.count = count]

\* The same figures for a new regime and for one that is held.
RegimeConfidence(current, r, f) ==
    CASE current = "HIGH_VOLATILITY" -> Within(50 + (AtrRatio(r, f) - 200) \div 4, 50, 95)
      [] current \in Trending -> AtMost(50 + f.adx, 90)
      [] current = "REVERSAL" -> 55
      [] OTHER -> IF f.adx < 20 THEN 70 ELSE 60

ClassifyBar(r, f) ==
    LET atrs == IF f.atr > 0 THEN Append(r.atrs, f.atr) ELSE r.atrs
        kept == IF Len(atrs) > AtrWindow THEN Tail(atrs) ELSE atrs
    IN  [ApplyHysteresis(r, ClassifyRaw(r, f)) EXCEPT !.prevAdx = f.adx, !.atrs = kept]

-----------------------------------------------------------------------------
(* BeliefState and AdaptiveParameterTuner.                                 *)

Ema(prev, new) == Quot(90 * prev + 10 * Unit(new), 100)

BeliefAfter(f, conf) ==
    [belief EXCEPT !.trend = Ema(@, TrendScore(f)), !.momentum = Ema(@, MomentumScore(f)),
                   !.regime = Ema(@, conf)]

Tuned(cycle) ==
    LET n == (tuner.n + 1) % TuneEvery
        slow == Within(HalfEven(cycle, 2), 12, 60)
        fast == Within(HalfEven(cycle, 4), 5, 25)
    IN  IF n # 0 \/ cycle = Missing THEN [tuner EXCEPT !.n = n]
        ELSE [n |-> n, rsi |-> Within(HalfEven(cycle, 2), 7, 28), slow |-> slow,
              fast |-> IF fast < slow THEN fast ELSE IF slow > 5 THEN slow - 1 ELSE 5]

-----------------------------------------------------------------------------
(* process_bar.                                                            *)

Bar(b) ==
    /\ seen < MaxBars
    /\ seen' = seen + 1
    /\ UNCHANGED engine

\* The quality check refuses the bar; a spike has entered the average.
BadBar(b) ==
    /\ Bar(b)
    /\ ~WellFormed(b) \/ Spike(b, QualityAfter(b))
    /\ quality' = IF WellFormed(b) THEN QualityAfter(b) ELSE quality
    /\ UNCHANGED <<buffers, frames, regime, belief, prices, tuner, suggestion, confirmed, recent>>

Buffered(b) ==
    /\ Bar(b)
    /\ WellFormed(b) /\ ~Spike(b, QualityAfter(b))
    /\ quality' = QualityAfter(b)
    /\ frames' = FramesAfter(b)
    /\ buffers' = [buffers EXCEPT ![b.sym] = AtMost(@ + 1, MinBars)]

\* Not enough bars yet.
EarlyBar(b) ==
    /\ Buffered(b)
    /\ buffers[b.sym] + 1 < MinBars
    /\ UNCHANGED <<regime, belief, prices, tuner, suggestion, confirmed, recent>>

Flat(f) == ~(f.emaSlow > 0 /\ f.emaFast # f.emaSlow)

Enough(sym) == prices[sym] + 1 >= Lookback

\* The engine with its optional parts: the Bayesian classifier takes the place of the
\* regime in the routing, and the confidence is composed anew.
Recomposed(s, f, edge) ==
    IF s.dir = "HOLD" THEN s
    ELSE [s EXCEPT !.conf = CompositeConfidence(f, FeatureScore(f), s.dir = "BUY", edge)]

Advised(b, f, posteriors) ==
    Recomposed(RouteProbabilistic(engine.router, posteriors, f, Enough(b.sym)), f, belief'.edge)

AsksOU(posteriors, current) ==
    "ou" \in (IF ~engine.advanced THEN {Routed(engine.router, current)}
              ELSE IF Asked(engine.router, posteriors) = {} THEN {engine.router.default}
              ELSE {engine.router.table[r] : r \in Asked(engine.router, posteriors)})

DecideBar(b, posteriors) ==
    /\ Buffered(b)
    /\ buffers[b.sym] + 1 >= MinBars
    /\ LET f == FeaturesOf(b, frames')
           conf == RegimeConfidence(regime'.current, regime, f)
       IN  /\ regime' = ClassifyBar(regime, f)
           /\ recent' = Append(IF Len(recent) = Hysteresis THEN Tail(recent) ELSE recent,
                               [raw |-> ClassifyRaw(regime, f), flat |-> Flat(f)])
           /\ belief' = IF engine.advanced THEN BeliefAfter(f, conf) ELSE belief
           /\ tuner' = IF engine.advanced THEN Tuned(f.cycle) ELSE tuner
           /\ confirmed' = IF engine.advanced
                           THEN MTFConfirmation(f, FramesOf(b, frames'), f.emaFast > f.emaSlow)
                           ELSE confirmed
           /\ suggestion' = IF engine.advanced THEN Advised(b, f, posteriors)
                            ELSE Route(engine.router, regime'.current, f, Enough(b.sym))
    /\ prices' = IF AsksOU(posteriors, regime'.current)
                 THEN [prices EXCEPT ![b.sym] = AtMost(@ + 1, Lookback)] ELSE prices

DecisionInit ==
    /\ engine \in [router : Routers, advanced : BOOLEAN]
    /\ quality = [avg |-> 0, n |-> 0]
    /\ buffers = [s \in BarSymbols |-> 0]
    /\ frames = [s \in BarSymbols |-> [tf \in Frames |-> [n |-> 0, last |-> <<>>]]]
    /\ regime = [current |-> "RANGING", candidate |-> "none", count |-> 0, prevAdx |-> Missing,
                 atrs |-> <<>>]
    /\ belief = [trend |-> 0, momentum |-> 0, regime |-> 0, edge |-> 0]
    /\ prices = [s \in BarSymbols |-> 0]
    /\ tuner = [n |-> 0, rsi |-> 14, fast |-> 12, slow |-> 26]
    /\ suggestion = Hold(0) /\ confirmed = 0 /\ seen = 0 /\ recent = <<>>

DecisionNext ==
    \E b \in BarInputs :
        BadBar(b) \/ EarlyBar(b) \/ \E posteriors \in Posteriors : DecideBar(b, posteriors)

DecisionSpec == DecisionInit /\ [][DecisionNext]_decisionVars

\* The regime changes only on the last of Hysteresis bars in a row that say so; and
\* REVERSAL, the one regime that selects the breakout strategy, needs all of them but the
\* last to have equal averages: with averages apart, an ADX above 27 is a trend, and an
\* ADX below is no strong trend to reverse for the next bar (RegimeClassifier, whose state
\* is shared by all symbols).
RegimeIsConfirmed ==
    [][regime'.current # regime.current =>
          /\ Len(recent') = Hysteresis
          /\ \A i \in 1..Hysteresis : recent'[i].raw = regime'.current
          /\ regime'.current = "REVERSAL" => \A i \in 1..(Hysteresis - 1) : recent'[i].flat]_decisionVars
=============================================================================
