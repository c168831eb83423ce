---------------------------- MODULE SignalGates ----------------------------
(***************************************************************************)
(* What the algo engine does with a strategy's suggestion before it may    *)
(* become an order: stop and target (SignalGenerator), size (the two       *)
(* position sizers, the maturity and loss-streak multipliers) and the      *)
(* checks of SignalValidator with its currency exposure, session, calendar *)
(* and spread filters.  Pure operators over integers: a lot is counted in  *)
(* hundredths, a confidence in percent, a price in points.                 *)
(***************************************************************************)
EXTENDS Rounding, Sequences, FiniteSets, FiniteSetsExt

CONSTANTS
    Instruments,    \* sym -> [pair, pip, pipValue, contract, events]: pip 0 is a symbol no
                    \* table or pattern knows, pair <<>> one that CURRENCY_PAIRS does not
                    \* list, events the currencies whose events concern the symbol
    MaxLots,        \* algo_max_lots
    Equity,         \* equity of the portfolio, which nothing updates
    RiskPct,        \* algo_risk_per_trade_pct
    MaxRiskPct,     \* max_risk_pct of the advanced sizer
    Leverage,       \* default_leverage
    MinConfidence,  \* algo_confidence_threshold
    MaxOpen,        \* algo_max_open_positions
    MaxDailyLoss,   \* algo_max_daily_loss_pct
    MaxDrawdown,    \* algo_max_drawdown_pct
    MaxExposure,    \* algo_max_exposure_per_currency
    SpreadHistory,  \* spreads recorded per symbol; <<>> below min_observations
    Events,         \* calendar events of high impact: [currency, minute]
    Blackout        \* minutes of blackout before and after an event

\* infer_pip_size and infer_pip_value find the symbol in a table or by its name.
PipKnown(sym) == Instruments[sym].pip > 0

ASSUME GatesAssumption ==
    /\ MaxLots \in Nat \ {0} /\ Equity \in Nat \ {0} /\ RiskPct \in Nat \ {0}
    /\ MaxRiskPct \in Nat \ {0} /\ Leverage \in Nat \ {0} /\ MinConfidence \in 1..100
    /\ MaxOpen \in Nat \ {0} /\ MaxDailyLoss \in Nat \ {0} /\ MaxDrawdown \in Nat \ {0}
    /\ MaxExposure \in Nat /\ Blackout \in Nat

ASSUME InstrumentAssumption ==
    \A sym \in DOMAIN Instruments : /\ Instruments[sym].pip \in Nat
                                    /\ PipKnown(sym) => Instruments[sym].pipValue \in Nat \ {0}

MinLots == 1
ATRStop == 3        \* default_sl_atr_multiplier 1.5, in halves
ATRTarget == 5      \* default_tp_atr_multiplier 2.5, in halves

-----------------------------------------------------------------------------
(* Decimal arithmetic.                                                     *)

Abs(x) == IF x < 0 THEN -x ELSE x
Clamp(x, lo, hi) == IF x < lo THEN lo ELSE IF x > hi THEN hi ELSE x

\* Fractions <<n, d>> with d > 0.
LessQ(a, b) == a[1] * b[2] < b[1] * a[2]
MinQ(a, b) == IF LessQ(b, a) THEN b ELSE a

-----------------------------------------------------------------------------
(* SignalGenerator: distances are kept in half points.                     *)

\* A suggestion becomes a signal only with a positive ATR.
Generates(s) == s.dir # "HOLD" /\ s.atr > 0

\* Stop on the losing and target on the winning side.
GenerateSignal(s) ==
    LET side == IF s.dir = "BUY" THEN 1 ELSE -1
        entry == 2 * s.price
    IN  [sym |-> s.sym, dir |-> s.dir, conf |-> s.conf, entry |-> entry,
         stop |-> entry - side * ATRStop * s.atr, target |-> entry + side * ATRTarget * s.atr,
         spread |-> s.spread]

-----------------------------------------------------------------------------
(* Sizing.                                                                 *)

\* In quarters: full size, a half, a quarter, and nothing from 5 % on.
DrawdownScaling(drawdown) ==
    IF drawdown < 2 THEN 4 ELSE IF drawdown < 4 THEN 2 ELSE IF drawdown < 5 THEN 1 ELSE 0

\* The share of the risk that a stop this far away leaves for a lot, as a fraction.
LotsFor(sym, risk, distance) ==
    <<risk * 2 * Instruments[sym].pip, distance * Instruments[sym].pipValue>>

ToLots(q) == Clamp(HalfEven(q[1], q[2]), MinLots, MaxLots)

Distance(sig) == Abs(sig.entry - sig.stop)

\* PositionSizer: a percentage of the equity at risk, scaled by the drawdown.
BasicLots(sig, drawdown) ==
    IF ~PipKnown(sig.sym) \/ Distance(sig) = 0 \/ DrawdownScaling(drawdown) = 0 THEN MinLots
    ELSE LET q == LotsFor(sig.sym, Equity * RiskPct * DrawdownScaling(drawdown), Distance(sig))
         IN  ToLots(<<q[1], 4 * q[2]>>)

NoKelly == <<0, 1>>

\* The Kelly fraction of the recorded profits: none below ten trades, or without
\* wins; everything without losses.  With n trades, w of them wins, and the sums
\* of wins and losses it is w (wins - losses) / (n wins).
Kelly(profits) ==
    LET won == {i \in DOMAIN profits : profits[i] > 0}
        lost == {i \in DOMAIN profits : profits[i] < 0}
        sumWon == MapThenSumSet(LAMBDA i : profits[i], won)
        sumLost == -MapThenSumSet(LAMBDA i : profits[i], lost)
        n == Cardinality(won) + Cardinality(lost)
    IN  IF Len(profits) < 10 \/ n = 0 \/ won = {} THEN NoKelly
        ELSE IF lost = {} THEN <<1, 1>>
        ELSE <<Cardinality(won) * Max({sumWon - sumLost, 0}), n * sumWon>>

\* AdvancedPositionSizer: the smallest of the sizes by stop, by CVaR and by half
\* the Kelly fraction, times the confidence.
AdvancedLots(sig, drawdown, cvar, profits) ==
    IF ~PipKnown(sig.sym) \/ Distance(sig) = 0 THEN MinLots
    ELSE LET scale == Max({10 - drawdown, 3})
             risk == Min({Equity * RiskPct * scale, Equity * MaxRiskPct * 10})
             byStop == LotsFor(sig.sym, risk, Distance(sig))
             byTail == IF cvar > 0 THEN LotsFor(sig.sym, risk, 2 * cvar) ELSE byStop
             kelly == Kelly(profits)
             byKelly == IF kelly[1] = 0 THEN byStop
                        ELSE LotsFor(sig.sym, 500 * Equity * kelly[1], kelly[2] * Distance(sig))
             q == MinQ(MinQ(byStop, byTail), byKelly)
         IN  ToLots(<<q[1] * sig.conf, 1000 * q[2]>>)

\* A multiplier in percent, below one, reduces the lots; the floor is the minimum.
Reduced(lots, mult) ==
    IF mult >= 100 THEN lots ELSE Max({HalfEven(lots * mult, 100), MinLots})

-----------------------------------------------------------------------------
(* Filters of SignalValidator.                                             *)

\* Long one currency of the pair, short the other.
Exposure(pos, currency) ==
    LET pair == Instruments[pos.sym].pair
        side == IF pos.dir = "BUY" THEN 1 ELSE -1
    IN  IF pair = <<>> THEN 0
        ELSE IF pair[1] = currency THEN side
        ELSE IF pair[2] = currency THEN -side ELSE 0

\* CorrelationChecker: the net exposure in both currencies stays within the limit.
CorrelationOk(sig, detail) ==
    LET pair == Instruments[sig.sym].pair
        net(c) == MapThenSumSet(LAMBDA i : Exposure(detail[i], c), DOMAIN detail)
    IN  \A i \in DOMAIN pair : Abs(net(pair[i]) + Exposure(sig, pair[i])) <= MaxExposure

Classify(hour) ==
    IF hour < 8 THEN "asian" ELSE IF hour < 13 THEN "london" ELSE IF hour < 16 THEN "overlap"
    ELSE IF hour < 21 THEN "us" ELSE "off"

ConfidenceBoost ==
    [asian |-> -5, london |-> 0, overlap |-> 5, us |-> 0, off |-> -10]

SessionOk(sig, hour) ==
    sig.conf >= Max({30, MinConfidence - ConfidenceBoost[Classify(hour)]})

\* EconomicCalendarFilter: an event that concerns the symbol, too close in time.
IsBlackout(sym, minute) ==
    \E e \in Events : /\ e.currency \in Instruments[sym].events
                      /\ Abs(minute - e.minute) <= Blackout

\* SpreadPercentileTracker: not above 90 % of the recorded spreads.
SpreadOk(sig) ==
    LET history == SpreadHistory[sig.sym]
        below == Cardinality({i \in DOMAIN history : history[i] < sig.spread})
    IN  IF sig.spread = 0 \/ history = <<>> THEN TRUE
        ELSE HalfEven(100 * below, Len(history)) < 90

\* The margin that the order needs is at most 80 % of the free margin.
MarginOk(sig, lots) ==
    lots * Instruments[sig.sym].contract * sig.entry * 10
        <= 8 * Equity * Leverage * 100 * 2

StopOk(sig) ==
    /\ sig.stop # 0
    /\ IF sig.dir = "BUY" THEN sig.stop < sig.entry ELSE sig.stop > sig.entry

\* At least one point to win for each point at risk.
RewardOk(sig) == Abs(sig.target - sig.entry) >= Distance(sig)
=============================================================================
