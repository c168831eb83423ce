---------------------------- MODULE MCComponents ----------------------------
(***************************************************************************)
(* Components of the algo engine, the shared library and the bridge process*)
(* that are modelled apart, one behaviour of each: part says which.        *)
(***************************************************************************)
EXTENDS SignalDecision, TrailingStops, Backtest, RateLimiter, AuditTrail, ExternalData,
        BridgeProcess, Indicators, PositionMonitor

VARIABLE part

-----------------------------------------------------------------------------
(* Bars of the signal decision.                                            *)

Quiet ==
    [adx |-> 15, rsi |-> 50, stoch |-> 50, williams |-> -50, bb |-> 50, bbWidth |-> 1, roc |-> 0,
     macd |-> 0, atr |-> 10, atrSma |-> 10, atrPct |-> 1, emaFast |-> 1000, emaSlow |-> 1000,
     sma200 |-> 1000, smaLong |-> 1000, close |-> 1000, donUpper |-> 1020, donLower |-> 980,
     volume |-> 100, plusDI |-> 20, minusDI |-> 20, hurst |-> Missing, cycle |-> Missing,
     ouScore |-> Missing, mtfH1 |-> Missing, mtfM15 |-> Missing, conflict |-> Missing,
     fit |-> [valid |-> FALSE, halfLife |-> 0, score |-> 0]]
Rising == [Quiet EXCEPT !.adx = 30, !.rsi = 60, !.macd = 2, !.emaFast = 1010, !.close = 1020,
                        !.roc = 2, !.plusDI = 30, !.hurst = 60, !.cycle = 20, !.volume = 160]
Falling == [Quiet EXCEPT !.adx = 25, !.rsi = 25, !.macd = -2, !.emaFast = 990, !.close = 980,
                         !.roc = -2, !.minusDI = 30, !.bb = 5, !.stoch = 15, !.hurst = 40,
                         !.fit = [valid |-> TRUE, halfLife |-> 10, score |-> -20]]
Wild(atr) == [Quiet EXCEPT !.atr = atr, !.adx = 45, !.rsi = 80]
Turning(adx) == [Quiet EXCEPT !.adx = adx, !.rsi = 80]

BarOf(sym, tf, f) == [sym |-> sym, tf |-> tf, open |-> 1000, high |-> 1002, low |-> 998, close |-> 1000,
                      f |-> f, own |-> f]
MCBarInputs ==
    {BarOf("EURUSD", "M5", f) : f \in {Rising, Falling, [Falling EXCEPT !.adx = 28], Wild(30), Wild(100), Turning(43), Turning(42)}}
    \cup {BarOf("XAUUSD", "M5", Quiet), BarOf("EURUSD", "H1", Rising),
          [BarOf("XAUUSD", "M5", Quiet) EXCEPT !.high = 1030],
          [BarOf("XAUUSD", "M5", Quiet) EXCEPT !.low = 1001]}

OtherRouter == [table |-> [TRENDING_UP |-> "momentum", TRENDING_DOWN |-> "adaptive", RANGING |-> "ou"],
                default |-> "factors"]
MCRouters == {AlgoRouter, OtherRouter}
MCPosteriors == {[TRENDING_UP |-> 60, RANGING |-> 35, REVERSAL |-> 5],
                 [HIGH_VOLATILITY |-> 95, TRENDING_DOWN |-> 5]}

-----------------------------------------------------------------------------
(* Trailing stops.                                                         *)

\* Four grains to the unit: stops half way between two units, entries between them.
MCEntries == {[dir |-> "BUY", entry |-> 4002, stop |-> 3962, mode |-> mo] : mo \in Modes}
             \cup {[dir |-> "SELL", entry |-> 4003, stop |-> 4038, mode |-> mo] : mo \in Modes}
MCTrailBars == {[price |-> p, high |-> p + 12, low |-> p - 12, atr |-> a] :
                   p \in {3920, 3960, 3981, 4000, 4020, 4043, 4080}, a \in {0, 11, 28}}

-----------------------------------------------------------------------------
(* Backtests.                                                              *)

MCTestBars == {[high |-> 10020, low |-> 9990, close |-> 10000], [high |-> 10300, low |-> 9700, close |-> 10100],
               [high |-> 10500, low |-> 10090, close |-> 10200]}
MCTestSignals == {[dir |-> "BUY", stop |-> 9800, target |-> 10400, lots |-> 10],
                  [dir |-> "SELL", stop |-> 10250, target |-> 9500, lots |-> 15],
                  [dir |-> "BUY", stop |-> 0, target |-> 10500, lots |-> 5]}

-----------------------------------------------------------------------------
(* External data.                                                          *)

MCVix == {None, 30}
MCFred == {[y2 |-> 45, y5 |-> 42, y10 |-> 40, y30 |-> None, be10 |-> None, be5 |-> None,
            recession |-> 25]}
MCCot == {<<[market |-> "WTI", amLong |-> 1, amShort |-> 1, lfLong |-> 1, lfShort |-> 1, oi |-> 9],
            [market |-> "GOLD", amLong |-> 0, amShort |-> 0, lfLong |-> 0, lfShort |-> 0, oi |-> 0]>>}

-----------------------------------------------------------------------------
(* Indicators: a rise, a gap, a fall, a dead market without volume.        *)

MCFeatureBars ==
    {[high |-> 1070, low |-> 990, close |-> 1060, volume |-> 20],
     [high |-> 1310, low |-> 1290, close |-> 1290, volume |-> 10],
     [high |-> 1005, low |-> 770, close |-> 800, volume |-> 30],
     [high |-> 800, low |-> 800, close |-> 800, volume |-> 0]}

-----------------------------------------------------------------------------
(* Position monitor.                                                       *)

MCLevels == {-1, 1, 2, 4}
MCInitialStop == -2

-----------------------------------------------------------------------------
ComponentsInit ==
    /\ part \in {"decision", "trailing", "backtest", "limiter", "audit", "external", "bridge",
                "indicators", "monitor"}
    /\ DecisionInit /\ TrailInit /\ TestInit /\ LimiterInit /\ AuditInit /\ ExternalInit
    /\ BridgeInit /\ IndicatorsInit /\ Init
    /\ part # "decision" => engine = [router |-> AlgoRouter, advanced |-> FALSE]
    /\ part # "bridge" => pending = {}
    /\ part # "limiter" => limiter = [lang |-> "python", kind |-> "memory"]
    /\ part # "monitor" => level = [t \in Tickets |-> 1]

ComponentsNext ==
    /\ UNCHANGED part
    /\ \/ part = "decision" /\ DecisionNext
          /\ UNCHANGED <<trailVars, testVars, limitVars, auditVars, externalVars,
                         procVars, indicatorVars, pmVars>>
       \/ part = "trailing" /\ TrailNext
          /\ UNCHANGED <<decisionVars, testVars, limitVars, auditVars, externalVars,
                         procVars, indicatorVars, pmVars>>
       \/ part = "backtest" /\ TestNext
          /\ UNCHANGED <<decisionVars, trailVars, limitVars, auditVars, externalVars,
                         procVars, indicatorVars, pmVars>>
       \/ part = "limiter" /\ LimiterNext
          /\ UNCHANGED <<decisionVars, trailVars, testVars, auditVars, externalVars,
                         procVars, indicatorVars, pmVars>>
       \/ part = "audit" /\ AuditNext
          /\ UNCHANGED <<decisionVars, trailVars, testVars, limitVars, externalVars,
                         procVars, indicatorVars, pmVars>>
       \/ part = "external" /\ ExternalNext
          /\ UNCHANGED <<decisionVars, trailVars, testVars, limitVars, auditVars,
                         procVars, indicatorVars, pmVars>>
       \/ part = "bridge" /\ BridgeNext
          /\ UNCHANGED <<decisionVars, trailVars, testVars, limitVars, auditVars,
                         externalVars, indicatorVars, pmVars>>
       \/ part = "indicators" /\ IndicatorsNext
          /\ UNCHANGED <<decisionVars, trailVars, testVars, limitVars, auditVars,
                         externalVars, procVars, pmVars>>
       \/ part = "monitor" /\ Next
          /\ UNCHANGED <<decisionVars, trailVars, testVars, limitVars, auditVars,
                         externalVars, procVars, indicatorVars>>

ComponentsSpec ==
    ComponentsInit /\ [][ComponentsNext]_<<part, decisionVars, trailVars, testVars, limitVars, auditVars,
                                           externalVars, procVars, indicatorVars, pmVars>>
=============================================================================
