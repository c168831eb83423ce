------------------------------ MODULE Backtest ------------------------------
(***************************************************************************)
(* BacktestEngine and TradeSimulator: a bar may bring a signal, whose      *)
(* position is opened at the bar's close and is then checked against the   *)
(* same bar; after the last bar every position is closed and the metrics   *)
(* are computed.  Prices are in hundredths of a pip, lots in hundredths,   *)
(* money in cents.                                                         *)
(***************************************************************************)
EXTENDS Rounding, SequencesExt

CONSTANTS
    InitialEquity,
    FillCost,           \* half the spread plus the slippage
    CommissionPerLot,
    DailyRiskFree,      \* the risk-free rate of a day, in 1/10000
    TestBars,           \* [high, low, close]
    TestSignals,        \* what the engine may answer: [dir, stop, target, lots]; 0 is no level
    TestLength          \* bound: bars of a behaviour

ASSUME BacktestAssumption == InitialEquity > 0 /\ FillCost >= 0 /\ CommissionPerLot >= 0

VARIABLES
    sim,        \* TradeSimulator: [equity, open, curve, log, opened], opened positions so far
    bars,       \* bars processed
    lastClose,  \* close of the last one
    result      \* BacktestResult, as a sequence of at most one

testVars == <<sim, bars, lastClose, result>>

\* A buyer pays more, a seller gets less.
FillPrice(price, dir) == IF dir = "BUY" THEN price + FillCost ELSE price - FillCost

Opposite(dir) == IF dir = "BUY" THEN "SELL" ELSE "BUY"

Commission(lots) == HalfEven(CommissionPerLot * lots, 100)

\* A pip is worth ten units of account for a lot.
Pnl(pos, exit) ==
    HalfEven((IF pos.dir = "BUY" THEN exit - pos.entry ELSE pos.entry - exit) * pos.lots, 10)

Opened(s, sig, bar) ==
    LET pos == [id |-> s.opened + 1, dir |-> sig.dir,
                entry |-> FillPrice(bar.close, sig.dir), stop |-> sig.stop, target |-> sig.target,
                lots |-> sig.lots, commission |-> Commission(sig.lots), since |-> bars + 1]
    IN  [s EXCEPT !.equity = @ - pos.commission, !.open = Append(@, pos), !.opened = @ + 1]

\* The level a bar takes a position out at, 0 for none; the stop comes first.
ExitPrice(pos, bar) ==
    LET below(level) == level > 0 /\ bar.low <= level
        above(level) == level > 0 /\ bar.high >= level
        stopped == IF pos.dir = "BUY" THEN below(pos.stop) ELSE above(pos.stop)
        reached == IF pos.dir = "BUY" THEN above(pos.target) ELSE below(pos.target)
    IN  IF stopped THEN pos.stop ELSE IF reached THEN pos.target ELSE 0

\* at: the number of the bar that closes it.
ClosePosition(s, pos, exit, reason, at) ==
    LET trade == [id |-> pos.id, pnl |-> Pnl(pos, exit), commission |-> pos.commission,
                  reason |-> reason, lasted |-> at - pos.since]
    IN  [s EXCEPT !.equity = @ + trade.pnl, !.log = Append(@, trade)]

\* Sensitivity variant: the closed positions are popped from the first to the last.
RemainingAscending(open, closed) ==
    FoldLeft(LAMBDA rest, i : IF i <= Len(rest) THEN RemoveAt(rest, i) ELSE rest,
             open, SetToSortSeq(closed, <))

\* The open positions without those at the closed indices.
Remaining(open, closed) ==
    FoldLeft(LAMBDA rest, i : RemoveAt(rest, i), open, SetToSortSeq(closed, >))

ProcessBar(s, bar) ==
    LET closed == {i \in DOMAIN s.open : ExitPrice(s.open[i], bar) # 0}
        after == FoldLeft(LAMBDA t, i : ClosePosition(t, s.open[i], ExitPrice(s.open[i], bar), "level",
                                                     bars + 1),
                          s, SetToSortSeq(closed, <))
    IN  [after EXCEPT !.open = Remaining(s.open, closed), !.curve = Append(@, after.equity)]

\* No point is added to the equity curve.
CloseAllPositions(s, close) ==
    [FoldLeft(LAMBDA t, pos : ClosePosition(t, pos, FillPrice(close, Opposite(pos.dir)), "end", bars),
              s, s.open)
     EXCEPT !.open = <<>>]

-----------------------------------------------------------------------------
(* BacktestMetrics; ratios in units of 1/10000.                            *)

Sum(values) == FoldLeft(LAMBDA x, y : x + y, 0, values)

Ratio(n, d) == IF d = 0 THEN 0 ELSE HalfEven(10000 * n, d)

ComputeReturns(curve) ==
    [i \in 1..(Len(curve) - 1) |-> Ratio(curve[i + 1] - curve[i], curve[i])]

\* The deepest fall below the highest equity so far.
MaxDrawdown(curve) ==
    LET peak(i) == Max({curve[j] : j \in 1..i})
    IN  Max({0} \cup {Ratio(peak(i) - curve[i], peak(i)) : i \in DOMAIN curve})

\* Standard deviation of a sample, cut to the unit.
Deviation(values) ==
    LET n == Len(values)
        mean == Sum(values) \div n
        variance == Sum([i \in 1..n |-> (values[i] - mean) * (values[i] - mean)]) \div (n - 1)
    IN  IF n < 2 THEN 0
        ELSE CHOOSE r \in 0..variance : r * r <= variance /\ (r + 1) * (r + 1) > variance

\* The excess return, annualised: the square root of 252 is about 15.87.
RiskRatio(returns, deviation) ==
    IF Len(returns) < 2 \/ deviation = 0 THEN 0
    ELSE HalfEven(1587 * (Sum(returns) - DailyRiskFree * Len(returns)), 100 * deviation * Len(returns))

BuildResult(s) ==
    LET returns == ComputeReturns(s.curve)
        wins == SelectSeq(s.log, LAMBDA t : t.pnl > 0)
        losses == SelectSeq(s.log, LAMBDA t : t.pnl < 0)
        pnl(trades) == Sum([i \in DOMAIN trades |-> trades[i].pnl])
        held == [i \in DOMAIN s.log |-> s.log[i].lasted]
    IN  [final |-> Last(s.curve),
         totalReturn |-> Ratio(Last(s.curve) - InitialEquity, InitialEquity),
         drawdown |-> MaxDrawdown(s.curve),
         sharpe |-> RiskRatio(returns, Deviation(returns)),
         sortino |-> RiskRatio(returns, Deviation(SelectSeq(returns, LAMBDA r : r < 0))),
         winRate |-> Ratio(Len(wins), Len(s.log)),
         profitFactor |-> Ratio(pnl(wins), -pnl(losses)),
         average |-> IF s.log = <<>> THEN 0 ELSE HalfEven(pnl(s.log), Len(s.log)),
         duration |-> IF s.log = <<>> THEN 0 ELSE HalfEven(Sum(held), Len(held))]

-----------------------------------------------------------------------------
\* One bar of run() or run_streaming(), whatever the engine makes of it.
TestBar(bar, signals) ==
    /\ bars < TestLength /\ result = <<>>
    /\ sim' = ProcessBar(FoldLeft(LAMBDA s, sig : Opened(s, sig, bar), sim, signals), bar)
    /\ bars' = bars + 1 /\ lastClose' = bar.close
    /\ UNCHANGED result

\* The loop is over.
EndTest ==
    /\ bars > 0 /\ result = <<>>
    /\ sim' = CloseAllPositions(sim, lastClose)
    /\ result' = <<BuildResult(sim')>>
    /\ UNCHANGED <<bars, lastClose>>

\* No bars: the result of an empty log.
EmptyTest ==
    /\ bars = 0 /\ result = <<>>
    /\ result' = <<BuildResult(sim)>>
    /\ UNCHANGED <<sim, bars, lastClose>>

TestInit ==
    /\ sim = [equity |-> InitialEquity, open |-> <<>>, curve |-> <<InitialEquity>>, log |-> <<>>,
              opened |-> 0]
    /\ bars = 0 /\ lastClose = 0 /\ result = <<>>

TestNext ==
    \/ \E bar \in TestBars : \E signals \in {<<>>} \cup {<<sig>> : sig \in TestSignals} :
          TestBar(bar, signals)
    \/ EndTest \/ EmptyTest

\* The equity is the initial one less the commissions of all positions plus the profits
\* in the log, in which a position is once, and only when it is closed.  The equity
\* that is reported misses just the positions closed at the end, and the reported
\* drawdown covers the reported loss (TradeSimulator, BacktestMetrics.compute).
EquityIsExplained ==
    LET paid == Sum([i \in DOMAIN sim.open |-> sim.open[i].commission])
                + Sum([i \in DOMAIN sim.log |-> sim.log[i].commission])
        profit(trades) == Sum([i \in DOMAIN trades |-> trades[i].pnl])
        ids == [i \in DOMAIN sim.open |-> sim.open[i].id]
               \o [i \in DOMAIN sim.log |-> sim.log[i].id]
    IN  /\ sim.equity = InitialEquity - paid + profit(sim.log)
        /\ IsInjective(ids) /\ ToSet(ids) = 1..sim.opened
        /\ result # <<>> =>
              /\ result[1].final + profit(SelectSeq(sim.log, LAMBDA t : t.reason = "end"))
                    = sim.equity
              /\ result[1].drawdown >= -result[1].totalReturn
=============================================================================
