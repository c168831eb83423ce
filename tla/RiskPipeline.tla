---------------------------- MODULE RiskPipeline ----------------------------
(***************************************************************************)
(* The stateful gates of the algo engine and the part of its main loop     *)
(* that feeds them: PortfolioStateManager, SpiralProtection and the hourly *)
(* SignalRateLimiter decide on every signal; fills and closed trades come  *)
(* back through the bridge client; loss streak and daily loss are kept in  *)
(* Redis across restarts.                                                  *)
(*                                                                         *)
(* process_bar awaits nothing, so a bar is one step.  The loop awaits      *)
(* send_signal and, for every closed trade, the write of the daily loss;   *)
(* the tasks that write the loss streak run where it awaits, and their     *)
(* writes use several connections.                                         *)
(*                                                                         *)
(* Nothing under src/ puts a trade into BridgeClient._closed_trades_buffer *)
(* (its docstring names the stream StreamTradeUpdates).  Stream = FALSE is *)
(* the program as it is; Stream = TRUE adds that stream, so that what the  *)
(* loop does with a closed trade can be checked.                           *)
(***************************************************************************)
EXTENDS SignalGates, SequencesExt

CONSTANTS
    Suggestions,     \* what the strategies may suggest: [sym, dir, conf, price, atr, spread]
    Starts,          \* how a behaviour may start: [hour, loss, advanced, maturity, cvar], the hour
                     \* of the day, the saved loss of the day and how the engine is built
    MaxPerHour,      \* algo_max_signals_per_hour
    Threshold,       \* algo_spiral_loss_threshold
    MaxLosses,       \* algo_spiral_max_losses
    Cooldown,        \* algo_spiral_cooldown_minutes, in ticks
    Hour,            \* ticks in an hour
    PollEvery,       \* closed trades are polled on every PollEvery-th bar (10)
    Stream,          \* a stream delivers the closed trades
    Horizon,         \* bound: ticks of a behaviour
    MaxPositions,    \* bound: orders sent, and signals of one process
    MaxRestarts      \* bound: restarts of the engine

ASSUME RiskAssumption ==
    /\ MaxPerHour \in Nat \ {0} /\ Threshold \in Nat \ {0} /\ MaxLosses \in Nat \ {0}
    /\ Cooldown \in Nat \ {0} /\ Hour \in Nat \ {0} /\ PollEvery \in Nat \ {0}
    /\ Stream \in BOOLEAN
    /\ Horizon \in Nat /\ MaxPositions \in Nat /\ MaxRestarts \in Nat

ASSUME InputAssumption ==
    /\ \A s \in Suggestions : /\ s.sym \in DOMAIN Instruments
                              /\ s.conf \in Nat /\ s.price \in Nat /\ s.atr \in Nat
    /\ \A st \in Starts : st.advanced \in BOOLEAN /\ st.maturity \in Nat /\ st.cvar \in Nat

VARIABLES
    start,      \* how the behaviour started
    now,        \* ticks since then
    pc,         \* the loop: "idle", "dispatch", "open" or "failed" (an order was sent
                \* and opened a position or not), "poll", "booking"
    bar,        \* bar_counter modulo PollEvery
    sig,        \* the signal being dispatched, with its lots
    pf,         \* the portfolio: [count, detail, loss, day]
    spiral,     \* the loss streak: [losses, from], from the time its cooldown began
    stamps,     \* times of the signals in the limiter
    redis,      \* the engine has a Redis client
    saved,      \* in Redis: [streak, losses], losses[d] the loss of day d
    tasks,      \* persist tasks: how many have not begun, and the values being written
    broker,     \* positions open at the broker: [sym, dir]
    buffer,     \* closed trades the client holds: [sym, won]
    closing,    \* closed trades the loop is booking
    sent,       \* orders sent
    restarts,
    lost,       \* history: positions the engine does not know of
    results,    \* history: results booked since the streak was last loaded or served
    rest,       \* history: when a cooldown that is due ends, as far as this process can know
    issued      \* history: when this process issued signals

pfVars == <<pf, stamps, spiral>>
redisVars == <<redis, saved, tasks>>
brokerVars == <<broker, buffer, closing, sent>>
history == <<lost, results, rest, issued>>
riskVars == <<start, now, pc, bar, sig, pfVars, redisVars, brokerVars, restarts, history>>

NoSignal == [sym |-> "none"]
NoStart == -1
NoStreak == [losses |-> 0, until |-> NoStart]
NoLosses == [losses |-> 0, from |-> NoStart]

HourOf(t) == (start.hour + t \div Hour) % 24
Day(t) == (start.hour + t \div Hour) \div 24
Minute(t) == (t * 60) \div Hour

-----------------------------------------------------------------------------
(* PortfolioStateManager.                                                  *)

NewPortfolio(loss) == [count |-> 0, detail |-> <<>>, loss |-> loss, day |-> Day(now)]

\* _check_daily_reset, at the head of get_state.
DailyReset(p) == IF p.day = Day(now) THEN p ELSE [p EXCEPT !.loss = 0, !.day = Day(now)]

RecordFill(p, s) ==
    [p EXCEPT !.count = @ + 1, !.detail = Append(@, [sym |-> s.sym, dir |-> s.dir])]

\* The first position of the symbol leaves the list, whatever its direction: the
\* loop gives none.
RecordClose(p, trade) ==
    LET ofSym == {i \in DOMAIN p.detail : p.detail[i].sym = trade.sym}
    IN  [p EXCEPT !.count = Max({0, @ - 1}),
                  !.detail = IF ofSym = {} THEN @ ELSE RemoveAt(@, Min(ofSym))]

-----------------------------------------------------------------------------
(* SpiralProtection.                                                       *)

\* Sensitivity variant: the cooldown begins one loss late.
RecordTradeResultLate(sp, won) ==
    IF won THEN NoLosses
    ELSE [losses |-> sp.losses + 1,
          from |-> IF sp.losses >= MaxLosses THEN now ELSE sp.from]

RecordTradeResult(sp, won) ==
    IF won THEN NoLosses
    ELSE [losses |-> sp.losses + 1,
          from |-> IF sp.losses + 1 >= MaxLosses THEN now ELSE sp.from]

InCooldown(sp) == sp.from # NoStart /\ now - sp.from < Cooldown

\* is_in_cooldown forgets a cooldown that is over, and the streak with it.
AfterCheck(sp) ==
    IF sp.from # NoStart /\ ~InCooldown(sp) THEN NoLosses ELSE sp

\* In percent: halved for the threshold and once more for each loss above it; the
\* seventh halving is below the floor of 0.01.
SizingMultiplier(sp) ==
    LET halvings == sp.losses - Threshold + 1
    IN  IF halvings < 1 THEN 100
        ELSE IF halvings > 6 THEN 0 ELSE HalfEven(100, 2 ^ halvings)

\* What a persist task writes: the wall clock at which the cooldown ends.
StreakData(sp) ==
    [losses |-> sp.losses,
     until |-> IF InCooldown(sp) THEN sp.from + Cooldown ELSE NoStart]

\* sync_from_redis.
LoadedStreak(data) ==
    IF data.until = NoStart THEN [losses |-> data.losses, from |-> NoStart]
    ELSE IF data.until > now THEN [losses |-> data.losses, from |-> data.until - Cooldown]
    ELSE NoLosses

-----------------------------------------------------------------------------
(* SignalRateLimiter.                                                      *)

\* The deque loses its first entries as long as they are older than the cutoff.
DropBefore(s, cutoff) ==
    SubSeq(s, Min({i \in DOMAIN s : s[i] >= cutoff} \cup {Len(s) + 1}), Len(s))

\* Sensitivity variant: entries are dropped a tick too early.
CleanupEarly(s) == DropBefore(s, now - Hour + 1)

Cleanup(s) == DropBefore(s, now - Hour)

Allow(s) == Len(Cleanup(s)) < MaxPerHour

-----------------------------------------------------------------------------
(* process_bar, from the suggestion of the strategies on.                  *)

SizedLots(s) ==
    LET lots == IF start.advanced THEN AdvancedLots(s, 0, start.cvar, <<>>) ELSE BasicLots(s, 0)
    IN  Reduced(lots, start.maturity)

LimitOk(p) == p.count < MaxOpen

\* The filters at the end of validate: currency exposure, session, calendar.
FiltersOk(s, p) ==
    /\ CorrelationOk(s, p.detail)
    /\ SessionOk(s, HourOf(now))
    /\ ~IsBlackout(s.sym, Minute(now))

\* SignalValidator.validate; the drawdown stays at zero, because nothing updates it.
Validate(s, lots, p) ==
    /\ s.dir # "HOLD"
    /\ LimitOk(p)
    /\ 0 < MaxDrawdown /\ p.loss < MaxDailyLoss
    /\ s.conf >= MinConfidence
    /\ SpreadOk(s) /\ StopOk(s) /\ RewardOk(s) /\ MarginOk(s, lots)
    /\ FiltersOk(s, p)

\* The size after all multipliers.
LotsAfterGates(s) == Reduced(SizedLots(s), SizingMultiplier(AfterCheck(spiral)))

Accepted(s) ==
    /\ ~InCooldown(spiral)
    /\ Validate(s, LotsAfterGates(s), DailyReset(pf))
    /\ Allow(stamps)

\* A bar arrives and gives a signal that passes every gate.
BarSignal(suggestion) ==
    LET s == GenerateSignal(suggestion)
    IN  /\ pc = "idle" /\ sent < MaxPositions /\ Len(issued) < MaxPositions
        /\ Generates(suggestion) /\ Accepted(s)
        /\ sig' = [sym |-> s.sym, dir |-> s.dir, lots |-> LotsAfterGates(s)]
        /\ pf' = DailyReset(pf)
        /\ stamps' = Append(Cleanup(stamps), now)
        /\ spiral' = AfterCheck(spiral)
        /\ results' = IF spiral.from # NoStart THEN <<>> ELSE results
        /\ bar' = (bar + 1) % PollEvery
        /\ issued' = Append(issued, now)
        /\ pc' = "dispatch"
        /\ UNCHANGED <<start, now, redisVars, brokerVars, restarts, lost, rest>>

\* A bar arrives and a gate refuses the signal: the iteration ends here.
BarRefused(suggestion) ==
    LET s == GenerateSignal(suggestion)
    IN  /\ pc = "idle"
        /\ ~(Generates(suggestion) /\ Accepted(s))
        /\ bar' = (bar + 1) % PollEvery
        /\ IF Generates(suggestion)
           THEN /\ spiral' = AfterCheck(spiral)
                /\ results' = IF spiral.from # NoStart /\ ~InCooldown(spiral) THEN <<>> ELSE results
                /\ pf' = DailyReset(pf)
           ELSE UNCHANGED <<spiral, results, pf>>
        /\ UNCHANGED <<start, now, pc, sig, stamps, redisVars, brokerVars, restarts,
                       lost, rest, issued>>

-----------------------------------------------------------------------------
(* The main loop after a signal.                                           *)

\* The kill switch is active: the signal is dropped, though the limiter counts it.
KillSwitchDrops ==
    /\ pc = "dispatch"
    /\ pc' = "idle" /\ sig' = NoSignal
    /\ UNCHANGED <<start, now, bar, pfVars, redisVars, brokerVars, restarts, history>>

\* send_signal reaches the bridge, which opens the position or refuses.
Send(opens) ==
    /\ pc = "dispatch"
    /\ sent' = sent + 1
    /\ broker' = IF opens THEN Append(broker, [sym |-> sig.sym, dir |-> sig.dir]) ELSE broker
    /\ pc' = IF opens THEN "open" ELSE "failed"
    /\ UNCHANGED <<start, now, bar, sig, pfVars, redisVars, buffer, closing, restarts,
                   history>>

\* The iteration polls closed trades, or ends with get_state for the drawdown enforcer,
\* which compares an equity and a peak that never change.
AfterDispatch(p) ==
    IF bar = 0 THEN pc' = "poll" /\ pf' = p ELSE pc' = "idle" /\ pf' = DailyReset(p)

SaveDay(p) == IF redis THEN [saved EXCEPT !.losses[Day(now)] = p.loss] ELSE saved

\* Sensitivity variant: a fill is not counted.
FilledUncounted ==
    /\ pc = "open"
    /\ saved' = SaveDay(pf)
    /\ AfterDispatch(pf) /\ sig' = NoSignal
    /\ UNCHANGED <<start, now, bar, spiral, stamps, redis, tasks, brokerVars, restarts,
                   history>>

\* FILLED: record_fill and persist_to_redis.
Filled ==
    /\ pc = "open"
    /\ saved' = SaveDay(pf)
    /\ AfterDispatch(RecordFill(pf, sig)) /\ sig' = NoSignal
    /\ UNCHANGED <<start, now, bar, spiral, stamps, redis, tasks, brokerVars, restarts,
                   history>>

\* Refused by the bridge, or all attempts failed: with or without a position behind.
NotFilled ==
    /\ pc \in {"open", "failed"}
    /\ AfterDispatch(pf) /\ sig' = NoSignal
    /\ lost' = IF pc = "open" THEN lost + 1 ELSE lost
    /\ UNCHANGED <<start, now, bar, spiral, stamps, redisVars, brokerVars, restarts,
                   results, rest, issued>>

\* get_closed_trades empties the buffer.
Poll ==
    /\ pc = "poll"
    /\ closing' = buffer /\ buffer' = <<>>
    /\ pc' = "booking"
    /\ UNCHANGED <<start, now, bar, sig, pfVars, redisVars, broker, sent, restarts, history>>

\* record_close, record_trade_result with its task, and persist_to_redis, awaited.
BookOne ==
    /\ pc = "booking" /\ closing # <<>>
    /\ LET trade == Head(closing)
       IN  /\ pf' = RecordClose(pf, trade)
           /\ spiral' = RecordTradeResult(spiral, trade.won)
           /\ results' = Append(results, trade.won)
    /\ rest' = IF results'[Len(results')] THEN NoStart
               ELSE IF Len(results') >= MaxLosses
                       /\ \A i \in (Len(results') - MaxLosses + 1)..Len(results') : ~results'[i]
                    THEN now + Cooldown ELSE rest
    /\ tasks' = IF redis THEN [tasks EXCEPT !.new = @ + 1] ELSE tasks
    /\ saved' = SaveDay(pf')
    /\ closing' = Tail(closing)
    /\ UNCHANGED <<start, now, pc, bar, sig, stamps, redis, broker, buffer, sent,
                   restarts, lost, issued>>

\* The iteration ends with get_state, as above.
BookingDone ==
    /\ pc = "booking" /\ closing = <<>>
    /\ pf' = DailyReset(pf)
    /\ pc' = "idle"
    /\ UNCHANGED <<start, now, bar, sig, spiral, stamps, redisVars, brokerVars, restarts,
                   history>>

\* A persist task begins at one of the loop's awaits: it takes the state of that moment.
PersistBegins ==
    /\ tasks.new > 0
    /\ tasks' = [new |-> tasks.new - 1, writing |-> tasks.writing \cup {StreakData(spiral)}]
    /\ UNCHANGED <<start, now, pc, bar, sig, pfVars, redis, saved, brokerVars, restarts,
                   history>>

\* Its write arrives, in any order, or fails.
PersistEnds(data, ok) ==
    /\ data \in tasks.writing
    /\ tasks' = [tasks EXCEPT !.writing = @ \ {data}]
    /\ saved' = IF ok THEN [saved EXCEPT !.streak = data] ELSE saved
    /\ UNCHANGED <<start, now, pc, bar, sig, pfVars, redis, brokerVars, restarts, history>>

-----------------------------------------------------------------------------
(* Broker, process and time.                                               *)

\* A position closes with a profit or a loss; the stream, if there is one, reports it.
BrokerCloses(i, won) ==
    /\ broker' = RemoveAt(broker, i)
    /\ buffer' = IF Stream THEN Append(buffer, [sym |-> broker[i].sym, won |-> won]) ELSE buffer
    /\ UNCHANGED <<start, now, pc, bar, sig, pfVars, redisVars, closing, sent, restarts,
                   history>>

\* The process dies and starts again, with or without Redis: only what is saved is left.
EngineRestarts(withRedis) ==
    /\ restarts < MaxRestarts
    /\ restarts' = restarts + 1
    /\ redis' = withRedis
    /\ pf' = NewPortfolio(IF withRedis THEN saved.losses[Day(now)] ELSE 0)
    /\ spiral' = IF withRedis THEN LoadedStreak(saved.streak) ELSE NoLosses
    /\ rest' = IF spiral'.from = NoStart THEN NoStart ELSE spiral'.from + Cooldown
    /\ results' = [i \in 1..spiral'.losses |-> FALSE]
    /\ stamps' = <<>> /\ issued' = <<>> /\ tasks' = [new |-> 0, writing |-> {}]
    /\ buffer' = <<>> /\ closing' = <<>> /\ sig' = NoSignal
    /\ pc' = "idle" /\ bar' = 0
    /\ lost' = lost + Len(broker)
    /\ UNCHANGED <<start, now, saved, broker, sent>>

Tick ==
    /\ now < Horizon
    /\ now' = now + 1
    /\ UNCHANGED <<start, pc, bar, sig, pfVars, redisVars, brokerVars, restarts, history>>

RiskInit ==
    /\ start \in Starts
    /\ now = 0 /\ pc = "idle" /\ bar = 0 /\ sig = NoSignal
    /\ redis = TRUE
    /\ saved = [streak |-> NoStreak,
                losses |-> [d \in 0..Day(Horizon) |-> IF d = Day(0) THEN start.loss ELSE 0]]
    /\ pf = NewPortfolio(start.loss)
    /\ spiral = NoLosses
    /\ stamps = <<>> /\ tasks = [new |-> 0, writing |-> {}]
    /\ broker = <<>> /\ buffer = <<>> /\ closing = <<>> /\ sent = 0
    /\ restarts = 0 /\ lost = 0 /\ results = <<>> /\ rest = NoStart
    /\ issued = <<>>

LoopStep ==
    \/ KillSwitchDrops
    \/ \E opens \in BOOLEAN : Send(opens)
    \/ Filled \/ NotFilled
    \/ Poll \/ BookOne \/ BookingDone
    \/ PersistBegins
    \/ \E data \in tasks.writing, ok \in BOOLEAN : PersistEnds(data, ok)

Bars == \E s \in Suggestions : BarSignal(s) \/ BarRefused(s)

RiskNext ==
    \/ LoopStep
    \/ Bars
    \/ \E i \in DOMAIN broker, won \in BOOLEAN : BrokerCloses(i, won)
    \/ \E withRedis \in BOOLEAN : EngineRestarts(withRedis)
    \/ Tick

RiskSpec == RiskInit /\ [][RiskNext]_riskVars

\* The event loop runs what is ready, bars arrive and every position closes in the end.
RiskLiveSpec ==
    RiskSpec /\ WF_riskVars(LoopStep) /\ WF_riskVars(Bars)
             /\ WF_riskVars(\E i \in DOMAIN broker, won \in BOOLEAN : BrokerCloses(i, won))

-----------------------------------------------------------------------------
(* Properties.                                                             *)

\* The positions at the broker exceed algo_max_open_positions by no more than those the
\* engine cannot know of: an answer that was lost, or a restart.  Fills, closes that the
\* broker reports late and bookings in any order keep the engine's count an upper bound
\* (SignalValidator.validate, check 2, against PortfolioStateManager).
OpenLimit == Len(broker) <= MaxOpen + lost

TrailingLosses(r) ==
    LET won == {i \in DOMAIN r : r[i]}
    IN  Len(r) - Max(won \cup {0})

Dispatches == pc = "idle" /\ pc' = "dispatch"

\* No signal is issued while a cooldown that the booked results made due is not over
\* (SpiralProtection as AlgoEngine uses it).  A process that starts again owes the cooldown
\* that the last write to arrive has left in Redis.
CooldownServed == [][Dispatches => rest = NoStart \/ now >= rest]_riskVars

\* After so many losses in a row a signal of this size is small enough: the smallest, or
\* at most the largest halved for each loss from the threshold on, where the multiplier
\* is off by half a percent at most and the lots by half a hundredth.
Throttled(k, lots) ==
    LET halvings == k - Threshold + 1
    IN  \/ lots = MinLots
        \/ halvings <= 6 /\ (200 * lots - 100 - MaxLots) * 2 ^ halvings <= 200 * MaxLots

\* That, and after Threshold losses in a row or more a signal is throttled for each of
\* them, with bookings, restarts and a cooldown that ends unnoticed; never is it smaller
\* than the smallest size or larger than the largest.
LossesThrottle ==
    [][Dispatches =>
          LET k == TrailingLosses(results)
          IN  /\ rest = NoStart \/ now >= rest
              /\ sig'.lots \in MinLots..MaxLots
              /\ rest = NoStart /\ k >= Threshold => Throttled(k, sig'.lots)]_riskVars

\* Within any hour, both ends included, one process issues at most MaxPerHour signals
\* (SignalRateLimiter.allow and record around a window that slides).
HourlyLimit ==
    \A i \in DOMAIN issued :
        Cardinality({j \in DOMAIN issued : issued[j] \in issued[i]..(issued[i] + Hour)})
            <= MaxPerHour

\* When the broker has closed a position, the engine's count comes down in the end:
\* "aggiornato dopo ogni esecuzione di segnale (fill) e chiusura di posizione"
\* (portfolio.py).
ClosesAreBooked == (pf.count > Len(broker)) ~> (pf.count <= Len(broker))
=============================================================================
