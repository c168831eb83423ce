# Verification of MONEYMAKER

TLA+ modules for MONEYMAKER (`src/program`): the path of market data into the service, of a
bar to a signal, of a signal to the broker, the kill switch, the two programs that guard open
positions, and the shared and auxiliary components around them. TLC checks small instances;
TLAPS proves the central invariants for every value of the constants.

## 1. The system

| Component | State it keeps | Operations | Hard because |
|---|---|---|---|
| Data ingestion (Go) | connection, open bars per symbol, write buffers, flush channels | tick in, bar out, batch insert, publish, reconnect, close | goroutines, bounded channels, shutdown order, overlapping reconnects |
| External data (Python) | job table of the scheduler, cache in Redis | fetch, save, disable, enable again, stop | loops cancelled and started while others run |
| Algo engine: decision | bar buffers, regime with its streak, beliefs, ATR history | `process_bar` up to the suggestion | one state for all symbols, edges of indicators |
| Algo engine: risk gates | portfolio, loss streak, rate window | sizing, validation, booking | state saved and restored around restarts, daily resets, results that come late |
| Algo engine: main loop | bar counter | kill-switch check, receive, process, dispatch, book | every `await` may raise or take long |
| Algo engine: kill switch | cache of a Redis key | `connect`, `is_active`, `activate`, `deactivate` | cache and key diverge; Redis fails; console writes the same key |
| Algo engine: bridge client | breaker counters | `send_signal`: attempts, backoff, breaker | attempts it gives up on go on in the bridge |
| MT5 bridge: order manager | `_recent_signals`, `_execution_lock` | `execute_signal` | several threads, blocking broker calls, process restarts |
| MT5 bridge: position monitor | `_known_positions` | heartbeat, `update`, trailing, recording | broker moves between two calls; exceptions between two effects |
| MT5 bridge: process | terminal session, server, recorder | start, reconnect, shutdown | an event loop that blocks beside threads that do not |
| Guardian EA (MQL5) | mode, kill flag, peak equity | `OnTimer`: heartbeat, kill, weekend close, trailing | runs beside the bridge on the same positions |
| Backtesting | open positions, equity curve | bar, close, metrics | the order of bookings |
| Console | none | `kill activate/deactivate`, queries, service control | ping, then write |
| Dashboard | none | queries, WebSocket push | read-only |
| Shared libraries | token buckets, audit buffer | check, log, flush | shared Redis state, awaits inside loops |

How they interact: ticks become bars in data ingestion and reach the engine over ZeroMQ;
the engine turns a bar into at most one signal and calls the bridge's `ExecuteTrade` over
gRPC; the bridge talks to the MT5 terminal and writes closed trades to PostgreSQL; the EA
lives in the same terminal and sees the bridge only through a heartbeat variable; engine
and console share one Redis key; the external data service leaves its figures in Redis.

What makes each part correct:
- *data path*: bars are the candles of their ticks, nothing is lost or doubled without a
  trace, the feed comes back;
- *decision*: a regime needs confirmation, indicators agree with each other;
- *risk gates*: positions stay within the limit, losses throttle, an hour has its limit;
- *signal path*: one signal, at most one order; nothing booked that was not executed; calls end;
- *kill switch*: a stop is noticed within a known time, holds until lifted, and trading comes back;
- *positions*: limit respected, stops only improve, closes recorded once, somebody always in charge;
- *auxiliaries*: rates are kept, audit losses are counted, jobs keep one loop, the bridge stops cleanly.

## 2. Modules

| Module | Models | Uses |
|---|---|---|
| `OrderManager` | `order_manager.py`, `grpc_server.py`, the order calls of `connector.py` | |
| `SignalExecution` | abstract: what engine and bridge promise about a signal | |
| `TradeExecution` | `grpc_client.py` and the dispatch in `main.py`, over an unreliable network | extends `OrderManager`, refines `SignalExecution` |
| `KillSwitch` | `kill_switch.py`, the console's `kill.py` and `redis_client.py` | |
| `EngineLoop` | the loop of `run_engine` in `main.py` | extends `KillSwitch` |
| `PositionMonitor` | `position_tracker.py`, `trade_recorder.py`, the monitor loop of the bridge | |
| `Guardian` | `GoliathGuardian.mq5` and the heartbeat | extends `PositionMonitor` |
| `BridgeProcess` | the bridge's `main.py`, session and reconnects of `connector.py`, start and stop of the server | |
| `FeedConnector` | `polygon.go`, `binance.go`, the reader of `cmd/server` | |
| `MarketData` | `normalizer.go`, `aggregator.go`, `dbwriter/*.go`, shutdown of `cmd/server` | |
| `Strategies` | the eight strategies, the router, scores and confidences | |
| `Indicators` | `technical.py`, `pipeline.py` | extends `Strategies` |
| `SignalDecision` | `process_bar` up to the suggestion, with regime, beliefs, time frames, tuner | extends `Strategies`, `Rounding` |
| `SignalGates` | generator, sizers, filters of the validator | extends `Rounding` |
| `RiskPipeline` | portfolio, spiral protection, hourly limiter, booking in `main.py` | extends `SignalGates` |
| `TrailingStops` | `trailing_stop.py` | extends `Rounding` |
| `Backtest` | `backtesting/engine.py`, `simulator.py`, `metrics.py` | extends `Rounding` |
| `RateLimiter` | `ratelimit.py`, `ratelimit.go` | |
| `AuditTrail` | `audit.py`, `audit_pg.py` | |
| `ExternalData` | `scheduler.py`, `main.py` and the providers of the external data service | |
| `Rounding` | `Decimal.quantize` with half-even rounding | |
| `MC*` | instances for TLC | |
| `*Proofs` | theorems with TLAPS proofs | |

### OrderManager and TradeExecution
A thread of the executor is `idle`, `waiting` for the lock, `sending`, or `done`. From the
acquisition of the lock to the registration of the id nothing another thread could see
changes, so this is one action with four outcomes (`RejectEarly`, `ConnectorDown`,
`RejectByMarket`, `Register`). `mt5.order_send` takes up to `MaxSend`; it ends with an
order (`OrderDone`), without (`OrderRefused`), or with an exception after which the broker
may have the order or not (`OrderError`). Spread, margin, drawdown and daily-loss checks
depend on broker figures the model does not carry; they are the nondeterministic refusal
`RejectByMarket`. `orders` is the broker's history, with the time of registration and the
incarnation of the bridge process.

The client is one `asyncio` task: `idle`, `rpc` or `backoff`. The request or the answer of
an attempt may be lost (`RpcFails`), the attempt may time out (`RpcDeadline`), and the
thread that serves it goes on in both cases (`DiscardReply`). The breaker is two numbers,
as in the code.

### KillSwitch and EngineLoop
Each awaited Redis command is a state. Times are *ages* capped at `AgeCap`: the age of the
cache stamp, of the key, of an answer on its way. The clock read before the `await` is
`getAge`, and the cache is stamped with it. `redis.exceptions.*` are not the builtin
exceptions `is_active` catches, so with the real client a failing GET raises into the main
loop; `BuiltinErrors` adds the other case. `EngineLoop` places the two checks of the loop,
its sleeps, its catch-all handler, and the retries of `send_signal` around it.

### PositionMonitor, Guardian and BridgeProcess
Prices and stops are pips in the direction of profit, so BUY and SELL coincide. `Update`
reads the positions, forgets the closed ones and computes the new stops; each modification
and each INSERT is a step of its own. In `Guardian` each order the EA sends is a step, and
reading a position and sending its stop are two, so that bridge and EA interleave as they
can in a terminal. `BridgeProcess` is the process around both: one event loop whose steps
go from one `await` to the next, the executor threads that run on while `reconnect()` or the
shutdown block that loop, and the steps of the shutdown. A request that left the terminal is
in `sent` and the broker acts on it when it gets it (`OrderReaches`), during `order_send` or
later: `SendEnds` may return `None` (ERROR) or a retcode other than DONE (REJECTED) with the
order there, on its way or refused; FILLED and PENDING need the order. Limit orders join the
pending ones, which main lists once (`ListPending`) and cancels one by one, and any of them may trigger
(`PendingTriggers`). `ExecuteTrade` itself passes no `order_type` on
(`grpc_server.py:227-239`), so that limit orders come in through `execute_trade` only.

### FeedConnector and MarketData
Connections are numbered by their dial; each has its read loop and possibly a reconnect,
and `p.mu` decides which steps are atomic. Polygon and Binance are one module: they differ
in what a dial does. `MarketData` begins with a raw message: it is normalised by its kind,
written and added to the bar of every time frame; the variable `kind` chooses whether the
run follows the writer of ticks or that of bars, which are the same code. Inserts take two
steps, and the signal may come at any point.

### Strategies, Indicators, SignalDecision
Prices and percentages are integers, confidences are in percent. `Indicators` computes
every indicator from the window of bars, as the pipeline does; `SignalDecision` takes
features as inputs and keeps what the engine remembers between bars. What the code shares
between symbols (regime, quality check, beliefs) is one variable here as well.

### SignalGates and RiskPipeline
Sizes and checks are pure operators over scaled integers; fractions are compared by
cross-multiplication and rounded as `quantize` does. `RiskPipeline` runs them between bars,
fills, closes and restarts. `Stream = FALSE` is the program as it is: nothing fills the
buffer of closed trades. `Stream = TRUE` adds the stream that the docstring names, so that
what the loop does with closed trades can be checked at all.

### The auxiliary components
`TrailingStops`, `Backtest`, `RateLimiter`, `AuditTrail`, `ExternalData` share nothing, so
`MCComponents` explores them, with `SignalDecision`, `Indicators`, `BridgeProcess` and
`PositionMonitor`, in one run: `part` chooses the component and the others stand still. Each
property speaks of one part.

`TrailingStops` counts prices in grains, `Grain` of them the unit 0.00001 of `quantize`, because
entries and first stops are stored as they come (`trailing_stop.py:96-104`); every update
rounds the stop to the unit, moved or not (`:153`). Nothing but its tests calls this module.

`RateLimiter` compares a bucket with an exact one, the history `credit`. What passes because
Redis fails is charged to no bucket, in the code (`ratelimit.py:243-253`, where availability
comes first) as in the model, and the Go client over Redis panics before it answers.

## 3. Runs

| Run | Shows | Bounds, and why they suffice |
|---|---|---|
| `bridge_threads` | `DedupSpacing`, `PositionLimit` | 2 threads, 2 ids (one limit order, one with a timestamp), window 1, sends up to 2 ticks, clock to 2, one restart: a send longer than the window, waiting longer than the maximum age and a restart during a send all occur |
| `signal_once` | `AtMostOnce`, refinement of `SignalExecution` | one tick is 10 s: RPC timeout 1, window 6, recovery 3, three attempts as in production; 2 signals, 2 threads, sends up to 3 ticks, so three attempts of one signal overlap an attempt of another |
| `signal_ends` | `BreakerLimitsAttempts`, `SendReturns`, `EveryCallAnswered` | 2 attempts and threshold 2, so that the breaker opens and half-opens within 7 ticks; one restart |
| `kill_switch` | `TripHolds`, `StopNoticed` | one tick is half a second: cache 2, answers up to 2, both kinds of exceptions |
| `main_loop` | `DispatchNoticesStop`, `StopTakesHold`, `Resumes` | same times, two attempts per dispatch |
| `guardian` | `TakesOverInTime`, `NeverWorseThanInitial`, `FridayFlat` | 1 position, one level below and one above the activation, one tick is the check interval, failures of closes, heartbeats, link, restarts of both |
| `feed` | `OnlyOneConnection`, `ResubscribedWhenQuiet`, `LossesAreCounted`, `FeedRecovers` | 3 connections, so that two reconnects overlap and one of them is the reader of an abandoned connection; a channel of one message, so that it is full; one attempt before giving up |
| `market_data` | `BarsAreExact`, `NoDuplicateBar`, `NothingLostBeforeClose`, `BuffersDrain`, `ShutdownEnds` | 3 ticks over two minutes and time frames of one and two minutes, so that one tick ends both; buffers of 2, one worker and a channel of one batch, so that the synchronous fallback happens |
| `risk` | `OpenLimit`, `HourlyLimit`, `LossesThrottle` | 3 orders, limit 2, threshold 1, a cooldown of two ticks, an hour of one tick, one restart with or without Redis, a start an hour before midnight with a loss at its limit; a symbol that no table knows |
| `unbooked_close` (violation) | a close is never booked | as `risk`, with `Stream = FALSE` |
| `components` | `RegimeIsConfirmed`, `IndicatorsAgree`, `StopLocksIn`, `EquityIsExplained`, `LimiterKeepsRate`, `AuditLossesCounted`, `JobsKeepTheirLoops`, `BridgeStopsCleanly`, `RecordedOnceClosed`, `StopNeverBack` | five bars for three in a row and a change; windows of six bars with periods of 1 to 4, in the relations of the real ones; all modes and both sides of a position, stops half way between two units and entries between them, so that the first update rounds and the later ones start from a unit; tests of four bars; a bucket of three tokens over 20 ticks, longer than its window and than its keys live; four entries over a buffer of two; three jobs with four loops (the COT file of the instance holds no usable row, so that job saves nothing); two calls, one of them a limit order, and an order of an earlier process; for the monitor 2 positions, price levels on both sides of the activation, failures of link and INSERT, restarts |
| `stop_widens` (violation) | an update moves a stop away from the price, against the docstring of `update` | as `components` |

Every property of a passing run has a mutant: an operator of the module named as a
*sensitivity variant*, which changes one definition the way a plausible bug would and makes
the property fail.

Symmetry is used for threads and signals in `bridge_threads` and `signal_once`, which check
invariants and a refinement of a safety specification only; neither speaks of a particular
thread or signal. Deadlock is not checked in `risk`, `components` and `stop_widens`, whose clocks and bounds
end (and whose processes stop); elsewhere waiting for the next bar or message is an explicit
step (`Quiet`, `Idle`, `Ended`).

### Fairness
- `SysFairness`: `asyncio` fires deadlines and ends sleeps; a thread that can get the lock
  again and again gets it (`SF` on `BridgeStep`, because a `threading.Lock` has no queue but
  every holder releases it); time passes. Nothing makes a request or an answer arrive.
- `LoopFairness`: the event loop runs what is ready, a Redis command ends (answer or
  exception), time passes. Bars need not arrive.
- `GuardianLiveSpec`: the terminal fires the timer and `OnTimer` returns, the broker does
  not refuse one close for ever, and the EA is not reloaded for ever.
- `FeedLiveSpec`: goroutines are scheduled; a reconnect that needs the mutex gets it in the
  end (`SF`: Go's mutex hands over to a starving waiter). A dial ends by its timeouts. The
  exchange owes nothing: it may refuse until the connector gives up.
- `MdLiveSpec`: goroutines are scheduled, the ticker fires, an insert ends by its answer or
  its context. Messages and the signal owe nothing.
- `RiskLiveSpec` (`unbooked_close`): the loop runs, bars arrive and every position closes in
  the end. With this much fairness the close is still never booked.

## 4. Proofs

The theorems hold for every value of the constants: any number of threads, signals,
positions, connections, batches, entries, any times and limits. Each safety property below
is proved from an inductive invariant that says what the code knows at each point; TLC
checked each invariant on an instance before the proof.

**`OrderManagerProofs`** (order manager, and the client in front of it)
- `TypeCorrect`, `DedupCorrect`, `PositionLimitHolds`. `DedupSpacing` speaks of past orders
  only; the induction needs what the table remembers. `MemoryInv`: an order of this process
  is in `_recent_signals` under its time, or a later registration is more than the window
  away, or it is itself older than the window. `SendingInv`: the id being sent is registered
  and has no younger order. `LockInv` ties both to the one thread that sends. For the limit,
  `LimitInv` says that while an order is being sent there is room for it.
- `CompositionKeepsBridge` (`SysSpec => Spec`): each step of `TradeExecution` is a step of
  `OrderManager` or leaves it alone, which carries the two results over
  (`DedupInComposition`, `PositionLimitInComposition`). `SysTypeCorrect` types the rest.
- `BreakerBoundsAttempts`, from `BreakerInv`: how many failures each state of the breaker may
  have seen, the attempts left to the call under way included.
- `ExecutedAtMostOnce` and the refinement `ImplementsAbstract`, from `FirstInv`, `OneLifeInv` and
  `ServeInv`, under two hypotheses: the bridge is not restarted (`MaxRestarts = 0`), and no
  call still waits for the lock when the order of its signal has left the window
  (`[]ServedInWindow`). Both are needed (section 5); the proof shows that there is no other
  way to a second order. The run `signal_once` satisfies the second by its times.

**`KillSwitchProofs`** (switch and main loop)
- `TypeCorrect`, `StopNoticedAlways`, `TripHoldsAlways`. `CacheInv`: an open cache is at least as
  old as the key it missed, as the blind clearing it stems from, or as the last failure of
  Redis. `AnswerInv` says the same of an answer on its way. Both are orderings of ages, which
  `Tick` keeps.
- `LoopTypeCorrect`, `DispatchNoticesStopAlways`: the loop's own steps keep the ages
  (`LoopInv`). Assumes `BuiltinErrors = FALSE`: the client raises only its own exceptions.

**`PositionMonitorProofs`** (monitor, and the EA beside it)
- `TypeCorrect`, `RecordedOnceClosedAlways` (`CloseInv`: a recorded position is neither known nor
  waiting to be recorded), `StopNeverBackAlways` (`TargetInv`: a computed stop is above the
  one in place until the monitor itself moves it).
- `GuardianTypeCorrect`, `RecordedOnceBesideGuardian`, `StopsKeepTheirFloor` (`FloorInv`: every
  stop read or computed, stale or not, is at least the initial one), `GuardianTakesOver`
  (`SilenceInv` bounds the age of the heartbeat the EA has seen; assumes a server clock not
  behind the bridge's, `ServerOffset >= 0`).

**`FeedConnectorProofs`**: `OneConnectionAlways` (`MuInv`: who is between lock and unlock holds
`p.mu`; `FreshInv`: numbers not yet dialled are unused), `ResubscribedAlways` (`SubInv`: a
working connection without its subscription has a reconnect that is about to send it),
`LossesCountedAlways` (`LossInv` counts the readers between counting a loss and causing it).

**`MarketDataProofs`**: `MdTypeCorrect`; `NothingLostAlways` (`WriterInv`: the reader comes
to a write with no insert of its own open, and only a worker that inserts holds a batch);
`NoDuplicateBarEver` (`BarsInv`: bars on their way and bars emitted all differ, and while the
aggregator runs the pending bar of a key has a later period than all of them);
`BarsAreExactAlways` (`ExactInv`: ticks are kept in their order, the pending bar of a key is exact for the ticks added so far, and a bar that was
emitted is exact because no later tick falls into its period). The volume of a bar is
stated by its partial sums: a bar is exact if there is a sequence of partial sums over its
ticks that ends in it, which adding a tick extends.

**`RiskPipelineProofs`**: `OpenLimitHolds` (`LimitInv`: the count of the engine and what it lost
track of cover the positions of the broker, and a signal under way has room);
`HourlyLimitHolds` (`StampsInv`: the stamps kept are the signals of the last hour, in order);
`CooldownServedAlways` (`CooldownInv`: the streak counts the results booked, and a cooldown
that is due is known), which is the first conjunct of `LossesThrottle`;
`LossesThrottleAlways` adds the sizes. `StreakInv`: the streak kept counts results at the end
of the bookings that are all losses (`CooldownInv` has the converse, that it misses none),
and a start it holds belongs to a cooldown that is due.
`SizersWithinLimits`, `HalvedPercent` and `ReducedLots` bound what the sizers, the multiplier rounded to percents and the rounded lots can be, for any `MaxLots`.

**`DecisionProofs`**: `RegimeAlwaysConfirmed` (`CandidateInv`: the counter of the candidate is
the number of last bars in a row classified so; `LastBarInv`: a bar with a high ADX that is
no trend has equal averages); `StopLocksInAlways`, for prices on or off the rounding unit
(`QuantiseFacts`: rounding half to even never crosses a multiple of the unit and moves a
price by at most half a unit, so that only the first rounding of a stop loses anything).

**`ComponentProofs`** (bridge process, scheduler, audit trail, rate limiter)
- `BridgeStopsCleanlyAlways`: `CallInv` relates handler, thread and order of a call, `StageInv`
  what each stage of the shutdown has ended, `OrderInv` says that once main has asked for the
  list every pending order is still to be cancelled, kept, or came later (`missed`),
  `SessionInv` who may shut the session.
- `LimiterAlwaysKeepsRate` (`LimiterInv`: the credit of the ideal bucket is at least what the
  bucket holds, over rounding and expired keys; a caller told to wait finds a token at the time promised). `LimiterAssumption` takes a burst within the requests, which the
  presets of the code satisfy (TLC evaluates that). What not every limiter keeps is a condition in the property itself:
  over Redis at most one token a second for the rate (public, trading and strict; the
  internal and health presets break it) and whole seconds per token for the promise; for the
  Go limiter in memory a `Cleanup` that forgets only buckets that are full again, which only
  its tests call. In memory any rate will do.
- `JobsKeepTheirLoopsAlways` (`SchedulerInv`: a loop is the task its job points to).
- `AuditLossesAlwaysCounted` (`AuditInv`: the losses are within the counters both if the flush
  under way is cancelled and if it goes to its end; for the latter it also counts how far
  the index is beyond the end of the buffer, since that many future entries it will not
  see).

Hypotheses on constants: besides those named, `PositionsGetMayFail = FALSE` for the limits
and the recording (section 5 says why it is needed). The `ASSUME`s of the modules are
named and as weak as the code allows: bounds are natural numbers, sets of inputs are finite
or of integers, the cache lives longer than nothing, sentinels are not values. Where a proof
needs the first of several indices, it takes the least one from the well-foundedness of the
natural numbers (`WFMin`), because induction itself is out of reach.

Some attempts changed the model or a statement.
- *Cooldown*: a restart may reload a streak whose later write was lost; the cooldown then
  counts from the start that Redis holds, and the history variable `rest` says so.
- *Audit*: `list.remove` takes out one entry, as the model does, which is the same because the
  buffer holds an entry once.
- *Sizes*: an exact halving per loss is false for large `MaxLots`, because the multiplier is
  rounded to percents and the size to hundredths of a lot. `Throttled` states the bound with
  both roundings.
- *Bars*: the volume was a fold over ticks, which needs an induction to reason about; its
  partial sums say the same.
- *Regime*: the order of the classifier's tests is an `IF` chain, since the branches of a
  `CASE` may overlap, and `recent` keeps as many bars as the hysteresis counts.
- *Stops*: that a stop never moves back holds for rounded prices only, which the code does not
  require; `StopLocksIn` states what the rounding can lose.

Only model-checked:
- liveness, out of the prover's reach: `SendReturns`, `EveryCallAnswered`, `StopTakesHold`,
  `Resumes`, `FridayFlat`, `FeedRecovers`, `BuffersDrain`, `ShutdownEnds`;
- inductions over data: `EquityIsExplained` and `IndicatorsAgree`, which say what folds over
  trades and windows of bars compute.

## 5. What the models say about the code

Properties hold under conditions the code does not enforce:
- *one signal, one order* holds within one life of the bridge, and if the sends a request
  waits for are together shorter than the window. `_recent_signals` is in memory
  (`order_manager.py:71`), and after a send longer than the window `_cleanup_old_signals`
  removes the id of the very order just sent while a retry may be waiting (`:152`). A retry
  of an executed signal is told REJECTED (`:99`), so the engine does not book the position.
- *limit and recording* hold if `positions_get()` never fails: `connector.py:168` turns a
  failed call into an empty list, which counts as no position and as every position closed.
- *age*: `ExecuteTrade` (`grpc_server.py:227`) passes no timestamp on, so the age check runs
  only for other callers. Its rate limiter aborts without `await` (`:216`), so a refused
  request is served; `CheckHealth` (`:267`) uses an attribute that does not exist and always
  says UNHEALTHY.
- *kill switch*: a lost write of `activate` is undone by the next GET; with builtin
  exceptions a cached "inactive" is renewed at every failing GET (`kill_switch.py:188`);
  retries of a dispatch already under way do not ask (`grpc_client.py:254`); the console
  reports success whatever its write returned (`kill.py:114`) and reads a corrupt key as
  inactive (`:84`), which the engine takes for a stop. A loss at the limit never trips the
  switch, since the validator refuses the signals that the check waits for (`main.py:372`).
- *closed trades* (`unbooked_close`): the count of open positions only grows, so that after
  `max_open_positions` fills the engine refuses every signal until it is restarted, and
  loss streak and daily loss never move. When a symbol has two positions, the first one is
  booked as closed whatever its direction (`portfolio.py:95`).
- *breaker*: the half-open state lets one call through, with all its retries, where the
  comment says one attempt (`grpc_client.py:160`).
- *recording*: a stop modification that raises discards the closes the same update had
  found (`position_tracker.py:105`).
- *stops*: bridge and EA may each overwrite the other's better stop; never below the
  initial one. The EA compares server time with UTC (`GoliathGuardian.mq5:187`), so a server
  more than the timeout ahead of UTC keeps it in defensive mode. Its kill flag is set
  although closes failed (`:227`), and a refused close is not tried again.
- *bridge process*: a call may be told ERROR or REJECTED although its order is there:
  `order_send` returned `None`, for which it is enough that `reconnect()` shut the session
  under the send, or a retcode such as PLACED, DONE_PARTIAL or TIMEOUT
  (`order_manager.py:337-340`). The grace of the server ends the
  handler, not its thread. Pending orders are listed once, before the server stops
  (`main.py:225-228`): a limit order that a worker places later survives the shutdown that
  is meant to cancel it.
- *trailing stops* (`stop_widens`): the docstring of `TrailingStopManager.update` says "It never
  widens" (`trailing_stop.py:127-128`), but the first update of a stop on no unit rounds it,
  half a unit away from the price at worst, and a break-even stop may end that far behind the entry.
- *feed*: a `Close` during the dial of a reconnect leaves the new connection open
  (`polygon.go:195`). `DBWriter.Close` leaves the batches queued in its channels
  (`writer.go:431`), those of the final flush included.
- *decision*: bars of every time frame go into one buffer per symbol and each triggers a
  decision; classifier, quality check and beliefs are shared by all symbols. A REVERSAL
  needs equal averages on the two bars before (`RegimeIsConfirmed`), so the breakout strategy is
  hardly ever asked. `validate_bar` gets no previous bar, so its gap checks never run.
- *indicators*: RSI is 100 in a flat market, and a closed Bollinger band gives %B = 0: after
  a fall into a dead market mean reversion buys. A breakout needs the close at the highest
  high, since the channel includes the current bar.
- *sizing*: a Kelly fraction of zero or less reduces nothing.
- *backtest*: a position opened at a bar's close is checked against the range of that same
  bar; the reported final equity misses the positions closed at the end.
- *rate limiter*: with more than a token a second the wait is cut to zero and the caller
  admitted without a token; the Go client asserts a type the script's answer does not have;
  after a restart of Redis the Python client admits everything (`ratelimit.py:187`).
- *audit*: a full buffer during a flush drops one entry and makes the index pass over
  another; `log_async` removes an entry under a flush without counting. The chain starts
  anew with every process.
- *external data*: the cache lives for 300 s, less than the intervals of the jobs; a rate of
  zero is stored as missing; a job added to a running scheduler never runs.

## 6. Not modelled, and the plan

Numerical estimation (`math/`, walk-forward and Monte-Carlo optimisation, attribution) works
on floating-point series, for which TLC has no arithmetic; its results are inputs of
`SignalDecision`. Historical and Parkinson volatility need a logarithm. Statistics of the
trade list, display, formatting, configuration, certificates and deployment are left out.
The macro features read what `ExternalData` stores: an expired key becomes a constant that
is reported as fresh, a spread of zero a missing one. The maturity gate's promotion logic
and the lower levels of `hierarchical_check` have no caller that acts on them. The dashboard
reads only. `PROJECT.json` lists every component with its status and every hazard with the
property that covers it.

All properties of the passing runs are theorems but ten: those of section 4 that are only
model-checked. The modules with theorems use no RECURSIVE
operator.
