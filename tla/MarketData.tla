----------------------------- MODULE MarketData -----------------------------
(***************************************************************************)
(* The data ingestion service behind its connector: a message is           *)
(* normalised into a tick, published, written to the database writer and   *)
(* assembled into the bars of every timeframe; a completed bar is          *)
(* published and written in its turn.                                      *)
(*                                                                         *)
(* Actors: the reader goroutine of cmd/server/main.go, the flush timer and *)
(* the workers of the DBWriter, and the main goroutine, which waits for    *)
(* the signal, flushes, and closes connector, publisher and writer in the  *)
(* order of the deferred calls.  The mutexes of aggregator, buffers and    *)
(* publisher cover single steps; a database insert takes two.              *)
(***************************************************************************)
EXTENDS Integers, Sequences, FiniteSets, SequencesExt, FiniteSetsExt

CONSTANTS
    RawMessages,    \* messages the exchanges send: [exchange, ev, sym, price, ok, volume]
    SymbolMap,      \* the symbol map of main.go: native name -> canonical name
    Derived,        \* what mapSymbol makes of a name that is not in the map
    Timeframes,     \* the timeframes, each as its number of minutes
    BatchSize,      \* capacity of both buffers
    WorkerCount,    \* workers per kind, and capacity of the two channels
    MaxTicks,       \* bound: ticks normalised
    FirstMinute,    \* the clock when the service starts
    MaxMinute       \* bound: the last minute of the clock

ASSUME MarketDataAssumption ==
    /\ IsFiniteSet(RawMessages)
    /\ \A raw \in RawMessages : raw.price \in Nat /\ raw.volume \in Nat
    /\ Timeframes \subseteq Nat \ {0} /\ IsFiniteSet(Timeframes)
    /\ BatchSize \in Nat \ {0} /\ WorkerCount \in Nat \ {0}
    /\ MaxTicks \in Nat /\ FirstMinute \in Nat /\ MaxMinute \in Nat

VARIABLES
    ticks,      \* the ticks normalised so far (history): [sym, time, price, volume]
    reader,     \* control of the reader goroutine
    done,       \* completed bars the reader has still to pass to onComplete
    bars,       \* a.bars: the pending bars
    added,      \* ticks AddTick has handled before FlushAll (history)
    emitted,    \* bars passed to onComplete, in that order (history)
    kind,       \* the kind of record followed through the writer: "tick" or "bar"
    buf,        \* tickBuffer or barBuffer
    chan,       \* tickFlushCh or barFlushCh
    work,       \* the batch each worker is inserting, if any; gone once it returned
    sync,       \* the batch an actor inserts itself because the channel was full
    timer,      \* control of the flush timer
    main,       \* control of the main goroutine
    flushed,    \* bars of FlushAll that main has still to pass to onComplete
    cancelled,  \* w.ctx is cancelled and stopCh closed
    settled     \* records whose insert has ended, (history)

aggVars == <<done, bars, added>>
writerVars == <<buf, chan, sync>>
mdVars == <<ticks, reader, aggVars, emitted, writerVars, work, timer, main, flushed,
            cancelled, kind, settled>>

Actors == {"reader", "timer", "main"}
Workers == 1..WorkerCount
ctxDone == main # "wait"       \* the signal has arrived
Running == main # "ended"      \* the process ends when main returns
now == IF ticks = <<>> THEN FirstMinute ELSE ticks[Len(ticks)].time

-----------------------------------------------------------------------------
(* Normaliser.                                                             *)

Skipped == [skipped |-> TRUE]

\* An explicit entry, or the name split at a known suffix or in upper case.
MapSymbol(native) ==
    IF native \in DOMAIN SymbolMap THEN SymbolMap[native] ELSE Derived[native]

Tick(raw, price, volume) ==
    [skipped |-> FALSE, sym |-> MapSymbol(raw.sym), price |-> price, volume |-> volume]

\* Only trades; a price or quantity that does not parse is an error.
NormalizeBinance(raw) ==
    IF raw.ev = "trade" /\ raw.ok THEN Tick(raw, raw.price, raw.volume) ELSE Skipped

\* The mid price of bid and ask; a currency trade carries no volume.
NormalizePolygonTrade(raw) == IF raw.ok THEN Tick(raw, raw.price, 0) ELSE Skipped

\* A candle of the exchange counts as one tick at its close with its volume.
NormalizePolygonAggregate(raw) ==
    IF raw.ok THEN Tick(raw, raw.price, raw.volume) ELSE Skipped

NormalizePolygonQuote(raw) == IF raw.ok THEN Tick(raw, raw.price, 0) ELSE Skipped

NormalizePolygon(raw) ==
    CASE raw.ev = "C" -> NormalizePolygonTrade(raw)
      [] raw.ev = "CA" -> NormalizePolygonAggregate(raw)
      [] raw.ev = "CQ" -> NormalizePolygonQuote(raw)
      [] OTHER -> Skipped

\* The simulated feed: a number that does not parse becomes zero.
NormalizeMock(raw) ==
    IF raw.ok THEN Tick(raw, raw.price, raw.volume) ELSE Tick(raw, 0, 0)

NormalizeRawMessage(raw) ==
    CASE raw.exchange = "binance" -> NormalizeBinance(raw)
      [] raw.exchange = "polygon" -> NormalizePolygon(raw)
      [] raw.exchange = "mock" -> NormalizeMock(raw)
      [] OTHER -> Skipped

-----------------------------------------------------------------------------
(* Aggregator.                                                             *)

Symbols == {MapSymbol(raw.sym) : raw \in RawMessages}
Keys == Symbols \X Timeframes
NoBar == [open |-> -1]

\* NewAggregator: no bar is open for any symbol and timeframe.
NoBars == [k \in Keys |-> NoBar]

FloorTime(t, tf) == (t \div tf) * tf

OpensBar(key, tick) ==
    [key |-> key, open |-> FloorTime(tick.time, key[2]), o |-> tick.price, h |-> tick.price,
     l |-> tick.price, c |-> tick.price, v |-> tick.volume, n |-> 1]

\* Sensitivity variant: the low is not updated.
UpdatesHighOnly(bar, tick) ==
    [bar EXCEPT !.c = tick.price, !.h = IF tick.price > @ THEN tick.price ELSE @,
                !.v = @ + tick.volume, !.n = @ + 1]

UpdatesBar(bar, tick) ==
    [bar EXCEPT !.c = tick.price,
                !.h = IF tick.price > @ THEN tick.price ELSE @,
                !.l = IF tick.price < @ THEN tick.price ELSE @,
                !.v = @ + tick.volume, !.n = @ + 1]

\* The period of a pending bar is over.
Completes(key, tick) ==
    bars[key] # NoBar /\ FloorTime(tick.time, key[2]) > bars[key].open

Touched(tick) == {key \in Keys : key[1] = tick.sym}

BarsAfter(tick) ==
    [key \in Keys |->
        IF key \notin Touched(tick) THEN bars[key]
        ELSE IF bars[key] = NoBar \/ Completes(key, tick) THEN OpensBar(key, tick)
        ELSE UpdatesBar(bars[key], tick)]

\* The bars of a set of keys as they come when the keys are visited one by one.
BarsOf(keys) == [i \in DOMAIN keys |-> bars[keys[i]]]

\* The completed bars in the order of a.timeframes (shortest first).
CompletedBars(tick) ==
    {BarsOf(keys) : keys \in {s \in SetToSeqs({k \in Touched(tick) : Completes(k, tick)}) :
                                \A i, j \in DOMAIN s : i < j => s[i][2] < s[j][2]}}

\* The pending bars; no property depends on the order in which the map is visited.
PendingBars == BarsOf(SetToSeq({k \in Keys : bars[k] # NoBar}))

-----------------------------------------------------------------------------
(* DBWriter.  Ticks and bars have each a buffer, a channel and workers of  *)
(* the same shape that share nothing but the close: a behaviour follows    *)
(* one kind, and the writes of the other leave no trace.                   *)

\* Add: the whole buffer is returned when it is full.
BufferAdd(record) ==
    IF Len(buf) + 1 >= BatchSize
    THEN [batch |-> Append(buf, record), left |-> <<>>]
    ELSE [batch |-> <<>>, left |-> Append(buf, record)]

\* Sensitivity variant: a full channel drops the batch.
DropsWhenFull(actor, batch) ==
    /\ UNCHANGED sync
    /\ chan' = IF batch # <<>> /\ Len(chan) < WorkerCount THEN Append(chan, batch) ELSE chan

\* A batch goes to the workers, or is inserted by the actor itself when the
\* channel is full.
HandOver(actor, batch) ==
    IF batch = <<>> THEN UNCHANGED <<chan, sync>>
    ELSE IF Len(chan) < WorkerCount
    THEN chan' = Append(chan, batch) /\ UNCHANGED sync
    ELSE sync' = [sync EXCEPT ![actor] = batch] /\ UNCHANGED chan

Free(actor) == sync[actor] = <<>>

Write(actor, record) ==
    LET add == BufferAdd(record)
    IN  buf' = add.left /\ HandOver(actor, add.batch)

WriteTick(tick) == IF kind = "tick" THEN Write("reader", tick) ELSE UNCHANGED writerVars
WriteBar(actor, bar) == IF kind = "bar" THEN Write(actor, bar) ELSE UNCHANGED writerVars

Flush(actor) == buf' = <<>> /\ HandOver(actor, buf)

FlushTicks(actor) == IF kind = "tick" THEN Flush(actor) ELSE UNCHANGED writerVars
FlushBars(actor) == IF kind = "bar" THEN Flush(actor) ELSE UNCHANGED writerVars

\* COPY of one batch ends: all of it is stored, or none, which is only logged
\* (and counted, in a worker).  With the context cancelled none is.
InsertBatch(batch) == settled' = settled \cup ToSet(batch)

\* The insert an actor makes itself ends.
SyncInsert(actor) ==
    /\ Running /\ ~Free(actor)
    /\ InsertBatch(sync[actor])
    /\ sync' = [sync EXCEPT ![actor] = <<>>]
    /\ UNCHANGED <<ticks, reader, aggVars, emitted, kind, buf, chan, work, timer, main,
                   flushed, cancelled>>

\* onComplete: a bar is published (an error of a closed publisher is only
\* logged) and written.
OnComplete(actor, bar) ==
    /\ emitted' = Append(emitted, bar)
    /\ WriteBar(actor, bar)

-----------------------------------------------------------------------------
(* The reader goroutine.                                                   *)

ReaderUnchanged == UNCHANGED <<kind, work, timer, main, flushed, cancelled, settled>>

ReaderChecks ==
    /\ Running /\ reader = "top" /\ Free("reader")
    /\ reader' = IF ctxDone THEN "ended" ELSE "read"
    /\ UNCHANGED <<ticks, aggVars, emitted, writerVars>>
    /\ ReaderUnchanged

\* ReadMessage returns an error (the connector is closed, or gave up), or a
\* message, which is normalised: the tick takes the time of the clock, which
\* may have moved on since the last one.
ReaderReads ==
    /\ Running /\ reader = "read"
    /\ \/ reader' = (IF ctxDone THEN "ended" ELSE "top") /\ UNCHANGED ticks
       \/ \E raw \in RawMessages :
             LET tick == NormalizeRawMessage(raw)
             IN  IF tick.skipped THEN reader' = "top" /\ UNCHANGED ticks
                 ELSE \E t \in now..MaxMinute :
                      /\ Len(ticks) < MaxTicks
                      /\ ticks' = Append(ticks, [sym |-> tick.sym, time |-> t,
                                                 price |-> tick.price, volume |-> tick.volume])
                      /\ reader' = "write"
    /\ UNCHANGED <<aggVars, emitted, writerVars>>
    /\ ReaderUnchanged

\* The tick is published and written.
ReaderWrites ==
    /\ Running /\ reader = "write"
    /\ WriteTick(Len(ticks))
    /\ reader' = "add"
    /\ UNCHANGED <<ticks, aggVars, emitted>>
    /\ ReaderUnchanged

\* AddTick, the part under the lock.
AddTick ==
    /\ Running /\ reader = "add" /\ Free("reader")
    /\ LET tick == Last(ticks)
       IN  /\ bars' = BarsAfter(tick)
           /\ done' \in CompletedBars(tick)
    /\ added' = IF main \in {"wait", "flushall"} THEN added \cup {Len(ticks)} ELSE added
    /\ reader' = IF done' = <<>> THEN "top" ELSE "callback"
    /\ UNCHANGED <<ticks, emitted, writerVars>>
    /\ ReaderUnchanged

\* The part after it: onComplete for each completed bar.
AddTickReturns ==
    /\ Running /\ reader = "callback" /\ Free("reader")
    /\ OnComplete("reader", Head(done))
    /\ done' = Tail(done)
    /\ reader' = IF done' = <<>> THEN "top" ELSE "callback"
    /\ UNCHANGED <<ticks, bars, added>>
    /\ ReaderUnchanged

ReaderStep == ReaderChecks \/ ReaderWrites \/ AddTick \/ AddTickReturns

-----------------------------------------------------------------------------
(* Workers and flush timer.                                                *)

Idle == [state |-> "idle", batch |-> <<>>]
Gone == [state |-> "gone", batch |-> <<>>]

WorkerUnchanged == UNCHANGED <<ticks, reader, aggVars, emitted, kind, buf, sync, timer, main,
                               flushed, cancelled>>

\* The top of the loop waits for stopCh or a batch; both may be ready.
WorkerTakes(i) ==
    /\ Running /\ work[i] = Idle /\ chan # <<>>
    /\ work' = [work EXCEPT ![i] = [state |-> "insert", batch |-> Head(chan)]]
    /\ chan' = Tail(chan)
    /\ UNCHANGED settled
    /\ WorkerUnchanged

\* Sensitivity variant: stopCh makes the worker look again instead of returning.
WorkerContinues(i) ==
    /\ Running /\ work[i] = Idle /\ cancelled
    /\ UNCHANGED mdVars

WorkerStops(i) ==
    /\ Running /\ work[i] = Idle /\ cancelled
    /\ work' = [work EXCEPT ![i] = Gone]
    /\ UNCHANGED <<chan, settled>>
    /\ WorkerUnchanged

WorkerInserts(i) ==
    /\ Running /\ work[i].state = "insert"
    /\ InsertBatch(work[i].batch)
    /\ work' = [work EXCEPT ![i] = Idle]
    /\ UNCHANGED chan
    /\ WorkerUnchanged

WorkerStep(i) == WorkerTakes(i) \/ WorkerStops(i) \/ WorkerInserts(i)
TickWorker(i) == kind = "tick" /\ WorkerStep(i)
BarWorker(i) == kind = "bar" /\ WorkerStep(i)

\* Sensitivity variant: the timer flushes the bars only.
TimerForgetsTicks ==
    /\ Running /\ timer = "idle" /\ Free("timer")
    /\ \/ cancelled /\ timer' = "gone" /\ UNCHANGED writerVars
       \/ buf # <<>> /\ FlushBars("timer") /\ UNCHANGED timer
    /\ UNCHANGED <<ticks, reader, aggVars, emitted, kind, work, main, flushed, cancelled, settled>>

\* stopCh, or the ticker: FlushTicks and FlushBars.
FlushTimer ==
    /\ Running /\ timer = "idle" /\ Free("timer")
    /\ \/ cancelled /\ timer' = "gone" /\ UNCHANGED writerVars
       \/ /\ buf # <<>>
          /\ IF kind = "tick" THEN FlushTicks("timer") ELSE FlushBars("timer")
          /\ UNCHANGED timer
    /\ UNCHANGED <<ticks, reader, aggVars, emitted, kind, work, main, flushed, cancelled, settled>>

-----------------------------------------------------------------------------
(* The main goroutine: the signal, the flushes, the deferred calls.        *)

MainUnchanged == UNCHANGED <<kind, ticks, reader, done, added, work, timer, settled>>

Signal ==
    /\ main = "wait"
    /\ main' = "flushall"
    /\ UNCHANGED <<bars, emitted, writerVars, flushed, cancelled>>
    /\ MainUnchanged

\* Sensitivity variant: the flushed bars stay in the map.
FlushAllKeeps ==
    /\ main = "flushall"
    /\ flushed' = PendingBars
    /\ main' = IF flushed' = <<>> THEN "flush" ELSE "emit"
    /\ UNCHANGED <<bars, emitted, writerVars, cancelled>>
    /\ MainUnchanged

\* FlushAll, the part under the lock.
FlushAll ==
    /\ main = "flushall"
    /\ flushed' = PendingBars
    /\ bars' = NoBars
    /\ main' = IF flushed' = <<>> THEN "flush" ELSE "emit"
    /\ UNCHANGED <<emitted, writerVars, cancelled>>
    /\ MainUnchanged

FlushAllReturns ==
    /\ main = "emit" /\ Free("main")
    /\ OnComplete("main", Head(flushed))
    /\ flushed' = Tail(flushed)
    /\ main' = IF flushed' = <<>> THEN "flush" ELSE "emit"
    /\ UNCHANGED <<bars, cancelled>>
    /\ MainUnchanged

\* dbWriter.FlushTicks and FlushBars.
FinalFlush ==
    /\ main = "flush" /\ Free("main")
    /\ IF kind = "tick" THEN FlushTicks("main") ELSE FlushBars("main")
    /\ main' = "cancel"
    /\ UNCHANGED <<bars, emitted, flushed, cancelled>>
    /\ MainUnchanged

\* The deferred calls: conn.Close and pub.Close end nothing that others wait
\* for; DBWriter.Close: cancel and stop, insert what the buffers hold (with a
\* context of its own), wait for workers and timer.
CloseWriter ==
    /\ Free("main")
    /\ \/ /\ main = "cancel" /\ cancelled' = TRUE /\ main' = "lastflush"
          /\ UNCHANGED writerVars
       \/ /\ main = "lastflush"
          /\ sync' = [sync EXCEPT !["main"] = buf] /\ buf' = <<>>
          /\ main' = "wgwait"
          /\ UNCHANGED <<chan, cancelled>>
       \/ /\ main = "wgwait"
          /\ timer = "gone" /\ \A i \in Workers : work[i] = Gone
          /\ main' = "ended"
          /\ UNCHANGED <<writerVars, cancelled>>
    /\ UNCHANGED <<bars, emitted, flushed>>
    /\ MainUnchanged

MainStep == FlushAll \/ FlushAllReturns \/ FinalFlush \/ CloseWriter

Ended == ~Running /\ UNCHANGED mdVars

-----------------------------------------------------------------------------
MdInit ==
    /\ ticks = <<>> /\ reader = "top" /\ done = <<>>
    /\ bars = NoBars /\ added = {}
    /\ emitted = <<>>
    /\ kind \in {"tick", "bar"}
    /\ buf = <<>> /\ chan = <<>> /\ sync = [a \in Actors |-> <<>>]
    /\ work = [i \in Workers |-> Idle]
    /\ timer = "idle" /\ main = "wait" /\ flushed = <<>> /\ cancelled = FALSE
    /\ settled = {}

MdNext ==
    \/ ReaderStep \/ ReaderReads
    \/ \E i \in Workers : TickWorker(i) \/ BarWorker(i)
    \/ FlushTimer \/ Signal \/ MainStep \/ Ended
    \/ \E a \in Actors : SyncInsert(a)

MdSpec == MdInit /\ [][MdNext]_mdVars

\* Goroutines are scheduled and the ticker fires; the exchange and the signal owe
\* nothing.  An insert ends: by its answer or by its context.
MdLiveSpec ==
    /\ MdSpec
    /\ WF_mdVars(ReaderStep) /\ WF_mdVars(MainStep) /\ WF_mdVars(FlushTimer)
    /\ \A i \in Workers : WF_mdVars(WorkerStep(i))
    /\ \A a \in Actors : WF_mdVars(SyncInsert(a))

-----------------------------------------------------------------------------
(* Properties.                                                             *)

\* The ticks of a bar's symbol and period among those AddTick had handled when
\* the bars were flushed.
TicksOf(bar) ==
    {i \in added : /\ ticks[i].sym = bar.key[1]
                   /\ FloorTime(ticks[i].time, bar.key[2]) = bar.open}

\* The volumes of these ticks add up to v: there are partial sums that end there.
VolumesAddUp(ids, v) ==
    \E sum \in [1..Max(ids) -> 0..v] :
        /\ \A i \in 1..Max(ids) :
              sum[i] = (IF i = 1 THEN 0 ELSE sum[i - 1])
                       + (IF i \in ids THEN ticks[i].volume ELSE 0)
        /\ sum[Max(ids)] = v

\* The bar is the candle of these ticks.
CandleOf(bar, ids) ==
    LET prices == {ticks[i].price : i \in ids}
    IN  /\ ids # {} /\ bar.n = Cardinality(ids)
        /\ bar.o = ticks[Min(ids)].price /\ bar.c = ticks[Max(ids)].price
        /\ bar.h = Max(prices) /\ bar.l = Min(prices)
        /\ VolumesAddUp(ids, bar.v)

\* A bar that reaches strategy and database is the candle of exactly the ticks
\* of its period: none is missing, counted twice, or taken into the next bar,
\* in any timeframe, whether its period ended or the shutdown flushed it.
BarsAreExact == \A i \in 1..Len(emitted) : CandleOf(emitted[i], TicksOf(emitted[i]))

\* One life of the process emits one bar per symbol, timeframe and period, also
\* when the reader is in the middle of AddTick while FlushAll runs: the table
\* is unique on these columns, and one duplicate makes COPY refuse its batch.
NoDuplicateBar ==
    \A i, j \in 1..Len(emitted) :
        (emitted[i].key = emitted[j].key /\ emitted[i].open = emitted[j].open) => i = j

\* Records in the channel, with the workers and with the actors that insert themselves.
ChanSet == UNION {ToSet(chan[i]) : i \in 1..Len(chan)}
WorkSet == UNION {ToSet(work[i].batch) : i \in Workers}
SyncSet == UNION {ToSet(sync[a]) : a \in Actors}
InFlight == ToSet(buf) \cup ChanSet \cup WorkSet \cup SyncSet

Written ==
    IF kind = "bar" THEN ToSet(emitted)
    ELSE 1..(IF reader = "write" THEN Len(ticks) - 1 ELSE Len(ticks))

\* Until Close nothing written disappears between buffer, channel, worker and
\* synchronous fallback: each record is on its way or was in an insert.
NothingLostBeforeClose == ~cancelled => Written = InFlight \cup settled

\* A record in a buffer that never fills is still taken to the database, by the
\* timer or by the shutdown.
BuffersDrain == buf # <<>> ~> (buf = <<>> \/ cancelled)

\* A signal ends the process: Close waits for workers and timer, which may be
\* idle, inserting, or have batches before them that nobody will store.
ShutdownEnds == ctxDone ~> ~Running

=============================================================================
