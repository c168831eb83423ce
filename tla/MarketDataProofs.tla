-------------------------- MODULE MarketDataProofs --------------------------
(***************************************************************************)
(* Theorems about MarketData for any messages, timeframes, batch size and  *)
(* number of workers: type correctness, that the database writer loses     *)
(* nothing before Close, that no bar is emitted twice, and that every bar  *)
(* is the candle of exactly the ticks of its period.                       *)
(***************************************************************************)
EXTENDS MarketData, FiniteSetTheorems, SequenceTheorems, TLAPS

-----------------------------------------------------------------------------
(* Types.                                                                  *)

TickSet == [sym : Symbols, time : Nat, price : Nat, volume : Nat]
BarSet == [key : Keys, open : Nat, o : Nat, h : Nat, l : Nat, c : Nat, v : Nat, n : Nat]
Records == BarSet \cup Nat
Batches == Seq(Records)

AggTypes ==
    /\ ticks \in Seq(TickSet)
    /\ bars \in [Keys -> BarSet \cup {NoBar}]
    /\ \A k \in Keys : bars[k] # NoBar => bars[k].key = k
    /\ done \in Seq(BarSet) /\ flushed \in Seq(BarSet) /\ emitted \in Seq(BarSet)

WriterTypes ==
    /\ kind \in {"tick", "bar"}
    /\ buf \in Batches /\ chan \in Seq(Batches) /\ sync \in [Actors -> Batches]
    /\ work \in [Workers -> [state : {"idle", "insert", "gone"}, batch : Batches]]

ControlTypes ==
    /\ reader \in {"top", "read", "write", "add", "callback", "ended"}
    /\ timer \in {"idle", "gone"}
    /\ main \in {"wait", "flushall", "emit", "flush", "cancel", "lastflush", "wgwait", "ended"}
    /\ cancelled \in BOOLEAN
    /\ reader \in {"write", "add"} => ticks # <<>>
    /\ reader = "callback" <=> done # <<>>
    /\ main = "emit" <=> flushed # <<>>
    /\ main \in {"lastflush", "wgwait", "ended"} <=> cancelled

MdTypeOK == AggTypes /\ WriterTypes /\ ControlTypes

\* The start of a bar is a natural number.
LEMMA FloorTimeType ==
    ASSUME NEW t \in Nat, NEW tf \in Timeframes
    PROVE  FloorTime(t, tf) \in Nat
<1>1. tf \in Nat /\ tf > 0
  BY MarketDataAssumption
<1>2. t \div tf \in Nat
  BY <1>1
<1>3. \A x, y \in Nat : x * y \in Nat
  OBVIOUS
<1> QED
  BY <1>1, <1>2, <1>3 DEF FloorTime

\* A message that is not skipped gives a tick.
LEMMA NormalizeType ==
    ASSUME NEW raw \in RawMessages, ~NormalizeRawMessage(raw).skipped
    PROVE  /\ NormalizeRawMessage(raw).sym \in Symbols
           /\ NormalizeRawMessage(raw).price \in Nat
           /\ NormalizeRawMessage(raw).volume \in Nat
<1>1. MapSymbol(raw.sym) \in Symbols
  BY DEF Symbols
<1>2. raw.price \in Nat /\ raw.volume \in Nat
  BY MarketDataAssumption
<1>3. NormalizeRawMessage(raw) \in {Skipped, Tick(raw, raw.price, raw.volume),
                                    Tick(raw, raw.price, 0), Tick(raw, 0, 0)}
  BY DEF NormalizeRawMessage, NormalizeBinance, NormalizePolygon, NormalizePolygonTrade,
         NormalizePolygonAggregate, NormalizePolygonQuote, NormalizeMock
<1>4. Skipped.skipped
  BY DEF Skipped
<1> QED
  BY <1>1, <1>2, <1>3, <1>4 DEF Tick

\* Bars that are opened and updated are bars, of the same key and period.
LEMMA BarTypes ==
    ASSUME NEW key \in Keys, NEW tick \in TickSet
    PROVE  /\ OpensBar(key, tick) \in BarSet
           /\ OpensBar(key, tick).key = key
           /\ OpensBar(key, tick).open = FloorTime(tick.time, key[2])
           /\ \A bar \in BarSet : /\ UpdatesBar(bar, tick) \in BarSet
                                  /\ UpdatesBar(bar, tick).key = bar.key
                                  /\ UpdatesBar(bar, tick).open = bar.open
<1>1. key[2] \in Timeframes
  BY DEF Keys
<1>2. FloorTime(tick.time, key[2]) \in Nat
  BY <1>1, FloorTimeType DEF TickSet
<1>3. tick.price \in Nat /\ tick.volume \in Nat
  BY DEF TickSet
<1>4. /\ OpensBar(key, tick) \in BarSet
      /\ OpensBar(key, tick).key = key
      /\ OpensBar(key, tick).open = FloorTime(tick.time, key[2])
  BY <1>2, <1>3 DEF OpensBar, BarSet
<1>5. ASSUME NEW bar \in BarSet
      PROVE  /\ UpdatesBar(bar, tick) \in BarSet
             /\ UpdatesBar(bar, tick).key = bar.key
             /\ UpdatesBar(bar, tick).open = bar.open
  <2> DEFINE up == UpdatesBar(bar, tick)
  <2>1. /\ DOMAIN up = DOMAIN bar
        /\ DOMAIN bar = {"key", "open", "o", "h", "l", "c", "v", "n"}
    BY DEF UpdatesBar, BarSet
  <2>2. up.key = bar.key /\ up.open = bar.open /\ up.o = bar.o
    BY DEF UpdatesBar, BarSet
  <2>3. up.c \in Nat /\ up.h \in Nat /\ up.l \in Nat
    BY <1>3 DEF UpdatesBar, BarSet
  <2>4. up.v \in Nat /\ up.n \in Nat
    BY <1>3 DEF UpdatesBar, BarSet
  <2>5. up = [f \in DOMAIN up |-> up[f]]
    BY DEF UpdatesBar
  <2> HIDE DEF up
  <2>6. up \in BarSet
    BY <2>1, <2>2, <2>3, <2>4, <2>5 DEF BarSet
  <2> QED
    BY <2>2, <2>6 DEF up
<1> QED
  BY <1>4, <1>5

\* "No bar" is not a bar.
LEMMA NoBarIsNone == NoBar \notin BarSet
BY DEF NoBar, BarSet

\* The pending bars after a tick.
LEMMA BarsAfterTypes ==
    ASSUME AggTypes, NEW tick \in TickSet
    PROVE  /\ BarsAfter(tick) \in [Keys -> BarSet \cup {NoBar}]
           /\ \A k \in Keys : BarsAfter(tick)[k] # NoBar => BarsAfter(tick)[k].key = k
<1> SUFFICES ASSUME NEW k \in Keys
             PROVE  /\ BarsAfter(tick)[k] \in BarSet \cup {NoBar}
                    /\ BarsAfter(tick)[k] # NoBar => BarsAfter(tick)[k].key = k
  BY DEF BarsAfter
<1>1. bars[k] \in BarSet \cup {NoBar} /\ (bars[k] # NoBar => bars[k].key = k)
  BY DEF AggTypes
<1>2. BarsAfter(tick)[k] \in {bars[k], OpensBar(k, tick)}
        \/ (bars[k] # NoBar /\ BarsAfter(tick)[k] = UpdatesBar(bars[k], tick))
  BY DEF BarsAfter
<1> QED
  BY <1>1, <1>2, BarTypes

\* There are finitely many symbols, and bars.
LEMMA KeysFinite == IsFiniteSet(Keys)
<1> DEFINE f == [raw \in RawMessages |-> MapSymbol(raw.sym)]
<1>1. f \in Surjection(RawMessages, Symbols)
  BY DEF Symbols, Surjection
<1>2. IsFiniteSet(Symbols)
  BY <1>1, FS_Surjection, MarketDataAssumption
<1> QED
  BY <1>2, FS_Product, MarketDataAssumption DEF Keys

\* Bars of distinct keys are a sequence of bars, each of its own key.
LEMMA BarsOfKeys ==
    ASSUME AggTypes, NEW K \in SUBSET Keys, \A k \in K : bars[k] # NoBar,
           NEW keys \in [1..Cardinality(K) -> K],
           \A i, j \in 1..Cardinality(K) : keys[i] = keys[j] => i = j
    PROVE  /\ BarsOf(keys) \in Seq(BarSet)
           /\ \A i \in 1..Len(BarsOf(keys)) :
                 BarsOf(keys)[i].key \in K /\ BarsOf(keys)[i] = bars[BarsOf(keys)[i].key]
           /\ \A i, j \in 1..Len(BarsOf(keys)) :
                 BarsOf(keys)[i].key = BarsOf(keys)[j].key => i = j
<1> DEFINE n == Cardinality(K)
<1>1. n \in Nat
  BY KeysFinite, FS_Subset, FS_CardinalityType
<1>2. \A i \in 1..n : keys[i] \in K /\ keys[i] \in Keys
  OBVIOUS
<1> HIDE DEF n
<1>3. DOMAIN keys = 1..n
  BY DEF n
<1>4. \A i \in 1..n : bars[keys[i]] \in BarSet /\ bars[keys[i]].key = keys[i]
  BY <1>2 DEF AggTypes, n
<1>5. BarsOf(keys) = [i \in 1..n |-> bars[keys[i]]]
  BY <1>3 DEF BarsOf
<1>6. BarsOf(keys) \in [1..n -> BarSet] /\ DOMAIN BarsOf(keys) = 1..n
  BY <1>4, <1>5
<1>7. BarsOf(keys) \in Seq(BarSet) /\ Len(BarsOf(keys)) = n
  BY <1>1, <1>6
<1>8. \A i \in 1..n : BarsOf(keys)[i] = bars[keys[i]] /\ BarsOf(keys)[i].key = keys[i]
  BY <1>4, <1>5
<1>9. \A i, j \in 1..n : keys[i] = keys[j] => i = j
  BY DEF n
<1> QED
  BY <1>2, <1>7, <1>8, <1>9

\* What AddTick hands over: completed bars of the symbol, each once.
LEMMA CompletedFacts ==
    ASSUME AggTypes, NEW tick \in TickSet, NEW d \in CompletedBars(tick)
    PROVE  /\ d \in Seq(BarSet)
           /\ \A i \in 1..Len(d) :
                 /\ d[i].key \in Keys /\ d[i].key \in Touched(tick)
                 /\ Completes(d[i].key, tick) /\ d[i] = bars[d[i].key]
           /\ \A i, j \in 1..Len(d) : d[i].key = d[j].key => i = j
<1> DEFINE K == {k \in Touched(tick) : Completes(k, tick)}
<1>1. PICK keys \in SetToSeqs(K) : d = BarsOf(keys)
  BY DEF CompletedBars
<1>2. K \in SUBSET Keys /\ \A k \in K : bars[k] # NoBar
  BY DEF Touched, Completes
<1>3. /\ keys \in [1..Cardinality(K) -> K]
      /\ \A i, j \in 1..Cardinality(K) : i # j => keys[i] # keys[j]
  BY <1>1 DEF SetToSeqs
<1>4. \A k \in K : k \in Keys /\ k \in Touched(tick) /\ Completes(k, tick)
  BY <1>2
<1> HIDE DEF K
<1>5. /\ d \in Seq(BarSet)
      /\ \A i \in 1..Len(d) : d[i].key \in K /\ d[i] = bars[d[i].key]
      /\ \A i, j \in 1..Len(d) : d[i].key = d[j].key => i = j
  BY <1>1, <1>2, <1>3, BarsOfKeys
<1> QED
  BY <1>4, <1>5

\* What FlushAll hands over: every pending bar, each once.
LEMMA PendingFacts ==
    ASSUME AggTypes
    PROVE  /\ PendingBars \in Seq(BarSet)
           /\ \A i \in 1..Len(PendingBars) :
                 /\ PendingBars[i].key \in Keys /\ bars[PendingBars[i].key] # NoBar
                 /\ PendingBars[i] = bars[PendingBars[i].key]
           /\ \A i, j \in 1..Len(PendingBars) : PendingBars[i].key = PendingBars[j].key => i = j
<1> DEFINE K == {k \in Keys : bars[k] # NoBar}
           keys == SetToSeq(K)
<1>1. K \in SUBSET Keys /\ \A k \in K : k \in Keys /\ bars[k] # NoBar
  OBVIOUS
<1> HIDE DEF K
<1>2. IsFiniteSet(K)
  BY <1>1, KeysFinite, FS_Subset
<1>3. \E f \in [1..Cardinality(K) -> K] : IsInjective(f)
  BY <1>2, FS_CardinalityType DEF ExistsBijection, Bijection, Injection
<1>4. keys \in [1..Cardinality(K) -> K] /\ IsInjective(keys)
  BY <1>3 DEF SetToSeq
<1>5. PendingBars = BarsOf(keys)
  BY DEF PendingBars, K
<1> HIDE DEF keys
<1>6. \A i, j \in 1..Cardinality(K) : keys[i] = keys[j] => i = j
  BY <1>4 DEF IsInjective
<1>7. /\ BarsOf(keys) \in Seq(BarSet)
      /\ \A i \in 1..Len(BarsOf(keys)) :
            BarsOf(keys)[i].key \in K /\ BarsOf(keys)[i] = bars[BarsOf(keys)[i].key]
      /\ \A i, j \in 1..Len(BarsOf(keys)) :
            BarsOf(keys)[i].key = BarsOf(keys)[j].key => i = j
  BY <1>1, <1>4, <1>6, BarsOfKeys
<1> QED
  BY <1>1, <1>5, <1>7

-----------------------------------------------------------------------------
(* The writer.                                                             *)

\* The elements of a sequence that grows or loses its head.
LEMMA ToSetFacts ==
    ASSUME NEW S, NEW s \in Seq(S)
    PROVE  /\ ToSet(<<>>) = {}
           /\ \A x \in S : ToSet(Append(s, x)) = ToSet(s) \cup {x}
           /\ s # <<>> => ToSet(s) = {Head(s)} \cup ToSet(Tail(s))
<1>1. ToSet(<<>>) = {}
  BY DEF ToSet
<1>2. ASSUME NEW x \in S PROVE ToSet(Append(s, x)) = ToSet(s) \cup {x}
  BY AppendProperties DEF ToSet
<1>3. ASSUME s # <<>> PROVE ToSet(s) = {Head(s)} \cup ToSet(Tail(s))
  <2>1. /\ Len(s) \in Nat \ {0} /\ DOMAIN s = 1..Len(s) /\ Head(s) = s[1]
        /\ Tail(s) \in Seq(S) /\ Len(Tail(s)) = Len(s) - 1
        /\ \A i \in 1..Len(Tail(s)) : Tail(s)[i] = s[i + 1]
    BY <1>3, HeadTailProperties, EmptySeq
  <2>2. DOMAIN Tail(s) = 1..(Len(s) - 1)
    BY <2>1, LenProperties
  <2>3. ASSUME NEW i \in 1..Len(s) PROVE s[i] \in {Head(s)} \cup ToSet(Tail(s))
    <3>1. CASE i = 1
      BY <2>1, <3>1
    <3>2. CASE i # 1
      <4>1. i - 1 \in 1..(Len(s) - 1) /\ (i - 1) + 1 = i
        BY <2>1, <3>2
      <4>2. Tail(s)[i - 1] = s[i]
        BY <2>1, <4>1
      <4> QED
        BY <2>2, <4>1, <4>2, Zenon DEF ToSet
    <3> QED
      BY <3>1, <3>2
  <2>4. ASSUME NEW i \in 1..(Len(s) - 1) PROVE Tail(s)[i] \in ToSet(s)
    <3>1. i + 1 \in 1..Len(s) /\ Tail(s)[i] = s[i + 1]
      BY <2>1
    <3> QED
      BY <2>1, <3>1, Zenon DEF ToSet
  <2>5. Head(s) \in ToSet(s)
    <3>1. 1 \in 1..Len(s)
      BY <2>1
    <3> QED
      BY <2>1, <3>1, Zenon DEF ToSet
  <2> QED
    BY <2>1, <2>2, <2>3, <2>4, <2>5, Zenon DEF ToSet
<1> QED
  BY <1>1, <1>2, <1>3

\* A batch that is handed over is in the channel or in the actor's own insert.
LEMMA HandOverFacts ==
    ASSUME WriterTypes, NEW actor \in Actors, NEW batch \in Batches, HandOver(actor, batch)
    PROVE  /\ chan' \in Seq(Batches) /\ sync' \in [Actors -> Batches]
           /\ Free(actor) => ChanSet' \cup SyncSet' = ChanSet \cup SyncSet \cup ToSet(batch)
           /\ \A a \in Actors \ {actor} : sync'[a] = sync[a]
<1>0. ToSet(<<>>) = {}
  BY DEF ToSet
<1>1. CASE batch = <<>>
  BY <1>0, <1>1 DEF HandOver, WriterTypes, ChanSet, SyncSet
<1>2. CASE batch # <<>> /\ Len(chan) < WorkerCount
  <2>1. chan' = Append(chan, batch) /\ sync' = sync
    BY <1>2 DEF HandOver
  <2>2. /\ chan' \in Seq(Batches) /\ Len(chan') = Len(chan) + 1 /\ Len(chan) \in Nat
        /\ \A i \in 1..Len(chan) : chan'[i] = chan[i]
        /\ chan'[Len(chan) + 1] = batch
    BY <2>1, AppendProperties DEF WriterTypes
  <2>3. ChanSet' = ChanSet \cup ToSet(batch)
    <3>1. 1..Len(chan') = 1..Len(chan) \cup {Len(chan) + 1}
      BY <2>2
    <3> QED
      BY <2>2, <3>1, Zenon DEF ChanSet
  <2> QED
    BY <2>1, <2>2, <2>3 DEF SyncSet, WriterTypes
<1>3. CASE batch # <<>> /\ ~(Len(chan) < WorkerCount)
  <2>1. sync' = [sync EXCEPT ![actor] = batch] /\ chan' = chan
    BY <1>3 DEF HandOver
  <2>2. /\ sync' \in [Actors -> Batches] /\ sync'[actor] = batch
        /\ \A a \in Actors \ {actor} : sync'[a] = sync[a]
    BY <2>1 DEF WriterTypes
  <2>3. Free(actor) => SyncSet' = SyncSet \cup ToSet(batch)
    BY <1>0, <2>2, Zenon DEF SyncSet, Free
  <2> QED
    BY <2>1, <2>2, <2>3 DEF ChanSet, WriterTypes
<1> QED
  BY <1>1, <1>2, <1>3

\* A record that is written is in the buffer, or on with the buffer's batch.
LEMMA WriteFacts ==
    ASSUME WriterTypes, NEW actor \in Actors, NEW record \in Records, Write(actor, record)
    PROVE  /\ buf' \in Batches /\ chan' \in Seq(Batches) /\ sync' \in [Actors -> Batches]
           /\ Free(actor) =>
                 ToSet(buf') \cup ChanSet' \cup SyncSet'
                     = ToSet(buf) \cup ChanSet \cup SyncSet \cup {record}
           /\ \A a \in Actors \ {actor} : sync'[a] = sync[a]
<1>0. Append(buf, record) \in Batches /\ <<>> \in Batches /\ buf \in Batches
  BY AppendProperties, EmptySeq DEF WriterTypes, Batches
<1>1. ToSet(Append(buf, record)) = ToSet(buf) \cup {record} /\ ToSet(<<>>) = {}
  BY ToSetFacts DEF WriterTypes, Batches
<1>2. \/ buf' = <<>> /\ HandOver(actor, Append(buf, record))
      \/ buf' = Append(buf, record) /\ HandOver(actor, <<>>)
  BY DEF Write, BufferAdd
<1> QED
  BY <1>0, <1>1, <1>2, HandOverFacts

\* A flush hands the whole buffer over.
LEMMA FlushFacts ==
    ASSUME WriterTypes, NEW actor \in Actors, Flush(actor)
    PROVE  /\ buf' \in Batches /\ chan' \in Seq(Batches) /\ sync' \in [Actors -> Batches]
           /\ Free(actor) =>
                 ToSet(buf') \cup ChanSet' \cup SyncSet' = ToSet(buf) \cup ChanSet \cup SyncSet
           /\ \A a \in Actors \ {actor} : sync'[a] = sync[a]
<1>1. <<>> \in Batches /\ buf \in Batches /\ ToSet(<<>>) = {}
  BY EmptySeq, ToSetFacts DEF WriterTypes, Batches
<1> QED
  BY <1>1, HandOverFacts DEF Flush

-----------------------------------------------------------------------------
(* Type correctness.                                                       *)

\* onComplete passes a bar on.
LEMMA OnCompleteTypes ==
    ASSUME MdTypeOK, NEW actor \in Actors, NEW bar \in BarSet, OnComplete(actor, bar)
    PROVE  /\ emitted' \in Seq(BarSet) /\ emitted' = Append(emitted, bar)
           /\ buf' \in Batches /\ chan' \in Seq(Batches) /\ sync' \in [Actors -> Batches]
<1>1. emitted' \in Seq(BarSet) /\ emitted' = Append(emitted, bar)
  BY AppendProperties DEF OnComplete, MdTypeOK, AggTypes
<1>2. bar \in Records
  BY DEF Records
<1> QED
  BY <1>1, <1>2, WriteFacts DEF OnComplete, WriteBar, MdTypeOK, WriterTypes, writerVars

\* Every step keeps the types.
LEMMA MdTypeStep ==
    ASSUME MdTypeOK, [MdNext]_mdVars
    PROVE  MdTypeOK'
<1> USE DEF MdTypeOK, writerVars, aggVars
<1>a. Actors = {"reader", "timer", "main"} /\ <<>> \in Batches /\ <<>> \in Seq(BarSet)
  BY EmptySeq DEF Actors, Batches
<1>1. CASE ReaderChecks
  BY <1>1 DEF ReaderChecks, ReaderUnchanged, AggTypes, WriterTypes, ControlTypes, ctxDone
<1>2. CASE ReaderReads
  <2>1. /\ UNCHANGED <<aggVars, emitted, writerVars, kind, work, timer, main, flushed, cancelled>>
        /\ reader = "read"
    BY <1>2 DEF ReaderReads, ReaderUnchanged
  <2>2. \/ reader' \in {"top", "ended"} /\ ticks' = ticks
        \/ \E t \in TickSet : ticks' = Append(ticks, t) /\ reader' = "write"
    <3>1. CASE reader' = (IF ctxDone THEN "ended" ELSE "top") /\ UNCHANGED ticks
      BY <3>1
    <3>2. ASSUME NEW raw \in RawMessages, NormalizeRawMessage(raw).skipped,
                 reader' = "top" /\ UNCHANGED ticks
          PROVE  reader' \in {"top", "ended"} /\ ticks' = ticks
      BY <3>2
    <3>3. ASSUME NEW raw \in RawMessages, ~NormalizeRawMessage(raw).skipped,
                 NEW t \in now..MaxMinute,
                 ticks' = Append(ticks, [sym |-> NormalizeRawMessage(raw).sym, time |-> t,
                                         price |-> NormalizeRawMessage(raw).price,
                                         volume |-> NormalizeRawMessage(raw).volume]),
                 reader' = "write"
          PROVE  \E x \in TickSet : ticks' = Append(ticks, x) /\ reader' = "write"
      <4>1. now \in Nat
        <5>1. CASE ticks = <<>>
          BY <5>1, MarketDataAssumption DEF now
        <5>2. CASE ticks # <<>>
          <6>1. Len(ticks) \in 1..Len(ticks)
            BY <5>2, EmptySeq DEF AggTypes
          <6>2. ticks[Len(ticks)] \in TickSet
            BY <6>1, ElementOfSeq DEF AggTypes
          <6> QED
            BY <5>2, <6>2 DEF now, TickSet
        <5> QED
          BY <5>1, <5>2
      <4>2. t \in Nat
        BY <4>1, MarketDataAssumption
      <4>3. [sym |-> NormalizeRawMessage(raw).sym, time |-> t,
             price |-> NormalizeRawMessage(raw).price,
             volume |-> NormalizeRawMessage(raw).volume] \in TickSet
        BY <3>3, <4>2, NormalizeType DEF TickSet
      <4> QED
        BY <3>3, <4>3
    <3> QED
      BY <1>2, <3>1, <3>2, <3>3 DEF ReaderReads
  <2>3. CASE reader' \in {"top", "ended"} /\ ticks' = ticks
    BY <2>1, <2>3 DEF AggTypes, WriterTypes, ControlTypes
  <2>4. CASE \E t \in TickSet : ticks' = Append(ticks, t) /\ reader' = "write"
    <3>1. ticks' \in Seq(TickSet) /\ ticks' # <<>> /\ reader' = "write"
      BY <2>4, AppendProperties DEF AggTypes
    <3> QED
      BY <2>1, <3>1 DEF AggTypes, WriterTypes, ControlTypes
  <2> QED
    BY <2>2, <2>3, <2>4
<1>3. CASE ReaderWrites
  <2>1. Len(ticks) \in Records
    BY DEF AggTypes, Records
  <2>2. buf' \in Batches /\ chan' \in Seq(Batches) /\ sync' \in [Actors -> Batches]
    BY <1>3, <1>a, <2>1, WriteFacts DEF ReaderWrites, WriteTick, WriterTypes
  <2> QED
    BY <1>3, <2>2 DEF ReaderWrites, ReaderUnchanged, AggTypes, WriterTypes, ControlTypes
<1>4. CASE AddTick
  <2>1. Last(ticks) \in TickSet
    BY <1>4 DEF AddTick, AggTypes, ControlTypes, Last
  <2>2. /\ bars' = BarsAfter(Last(ticks)) /\ done' \in CompletedBars(Last(ticks))
        /\ reader' = IF done' = <<>> THEN "top" ELSE "callback"
        /\ UNCHANGED <<ticks, emitted, writerVars, kind, work, timer, main, flushed, cancelled>>
    BY <1>4 DEF AddTick, ReaderUnchanged
  <2>3. done' \in Seq(BarSet)
    BY <2>1, <2>2, CompletedFacts
  <2>4. AggTypes'
    BY <2>1, <2>2, <2>3, BarsAfterTypes DEF AggTypes
  <2> QED
    BY <2>2, <2>4 DEF WriterTypes, ControlTypes
<1>5. CASE AddTickReturns
  <2>1. done # <<>>
    BY <1>5 DEF AddTickReturns, ControlTypes
  <2>2. Head(done) \in BarSet /\ Tail(done) \in Seq(BarSet)
    BY <2>1, HeadTailProperties DEF AggTypes
  <2>3. /\ emitted' \in Seq(BarSet)
        /\ buf' \in Batches /\ chan' \in Seq(Batches) /\ sync' \in [Actors -> Batches]
    BY <1>5, <1>a, <2>2, OnCompleteTypes DEF AddTickReturns
  <2> QED
    BY <1>5, <2>2, <2>3 DEF AddTickReturns, ReaderUnchanged, AggTypes, WriterTypes, ControlTypes
<1>6. ASSUME NEW i \in Workers, WorkerStep(i) PROVE MdTypeOK'
  <2>1. UNCHANGED <<ticks, reader, done, bars, emitted, kind, buf, sync, timer, main, flushed,
                    cancelled>>
    BY <1>6 DEF WorkerStep, WorkerTakes, WorkerStops, WorkerInserts, WorkerUnchanged
  <2>2. /\ chan' \in Seq(Batches)
        /\ work' \in [Workers -> [state : {"idle", "insert", "gone"}, batch : Batches]]
    <3>1. CASE WorkerTakes(i)
      <4>1. Head(chan) \in Batches /\ Tail(chan) \in Seq(Batches)
        BY <3>1, HeadTailProperties DEF WorkerTakes, WriterTypes
      <4> QED
        BY <3>1, <4>1 DEF WorkerTakes, WriterTypes
    <3>2. CASE WorkerStops(i)
      BY <1>a, <3>2 DEF WorkerStops, WriterTypes, Gone
    <3>3. CASE WorkerInserts(i)
      BY <1>a, <3>3 DEF WorkerInserts, WriterTypes, Idle
    <3> QED
      BY <1>6, <3>1, <3>2, <3>3 DEF WorkerStep
  <2> QED
    BY <2>1, <2>2 DEF AggTypes, WriterTypes, ControlTypes
<1>7. CASE FlushTimer
  <2>1. /\ UNCHANGED <<ticks, reader, aggVars, emitted, kind, work, main, flushed, cancelled>>
        /\ timer' \in {"idle", "gone"}
    BY <1>7 DEF FlushTimer, ControlTypes
  <2>2. buf' \in Batches /\ chan' \in Seq(Batches) /\ sync' \in [Actors -> Batches]
    BY <1>7, <1>a, FlushFacts DEF FlushTimer, FlushTicks, FlushBars, WriterTypes
  <2> QED
    BY <2>1, <2>2 DEF AggTypes, WriterTypes, ControlTypes
<1>8. CASE Signal
  BY <1>8 DEF Signal, MainUnchanged, AggTypes, WriterTypes, ControlTypes
<1>9. CASE FlushAll
  <2>1. PendingBars \in Seq(BarSet)
    BY PendingFacts
  <2>2. NoBars \in [Keys -> BarSet \cup {NoBar}] /\ \A k \in Keys : NoBars[k] = NoBar
    BY DEF NoBars
  <2> QED
    BY <1>9, <2>1, <2>2 DEF FlushAll, MainUnchanged, AggTypes, WriterTypes, ControlTypes
<1>10. CASE FlushAllReturns
  <2>1. flushed # <<>>
    BY <1>10 DEF FlushAllReturns, ControlTypes
  <2>2. Head(flushed) \in BarSet /\ Tail(flushed) \in Seq(BarSet)
    BY <2>1, HeadTailProperties DEF AggTypes
  <2>3. /\ emitted' \in Seq(BarSet)
        /\ buf' \in Batches /\ chan' \in Seq(Batches) /\ sync' \in [Actors -> Batches]
    BY <1>10, <1>a, <2>2, OnCompleteTypes DEF FlushAllReturns
  <2> QED
    BY <1>10, <2>2, <2>3 DEF FlushAllReturns, MainUnchanged, AggTypes, WriterTypes, ControlTypes
<1>11. CASE FinalFlush
  <2>0. Flush("main")
    BY <1>11 DEF FinalFlush, FlushTicks, FlushBars, WriterTypes
  <2>1. buf' \in Batches /\ chan' \in Seq(Batches) /\ sync' \in [Actors -> Batches]
    BY <1>a, <2>0, FlushFacts
  <2> QED
    BY <1>11, <2>1 DEF FinalFlush, MainUnchanged, AggTypes, WriterTypes, ControlTypes
<1>12. CASE CloseWriter
  <2>1. UNCHANGED <<bars, emitted, flushed, kind, ticks, reader, done, work, timer>>
    BY <1>12 DEF CloseWriter, MainUnchanged
  <2>2. \/ main = "cancel" /\ cancelled' = TRUE /\ main' = "lastflush" /\ UNCHANGED writerVars
        \/ /\ main = "lastflush" /\ main' = "wgwait" /\ UNCHANGED <<chan, cancelled>>
           /\ sync' = [sync EXCEPT !["main"] = buf] /\ buf' = <<>>
        \/ main = "wgwait" /\ main' = "ended" /\ UNCHANGED <<writerVars, cancelled>>
    BY <1>12 DEF CloseWriter
  <2>3. buf' \in Batches /\ chan' \in Seq(Batches) /\ sync' \in [Actors -> Batches]
    <3>1. CASE buf' = buf /\ chan' = chan /\ sync' = sync
      BY <3>1 DEF WriterTypes
    <3>2. CASE chan' = chan /\ sync' = [sync EXCEPT !["main"] = buf] /\ buf' = <<>>
      BY <1>a, <3>2 DEF WriterTypes
    <3> QED
      BY <2>2, <3>1, <3>2
  <2> QED
    BY <2>1, <2>2, <2>3 DEF AggTypes, WriterTypes, ControlTypes
<1>13. ASSUME NEW a \in Actors, SyncInsert(a) PROVE MdTypeOK'
  BY <1>13, <1>a DEF SyncInsert, AggTypes, WriterTypes, ControlTypes
<1>14. CASE UNCHANGED mdVars
  BY <1>14 DEF mdVars, AggTypes, WriterTypes, ControlTypes
<1> QED
  BY <1>1, <1>2, <1>3, <1>4, <1>5, <1>6, <1>7, <1>8, <1>9, <1>10, <1>11, <1>12, <1>13, <1>14
  DEF MdNext, ReaderStep, MainStep, TickWorker, BarWorker, Ended

\* The initial state is well-typed.
LEMMA MdTypeInit == MdInit => MdTypeOK
<1> SUFFICES ASSUME MdInit PROVE MdTypeOK
  OBVIOUS
<1>1. <<>> \in Batches /\ <<>> \in Seq(BarSet) /\ <<>> \in Seq(TickSet) /\ <<>> \in Seq(Batches)
  BY EmptySeq DEF Batches
<1>2. AggTypes
  BY <1>1 DEF MdInit, AggTypes, NoBars
<1>3. WriterTypes
  BY <1>1 DEF MdInit, WriterTypes, Idle
<1>4. ControlTypes
  BY DEF MdInit, ControlTypes
<1> QED
  BY <1>2, <1>3, <1>4 DEF MdTypeOK

\* Type correctness of the ingestion (cmd/server/main.go, aggregator.go, writer.go): a
\* pending bar is filed under its own symbol and timeframe, the goroutines leave only bars
\* and ticks in buffers, channels and batches, and the writer is cancelled exactly from
\* Close on.
THEOREM MdTypeCorrect == MdSpec => []MdTypeOK
<1>1. MdTypeOK /\ [MdNext]_mdVars => MdTypeOK'
  BY MdTypeStep
<1> QED
  BY <1>1, MdTypeInit, PTL DEF MdSpec

-----------------------------------------------------------------------------
(* The writer loses nothing before Close.                                  *)

\* Every record is on its way or settled; the reader comes to a write with no insert of
\* its own open, so that a second batch never replaces one, and only a worker that inserts
\* holds a batch.
WriterInv ==
    /\ reader \in {"read", "write"} => Free("reader")
    /\ \A i \in Workers : work[i].state # "insert" => work[i].batch = <<>>
    /\ NothingLostBeforeClose

\* A batch that a worker takes leaves the channel and is not lost.
LEMMA TakeFacts ==
    ASSUME WriterTypes, NEW i \in Workers, work[i].batch = <<>>, WorkerTakes(i)
    PROVE  ChanSet' \cup WorkSet' = ChanSet \cup WorkSet
<1>0. ToSet(<<>>) = {}
  BY DEF ToSet
<1>1. chan # <<>> /\ chan \in Seq(Batches)
  BY DEF WorkerTakes, WriterTypes
<1>2. /\ Len(chan) \in Nat \ {0} /\ Head(chan) = chan[1]
      /\ chan' = Tail(chan) /\ Len(chan') = Len(chan) - 1
      /\ \A j \in 1..Len(chan') : chan'[j] = chan[j + 1]
  BY <1>1, HeadTailProperties, EmptySeq DEF WorkerTakes
<1>3. \A j \in 1..Len(chan) : j = 1 \/ (j - 1 \in 1..Len(chan') /\ chan'[j - 1] = chan[j])
  BY <1>2
<1>4. \A j \in 1..Len(chan') : j + 1 \in 1..Len(chan) /\ chan'[j] = chan[j + 1]
  BY <1>2
<1>5. 1 \in 1..Len(chan)
  BY <1>2
<1>6. ChanSet = ToSet(Head(chan)) \cup ChanSet'
  <2>1. ASSUME NEW j \in 1..Len(chan) PROVE ToSet(chan[j]) \subseteq ToSet(Head(chan)) \cup ChanSet'
    <3>1. CASE j = 1
      BY <1>2, <3>1
    <3>2. CASE j # 1
      BY <1>3, <3>2, Zenon DEF ChanSet
    <3> QED
      BY <3>1, <3>2
  <2>2. ASSUME NEW j \in 1..Len(chan') PROVE ToSet(chan'[j]) \subseteq ChanSet
    BY <1>4, Zenon DEF ChanSet
  <2>3. ToSet(Head(chan)) \subseteq ChanSet
    BY <1>2, <1>5, Zenon DEF ChanSet
  <2> QED
    BY <2>1, <2>2, <2>3, Zenon DEF ChanSet
<1>7. /\ work'[i].batch = Head(chan)
      /\ \A j \in Workers \ {i} : work'[j] = work[j]
  BY DEF WorkerTakes, WriterTypes
<1>8. WorkSet' = WorkSet \cup ToSet(Head(chan))
  BY <1>0, <1>7, Zenon DEF WorkSet
<1> QED
  BY <1>6, <1>8

\* A worker whose insert ends has settled its batch.
LEMMA InsertFacts ==
    ASSUME WriterTypes, NEW i \in Workers, WorkerInserts(i)
    PROVE  WorkSet' \cup settled' = WorkSet \cup settled
<1>1. ToSet(<<>>) = {}
  BY DEF ToSet
<1>2. /\ work'[i].batch = <<>>
      /\ \A j \in Workers \ {i} : work'[j] = work[j]
  BY DEF WorkerInserts, WriterTypes, Idle
<1>3. settled' = settled \cup ToSet(work[i].batch)
  BY DEF WorkerInserts, InsertBatch
<1>4. WorkSet = WorkSet' \cup ToSet(work[i].batch)
  BY <1>1, <1>2, Zenon DEF WorkSet
<1> QED
  BY <1>3, <1>4

\* So has an actor whose own insert ends.
LEMMA SyncFacts ==
    ASSUME WriterTypes, NEW a \in Actors, SyncInsert(a)
    PROVE  /\ SyncSet' \cup settled' = SyncSet \cup settled
           /\ \A b \in Actors : sync'[b] = <<>> \/ sync'[b] = sync[b]
<1>1. ToSet(<<>>) = {}
  BY DEF ToSet
<1>2. /\ sync'[a] = <<>>
      /\ \A b \in Actors \ {a} : sync'[b] = sync[b]
  BY DEF SyncInsert, WriterTypes
<1>3. settled' = settled \cup ToSet(sync[a])
  BY DEF SyncInsert, InsertBatch
<1>4. SyncSet = SyncSet' \cup ToSet(sync[a])
  BY <1>1, <1>2, Zenon DEF SyncSet
<1> QED
  BY <1>2, <1>3, <1>4

\* onComplete adds its bar to what was written, and to the path.
LEMMA OnCompletePath ==
    ASSUME MdTypeOK, NEW actor \in Actors, NEW bar \in BarSet, Free(actor),
           OnComplete(actor, bar), UNCHANGED <<kind, work, settled>>,
           kind = "tick" => Written' = Written
    PROVE  /\ Written = InFlight \cup settled => Written' = InFlight' \cup settled'
           /\ \A a \in Actors \ {actor} : sync'[a] = sync[a]
<1>1. WorkSet' = WorkSet
  BY DEF WorkSet
<1>2. CASE kind = "tick"
  <2>1. buf' = buf /\ chan' = chan /\ sync' = sync
    BY <1>2 DEF OnComplete, WriteBar, writerVars
  <2>2. InFlight' = InFlight
    BY <1>1, <2>1, Zenon DEF InFlight, ChanSet, SyncSet
  <2> QED
    BY <1>2, <2>1, <2>2
<1>3. CASE kind = "bar"
  <2>1. Write(actor, bar) /\ emitted' = Append(emitted, bar) /\ bar \in Records
    BY <1>3 DEF OnComplete, WriteBar, Records
  <2>2. /\ ToSet(buf') \cup ChanSet' \cup SyncSet' = ToSet(buf) \cup ChanSet \cup SyncSet \cup {bar}
        /\ \A a \in Actors \ {actor} : sync'[a] = sync[a]
    BY <2>1, WriteFacts DEF MdTypeOK
  <2>3. InFlight' = InFlight \cup {bar}
    BY <1>1, <2>2 DEF InFlight
  <2>4. ToSet(emitted') = ToSet(emitted) \cup {bar}
    BY <2>1, ToSetFacts DEF MdTypeOK, AggTypes
  <2>5. Written = ToSet(emitted) /\ Written' = ToSet(emitted')
    BY <1>3 DEF Written
  <2> QED
    BY <2>2, <2>3, <2>4, <2>5
<1> QED
  BY <1>2, <1>3 DEF MdTypeOK, WriterTypes

\* A flush moves the buffer along the path.
LEMMA FlushPath ==
    ASSUME MdTypeOK, NEW actor \in Actors, Free(actor), Flush(actor),
           UNCHANGED <<kind, work, settled, ticks, reader, emitted>>
    PROVE  /\ Written = InFlight \cup settled => Written' = InFlight' \cup settled'
           /\ \A a \in Actors \ {actor} : sync'[a] = sync[a]
<1>1. /\ ToSet(buf') \cup ChanSet' \cup SyncSet' = ToSet(buf) \cup ChanSet \cup SyncSet
      /\ \A a \in Actors \ {actor} : sync'[a] = sync[a]
  BY FlushFacts DEF MdTypeOK
<1>2. WorkSet' = WorkSet /\ Written' = Written
  BY DEF WorkSet, Written
<1> QED
  BY <1>1, <1>2 DEF InFlight

\* Every step keeps the invariant of the writer.
LEMMA WriterInvStep ==
    ASSUME MdTypeOK, WriterInv, [MdNext]_mdVars
    PROVE  WriterInv'
<1> USE DEF writerVars, aggVars
<1>a. Actors = {"reader", "timer", "main"}
  BY DEF Actors
<1>b. kind \in {"tick", "bar"} /\ WriterTypes /\ Len(ticks) \in Nat
  BY DEF MdTypeOK, WriterTypes, AggTypes
\* A step of none of the writer's parts.
<1>d. ASSUME UNCHANGED <<writerVars, work, settled, cancelled>>, Written' = Written,
             reader' \in {"read", "write"} => reader \in {"read", "write"} \/ Free("reader")
      PROVE  WriterInv'
  <2>1. InFlight' = InFlight
    BY <1>d, Zenon DEF InFlight, ChanSet, WorkSet, SyncSet
  <2> QED
    BY <1>d, <2>1 DEF WriterInv, Free, NothingLostBeforeClose
<1>1. CASE ReaderChecks
  <2>1. Written' = Written
    BY <1>1 DEF ReaderChecks, ReaderUnchanged, Written
  <2> QED
    BY <1>1, <1>d, <2>1 DEF ReaderChecks, ReaderUnchanged
<1>2. CASE ReaderReads
  <2>1. \/ reader' \in {"top", "ended"} /\ ticks' = ticks
        \/ \E t : ticks' = Append(ticks, t) /\ reader' = "write"
    BY <1>2 DEF ReaderReads
  <2>2. reader = "read" /\ UNCHANGED <<kind, emitted>>
    BY <1>2 DEF ReaderReads, ReaderUnchanged
  <2>3. Written' = Written
    <3>1. CASE reader' \in {"top", "ended"} /\ ticks' = ticks
      BY <2>2, <3>1 DEF Written
    <3>2. CASE \E t : ticks' = Append(ticks, t) /\ reader' = "write"
      <4>1. Len(ticks') = Len(ticks) + 1
        BY <3>2 DEF MdTypeOK, AggTypes
      <4>2. Len(ticks') - 1 = Len(ticks)
        BY <1>b, <4>1
      <4> QED
        BY <2>2, <3>2, <4>2, Zenon DEF Written
    <3> QED
      BY <2>1, <3>1, <3>2
  <2> QED
    BY <1>2, <1>d, <2>2, <2>3 DEF ReaderReads, ReaderUnchanged
<1>3. CASE ReaderWrites
  <2>1. /\ reader = "write" /\ reader' = "add" /\ Free("reader")
        /\ UNCHANGED <<ticks, emitted, kind, work, settled, cancelled>>
    BY <1>3 DEF ReaderWrites, ReaderUnchanged, WriterInv
  <2>2. CASE kind = "bar"
    <3>1. UNCHANGED writerVars
      BY <1>3, <2>2 DEF ReaderWrites, WriteTick
    <3>2. Written' = Written
      BY <2>1, <2>2 DEF Written
    <3> QED
      BY <1>d, <2>1, <3>1, <3>2
  <2>3. CASE kind = "tick"
    <3>1. Write("reader", Len(ticks)) /\ Len(ticks) \in Records
      BY <1>3, <1>b, <2>3 DEF ReaderWrites, WriteTick, Records
    <3>2. ToSet(buf') \cup ChanSet' \cup SyncSet'
             = ToSet(buf) \cup ChanSet \cup SyncSet \cup {Len(ticks)}
      BY <1>a, <1>b, <2>1, <3>1, WriteFacts
    <3>3. WorkSet' = WorkSet
      BY <2>1 DEF WorkSet
    <3>4. InFlight' = InFlight \cup {Len(ticks)}
      BY <3>2, <3>3 DEF InFlight
    <3>5. Written = 1..(Len(ticks) - 1) /\ Written' = 1..Len(ticks)
      BY <2>1, <2>3 DEF Written
    <3>6. Len(ticks) # 0
      BY <2>1, EmptySeq DEF MdTypeOK, ControlTypes, AggTypes
    <3>7. 1..Len(ticks) = 1..(Len(ticks) - 1) \cup {Len(ticks)}
      BY <1>b, <3>6
    <3>8. NothingLostBeforeClose'
      BY <2>1, <3>4, <3>5, <3>7 DEF WriterInv, NothingLostBeforeClose
    <3> QED
      BY <2>1, <3>8 DEF WriterInv
  <2> QED
    BY <1>b, <2>2, <2>3
<1>4. CASE AddTick
  <2>1. /\ reader = "add" /\ reader' \in {"top", "callback"}
        /\ UNCHANGED <<ticks, emitted, writerVars, kind, work, settled, cancelled>>
    BY <1>4 DEF AddTick, ReaderUnchanged
  <2>2. Written' = Written
    BY <2>1 DEF Written
  <2> QED
    BY <1>d, <2>1, <2>2
<1>5. CASE AddTickReturns
  <2>1. /\ reader = "callback" /\ reader' \in {"top", "callback"} /\ Free("reader")
        /\ OnComplete("reader", Head(done)) /\ done # <<>>
        /\ UNCHANGED <<ticks, kind, work, settled, cancelled>>
    BY <1>5 DEF AddTickReturns, ReaderUnchanged, MdTypeOK, ControlTypes
  <2>2. Head(done) \in BarSet
    BY <2>1, HeadTailProperties DEF MdTypeOK, AggTypes
  <2>3. kind = "tick" => Written' = Written
    BY <2>1 DEF Written
  <2>4. Written = InFlight \cup settled => Written' = InFlight' \cup settled'
    BY <1>a, <2>1, <2>2, <2>3, OnCompletePath
  <2> QED
    BY <2>1, <2>4 DEF WriterInv, NothingLostBeforeClose
<1>6. ASSUME NEW i \in Workers, WorkerStep(i) PROVE WriterInv'
  <2>1. /\ UNCHANGED <<ticks, reader, emitted, kind, buf, sync, cancelled>>
    BY <1>6 DEF WorkerStep, WorkerTakes, WorkerStops, WorkerInserts, WorkerUnchanged
  <2>2. Written' = Written /\ SyncSet' = SyncSet
    BY <2>1 DEF Written, SyncSet
  <2>3. \A j \in Workers : work'[j].state # "insert" => work'[j].batch = <<>>
    BY <1>6, <1>b DEF WorkerStep, WorkerTakes, WorkerStops, WorkerInserts, WriterInv,
       WriterTypes, Idle, Gone
  <2>4. ChanSet' \cup WorkSet' \cup settled' = ChanSet \cup WorkSet \cup settled
    <3>1. CASE WorkerTakes(i)
      <4>1. work[i].batch = <<>> /\ settled' = settled
        BY <3>1 DEF WorkerTakes, Idle
      <4> QED
        BY <1>b, <3>1, <4>1, TakeFacts
    <3>2. CASE WorkerStops(i)
      <4>1. chan' = chan /\ settled' = settled /\ work[i].batch = <<>> /\ work'[i].batch = <<>>
        BY <3>2, <1>b DEF WorkerStops, Idle, Gone, WriterTypes
      <4>2. \A j \in Workers \ {i} : work'[j] = work[j]
        BY <3>2, <1>b DEF WorkerStops, WriterTypes
      <4> QED
        BY <4>1, <4>2, Zenon DEF ChanSet, WorkSet
    <3>3. CASE WorkerInserts(i)
      <4>1. chan' = chan
        BY <3>3 DEF WorkerInserts
      <4> QED
        BY <1>b, <3>3, <4>1, InsertFacts DEF ChanSet
    <3> QED
      BY <1>6, <3>1, <3>2, <3>3 DEF WorkerStep
  <2>5. InFlight' \cup settled' = InFlight \cup settled
    BY <2>1, <2>2, <2>4 DEF InFlight
  <2> QED
    BY <2>1, <2>2, <2>3, <2>5 DEF WriterInv, NothingLostBeforeClose, Free
<1>7. CASE FlushTimer
  <2>1. /\ UNCHANGED <<ticks, reader, emitted, kind, work, cancelled, settled>>
        /\ Free("timer")
    BY <1>7 DEF FlushTimer
  <2>2. UNCHANGED writerVars \/ Flush("timer")
    BY <1>7, <1>b DEF FlushTimer, FlushTicks, FlushBars
  <2>3. CASE UNCHANGED writerVars
    <3>1. Written' = Written
      BY <2>1 DEF Written
    <3> QED
      BY <1>d, <2>1, <2>3, <3>1
  <2>4. CASE Flush("timer")
    <3>1. /\ Written = InFlight \cup settled => Written' = InFlight' \cup settled'
          /\ sync'["reader"] = sync["reader"]
      BY <1>a, <2>1, <2>4, FlushPath
    <3> QED
      BY <2>1, <3>1 DEF WriterInv, NothingLostBeforeClose, Free
  <2> QED
    BY <2>2, <2>3, <2>4
<1>8. CASE Signal \/ FlushAll
  <2>1. UNCHANGED <<ticks, reader, emitted, kind, writerVars, work, cancelled, settled>>
    BY <1>8 DEF Signal, FlushAll, MainUnchanged
  <2>2. Written' = Written
    BY <2>1 DEF Written
  <2> QED
    BY <1>d, <2>1, <2>2
<1>9. CASE FlushAllReturns
  <2>1. /\ Free("main") /\ OnComplete("main", Head(flushed)) /\ flushed # <<>>
        /\ UNCHANGED <<ticks, reader, kind, work, settled, cancelled>>
    BY <1>9 DEF FlushAllReturns, MainUnchanged, MdTypeOK, ControlTypes
  <2>2. Head(flushed) \in BarSet
    BY <2>1, HeadTailProperties DEF MdTypeOK, AggTypes
  <2>3. kind = "tick" => Written' = Written
    BY <2>1 DEF Written
  <2>4. /\ Written = InFlight \cup settled => Written' = InFlight' \cup settled'
        /\ sync'["reader"] = sync["reader"]
    BY <1>a, <2>1, <2>2, <2>3, OnCompletePath
  <2> QED
    BY <2>1, <2>4 DEF WriterInv, NothingLostBeforeClose, Free
<1>10. CASE FinalFlush
  <2>1. /\ UNCHANGED <<ticks, reader, emitted, kind, work, cancelled, settled>>
        /\ Free("main")
    BY <1>10 DEF FinalFlush, MainUnchanged
  <2>2. Flush("main")
    BY <1>10, <1>b DEF FinalFlush, FlushTicks, FlushBars
  <2>3. /\ Written = InFlight \cup settled => Written' = InFlight' \cup settled'
        /\ sync'["reader"] = sync["reader"]
    BY <1>a, <2>1, <2>2, FlushPath
  <2> QED
    BY <2>1, <2>3 DEF WriterInv, NothingLostBeforeClose, Free
<1>11. CASE CloseWriter
  <2>1. UNCHANGED <<reader, work>>
    BY <1>11 DEF CloseWriter, MainUnchanged
  <2>2. sync'["reader"] = sync["reader"]
    BY <1>11, <1>a, <1>b DEF CloseWriter, WriterTypes
  <2>3. cancelled'
    <3>1. cancelled' = TRUE \/ (main \in {"lastflush", "wgwait"} /\ cancelled' = cancelled)
      BY <1>11, Zenon DEF CloseWriter
    <3>2. main \in {"lastflush", "wgwait"} => cancelled = TRUE
      BY Zenon DEF MdTypeOK, ControlTypes
    <3>3. cancelled' = TRUE
      BY <3>1, <3>2, Zenon
    <3> QED
      BY <3>3, Zenon
  <2> QED
    BY <2>1, <2>2, <2>3 DEF WriterInv, NothingLostBeforeClose, Free
<1>12. ASSUME NEW a \in Actors, SyncInsert(a) PROVE WriterInv'
  <2>1. UNCHANGED <<ticks, reader, emitted, kind, buf, chan, work, cancelled>>
    BY <1>12 DEF SyncInsert
  <2>2. /\ SyncSet' \cup settled' = SyncSet \cup settled
        /\ sync'["reader"] = <<>> \/ sync'["reader"] = sync["reader"]
    BY <1>12, <1>a, <1>b, SyncFacts
  <2>3. Written' = Written /\ ChanSet' = ChanSet /\ WorkSet' = WorkSet
    BY <2>1 DEF Written, ChanSet, WorkSet
  <2>4. InFlight' \cup settled' = InFlight \cup settled
    BY <2>1, <2>2, <2>3 DEF InFlight
  <2> QED
    BY <2>1, <2>2, <2>3, <2>4 DEF WriterInv, NothingLostBeforeClose, Free
<1>13. CASE UNCHANGED mdVars
  <2>1. Written' = Written
    BY <1>13 DEF mdVars, Written
  <2> QED
    BY <1>13, <1>d, <2>1 DEF mdVars
<1> QED
  BY <1>1, <1>2, <1>3, <1>4, <1>5, <1>6, <1>7, <1>8, <1>9, <1>10, <1>11, <1>12, <1>13
  DEF MdNext, ReaderStep, MainStep, TickWorker, BarWorker, Ended

\* At the start nothing is written and nothing is on its way.
LEMMA WriterInvInit == MdInit => WriterInv
<1> SUFFICES ASSUME MdInit PROVE WriterInv
  OBVIOUS
<1>1. ToSet(<<>>) = {}
  BY DEF ToSet
<1>2. \A i \in Workers : work[i].batch = <<>>
  BY DEF MdInit, Idle
<1>3. Free("reader") /\ \A a \in Actors : sync[a] = <<>>
  BY DEF MdInit, Free, Actors
<1>4. Len(<<>>) = 0 /\ 1..0 = {}
  BY EmptySeq
<1>5. ToSet(buf) = {} /\ settled = {} /\ WorkSet = {} /\ SyncSet = {}
  BY <1>1, <1>2, <1>3, Zenon DEF MdInit, WorkSet, SyncSet
<1>5a. 1..Len(chan) = {}
  BY <1>4 DEF MdInit
<1>5b. ChanSet = {}
  BY <1>5a, Zenon DEF ChanSet
<1>6. Written = {}
  BY <1>1, <1>4, Zenon DEF MdInit, Written
<1> QED
  BY <1>2, <1>3, <1>5, <1>5b, <1>6 DEF WriterInv, NothingLostBeforeClose, InFlight

\* NothingLostBeforeClose (dbwriter/writer.go: WriteTick, WriteBar, FlushTicks, FlushBars,
\* the flush timer, the workers and the synchronous fallback): for any batch size, channel
\* capacity, number of workers and sequence of messages.
THEOREM NothingLostAlways == MdSpec => []NothingLostBeforeClose
<1>1. MdTypeOK /\ WriterInv /\ [MdNext]_mdVars => WriterInv'
  BY WriterInvStep
<1>2. WriterInv => NothingLostBeforeClose
  BY DEF WriterInv
<1> QED
  BY <1>1, <1>2, WriterInvInit, MdTypeCorrect, PTL DEF MdSpec

-----------------------------------------------------------------------------
(* No bar twice.                                                           *)

SameBar(a, b) == a.key = b.key /\ a.open = b.open
Distinct(s) == \A i, j \in 1..Len(s) : SameBar(s[i], s[j]) => i = j
Apart(s, t) == \A i \in 1..Len(s), j \in 1..Len(t) : ~SameBar(s[i], t[j])

\* A pending bar of the same key has a later period.
Superseded(s) ==
    \A i \in 1..Len(s) : bars[s[i].key] # NoBar /\ s[i].open < bars[s[i].key].open

\* The bars on their way to onComplete and those that were there are all different.
BarsDiffer ==
    /\ Distinct(emitted) /\ Distinct(done) /\ Distinct(flushed)
    /\ Apart(emitted, done) /\ Apart(emitted, flushed) /\ Apart(done, flushed)

BarsInv ==
    /\ BarsDiffer
    /\ main \in {"wait", "flushall"} => Superseded(emitted) /\ Superseded(done)
    /\ main \notin {"wait", "flushall"} =>
          (\A k \in Keys : bars[k] = NoBar) \/ reader \in {"top", "ended"}

\* The bars of a sequence have a key and a period.
LEMMA BarFields ==
    ASSUME NEW s \in Seq(BarSet), NEW i \in 1..Len(s)
    PROVE  s[i].key \in Keys /\ s[i].open \in Nat
<1>1. s[i] \in BarSet
  BY ElementOfSeq
<1> QED
  BY <1>1 DEF BarSet

\* What a sequence of bars loses at its head and gains at its end.
LEMMA ShiftFacts ==
    ASSUME NEW e \in Seq(BarSet), NEW s \in Seq(BarSet), s # <<>>
    PROVE  /\ Len(e) \in Nat /\ Len(Append(e, Head(s))) = Len(e) + 1
           /\ \A i \in 1..Len(e) : Append(e, Head(s))[i] = e[i]
           /\ Append(e, Head(s))[Len(e) + 1] = s[1]
           /\ 1 \in 1..Len(s)
           /\ \A i \in 1..Len(Tail(s)) : i + 1 \in 1..Len(s) /\ Tail(s)[i] = s[i + 1]
<1>1. Head(s) \in BarSet /\ Head(s) = s[1] /\ Len(s) \in Nat \ {0}
  BY HeadTailProperties, EmptySeq
<1>2. /\ Len(Tail(s)) = Len(s) - 1
      /\ \A i \in 1..Len(Tail(s)) : Tail(s)[i] = s[i + 1]
  BY HeadTailProperties
<1>3. \A i \in 1..(Len(s) - 1) : i + 1 \in 1..Len(s)
  BY <1>1
<1>4. /\ Len(e) \in Nat /\ Len(Append(e, Head(s))) = Len(e) + 1
      /\ \A i \in 1..Len(e) : Append(e, Head(s))[i] = e[i]
      /\ Append(e, Head(s))[Len(e) + 1] = Head(s)
  BY <1>1, AppendProperties
<1>5. 1 \in 1..Len(s)
  BY <1>1
<1> QED
  BY <1>1, <1>2, <1>3, <1>4, <1>5, Zenon

\* Handing the first bar to onComplete keeps all bars different.
LEMMA MoveHead ==
    ASSUME NEW e \in Seq(BarSet), NEW s \in Seq(BarSet), NEW t \in Seq(BarSet), s # <<>>,
           Distinct(e), Distinct(s), Apart(e, s), Apart(e, t), Apart(s, t)
    PROVE  /\ Distinct(Append(e, Head(s))) /\ Distinct(Tail(s))
           /\ Apart(Append(e, Head(s)), Tail(s)) /\ Apart(Append(e, Head(s)), t)
           /\ Apart(Tail(s), t)
<1> DEFINE f == Append(e, Head(s))
           r == Tail(s)
           n == Len(e)
<1>1. /\ n \in Nat /\ Len(f) = n + 1
      /\ \A i \in 1..n : f[i] = e[i]
      /\ f[n + 1] = s[1] /\ 1 \in 1..Len(s)
      /\ \A i \in 1..Len(r) : i + 1 \in 1..Len(s) /\ r[i] = s[i + 1]
  BY ShiftFacts
<1>2. 1..Len(f) = 1..n \cup {n + 1}
  BY <1>1
<1>3. \A i, j \in 1..Len(r) : i \in Int /\ j \in Int /\ (i + 1 = j + 1 => i = j) /\ i + 1 # 1
  OBVIOUS
<1> HIDE DEF f, r, n
<1>4. \A a, b : SameBar(a, b) => SameBar(b, a)
  BY DEF SameBar
<1>5. Apart(e, s) /\ \A i \in 1..n, j \in 1..Len(s) : ~SameBar(e[i], s[j])
  BY DEF Apart, n
<1>6. \A i, j \in 1..Len(s) : SameBar(s[i], s[j]) => i = j
  BY DEF Distinct
<1>7. \A i, j \in 1..n : SameBar(e[i], e[j]) => i = j
  BY DEF Distinct, n
<1>8. Distinct(f)
  <2> SUFFICES ASSUME NEW i \in 1..Len(f), NEW j \in 1..Len(f), SameBar(f[i], f[j])
               PROVE  i = j
    BY DEF Distinct
  <2> QED
    BY <1>1, <1>2, <1>4, <1>5, <1>7, Zenon
<1>9. Distinct(r)
  BY <1>1, <1>3, <1>6, Zenon DEF Distinct
<1>10. Apart(f, r)
  <2> SUFFICES ASSUME NEW i \in 1..Len(f), NEW j \in 1..Len(r), SameBar(f[i], r[j])
               PROVE  FALSE
    BY DEF Apart
  <2> QED
    BY <1>1, <1>2, <1>3, <1>5, <1>6, Zenon
<1>11. Apart(f, t)
  <2> SUFFICES ASSUME NEW i \in 1..Len(f), NEW j \in 1..Len(t), SameBar(f[i], t[j])
               PROVE  FALSE
    BY DEF Apart
  <2> QED
    BY <1>1, <1>2, Zenon DEF Apart, n
<1>12. Apart(r, t)
  BY <1>1, Zenon DEF Apart
<1> QED
  BY <1>8, <1>9, <1>10, <1>11, <1>12 DEF f, r

\* The same for bars that are all superseded.
LEMMA MoveSuperseded ==
    ASSUME NEW e \in Seq(BarSet), NEW s \in Seq(BarSet), s # <<>>,
           Superseded(e), Superseded(s)
    PROVE  Superseded(Append(e, Head(s))) /\ Superseded(Tail(s))
<1> DEFINE f == Append(e, Head(s))
           r == Tail(s)
           n == Len(e)
<1>1. /\ n \in Nat /\ Len(f) = n + 1
      /\ \A i \in 1..n : f[i] = e[i]
      /\ f[n + 1] = s[1] /\ 1 \in 1..Len(s)
      /\ \A i \in 1..Len(r) : i + 1 \in 1..Len(s) /\ r[i] = s[i + 1]
  BY ShiftFacts
<1>2. 1..Len(f) = 1..n \cup {n + 1}
  BY <1>1
<1> HIDE DEF f, r, n
<1>3. Superseded(f)
  BY <1>1, <1>2, Zenon DEF Superseded, n
<1>4. Superseded(r)
  BY <1>1, Zenon DEF Superseded
<1> QED
  BY <1>3, <1>4 DEF f, r

\* A tick never puts the period of a pending bar back, and what it completes is over.
LEMMA PeriodsAdvance ==
    ASSUME AggTypes, NEW tick \in TickSet
    PROVE  /\ \A k \in Keys : bars[k] # NoBar =>
                 BarsAfter(tick)[k] # NoBar /\ bars[k].open <= BarsAfter(tick)[k].open
           /\ \A k \in Touched(tick) : Completes(k, tick) =>
                 BarsAfter(tick)[k] # NoBar /\ bars[k].open < BarsAfter(tick)[k].open
<1>1. ASSUME NEW k \in Keys, bars[k] # NoBar
      PROVE  BarsAfter(tick)[k] # NoBar /\ bars[k].open <= BarsAfter(tick)[k].open
  <2>1. bars[k] \in BarSet /\ bars[k].open \in Nat
    BY <1>1 DEF AggTypes, BarSet
  <2>2. CASE k \notin Touched(tick)
    BY <1>1, <2>1, <2>2 DEF BarsAfter
  <2>3. CASE k \in Touched(tick) /\ Completes(k, tick)
    <3>1. BarsAfter(tick)[k] = OpensBar(k, tick)
      BY <2>3 DEF BarsAfter
    <3>2. OpensBar(k, tick) \in BarSet /\ OpensBar(k, tick).open = FloorTime(tick.time, k[2])
      BY BarTypes
    <3>3. OpensBar(k, tick).open \in Nat
      BY <3>2 DEF BarSet
    <3> QED
      BY <2>1, <2>3, <3>1, <3>2, <3>3, NoBarIsNone DEF Completes
  <2>4. CASE k \in Touched(tick) /\ ~Completes(k, tick)
    <3>1. BarsAfter(tick)[k] = UpdatesBar(bars[k], tick)
      BY <1>1, <2>4 DEF BarsAfter
    <3>2. UpdatesBar(bars[k], tick) \in BarSet /\ UpdatesBar(bars[k], tick).open = bars[k].open
      BY <2>1, BarTypes
    <3> QED
      BY <2>1, <3>1, <3>2, NoBarIsNone
  <2> QED
    BY <2>2, <2>3, <2>4
<1>2. ASSUME NEW k \in Touched(tick), Completes(k, tick)
      PROVE  BarsAfter(tick)[k] # NoBar /\ bars[k].open < BarsAfter(tick)[k].open
  <2>1. k \in Keys
    BY DEF Touched
  <2>2. BarsAfter(tick)[k] = OpensBar(k, tick)
    BY <1>2, <2>1 DEF BarsAfter
  <2>3. OpensBar(k, tick) \in BarSet /\ OpensBar(k, tick).open = FloorTime(tick.time, k[2])
    BY <2>1, BarTypes
  <2>4. bars[k].open \in Nat /\ OpensBar(k, tick).open \in Nat
    BY <1>2, <2>1, <2>3 DEF AggTypes, BarSet, Completes
  <2> QED
    BY <1>2, <2>2, <2>3, <2>4, NoBarIsNone DEF Completes
<1> QED
  BY <1>1, <1>2

\* Every step keeps the bars different.
LEMMA BarsInvStep ==
    ASSUME MdTypeOK, BarsInv, [MdNext]_mdVars
    PROVE  BarsInv'
<1> USE DEF writerVars, aggVars
<1>a. emitted \in Seq(BarSet) /\ done \in Seq(BarSet) /\ flushed \in Seq(BarSet) /\ AggTypes
  BY DEF MdTypeOK, AggTypes
\* A step of no aggregator bar, of a reader that does not take up a new tick after FlushAll.
<1>b. ASSUME UNCHANGED <<bars, done, emitted, flushed>>,
             main' \in {"wait", "flushall"} <=> main \in {"wait", "flushall"},
             reader \in {"top", "ended"} /\ main \notin {"wait", "flushall"} =>
                reader' \in {"top", "ended"}
      PROVE  BarsInv'
  BY <1>b DEF BarsInv, BarsDiffer, Superseded, Distinct, Apart
<1>1. CASE ReaderChecks
  BY <1>1, <1>b DEF ReaderChecks, ReaderUnchanged, ctxDone
<1>2. CASE ReaderReads \/ ReaderWrites
  BY <1>2, <1>b DEF ReaderReads, ReaderWrites, ReaderUnchanged
<1>3. CASE AddTick
  <2> DEFINE tick == Last(ticks)
  <2>1. tick \in TickSet
    BY <1>3 DEF AddTick, AggTypes, MdTypeOK, ControlTypes, Last
  <2>2. /\ bars' = BarsAfter(tick) /\ done' \in CompletedBars(tick)
        /\ reader = "add" /\ reader' = IF done' = <<>> THEN "top" ELSE "callback"
        /\ UNCHANGED <<emitted, main, flushed>>
    BY <1>3 DEF AddTick, ReaderUnchanged
  <2> HIDE DEF tick
  <2>3. /\ done' \in Seq(BarSet)
        /\ \A i \in 1..Len(done') :
              /\ done'[i].key \in Keys /\ done'[i].key \in Touched(tick)
              /\ Completes(done'[i].key, tick) /\ done'[i] = bars[done'[i].key]
        /\ \A i, j \in 1..Len(done') : done'[i].key = done'[j].key => i = j
    BY <1>a, <2>1, <2>2, CompletedFacts
  <2>4. Distinct(done')
    BY <2>3 DEF Distinct, SameBar
  <2>5. CASE main \in {"wait", "flushall"}
    <3>1. flushed = <<>>
      BY <2>5 DEF MdTypeOK, ControlTypes
    <3>2. Superseded(emitted)
      BY <2>5 DEF BarsInv
    <3>3. \A i \in 1..Len(emitted) : emitted[i].key \in Keys /\ emitted[i].open \in Nat
      BY <1>a, BarFields
    <3>4. Apart(emitted, done')
      <4> SUFFICES ASSUME NEW i \in 1..Len(emitted), NEW j \in 1..Len(done'),
                          SameBar(emitted[i], done'[j])
                   PROVE  FALSE
        BY DEF Apart
      <4>1. emitted[i].open < bars[emitted[i].key].open
        BY <3>2 DEF Superseded
      <4>2. emitted[i].open = bars[emitted[i].key].open
        BY <2>3 DEF SameBar
      <4> QED
        BY <3>3, <4>1, <4>2
    <3>5. Superseded(emitted)'
      <4> SUFFICES ASSUME NEW i \in 1..Len(emitted)
                   PROVE  /\ bars'[emitted[i].key] # NoBar
                          /\ emitted[i].open < bars'[emitted[i].key].open
        BY <2>2 DEF Superseded
      <4>1. bars[emitted[i].key] # NoBar /\ emitted[i].open < bars[emitted[i].key].open
        BY <3>2 DEF Superseded
      <4>2. /\ bars'[emitted[i].key] # NoBar
            /\ bars[emitted[i].key].open <= bars'[emitted[i].key].open
        BY <1>a, <2>1, <2>2, <3>3, <4>1, PeriodsAdvance
      <4>3. bars[emitted[i].key].open \in Nat /\ bars'[emitted[i].key].open \in Nat
        <5>1. bars[emitted[i].key] \in BarSet
          BY <1>a, <3>3, <4>1 DEF AggTypes
        <5>2. bars' \in [Keys -> BarSet \cup {NoBar}]
          BY <1>a, <2>1, <2>2, BarsAfterTypes
        <5>3. bars'[emitted[i].key] \in BarSet
          BY <3>3, <4>2, <5>2
        <5> QED
          BY <5>1, <5>3 DEF BarSet
      <4> QED
        BY <3>3, <4>1, <4>2, <4>3
    <3>6. Superseded(done)'
      <4> SUFFICES ASSUME NEW i \in 1..Len(done')
                   PROVE  /\ bars'[done'[i].key] # NoBar
                          /\ done'[i].open < bars'[done'[i].key].open
        BY DEF Superseded
      <4> QED
        BY <1>a, <2>1, <2>2, <2>3, PeriodsAdvance
    <3>7. Apart(emitted, flushed) /\ Apart(done', flushed) /\ Distinct(flushed)
      BY <3>1, EmptySeq DEF Apart, Distinct
    <3> QED
      BY <2>2, <2>4, <2>5, <3>4, <3>5, <3>6, <3>7 DEF BarsInv, BarsDiffer, Distinct, Apart
  <2>6. CASE main \notin {"wait", "flushall"}
    <3>1. \A k \in Keys : bars[k] = NoBar
      BY <2>2, <2>6 DEF BarsInv
    <3>2. \A i \in 1..Len(done') : FALSE
      BY <2>3, <3>1 DEF Completes
    <3>3. done' = <<>>
      <4>1. Len(done') \in Nat /\ (Len(done') # 0 => 1 \in 1..Len(done'))
        BY <2>3
      <4> QED
        BY <2>3, <3>2, <4>1, EmptySeq
    <3>4. Apart(emitted, done') /\ Apart(done', flushed)
      BY <3>2 DEF Apart
    <3> QED
      BY <2>2, <2>4, <2>6, <3>3, <3>4 DEF BarsInv, BarsDiffer, Distinct, Apart
  <2> QED
    BY <2>5, <2>6
<1>4. CASE AddTickReturns
  <2>1. /\ done # <<>> /\ emitted' = Append(emitted, Head(done)) /\ done' = Tail(done)
        /\ UNCHANGED <<bars, main, flushed>> /\ reader = "callback"
    BY <1>4 DEF AddTickReturns, ReaderUnchanged, OnComplete, MdTypeOK, ControlTypes
  <2>2. BarsDiffer'
    BY <1>a, <2>1, MoveHead DEF BarsInv, BarsDiffer
  <2>3. main \in {"wait", "flushall"} => Superseded(emitted)' /\ Superseded(done)'
    <3> SUFFICES ASSUME main \in {"wait", "flushall"}
                 PROVE  Superseded(emitted)' /\ Superseded(done)'
      OBVIOUS
    <3>1. Superseded(Append(emitted, Head(done))) /\ Superseded(Tail(done))
      BY <1>a, <2>1, MoveSuperseded DEF BarsInv
    <3> QED
      BY <2>1, <3>1 DEF Superseded
  <2> QED
    BY <2>1, <2>2, <2>3 DEF BarsInv
<1>5. CASE \E i \in Workers : WorkerStep(i)
  BY <1>5, <1>b DEF WorkerStep, WorkerTakes, WorkerStops, WorkerInserts, WorkerUnchanged
<1>6. CASE FlushTimer \/ Signal \/ FinalFlush \/ CloseWriter
  BY <1>6, <1>b DEF FlushTimer, Signal, FinalFlush, CloseWriter, MainUnchanged
<1>7. CASE FlushAll
  <2>1. /\ main = "flushall" /\ main' \in {"flush", "emit"} /\ flushed' = PendingBars
        /\ bars' = NoBars /\ UNCHANGED <<emitted, done, reader>>
    BY <1>7 DEF FlushAll, MainUnchanged
  <2>2. /\ flushed' \in Seq(BarSet)
        /\ \A i \in 1..Len(flushed') : flushed'[i] = bars[flushed'[i].key]
        /\ \A i, j \in 1..Len(flushed') : flushed'[i].key = flushed'[j].key => i = j
    BY <1>a, <2>1, PendingFacts
  <2>3. Distinct(flushed')
    BY <2>2 DEF Distinct, SameBar
  <2>4. ASSUME NEW s \in Seq(BarSet), Superseded(s) PROVE Apart(s, flushed')
    <3> SUFFICES ASSUME NEW i \in 1..Len(s), NEW j \in 1..Len(flushed'),
                        SameBar(s[i], flushed'[j])
                 PROVE  FALSE
      BY DEF Apart
    <3>1. s[i].open < bars[s[i].key].open /\ s[i].open = bars[s[i].key].open
      BY <2>2, <2>4 DEF Superseded, SameBar
    <3>2. s[i].open \in Nat
      BY BarFields
    <3> QED
      BY <3>1, <3>2
  <2>5. Apart(emitted, flushed') /\ Apart(done, flushed')
    BY <1>a, <2>1, <2>4 DEF BarsInv
  <2>6. \A k \in Keys : bars'[k] = NoBar
    BY <2>1 DEF NoBars
  <2> QED
    BY <2>1, <2>3, <2>5, <2>6 DEF BarsInv, BarsDiffer, Distinct, Apart
<1>8. CASE FlushAllReturns
  <2>1. /\ flushed # <<>> /\ emitted' = Append(emitted, Head(flushed)) /\ flushed' = Tail(flushed)
        /\ UNCHANGED <<bars, done, reader>> /\ main = "emit" /\ main' \in {"flush", "emit"}
    BY <1>8 DEF FlushAllReturns, MainUnchanged, OnComplete, MdTypeOK, ControlTypes
  <2>2. Apart(flushed, done)
    BY DEF BarsInv, BarsDiffer, Apart, SameBar
  <2>3. /\ Distinct(emitted') /\ Distinct(flushed') /\ Apart(emitted', flushed')
        /\ Apart(emitted', done) /\ Apart(flushed', done)
    BY <1>a, <2>1, <2>2, MoveHead DEF BarsInv, BarsDiffer
  <2>4. Apart(done, flushed')
    BY <2>3 DEF Apart, SameBar
  <2> QED
    BY <2>1, <2>3, <2>4 DEF BarsInv, BarsDiffer
<1>9. CASE \E a \in Actors : SyncInsert(a)
  BY <1>9, <1>b DEF SyncInsert
<1>10. CASE UNCHANGED mdVars
  BY <1>10, <1>b DEF mdVars
<1> QED
  BY <1>1, <1>2, <1>3, <1>4, <1>5, <1>6, <1>7, <1>8, <1>9, <1>10
  DEF MdNext, ReaderStep, MainStep, TickWorker, BarWorker, Ended

\* At the start there is no bar.
LEMMA BarsInvInit == MdInit => BarsInv
BY EmptySeq DEF MdInit, BarsInv, BarsDiffer, Superseded, Distinct, Apart

\* NoDuplicateBar (aggregator.go, AddTick and FlushAll; cmd/server/main.go, onComplete from
\* two goroutines): for any ticks and any timeframes, wherever the reader is at shutdown.
THEOREM NoDuplicateBarEver == MdSpec => []NoDuplicateBar
<1>1. MdTypeOK /\ BarsInv /\ [MdNext]_mdVars => BarsInv'
  BY BarsInvStep
<1>2. BarsInv => NoDuplicateBar
  BY DEF BarsInv, BarsDiffer, Distinct, SameBar, NoDuplicateBar
<1> QED
  BY <1>1, <1>2, BarsInvInit, MdTypeCorrect, PTL DEF MdSpec

-----------------------------------------------------------------------------
(* A bar is the candle of its ticks.                                       *)

\* The partial sums of the volumes of the ticks ids, up to the last of them.
PartialSums(tk, ids, last, sum) ==
    \A i \in 1..last : sum[i] = (IF i = 1 THEN 0 ELSE sum[i - 1])
                                + (IF i \in ids THEN tk[i].volume ELSE 0)

\* CandleOf with its first, last, highest and lowest tick, for a given sequence of ticks.
Candle(tk, bar, ids) ==
    /\ IsFiniteSet(ids) /\ bar.n = Cardinality(ids)
    /\ \E first, last, high, low \in ids :
          /\ \A i \in ids : /\ first <= i /\ i <= last
                            /\ tk[low].price <= tk[i].price /\ tk[i].price <= tk[high].price
          /\ bar.o = tk[first].price /\ bar.c = tk[last].price
          /\ bar.h = tk[high].price /\ bar.l = tk[low].price
          /\ \E sum \in [1..last -> 0..bar.v] :
                PartialSums(tk, ids, last, sum) /\ sum[last] = bar.v

\* The ticks of a bar among the ticks ad.
Within(tk, ad, bar) ==
    {i \in ad : tk[i].sym = bar.key[1] /\ FloorTime(tk[i].time, bar.key[2]) = bar.open}

Exact(tk, ad, bar) == Candle(tk, bar, Within(tk, ad, bar))

\* A candle is a candle: each choice of CandleOf is one of these ticks.
LEMMA CandleIsExact ==
    ASSUME NEW bar \in BarSet, NEW ids \in SUBSET (1..Len(ticks)), ticks \in Seq(TickSet),
           Candle(ticks, bar, ids)
    PROVE  CandleOf(bar, ids)
<1>1. PICK first \in ids, last \in ids, high \in ids, low \in ids :
          /\ \A i \in ids : /\ first <= i /\ i <= last
                            /\ ticks[low].price <= ticks[i].price
                            /\ ticks[i].price <= ticks[high].price
          /\ bar.o = ticks[first].price /\ bar.c = ticks[last].price
          /\ bar.h = ticks[high].price /\ bar.l = ticks[low].price
          /\ \E sum \in [1..last -> 0..bar.v] :
                PartialSums(ticks, ids, last, sum) /\ sum[last] = bar.v
  BY DEF Candle
<1>2. \A i \in ids : i \in Nat /\ ticks[i].price \in Nat
  <2> SUFFICES ASSUME NEW i \in ids PROVE i \in Nat /\ ticks[i].price \in Nat
    OBVIOUS
  <2>1. i \in 1..Len(ticks)
    OBVIOUS
  <2>2. ticks[i] \in TickSet
    BY <2>1, ElementOfSeq
  <2>3. ticks[i].price \in Nat
    BY <2>2 DEF TickSet
  <2>4. i \in Nat
    BY <2>1
  <2> QED
    BY <2>3, <2>4
<1>3. Min(ids) = first
  <2>1. Min(ids) \in ids /\ \A i \in ids : Min(ids) <= i
    BY <1>1, Zenon DEF Min
  <2> DEFINE x == Min(ids)
  <2>2. x \in Nat /\ first \in Nat /\ x <= first /\ first <= x
    BY <1>1, <1>2, <2>1, Zenon
  <2> HIDE DEF x
  <2>3. x = first
    BY <2>2
  <2> QED
    BY <2>3 DEF x
<1>4. Max(ids) = last
  <2>1. \A i \in ids : last >= i
    BY <1>1, <1>2
  <2>2. Max(ids) \in ids /\ \A i \in ids : Max(ids) >= i
    BY <2>1, Zenon DEF Max
  <2> DEFINE x == Max(ids)
  <2>3. x \in Nat /\ last \in Nat /\ x <= last /\ x >= last
    BY <1>1, <1>2, <2>2, Zenon
  <2> HIDE DEF x
  <2>4. x = last
    BY <2>3
  <2> QED
    BY <2>4 DEF x
<1> DEFINE prices == {ticks[i].price : i \in ids}
<1>5. \A p \in prices : p \in Nat /\ ticks[low].price <= p /\ ticks[high].price >= p
  <2> SUFFICES ASSUME NEW i \in ids
               PROVE  /\ ticks[i].price \in Nat /\ ticks[low].price <= ticks[i].price
                      /\ ticks[high].price >= ticks[i].price
    OBVIOUS
  <2>1. /\ ticks[i].price \in Nat /\ ticks[high].price \in Nat
        /\ ticks[low].price <= ticks[i].price /\ ticks[i].price <= ticks[high].price
    BY <1>1, <1>2, Zenon
  <2> QED
    BY <2>1
<1>6. ticks[low].price \in prices /\ ticks[high].price \in prices
  OBVIOUS
<1> HIDE DEF prices
<1>7. Min(prices) = ticks[low].price
  <2>1. Min(prices) \in prices /\ \A p \in prices : Min(prices) <= p
    BY <1>5, <1>6, Zenon DEF Min
  <2> DEFINE x == Min(prices)
             y == ticks[low].price
  <2>2. x \in Nat /\ y \in Nat /\ x <= y /\ y <= x
    BY <1>5, <1>6, <2>1, Zenon
  <2> HIDE DEF x, y
  <2>3. x = y
    BY <2>2
  <2> QED
    BY <2>3 DEF x, y
<1>8. Max(prices) = ticks[high].price
  <2>1. Max(prices) \in prices /\ \A p \in prices : Max(prices) >= p
    BY <1>5, <1>6, Zenon DEF Max
  <2> DEFINE x == Max(prices)
             y == ticks[high].price
  <2>2. x \in Nat /\ y \in Nat /\ x >= y /\ y >= x
    BY <1>5, <1>6, <2>1, Zenon
  <2> HIDE DEF x, y
  <2>3. x = y
    BY <2>2
  <2> QED
    BY <2>3 DEF x, y
<1>9. VolumesAddUp(ids, bar.v)
  BY <1>1, <1>4, Zenon DEF VolumesAddUp, PartialSums
<1> QED
  BY <1>1, <1>3, <1>4, <1>7, <1>8, <1>9, Zenon DEF CandleOf, Candle, prices

\* A candle depends on its own ticks only.
LEMMA CandleKept ==
    ASSUME NEW tk, NEW tk2, NEW bar, NEW ids, Candle(tk, bar, ids),
           \A i \in ids : tk2[i] = tk[i]
    PROVE  Candle(tk2, bar, ids)
<1>1. ASSUME NEW last, NEW sum, PartialSums(tk, ids, last, sum)
      PROVE  PartialSums(tk2, ids, last, sum)
  <2>1. \A i : (IF i \in ids THEN tk2[i].volume ELSE 0) = (IF i \in ids THEN tk[i].volume ELSE 0)
    OBVIOUS
  <2> QED
    BY <1>1, <2>1, Zenon DEF PartialSums
<1>2. PICK first \in ids, last \in ids, high \in ids, low \in ids :
          /\ \A i \in ids : /\ first <= i /\ i <= last
                            /\ tk[low].price <= tk[i].price /\ tk[i].price <= tk[high].price
          /\ bar.o = tk[first].price /\ bar.c = tk[last].price
          /\ bar.h = tk[high].price /\ bar.l = tk[low].price
          /\ \E sum \in [1..last -> 0..bar.v] :
                PartialSums(tk, ids, last, sum) /\ sum[last] = bar.v
  BY DEF Candle
<1>3. /\ \A i \in ids : /\ first <= i /\ i <= last
                        /\ tk2[low].price <= tk2[i].price /\ tk2[i].price <= tk2[high].price
      /\ bar.o = tk2[first].price /\ bar.c = tk2[last].price
      /\ bar.h = tk2[high].price /\ bar.l = tk2[low].price
  BY <1>2
<1>4. \E sum \in [1..last -> 0..bar.v] : PartialSums(tk2, ids, last, sum) /\ sum[last] = bar.v
  BY <1>1, <1>2, Zenon
<1>5. IsFiniteSet(ids) /\ bar.n = Cardinality(ids)
  BY DEF Candle
<1>6. \E f, t, h, w \in ids :
          /\ \A i \in ids : /\ f <= i /\ i <= t
                            /\ tk2[w].price <= tk2[i].price /\ tk2[i].price <= tk2[h].price
          /\ bar.o = tk2[f].price /\ bar.c = tk2[t].price
          /\ bar.h = tk2[h].price /\ bar.l = tk2[w].price
          /\ \E sum \in [1..t -> 0..bar.v] : PartialSums(tk2, ids, t, sum) /\ sum[t] = bar.v
  <2> WITNESS first \in ids, last \in ids, high \in ids, low \in ids
  <2> QED
    BY <1>3, <1>4, Zenon
<1> QED
  BY <1>5, <1>6, Zenon DEF Candle

\* The bar that a tick opens is its candle.
LEMMA CandleOpens ==
    ASSUME NEW tk, NEW N \in Nat \ {0}, tk[N] \in TickSet, NEW key
    PROVE  Candle(tk, OpensBar(key, tk[N]), {N})
<1> DEFINE tick == tk[N]
           bar == OpensBar(key, tick)
           sum == [i \in 1..N |-> IF i = N THEN tick.volume ELSE 0]
<1>1. tick.price \in Nat /\ tick.volume \in Nat
  BY DEF TickSet
<1>2. /\ bar.o = tick.price /\ bar.h = tick.price /\ bar.l = tick.price /\ bar.c = tick.price
      /\ bar.v = tick.volume /\ bar.n = 1
  BY DEF OpensBar
<1> HIDE DEF bar
<1>3. IsFiniteSet({N}) /\ bar.n = Cardinality({N})
  BY <1>2, FS_Singleton
<1>4. sum \in [1..N -> 0..bar.v] /\ sum[N] = bar.v
  BY <1>1, <1>2
<1>5. PartialSums(tk, {N}, N, sum)
  BY <1>1 DEF PartialSums
<1> HIDE DEF sum
<1>6. N \in {N} /\ N <= N /\ tick.price <= tick.price
  BY <1>1
<1> QED
  BY <1>2, <1>3, <1>4, <1>5, <1>6, Zenon DEF Candle, bar

\* A candle that is updated with the next tick of its period is the candle of both.
LEMMA CandleUpdates ==
    ASSUME NEW tk, NEW N \in Nat \ {0}, tk[N] \in TickSet, NEW bar \in BarSet,
           NEW ids \in SUBSET (1..(N - 1)), Candle(tk, bar, ids),
           \A i \in ids : tk[i] \in TickSet
    PROVE  Candle(tk, UpdatesBar(bar, tk[N]), ids \cup {N})
<1> DEFINE tick == tk[N]
           up == UpdatesBar(bar, tick)
           both == ids \cup {N}
<1>1. PICK first \in ids, last \in ids, high \in ids, low \in ids :
          /\ \A i \in ids : /\ first <= i /\ i <= last
                            /\ tk[low].price <= tk[i].price /\ tk[i].price <= tk[high].price
          /\ bar.o = tk[first].price /\ bar.c = tk[last].price
          /\ bar.h = tk[high].price /\ bar.l = tk[low].price
          /\ \E sum \in [1..last -> 0..bar.v] :
                PartialSums(tk, ids, last, sum) /\ sum[last] = bar.v
  BY DEF Candle
<1>2. tick.price \in Nat /\ tick.volume \in Nat
  BY DEF TickSet
<1>3. /\ up.o = bar.o /\ up.c = tick.price
      /\ up.h = IF tick.price > bar.h THEN tick.price ELSE bar.h
      /\ up.l = IF tick.price < bar.l THEN tick.price ELSE bar.l
      /\ up.v = bar.v + tick.volume /\ up.n = bar.n + 1
  BY DEF UpdatesBar, BarSet
<1>4. bar.v \in Nat /\ bar.n \in Nat /\ bar.h \in Nat /\ bar.l \in Nat
  BY DEF BarSet
<1>5. IsFiniteSet(ids) /\ bar.n = Cardinality(ids)
  BY DEF Candle
<1>6. \A i \in ids : i \in Nat /\ i >= 1 /\ i < N /\ i <= N
  OBVIOUS
<1>7. \A i \in ids : tk[i].price \in Nat
  BY DEF TickSet
<1> HIDE DEF up
<1>8. IsFiniteSet(both) /\ up.n = Cardinality(both)
  <2>1. N \notin ids
    BY <1>6
  <2> QED
    BY <1>3, <1>5, <2>1, FS_AddElement
<1>9. \A i \in both : first <= i /\ i <= N
  BY <1>1, <1>6
<1>10. PICK h \in both : up.h = tk[h].price /\ \A i \in both : tk[i].price <= tk[h].price
  <2>1. CASE tick.price > bar.h
    <3>1. \A i \in both : tk[i].price <= tk[N].price
      <4>1. \A i \in ids : tk[i].price \in Nat /\ tk[i].price <= bar.h
        BY <1>1, <1>7, Zenon
      <4>2. \A i \in ids : tk[i].price <= tick.price
        BY <1>2, <1>4, <2>1, <4>1
      <4> QED
        BY <1>2, <4>2
    <3>2. up.h = tk[N].price
      BY <1>3, <2>1
    <3> QED
      BY <3>1, <3>2
  <2>2. CASE ~(tick.price > bar.h)
    <3>1. \A i \in both : tk[i].price <= tk[high].price
      BY <1>1, <1>2, <1>4, <1>7, <2>2
    <3>2. up.h = tk[high].price
      BY <1>1, <1>3, <2>2
    <3> QED
      BY <3>1, <3>2
  <2> QED
    BY <2>1, <2>2
<1>11. PICK w \in both : up.l = tk[w].price /\ \A i \in both : tk[w].price <= tk[i].price
  <2>1. CASE tick.price < bar.l
    <3>1. \A i \in both : tk[N].price <= tk[i].price
      <4>1. \A i \in ids : tk[i].price \in Nat /\ bar.l <= tk[i].price
        BY <1>1, <1>7, Zenon
      <4>2. \A i \in ids : tick.price <= tk[i].price
        BY <1>2, <1>4, <2>1, <4>1
      <4> QED
        BY <1>2, <4>2
    <3>2. up.l = tk[N].price
      BY <1>3, <2>1
    <3> QED
      BY <3>1, <3>2
  <2>2. CASE ~(tick.price < bar.l)
    <3>1. \A i \in both : tk[low].price <= tk[i].price
      BY <1>1, <1>2, <1>4, <1>7, <2>2
    <3>2. up.l = tk[low].price
      BY <1>1, <1>3, <2>2
    <3> QED
      BY <3>1, <3>2
  <2> QED
    BY <2>1, <2>2
<1>12. \E sum \in [1..N -> 0..up.v] : PartialSums(tk, both, N, sum) /\ sum[N] = up.v
  <2>1. PICK sum \in [1..last -> 0..bar.v] : PartialSums(tk, ids, last, sum) /\ sum[last] = bar.v
    BY <1>1
  <2> DEFINE more == [i \in 1..N |-> IF i <= last THEN sum[i]
                                     ELSE IF i < N THEN bar.v ELSE bar.v + tick.volume]
  <2>2. last \in Nat /\ last >= 1 /\ last < N
    BY <1>6
  <2>3. \A i \in 1..last : sum[i] \in Nat /\ sum[i] <= bar.v
    BY <1>4
  <2>4. more \in [1..N -> 0..up.v]
    <3> SUFFICES ASSUME NEW i \in 1..N
                 PROVE  (IF i <= last THEN sum[i]
                         ELSE IF i < N THEN bar.v ELSE bar.v + tick.volume) \in 0..up.v
      OBVIOUS
    <3>1. CASE i <= last
      <4>1. sum[i] \in Nat /\ sum[i] <= bar.v
        BY <2>2, <2>3, <3>1
      <4> QED
        BY <1>2, <1>3, <1>4, <3>1, <4>1
    <3>2. CASE ~(i <= last)
      BY <1>2, <1>3, <1>4, <3>2
    <3> QED
      BY <3>1, <3>2
  <2>5. more[N] = up.v
    BY <1>3, <2>2
  <2>6. \A i \in ids : i <= last
    BY <1>1
  <2>7. ASSUME NEW i \in 1..N
        PROVE  more[i] = (IF i = 1 THEN 0 ELSE more[i - 1])
                         + (IF i \in both THEN tk[i].volume ELSE 0)
    <3>1. CASE i <= last
      <4>1. sum[i] = (IF i = 1 THEN 0 ELSE sum[i - 1]) + (IF i \in ids THEN tk[i].volume ELSE 0)
        BY <2>1, <2>2, <3>1 DEF PartialSums
      <4>2. more[i] = sum[i] /\ (i # 1 => more[i - 1] = sum[i - 1]) /\ (i \in both <=> i \in ids)
        BY <2>2, <3>1
      <4> QED
        BY <4>1, <4>2, Zenon
    <3>2. CASE last < i /\ i < N
      <4>1. more[i] = bar.v /\ more[i - 1] = bar.v /\ i # 1
        BY <2>1, <2>2, <3>2
      <4>2. i \notin both
        BY <2>2, <2>6, <3>2
      <4> QED
        BY <1>4, <4>1, <4>2
    <3>3. CASE i = N
      <4>1. more[i] = bar.v + tick.volume /\ more[i - 1] = bar.v /\ i # 1 /\ i \in both
        BY <2>1, <2>2, <3>3
      <4> QED
        BY <3>3, <4>1
    <3> QED
      BY <2>2, <3>1, <3>2, <3>3
  <2> HIDE DEF more
  <2>8. PartialSums(tk, both, N, more)
    BY <2>7, Zenon DEF PartialSums
  <2> QED
    BY <2>4, <2>5, <2>8, Zenon
<1>13. \E f, t, x, y \in both :
          /\ \A i \in both : /\ f <= i /\ i <= t
                             /\ tk[y].price <= tk[i].price /\ tk[i].price <= tk[x].price
          /\ up.o = tk[f].price /\ up.c = tk[t].price
          /\ up.h = tk[x].price /\ up.l = tk[y].price
          /\ \E sum \in [1..t -> 0..up.v] : PartialSums(tk, both, t, sum) /\ sum[t] = up.v
  <2> first \in both /\ N \in both
    OBVIOUS
  <2> HIDE DEF both
  <2> WITNESS first \in both, N \in both, h \in both, w \in both
  <2> QED
    BY <1>1, <1>3, <1>9, <1>10, <1>11, <1>12, Zenon
<1> QED
  BY <1>8, <1>13, Zenon DEF Candle, up

\* Later ticks are not of an earlier period.
LEMMA FloorAdvances ==
    ASSUME NEW t \in Nat, NEW u \in Nat, t <= u, NEW tf \in Timeframes
    PROVE  FloorTime(t, tf) <= FloorTime(u, tf)
<1> DEFINE q == t \div tf
           p == u \div tf
<1>1. tf \in Nat \ {0}
  BY MarketDataAssumption
<1>2. q \in Nat /\ p \in Nat
  BY <1>1
<1>3. tf * q <= t /\ t < tf * q + tf /\ tf * p <= u /\ u < tf * p + tf
  BY <1>1
<1>4. FloorTime(t, tf) = tf * q /\ FloorTime(u, tf) = tf * p
  BY <1>1, <1>2 DEF FloorTime
<1> HIDE DEF q, p
<1>5. q <= p
  <2> SUFFICES ASSUME q >= p + 1 PROVE FALSE
    BY <1>2
  <2>1. PICK e \in Nat : q = p + 1 + e
    BY <1>2
  <2>2. tf * q = tf * p + tf + tf * e /\ tf * e \in Nat /\ tf * p \in Nat
    BY <1>1, <1>2, <2>1
  <2> QED
    BY <1>1, <1>3, <2>2
<1>6. PICK e \in Nat : p = q + e
  BY <1>2, <1>5
<1>7. tf * p = tf * q + tf * e /\ tf * e \in Nat /\ tf * q \in Nat
  BY <1>1, <1>2, <1>6
<1> QED
  BY <1>4, <1>7

\* The clock does not go back, and AddTick handles every tick, in their order.
TicksInOrder ==
    /\ \A i, j \in 1..Len(ticks) : i <= j => ticks[i].time <= ticks[j].time
    /\ added \subseteq 1..Len(ticks)
    /\ main \in {"wait", "flushall"} =>
          added = 1..(IF reader \in {"write", "add"} THEN Len(ticks) - 1 ELSE Len(ticks))

\* A pending bar is exact and no tick of its symbol is of a later period; where no bar is
\* pending there was no tick.
PendingExact(tk, ad, pending) ==
    \A k \in Keys :
        IF pending[k] = NoBar THEN \A i \in ad : tk[i].sym # k[1]
        ELSE /\ Exact(tk, ad, pending[k])
             /\ \A i \in ad : tk[i].sym = k[1] =>
                   FloorTime(tk[i].time, k[2]) <= pending[k].open

AllExact(tk, ad, s) == \A i \in 1..Len(s) : Exact(tk, ad, s[i])

\* Until FlushAll takes them the pending bars are exact, and all others always.
ExactInv ==
    /\ TicksInOrder
    /\ main \in {"wait", "flushall"} => PendingExact(ticks, added, bars)
    /\ AllExact(ticks, added, emitted) /\ AllExact(ticks, added, done)
    /\ AllExact(ticks, added, flushed)

\* A bar stays exact as long as its ticks stay what they are.
LEMMA ExactKept ==
    ASSUME NEW tk, NEW tk2, NEW ad, NEW ad2, NEW bar, Exact(tk, ad, bar),
           Within(tk2, ad2, bar) = Within(tk, ad, bar), \A i \in ad : tk2[i] = tk[i]
    PROVE  Exact(tk2, ad2, bar)
<1>1. \A i \in Within(tk, ad, bar) : tk2[i] = tk[i]
  BY DEF Within
<1> QED
  BY <1>1, CandleKept DEF Exact

\* Handing the first bar to onComplete.
LEMMA MoveExact ==
    ASSUME NEW e \in Seq(BarSet), NEW s \in Seq(BarSet), s # <<>>, NEW tk, NEW ad,
           AllExact(tk, ad, e), AllExact(tk, ad, s)
    PROVE  AllExact(tk, ad, Append(e, Head(s))) /\ AllExact(tk, ad, Tail(s))
<1> DEFINE f == Append(e, Head(s))
           r == Tail(s)
           n == Len(e)
<1>1. /\ n \in Nat /\ Len(f) = n + 1
      /\ \A i \in 1..n : f[i] = e[i]
      /\ f[n + 1] = s[1] /\ 1 \in 1..Len(s)
      /\ \A i \in 1..Len(r) : i + 1 \in 1..Len(s) /\ r[i] = s[i + 1]
  BY ShiftFacts
<1>2. 1..Len(f) = 1..n \cup {n + 1}
  BY <1>1
<1> HIDE DEF f, r, n
<1>3. AllExact(tk, ad, f)
  BY <1>1, <1>2, Zenon DEF AllExact, n
<1>4. AllExact(tk, ad, r)
  BY <1>1, Zenon DEF AllExact
<1> QED
  BY <1>3, <1>4 DEF f, r

\* The tick that AddTick handles is of no earlier period than a pending bar of its symbol.
LEMMA NewTickFacts ==
    ASSUME MdTypeOK, ExactInv, main \in {"wait", "flushall"}, reader = "add",
           NEW N, N = Len(ticks)
    PROVE  /\ N \in Nat \ {0} /\ added = 1..(N - 1)
           /\ \A i \in 1..N : ticks[i] \in TickSet
           /\ \A k \in Keys, i \in 1..N :
                 /\ FloorTime(ticks[i].time, k[2]) \in Nat
                 /\ FloorTime(ticks[i].time, k[2]) <= FloorTime(ticks[N].time, k[2])
           /\ \A k \in Keys : bars[k] # NoBar =>
                 /\ bars[k] \in BarSet /\ bars[k].key = k /\ bars[k].open \in Nat
                 /\ bars[k].open <= FloorTime(ticks[N].time, k[2])
<1>1. ticks \in Seq(TickSet) /\ ticks # <<>>
  BY DEF MdTypeOK, AggTypes, ControlTypes
<1>2. N \in Nat \ {0} /\ added = 1..(N - 1)
  <2>1. N \in Nat \ {0}
    BY <1>1, EmptySeq
  <2> QED
    BY <2>1 DEF ExactInv, TicksInOrder
<1>3. \A i \in 1..N : ticks[i] \in TickSet
  BY <1>1, ElementOfSeq
<1>4. ASSUME NEW k \in Keys, NEW i \in 1..N
      PROVE  /\ FloorTime(ticks[i].time, k[2]) \in Nat
             /\ FloorTime(ticks[i].time, k[2]) <= FloorTime(ticks[N].time, k[2])
  <2>1. k[2] \in Timeframes
    BY DEF Keys
  <2>2. N \in 1..N /\ i <= N
    BY <1>2
  <2>3. ticks[i].time <= ticks[N].time
    BY <2>2 DEF ExactInv, TicksInOrder
  <2>4. ticks[i].time \in Nat /\ ticks[N].time \in Nat
    BY <1>3, <2>2 DEF TickSet
  <2> QED
    BY <2>1, <2>3, <2>4, FloorTimeType, FloorAdvances
<1>5. ASSUME NEW k \in Keys, bars[k] # NoBar
      PROVE  /\ bars[k] \in BarSet /\ bars[k].key = k /\ bars[k].open \in Nat
             /\ bars[k].open <= FloorTime(ticks[N].time, k[2])
  <2>1. bars[k] \in BarSet /\ bars[k].key = k
    BY <1>5 DEF MdTypeOK, AggTypes
  <2>2. bars[k].open \in Nat
    BY <2>1 DEF BarSet
  <2>3. Exact(ticks, added, bars[k])
    BY <1>5 DEF ExactInv, PendingExact
  <2>4. PICK i \in Within(ticks, added, bars[k]) : TRUE
    BY <2>3 DEF Exact, Candle
  <2>5. i \in added /\ FloorTime(ticks[i].time, k[2]) = bars[k].open
    BY <2>1 DEF Within
  <2>6. i \in 1..N
    BY <1>2, <2>5
  <2> QED
    BY <1>4, <2>1, <2>2, <2>5, <2>6
<1> QED
  BY <1>2, <1>3, <1>4, <1>5

\* AddTick before FlushAll: the pending bars are exact with the new tick.
LEMMA AddTickPending ==
    ASSUME MdTypeOK, ExactInv, main \in {"wait", "flushall"}, reader = "add",
           NEW N, N = Len(ticks)
    PROVE  PendingExact(ticks, 1..N, BarsAfter(ticks[N]))
<1> DEFINE tick == ticks[N]
           floor(i, k) == FloorTime(ticks[i].time, k[2])
<1>1. /\ N \in Nat \ {0} /\ added = 1..(N - 1)
      /\ \A i \in 1..N : ticks[i] \in TickSet
      /\ \A k \in Keys, i \in 1..N : floor(i, k) \in Nat /\ floor(i, k) <= floor(N, k)
      /\ \A k \in Keys : bars[k] # NoBar =>
            /\ bars[k] \in BarSet /\ bars[k].key = k /\ bars[k].open \in Nat
            /\ bars[k].open <= floor(N, k)
  BY NewTickFacts
<1>2. N \in 1..N /\ 1..N = added \cup {N} /\ N \notin added
  BY <1>1
<1>3. tick \in TickSet
  BY <1>1, <1>2
<1>4. PendingExact(ticks, added, bars)
  BY DEF ExactInv
<1> SUFFICES ASSUME NEW k \in Keys
             PROVE  IF BarsAfter(tick)[k] = NoBar THEN \A i \in 1..N : ticks[i].sym # k[1]
                    ELSE /\ Exact(ticks, 1..N, BarsAfter(tick)[k])
                         /\ \A i \in 1..N : ticks[i].sym = k[1] =>
                               floor(i, k) <= BarsAfter(tick)[k].open
  BY Zenon DEF PendingExact
<1>5. CASE k \notin Touched(tick)
  <2>1. BarsAfter(tick)[k] = bars[k] /\ tick.sym # k[1]
    BY <1>5 DEF BarsAfter, Touched
  <2>2. CASE bars[k] = NoBar
    <3>1. \A i \in added : ticks[i].sym # k[1]
      BY <1>4, <2>2 DEF PendingExact
    <3> QED
      BY <1>2, <2>1, <2>2, <3>1, Zenon
  <2>3. CASE bars[k] # NoBar
    <3>1. /\ Exact(ticks, added, bars[k])
          /\ \A i \in added : ticks[i].sym = k[1] => floor(i, k) <= bars[k].open
      BY <1>4, <2>3 DEF PendingExact
    <3>2. bars[k].key = k
      BY <1>1, <2>3
    <3>3. Within(ticks, 1..N, bars[k]) = Within(ticks, added, bars[k])
      BY <1>2, <2>1, <3>2 DEF Within
    <3>4. Exact(ticks, 1..N, bars[k])
      BY <3>1, <3>3 DEF Exact
    <3> QED
      BY <1>2, <2>1, <2>3, <3>1, <3>4, Zenon
  <2> QED
    BY <2>2, <2>3
<1>6. CASE k \in Touched(tick) /\ (bars[k] = NoBar \/ Completes(k, tick))
  <2> DEFINE bar == OpensBar(k, tick)
  <2>1. BarsAfter(tick)[k] = bar /\ tick.sym = k[1]
    BY <1>6 DEF BarsAfter, Touched
  <2>2. bar \in BarSet /\ bar.key = k /\ bar.open = floor(N, k) /\ bar # NoBar
    BY <1>3, BarTypes, NoBarIsNone
  <2>3. \A i \in added : ticks[i].sym = k[1] => floor(i, k) # floor(N, k)
    <3>1. CASE bars[k] = NoBar
      BY <1>4, <3>1 DEF PendingExact
    <3>2. CASE bars[k] # NoBar
      <4>1. floor(N, k) > bars[k].open
        BY <1>6, <3>2 DEF Completes
      <4>2. \A i \in added : ticks[i].sym = k[1] => floor(i, k) <= bars[k].open
        BY <1>4, <3>2 DEF PendingExact
      <4>3. bars[k].open \in Nat /\ floor(N, k) \in Nat /\ \A i \in added : floor(i, k) \in Nat
        BY <1>1, <1>2, <3>2, Zenon
      <4> HIDE DEF floor
      <4> QED
        BY <4>1, <4>2, <4>3
    <3> QED
      BY <3>1, <3>2
  <2> HIDE DEF bar
  <2>4. Within(ticks, 1..N, bar) = {N}
    <3>1. \A i \in 1..N : i \in Within(ticks, 1..N, bar) <=> (ticks[i].sym = k[1] /\ floor(i, k) = floor(N, k))
      BY <2>2 DEF Within
    <3>2. \A i \in Within(ticks, 1..N, bar) : i \in 1..N
      BY DEF Within
    <3> HIDE DEF floor
    <3> QED
      BY <1>2, <2>1, <2>3, <3>1, <3>2, Zenon
  <2>5. Exact(ticks, 1..N, bar)
    <3>1. Candle(ticks, OpensBar(k, ticks[N]), {N})
      BY <1>1, <1>3, CandleOpens
    <3> QED
      BY <2>4, <3>1 DEF Exact, bar
  <2> QED
    BY <1>1, <2>1, <2>2, <2>5, Zenon
<1>7. CASE k \in Touched(tick) /\ bars[k] # NoBar /\ ~Completes(k, tick)
  <2> DEFINE bar == UpdatesBar(bars[k], tick)
             ids == Within(ticks, added, bars[k])
  <2>1. BarsAfter(tick)[k] = bar /\ tick.sym = k[1]
    BY <1>7 DEF BarsAfter, Touched
  <2>2. /\ bars[k] \in BarSet /\ bars[k].key = k /\ bars[k].open \in Nat
        /\ bars[k].open <= floor(N, k) /\ floor(N, k) \in Nat
    BY <1>1, <1>2, <1>7
  <2>3. bar \in BarSet /\ bar.key = k /\ bar.open = bars[k].open /\ bar # NoBar
    BY <1>3, <2>2, BarTypes, NoBarIsNone
  <2>4. floor(N, k) = bars[k].open
    <3>1. ~(floor(N, k) > bars[k].open)
      BY <1>7 DEF Completes
    <3> HIDE DEF floor
    <3> QED
      BY <2>2, <3>1
  <2>5. /\ Exact(ticks, added, bars[k])
        /\ \A i \in added : ticks[i].sym = k[1] => floor(i, k) <= bars[k].open
    BY <1>4, <1>7 DEF PendingExact
  <2> HIDE DEF bar
  <2>6. Within(ticks, 1..N, bar) = ids \cup {N}
    <3>1. \A i \in 1..N : i \in Within(ticks, 1..N, bar)
                            <=> (ticks[i].sym = k[1] /\ floor(i, k) = bars[k].open)
      BY <2>3 DEF Within
    <3>2. \A i \in added : i \in ids <=> (ticks[i].sym = k[1] /\ floor(i, k) = bars[k].open)
      BY <2>2 DEF Within
    <3>3. (\A i \in Within(ticks, 1..N, bar) : i \in 1..N) /\ \A i \in ids : i \in added
      BY DEF Within
    <3> HIDE DEF floor, ids
    <3> QED
      BY <1>2, <2>1, <2>4, <3>1, <3>2, <3>3, Zenon
  <2>7. Exact(ticks, 1..N, bar)
    <3>1. Candle(ticks, bars[k], ids)
      BY <2>5 DEF Exact
    <3>2. ids \in SUBSET (1..(N - 1)) /\ \A i \in ids : ticks[i] \in TickSet
      BY <1>1, <1>2 DEF Within
    <3> HIDE DEF ids
    <3>3. Candle(ticks, UpdatesBar(bars[k], ticks[N]), ids \cup {N})
      BY <1>1, <1>3, <2>2, <3>1, <3>2, CandleUpdates
    <3> QED
      BY <2>6, <3>3 DEF Exact, bar
  <2>8. \A i \in 1..N : floor(i, k) <= bar.open
    BY <1>1, <2>3, <2>4, Zenon
  <2> QED
    BY <2>1, <2>3, <2>7, <2>8, Zenon
<1> QED
  BY <1>5, <1>6, <1>7

\* AddTick before FlushAll: the bars that are out, and those it completes, are exact still.
LEMMA AddTickOut ==
    ASSUME MdTypeOK, BarsInv, ExactInv, main \in {"wait", "flushall"}, reader = "add",
           NEW N, N = Len(ticks), NEW d \in CompletedBars(ticks[N])
    PROVE  AllExact(ticks, 1..N, emitted) /\ AllExact(ticks, 1..N, d)
<1> DEFINE tick == ticks[N]
           floor(k) == FloorTime(ticks[N].time, k[2])
<1>1. /\ N \in Nat \ {0} /\ added = 1..(N - 1)
      /\ \A i \in 1..N : ticks[i] \in TickSet
      /\ \A k \in Keys : floor(k) \in Nat
      /\ \A k \in Keys : bars[k] # NoBar => bars[k].open \in Nat /\ bars[k].open <= floor(k)
  <2>1. N \in 1..N
    BY NewTickFacts
  <2> QED
    BY <2>1, NewTickFacts
<1>2. N \in 1..N /\ 1..N = added \cup {N}
  BY <1>1
<1>3. ASSUME NEW bar, Exact(ticks, added, bar), bar.open # floor(bar.key)
      PROVE  Exact(ticks, 1..N, bar)
  <2>1. Within(ticks, 1..N, bar) = Within(ticks, added, bar)
    BY <1>2, <1>3 DEF Within
  <2> QED
    BY <1>3, <2>1 DEF Exact
<1>4. emitted \in Seq(BarSet) /\ AggTypes
  BY DEF MdTypeOK, AggTypes
<1>5. AllExact(ticks, 1..N, emitted)
  <2> SUFFICES ASSUME NEW i \in 1..Len(emitted) PROVE Exact(ticks, 1..N, emitted[i])
    BY DEF AllExact
  <2>1. emitted[i].key \in Keys /\ emitted[i].open \in Nat
    BY <1>4, BarFields
  <2>2. bars[emitted[i].key] # NoBar /\ emitted[i].open < bars[emitted[i].key].open
    BY DEF BarsInv, Superseded
  <2>3. /\ bars[emitted[i].key].open \in Nat /\ floor(emitted[i].key) \in Nat
        /\ bars[emitted[i].key].open <= floor(emitted[i].key)
    BY <1>1, <2>1, <2>2, Zenon
  <2>4. Exact(ticks, added, emitted[i])
    BY DEF ExactInv, AllExact
  <2> HIDE DEF floor
  <2>5. emitted[i].open # floor(emitted[i].key)
    BY <2>1, <2>2, <2>3
  <2> QED
    BY <1>3, <2>4, <2>5, Zenon
<1>6. AllExact(ticks, 1..N, d)
  <2> SUFFICES ASSUME NEW i \in 1..Len(d) PROVE Exact(ticks, 1..N, d[i])
    BY DEF AllExact
  <2>1. tick \in TickSet
    BY <1>1, <1>2
  <2>2. d[i].key \in Keys /\ Completes(d[i].key, tick) /\ d[i] = bars[d[i].key]
    BY <1>4, <2>1, CompletedFacts
  <2>3. bars[d[i].key] # NoBar /\ floor(d[i].key) > bars[d[i].key].open
    BY <2>2 DEF Completes
  <2>4. bars[d[i].key].open \in Nat /\ floor(d[i].key) \in Nat
    BY <1>1, <2>2, <2>3, Zenon
  <2>5. Exact(ticks, added, bars[d[i].key])
    BY <2>2, <2>3 DEF ExactInv, PendingExact
  <2> HIDE DEF floor
  <2>6. bars[d[i].key].open # floor(d[i].key)
    BY <2>3, <2>4
  <2> QED
    BY <1>3, <2>2, <2>5, <2>6, Zenon
<1> QED
  BY <1>5, <1>6

\* A new tick leaves every bar exact: AddTick has not handled it.
LEMMA ReadExact ==
    ASSUME MdTypeOK, ExactInv, NEW tick \in TickSet, reader = "read",
           ticks' = Append(ticks, tick), now <= tick.time,
           reader' = "write", UNCHANGED <<added, bars, done, emitted, flushed, main>>
    PROVE  ExactInv'
<1> DEFINE n == Len(ticks)
<1>1. ticks \in Seq(TickSet) /\ n \in Nat
  BY DEF MdTypeOK, AggTypes
<1>2. /\ Len(ticks') = n + 1 /\ ticks'[n + 1] = tick
      /\ \A i \in 1..n : ticks'[i] = ticks[i]
  BY <1>1, AppendProperties
<1>3. added \subseteq 1..n
  BY DEF ExactInv, TicksInOrder
<1>4. \A i \in added : ticks'[i] = ticks[i]
  BY <1>2, <1>3
<1>5. ASSUME NEW bar PROVE Within(ticks', added, bar) = Within(ticks, added, bar)
  BY <1>4 DEF Within
<1>6. ASSUME NEW bar, Exact(ticks, added, bar) PROVE Exact(ticks', added, bar)
  BY <1>4, <1>5, <1>6, ExactKept
<1>7. TicksInOrder'
  <2>1. \A i \in 1..n : ticks[i].time \in Nat
    <3> SUFFICES ASSUME NEW i \in 1..n PROVE ticks[i].time \in Nat
      OBVIOUS
    <3>1. ticks[i] \in TickSet
      BY <1>1, ElementOfSeq
    <3> QED
      BY <3>1 DEF TickSet
  <2>2. tick.time \in Nat
    BY DEF TickSet
  <2>3. \A i, j \in 1..n : i <= j => ticks[i].time <= ticks[j].time
    BY DEF ExactInv, TicksInOrder
  <2>4. \A i \in 1..n : ticks[i].time <= tick.time
    <3> SUFFICES ASSUME NEW i \in 1..n PROVE ticks[i].time <= tick.time
      OBVIOUS
    <3>1. n \in 1..n /\ i <= n /\ ticks # <<>>
      BY <1>1, EmptySeq
    <3>2. now = ticks[n].time
      BY <3>1 DEF now
    <3>3. ticks[i].time <= ticks[n].time
      BY <2>3, <3>1
    <3> QED
      BY <2>1, <2>2, <3>1, <3>2, <3>3
  <2>5. ASSUME NEW i \in 1..(n + 1), NEW j \in 1..(n + 1), i <= j
        PROVE  ticks'[i].time <= ticks'[j].time
    <3>1. CASE j \in 1..n
      <4>1. i \in 1..n
        BY <1>1, <2>5, <3>1
      <4> QED
        BY <1>2, <2>3, <2>5, <3>1, <4>1, Zenon
    <3>2. CASE j = n + 1 /\ i \in 1..n
      BY <1>2, <2>4, <3>2, Zenon
    <3>3. CASE j = n + 1 /\ i = n + 1
      BY <1>2, <2>2, <3>3
    <3>4. (j \in 1..n) \/ (j = n + 1 /\ i \in 1..n) \/ (j = n + 1 /\ i = n + 1)
      BY <1>1, <2>5
    <3> QED
      BY <3>1, <3>2, <3>3, <3>4
  <2>6. added \subseteq 1..(n + 1)
    BY <1>1, <1>3
  <2>7. main \in {"wait", "flushall"} => added = 1..((n + 1) - 1)
    BY <1>1 DEF ExactInv, TicksInOrder
  <2> QED
    BY <1>2, <2>5, <2>6, <2>7, Zenon DEF TicksInOrder
<1>8. main \in {"wait", "flushall"} => PendingExact(ticks', added, bars)
  <2> SUFFICES ASSUME main \in {"wait", "flushall"}, NEW k \in Keys
               PROVE  IF bars[k] = NoBar THEN \A i \in added : ticks'[i].sym # k[1]
                      ELSE /\ Exact(ticks', added, bars[k])
                           /\ \A i \in added : ticks'[i].sym = k[1] =>
                                 FloorTime(ticks'[i].time, k[2]) <= bars[k].open
    BY Zenon DEF PendingExact
  <2>1. IF bars[k] = NoBar THEN \A i \in added : ticks[i].sym # k[1]
        ELSE /\ Exact(ticks, added, bars[k])
             /\ \A i \in added : ticks[i].sym = k[1] =>
                   FloorTime(ticks[i].time, k[2]) <= bars[k].open
    BY Zenon DEF ExactInv, PendingExact
  <2> QED
    BY <1>4, <1>6, <2>1, Zenon
<1>9. /\ AllExact(ticks', added, emitted) /\ AllExact(ticks', added, done)
      /\ AllExact(ticks', added, flushed)
  BY <1>6, Zenon DEF ExactInv, AllExact
<1> QED
  BY <1>7, <1>8, <1>9, Zenon DEF ExactInv

\* Every step keeps the bars exact.
LEMMA ExactInvStep ==
    ASSUME MdTypeOK, BarsInv, ExactInv, [MdNext]_mdVars
    PROVE  ExactInv'
<1> USE DEF writerVars, aggVars
<1>a. emitted \in Seq(BarSet) /\ done \in Seq(BarSet) /\ flushed \in Seq(BarSet) /\ AggTypes
  BY DEF MdTypeOK, AggTypes
\* A step of no tick and no bar.
<1>b. ASSUME UNCHANGED <<ticks, added, bars, done, emitted, flushed>>,
             main' \in {"wait", "flushall"} <=> main \in {"wait", "flushall"},
             reader' \in {"write", "add"} <=> reader \in {"write", "add"}
      PROVE  ExactInv'
  <2>1. TicksInOrder'
    BY <1>b DEF ExactInv, TicksInOrder
  <2> QED
    BY <1>b, <2>1 DEF ExactInv
<1>1. CASE ReaderChecks
  BY <1>1, <1>b DEF ReaderChecks, ReaderUnchanged
<1>2. CASE ReaderWrites
  BY <1>2, <1>b DEF ReaderWrites, ReaderUnchanged
<1>3. CASE ReaderReads
  <2>1. /\ reader = "read"
        /\ UNCHANGED <<added, bars, done, emitted, flushed, main>>
    BY <1>3 DEF ReaderReads, ReaderUnchanged
  <2>2. CASE UNCHANGED ticks /\ reader' \in {"top", "ended"}
    BY <1>b, <2>1, <2>2
  <2>3. CASE ~(UNCHANGED ticks /\ reader' \in {"top", "ended"})
    <3>1. PICK raw \in RawMessages, t \in now..MaxMinute :
             LET tick == NormalizeRawMessage(raw)
             IN  /\ ~tick.skipped
                 /\ ticks' = Append(ticks, [sym |-> tick.sym, time |-> t,
                                            price |-> tick.price, volume |-> tick.volume])
                 /\ reader' = "write"
      BY <1>3, <2>3 DEF ReaderReads
    <3> DEFINE n == NormalizeRawMessage(raw)
               tick == [sym |-> n.sym, time |-> t, price |-> n.price, volume |-> n.volume]
    <3>2. n.sym \in Symbols /\ n.price \in Nat /\ n.volume \in Nat
      BY <3>1, NormalizeType
    <3>3. now \in Nat
      <4>1. CASE ticks = <<>>
        BY <4>1, MarketDataAssumption DEF now
      <4>2. CASE ticks # <<>>
        <5>1. ticks[Len(ticks)] \in TickSet
          BY <1>a, <4>2 DEF AggTypes
        <5> QED
          BY <4>2, <5>1 DEF now, TickSet
      <4> QED
        BY <4>1, <4>2
    <3>4. t \in Nat /\ now <= t
      BY <3>3, MarketDataAssumption
    <3>5. tick \in TickSet /\ now <= tick.time
      BY <3>2, <3>4 DEF TickSet
    <3>6. ticks' = Append(ticks, tick) /\ reader' = "write"
      BY <3>1
    <3> HIDE DEF tick
    <3> QED
      BY <2>1, <3>5, <3>6, ReadExact
  <2> QED
    BY <2>2, <2>3
<1>4. CASE AddTick
  <2> DEFINE N == Len(ticks)
  <2>1. ticks # <<>>
    BY <1>4 DEF AddTick, MdTypeOK, ControlTypes
  <2>2. Last(ticks) = ticks[N]
    BY DEF Last
  <2>3. /\ bars' = BarsAfter(ticks[N]) /\ done' \in CompletedBars(ticks[N])
        /\ added' = IF main \in {"wait", "flushall"} THEN added \cup {N} ELSE added
        /\ reader = "add" /\ reader' \in {"top", "callback"}
        /\ UNCHANGED <<ticks, emitted, main, flushed>>
    BY <1>4, <2>2 DEF AddTick, ReaderUnchanged
  <2>4. CASE main \in {"wait", "flushall"}
    <3>1. N \in Nat \ {0} /\ added = 1..(N - 1)
      BY <2>3, <2>4, NewTickFacts
    <3>2. added' = 1..N
      BY <2>3, <2>4, <3>1
    <3>3. PendingExact(ticks, 1..N, BarsAfter(ticks[N]))
      BY <2>3, <2>4, AddTickPending
    <3>4. AllExact(ticks, 1..N, emitted) /\ AllExact(ticks, 1..N, done')
      BY <2>3, <2>4, AddTickOut
    <3>5. AllExact(ticks, 1..N, flushed)
      <4>1. flushed = <<>>
        BY <2>4 DEF MdTypeOK, ControlTypes
      <4> QED
        BY <4>1, EmptySeq DEF AllExact
    <3>6. TicksInOrder'
      BY <2>3, <3>2 DEF ExactInv, TicksInOrder
    <3> QED
      BY <2>3, <3>2, <3>3, <3>4, <3>5, <3>6, Zenon DEF ExactInv
  <2>5. CASE main \notin {"wait", "flushall"}
    <3>1. \A k \in Keys : bars[k] = NoBar
      BY <2>3, <2>5 DEF BarsInv
    <3>2. ticks[N] \in TickSet
      BY <1>a, <2>1 DEF AggTypes
    <3>3. \A i \in 1..Len(done') : FALSE
      BY <1>a, <2>3, <3>1, <3>2, CompletedFacts DEF Completes
    <3>4. AllExact(ticks, added, done')
      BY <3>3 DEF AllExact
    <3>5. TicksInOrder'
      BY <2>3, <2>5 DEF ExactInv, TicksInOrder
    <3> QED
      BY <2>3, <2>5, <3>4, <3>5 DEF ExactInv
  <2> QED
    BY <2>4, <2>5
<1>5. CASE AddTickReturns
  <2>1. /\ done # <<>> /\ emitted' = Append(emitted, Head(done)) /\ done' = Tail(done)
        /\ UNCHANGED <<ticks, added, bars, main, flushed>>
        /\ reader = "callback" /\ reader' \in {"top", "callback"}
    BY <1>5 DEF AddTickReturns, ReaderUnchanged, OnComplete, MdTypeOK, ControlTypes
  <2>2. AllExact(ticks, added, emitted') /\ AllExact(ticks, added, done')
    BY <1>a, <2>1, MoveExact DEF ExactInv
  <2>3. TicksInOrder'
    BY <2>1 DEF ExactInv, TicksInOrder
  <2> QED
    BY <2>1, <2>2, <2>3 DEF ExactInv
<1>6. CASE \E i \in Workers : WorkerStep(i)
  BY <1>6, <1>b DEF WorkerStep, WorkerTakes, WorkerStops, WorkerInserts, WorkerUnchanged
<1>7. CASE FlushTimer \/ Signal \/ FinalFlush \/ CloseWriter
  BY <1>7, <1>b DEF FlushTimer, Signal, FinalFlush, CloseWriter, MainUnchanged
<1>8. CASE FlushAll
  <2>1. /\ main = "flushall" /\ main' \in {"flush", "emit"} /\ flushed' = PendingBars
        /\ UNCHANGED <<ticks, added, emitted, done, reader>>
    BY <1>8 DEF FlushAll, MainUnchanged
  <2>2. AllExact(ticks, added, flushed')
    <3> SUFFICES ASSUME NEW i \in 1..Len(PendingBars) PROVE Exact(ticks, added, PendingBars[i])
      BY <2>1 DEF AllExact
    <3>1. /\ PendingBars[i].key \in Keys /\ bars[PendingBars[i].key] # NoBar
          /\ PendingBars[i] = bars[PendingBars[i].key]
      BY <1>a, PendingFacts
    <3>2. Exact(ticks, added, bars[PendingBars[i].key])
      BY <2>1, <3>1 DEF ExactInv, PendingExact
    <3> QED
      BY <3>1, <3>2, Zenon
  <2>3. TicksInOrder'
    BY <2>1 DEF ExactInv, TicksInOrder
  <2> QED
    BY <2>1, <2>2, <2>3 DEF ExactInv
<1>9. CASE FlushAllReturns
  <2>1. /\ flushed # <<>> /\ emitted' = Append(emitted, Head(flushed)) /\ flushed' = Tail(flushed)
        /\ UNCHANGED <<ticks, added, bars, done, reader>>
        /\ main = "emit" /\ main' \in {"flush", "emit"}
    BY <1>9 DEF FlushAllReturns, MainUnchanged, OnComplete, MdTypeOK, ControlTypes
  <2>2. AllExact(ticks, added, emitted') /\ AllExact(ticks, added, flushed')
    BY <1>a, <2>1, MoveExact DEF ExactInv
  <2>3. TicksInOrder'
    BY <2>1 DEF ExactInv, TicksInOrder
  <2> QED
    BY <2>1, <2>2, <2>3 DEF ExactInv
<1>10. CASE \E a \in Actors : SyncInsert(a)
  BY <1>10, <1>b DEF SyncInsert
<1>11. CASE UNCHANGED mdVars
  BY <1>11, <1>b DEF mdVars
<1> QED
  BY <1>1, <1>2, <1>3, <1>4, <1>5, <1>6, <1>7, <1>8, <1>9, <1>10, <1>11
  DEF MdNext, ReaderStep, MainStep, TickWorker, BarWorker, Ended

\* At the start there is no tick and no bar.
LEMMA ExactInvInit == MdInit => ExactInv
<1> SUFFICES ASSUME MdInit PROVE ExactInv
  OBVIOUS
<1>1. ticks = <<>> /\ added = {} /\ emitted = <<>> /\ done = <<>> /\ flushed = <<>>
      /\ reader = "top" /\ bars = NoBars
  BY DEF MdInit
<1>2. \A k \in Keys : bars[k] = NoBar
  BY <1>1 DEF NoBars
<1>3. TicksInOrder
  BY <1>1, EmptySeq DEF TicksInOrder
<1>4. PendingExact(ticks, added, bars)
  BY <1>1, <1>2 DEF PendingExact
<1>5. AllExact(ticks, added, emitted) /\ AllExact(ticks, added, done) /\ AllExact(ticks, added, flushed)
  BY <1>1, EmptySeq DEF AllExact
<1> QED
  BY <1>3, <1>4, <1>5 DEF ExactInv

\* BarsAreExact (aggregator.go, AddTick and FlushAll): for any ticks at any times and any
\* timeframes, every bar that is emitted has the count, the four prices and the volume of
\* exactly the ticks of its period, wherever the reader is when the shutdown flushes.
THEOREM BarsAreExactAlways == MdSpec => []BarsAreExact
<1>1. MdTypeOK /\ BarsInv /\ [MdNext]_mdVars => BarsInv'
  BY BarsInvStep
<1>2. MdTypeOK /\ BarsInv /\ ExactInv /\ [MdNext]_mdVars => ExactInv'
  BY ExactInvStep
<1>3. MdTypeOK /\ ExactInv => BarsAreExact
  <2> SUFFICES ASSUME MdTypeOK, ExactInv, NEW i \in 1..Len(emitted)
               PROVE  CandleOf(emitted[i], TicksOf(emitted[i]))
    BY DEF BarsAreExact
  <2>1. emitted[i] \in BarSet /\ ticks \in Seq(TickSet)
    BY ElementOfSeq DEF MdTypeOK, AggTypes
  <2>2. TicksOf(emitted[i]) = Within(ticks, added, emitted[i])
    BY DEF TicksOf, Within
  <2>3. TicksOf(emitted[i]) \in SUBSET (1..Len(ticks))
    BY DEF TicksOf, ExactInv, TicksInOrder
  <2>4. Candle(ticks, emitted[i], TicksOf(emitted[i]))
    BY <2>2 DEF ExactInv, AllExact, Exact
  <2> QED
    BY <2>1, <2>3, <2>4, CandleIsExact
<1> QED
  BY <1>1, <1>2, <1>3, BarsInvInit, ExactInvInit, MdTypeCorrect, PTL DEF MdSpec

=============================================================================
