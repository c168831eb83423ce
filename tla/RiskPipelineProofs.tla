------------------------- MODULE RiskPipelineProofs -------------------------
(***************************************************************************)
(* Theorems about RiskPipeline for any limits and any number of signals,   *)
(* positions and restarts: the limit of open positions, the limit of       *)
(* signals per hour, the cooldown after a streak of losses and what such a *)
(* streak does to the size of a signal.                                    *)
(***************************************************************************)
EXTENDS RiskPipeline, FiniteSetTheorems, SequenceTheorems, WellFoundedInduction, TLAPS

-----------------------------------------------------------------------------
(* Operators.                                                              *)

\* A set of natural numbers that is not empty has a minimum, and Min is it.
LEMMA MinOfNaturals ==
    ASSUME NEW S \in SUBSET Nat, S # {}
    PROVE  Min(S) \in S /\ \A y \in S : Min(S) <= y
<1>1. PICK x \in S : \A y \in S : ~(<<y, x>> \in OpToRel(<, Nat))
  BY NatLessThanWellFounded, WFMin, Zenon
<1>2. \A y \in S : ~(y < x)
  BY <1>1, Zenon DEF OpToRel
<1>3. \A y \in S : x <= y
  BY <1>2
<1> QED
  BY <1>3 DEF Min

\* The larger of zero and a number.
LEMMA MaxWithZero ==
    ASSUME NEW n \in Int
    PROVE  Max({0, n}) \in Nat /\ Max({0, n}) \in {0, n} /\ Max({0, n}) >= n
<1>1. \E x \in {0, n} : \A y \in {0, n} : x >= y
  BY DEF Max
<1>2. Max({0, n}) \in {0, n} /\ \A y \in {0, n} : Max({0, n}) >= y
  BY <1>1 DEF Max
<1> QED
  BY <1>2

\* A sequence from which one element is removed.
LEMMA RemoveAtFacts ==
    ASSUME NEW S, NEW s \in Seq(S), NEW i \in DOMAIN s
    PROVE  RemoveAt(s, i) \in Seq(S) /\ Len(RemoveAt(s, i)) = Len(s) - 1
<1>1. i \in 1..Len(s) /\ Len(s) \in Nat
  OBVIOUS
<1>2. SubSeq(s, 1, i - 1) \in Seq(S) /\ Len(SubSeq(s, 1, i - 1)) = i - 1
  BY <1>1
<1>3. SubSeq(s, i + 1, Len(s)) \in Seq(S) /\ Len(SubSeq(s, i + 1, Len(s))) = Len(s) - i
  BY <1>1
<1>4. /\ RemoveAt(s, i) \in Seq(S)
      /\ Len(RemoveAt(s, i)) = Len(SubSeq(s, 1, i - 1)) + Len(SubSeq(s, i + 1, Len(s)))
  BY <1>2, <1>3, ConcatProperties, Zenon DEF RemoveAt
<1>5. Len(RemoveAt(s, i)) = (i - 1) + (Len(s) - i)
  BY <1>2, <1>3, <1>4, Zenon
<1>6. (i - 1) + (Len(s) - i) = Len(s) - 1
  BY <1>1
<1> QED
  BY <1>4, <1>5, <1>6, Zenon

-----------------------------------------------------------------------------
(* The limit of open positions.                                            *)

Positions == [sym : {s.sym : s \in Suggestions}, dir : {s.dir : s \in Suggestions}]
Trades == [sym : {s.sym : s \in Suggestions}, won : BOOLEAN]

BookTypes ==
    /\ broker \in Seq(Positions)
    /\ buffer \in Seq(Trades) /\ closing \in Seq(Trades)
    /\ DOMAIN pf = {"count", "detail", "loss", "day"}
    /\ pf.count \in Nat /\ lost \in Nat
    /\ pc \in {"dispatch", "open"} => [sym |-> sig.sym, dir |-> sig.dir] \in Positions

\* The order on its way: the engine does not count it yet.
OnItsWay == IF pc = "open" THEN 1 ELSE 0

\* Every position at the broker, and every close not booked yet, is counted by the
\* engine, on its way to it, or lost.
Covered ==
    Len(broker) + Len(buffer) + Len(closing) <= pf.count + OnItsWay + lost

\* The count leaves room for the order that is being dispatched.
Room ==
    /\ pf.count <= MaxOpen
    /\ pc \in {"dispatch", "open"} => pf.count < MaxOpen

LimitInv == BookTypes /\ Covered /\ Room

\* The daily reset leaves the count alone.
LEMMA ResetKeepsCount ==
    ASSUME NEW p, DOMAIN p = {"count", "detail", "loss", "day"}
    PROVE  /\ DOMAIN DailyReset(p) = DOMAIN p
           /\ DailyReset(p).count = p.count
BY DEF DailyReset

\* What the tail of an iteration does to control and portfolio.
LEMMA DispatchEnds ==
    ASSUME NEW p, DOMAIN p = {"count", "detail", "loss", "day"}, AfterDispatch(p)
    PROVE  /\ pc' \in {"poll", "idle"}
           /\ DOMAIN pf' = {"count", "detail", "loss", "day"}
           /\ pf'.count = p.count
BY ResetKeepsCount DEF AfterDispatch

\* Every step keeps LimitInv.
LEMMA LimitStep ==
    ASSUME LimitInv, [RiskNext]_riskVars
    PROVE  LimitInv'
<1> USE GatesAssumption, RiskAssumption
    DEF LimitInv, BookTypes, Covered, Room, OnItsWay, brokerVars, pfVars, history, redisVars
<1>1. ASSUME NEW s \in Suggestions, BarSignal(s) PROVE LimitInv'
  <2>1. /\ sig'.sym = s.sym /\ sig'.dir = s.dir
        /\ pf' = DailyReset(pf) /\ pc' = "dispatch" /\ pc = "idle"
        /\ UNCHANGED <<brokerVars, lost>>
    BY <1>1 DEF BarSignal, GenerateSignal
  <2>2. DailyReset(pf).count < MaxOpen
    BY <1>1 DEF BarSignal, Accepted, Validate, LimitOk
  <2> QED
    BY <2>1, <2>2, ResetKeepsCount DEF Positions
<1>2. ASSUME NEW s \in Suggestions, BarRefused(s) PROVE LimitInv'
  <2>1. (pf' = DailyReset(pf) \/ pf' = pf) /\ UNCHANGED <<pc, sig, brokerVars, lost>>
    BY <1>2 DEF BarRefused
  <2> QED
    BY <2>1, ResetKeepsCount
<1>3. CASE KillSwitchDrops
  BY <1>3 DEF KillSwitchDrops
<1>4. ASSUME NEW opens \in BOOLEAN, Send(opens) PROVE LimitInv'
  BY <1>4 DEF Send
<1>5. CASE Filled
  <2>1. /\ DOMAIN RecordFill(pf, sig) = DOMAIN pf
        /\ RecordFill(pf, sig).count = pf.count + 1
    BY DEF RecordFill
  <2>2. pc = "open" /\ UNCHANGED <<brokerVars, lost>> /\ AfterDispatch(RecordFill(pf, sig))
    BY <1>5 DEF Filled
  <2>3. /\ pc' \in {"poll", "idle"}
        /\ DOMAIN pf' = {"count", "detail", "loss", "day"}
        /\ pf'.count = pf.count + 1
    BY <2>1, <2>2, DispatchEnds
  <2> QED
    BY <2>2, <2>3
<1>6. CASE NotFilled
  <2>1. /\ pc \in {"open", "failed"} /\ AfterDispatch(pf) /\ UNCHANGED brokerVars
        /\ lost' = IF pc = "open" THEN lost + 1 ELSE lost
    BY <1>6 DEF NotFilled
  <2>2. /\ pc' \in {"poll", "idle"}
        /\ DOMAIN pf' = {"count", "detail", "loss", "day"}
        /\ pf'.count = pf.count
    BY <2>1, DispatchEnds
  <2> QED
    BY <2>1, <2>2
<1>7. CASE Poll
  BY <1>7 DEF Poll
<1>8. CASE BookOne
  <2>1. /\ pc = "booking" /\ closing # <<>> /\ closing' = Tail(closing)
        /\ pf' = RecordClose(pf, Head(closing))
        /\ UNCHANGED <<pc, broker, buffer, lost, sig>>
    BY <1>8 DEF BookOne
  <2>2. /\ DOMAIN pf' = DOMAIN pf
        /\ pf'.count = Max({0, pf.count - 1})
    BY <2>1 DEF RecordClose
  <2>3. pf'.count \in Nat /\ pf'.count >= pf.count - 1 /\ pf'.count <= pf.count
    <3>1. pf.count - 1 \in Int
      OBVIOUS
    <3>2. /\ Max({0, pf.count - 1}) \in {0, pf.count - 1}
          /\ Max({0, pf.count - 1}) \in Nat /\ Max({0, pf.count - 1}) >= pf.count - 1
      BY <3>1, MaxWithZero, Zenon
    <3> QED
      BY <2>2, <3>2
  <2>4. closing' \in Seq(Trades) /\ Len(closing') = Len(closing) - 1
    BY <2>1
  <2> QED
    BY <2>1, <2>2, <2>3, <2>4
<1>9. CASE BookingDone
  BY <1>9, ResetKeepsCount DEF BookingDone
<1>10. CASE PersistBegins
  BY <1>10 DEF PersistBegins
<1>11. ASSUME NEW data \in tasks.writing, NEW ok \in BOOLEAN, PersistEnds(data, ok)
       PROVE  LimitInv'
  BY <1>11 DEF PersistEnds
<1>12. ASSUME NEW i \in DOMAIN broker, NEW won \in BOOLEAN, BrokerCloses(i, won)
       PROVE  LimitInv'
  <2>1. broker' \in Seq(Positions) /\ Len(broker') = Len(broker) - 1
    BY <1>12, RemoveAtFacts DEF BrokerCloses
  <2>2. [sym |-> broker[i].sym, won |-> won] \in Trades
    <3>1. broker[i] \in Positions
      OBVIOUS
    <3> QED
      BY <3>1 DEF Positions, Trades
  <2>3. /\ UNCHANGED <<pc, sig, pf, closing, lost>>
        /\ buffer' = IF Stream THEN Append(buffer, [sym |-> broker[i].sym, won |-> won])
                     ELSE buffer
    BY <1>12 DEF BrokerCloses
  <2>4. buffer' \in Seq(Trades) /\ Len(buffer') <= Len(buffer) + 1 /\ Len(buffer') \in Nat
    BY <2>2, <2>3
  <2> QED
    BY <2>1, <2>3, <2>4
<1>13. ASSUME NEW withRedis \in BOOLEAN, EngineRestarts(withRedis) PROVE LimitInv'
  <2>1. /\ pc' = "idle" /\ broker' = broker /\ buffer' = <<>> /\ closing' = <<>>
        /\ lost' = lost + Len(broker)
        /\ \E loss : pf' = NewPortfolio(loss)
    BY <1>13 DEF EngineRestarts
  <2>2. DOMAIN pf' = {"count", "detail", "loss", "day"} /\ pf'.count = 0
    BY <2>1 DEF NewPortfolio
  <2> QED
    BY <2>1, <2>2
<1>14. CASE Tick
  BY <1>14 DEF Tick
<1>15. CASE UNCHANGED riskVars
  BY <1>15 DEF riskVars
<1> QED
  BY <1>1, <1>2, <1>3, <1>4, <1>5, <1>6, <1>7, <1>8, <1>9, <1>10, <1>11, <1>12, <1>13,
     <1>14, <1>15 DEF RiskNext, LoopStep, Bars

\* The limit of open positions (signals/validator.py, check 2, with portfolio.py): the
\* broker holds no more positions than the limit and those the engine lost track of, for
\* any limit, any stream of closed trades and any number of restarts.
THEOREM OpenLimitHolds == RiskSpec => []OpenLimit
<1>1. RiskInit => LimitInv
  BY GatesAssumption
  DEF RiskInit, LimitInv, BookTypes, Covered, Room, OnItsWay, NewPortfolio
<1>2. LimitInv /\ [RiskNext]_riskVars => LimitInv'
  BY LimitStep
<1>3. LimitInv => OpenLimit
  BY GatesAssumption DEF LimitInv, BookTypes, Covered, Room, OnItsWay, OpenLimit
<1> QED
  BY <1>1, <1>2, <1>3, PTL DEF RiskSpec

-----------------------------------------------------------------------------
(* The limit of signals per hour.                                          *)

\* What cleanup leaves of a sequence of times: a tail, without an old entry at its head.
LEMMA DropBeforeFacts ==
    ASSUME NEW s \in Seq(Nat), NEW cutoff \in Int
    PROVE  \E k \in 0..Len(s) :
              /\ DropBefore(s, cutoff) \in Seq(Nat)
              /\ Len(DropBefore(s, cutoff)) = Len(s) - k
              /\ \A i \in 1..(Len(s) - k) : DropBefore(s, cutoff)[i] = s[k + i]
              /\ \A j \in 1..k : s[j] < cutoff
<1> DEFINE S == {i \in DOMAIN s : s[i] >= cutoff} \cup {Len(s) + 1}
           m == Min(S)
<1>1. S \in SUBSET Nat /\ S # {}
  OBVIOUS
<1>2. m \in S /\ \A y \in S : m <= y
  BY <1>1, MinOfNaturals
<1>3. m \in 1..(Len(s) + 1) /\ Len(s) + 1 \in S
  BY <1>2
<1>4. \A j \in 1..(m - 1) : s[j] < cutoff
  <2> SUFFICES ASSUME NEW j \in 1..(m - 1) PROVE s[j] < cutoff
    OBVIOUS
  <2>1. j \in DOMAIN s /\ s[j] \in Nat /\ ~(m <= j)
    BY <1>3
  <2>2. j \notin S
    BY <1>2, <2>1
  <2> QED
    BY <2>1, <2>2
<1>5. DropBefore(s, cutoff) = SubSeq(s, m, Len(s))
  BY DEF DropBefore
<1> HIDE DEF m
<1>6. /\ SubSeq(s, m, Len(s)) \in Seq(Nat)
      /\ Len(SubSeq(s, m, Len(s))) = IF m <= Len(s) THEN Len(s) - m + 1 ELSE 0
      /\ \A i \in 1..(Len(s) - m + 1) : SubSeq(s, m, Len(s))[i] = s[m + i - 1]
  <2>1. m \in Int /\ Len(s) \in Int /\ \A i \in m..Len(s) : s[i] \in Nat
    BY <1>3
  <2> QED
    BY <2>1, SubSeqProperties
<1> QED
  <2>1. m - 1 \in 0..Len(s)
    BY <1>3
  <2>2. Len(DropBefore(s, cutoff)) = Len(s) - (m - 1)
    BY <1>3, <1>5, <1>6
  <2>3. \A i \in 1..(Len(s) - (m - 1)) : DropBefore(s, cutoff)[i] = s[(m - 1) + i]
    BY <1>3, <1>5, <1>6
  <2> QED
    BY <1>4, <1>5, <1>6, <2>1, <2>2, <2>3

\* Signals carry growing times, and the limiter holds the last ones: those it has
\* dropped are older than an hour.
StampsInv ==
    /\ now \in Nat
    /\ issued \in Seq(Nat) /\ stamps \in Seq(Nat)
    /\ Len(stamps) <= Len(issued)
    /\ \A i \in 1..Len(stamps) : stamps[i] = issued[(Len(issued) - Len(stamps)) + i]
    /\ \A j \in 1..(Len(issued) - Len(stamps)) : issued[j] < now - Hour
    /\ \A i \in 1..Len(issued) : issued[i] <= now
    /\ \A i, j \in 1..Len(issued) : i <= j => issued[i] <= issued[j]

\* The MaxPerHour-th signal after a given one comes more than an hour later.
Spaced ==
    \A i, j \in 1..Len(issued) : i + MaxPerHour = j => issued[j] > issued[i] + Hour

\* A signal that the limiter allows keeps both.
LEMMA IssueStep ==
    ASSUME StampsInv, Spaced, Allow(stamps), now' = now,
           stamps' = Append(Cleanup(stamps), now), issued' = Append(issued, now)
    PROVE  StampsInv' /\ Spaced'
<1> USE RiskAssumption
<1>0. now - Hour \in Int
  BY DEF StampsInv
<1>1. PICK k \in 0..Len(stamps) :
              /\ Cleanup(stamps) \in Seq(Nat)
              /\ Len(Cleanup(stamps)) = Len(stamps) - k
              /\ \A i \in 1..(Len(stamps) - k) : Cleanup(stamps)[i] = stamps[k + i]
              /\ \A j \in 1..k : stamps[j] < now - Hour
  BY <1>0, DropBeforeFacts DEF StampsInv, Cleanup
<1> DEFINE n == Len(issued)
           d == Len(issued) - Len(stamps)
<1>2. /\ n \in Nat /\ d \in Nat /\ Len(stamps) \in Nat /\ k \in Nat
      /\ k <= Len(stamps) /\ n = d + Len(stamps)
  BY DEF StampsInv
<1>3. /\ issued' \in Seq(Nat) /\ Len(issued') = n + 1
      /\ \A i \in 1..n : issued'[i] = issued[i]
      /\ issued'[n + 1] = now
  BY DEF StampsInv
<1>4. /\ stamps' \in Seq(Nat) /\ Len(stamps') = Len(stamps) - k + 1
      /\ \A i \in 1..(Len(stamps) - k) : stamps'[i] = stamps[k + i]
      /\ stamps'[Len(stamps) - k + 1] = now
  BY <1>1 DEF StampsInv
<1>5. Len(issued') - Len(stamps') = d + k
  <2>1. Len(issued') - Len(stamps') = (n + 1) - (Len(stamps) - k + 1)
    BY <1>3, <1>4, Zenon
  <2>2. (n + 1) - (Len(stamps) - k + 1) = d + k
    BY <1>2
  <2> QED
    BY <2>1, <2>2, Zenon
<1>6. \A j \in 1..(d + k) : issued[j] < now - Hour
  <2> TAKE j \in 1..(d + k)
  <2>1. CASE j <= d
    BY <2>1 DEF StampsInv
  <2>2. CASE j > d
    <3>1. j - d \in 1..k /\ j - d \in 1..Len(stamps) /\ d + (j - d) = j
      BY <1>2, <2>2
    <3>2. stamps[j - d] = issued[d + (j - d)]
      BY <3>1, Zenon DEF StampsInv
    <3>3. stamps[j - d] < now - Hour
      BY <1>1, <3>1, Zenon
    <3> QED
      BY <3>1, <3>2, <3>3, Zenon
  <2> QED
    BY <1>2, <2>1, <2>2
<1>7. \A i \in 1..n : issued[i] \in Nat /\ issued[i] <= now
  BY DEF StampsInv
<1>8. StampsInv'
  <2>1. Len(stamps') <= Len(issued')
    BY <1>2, <1>3, <1>4
  <2>2. \A i \in 1..Len(stamps') : stamps'[i] = issued'[(Len(issued') - Len(stamps')) + i]
    <3> SUFFICES ASSUME NEW i \in 1..(Len(stamps) - k + 1)
                 PROVE  stamps'[i] = issued'[(d + k) + i]
      BY <1>4, <1>5
    <3>1. CASE i = Len(stamps) - k + 1
      <4>1. (d + k) + i = n + 1
        BY <1>2, <3>1
      <4> QED
        BY <1>3, <1>4, <3>1, <4>1
    <3>2. CASE i # Len(stamps) - k + 1
      <4>1. i \in 1..(Len(stamps) - k) /\ k + i \in 1..Len(stamps) /\ (d + k) + i \in 1..n
            /\ d + (k + i) = (d + k) + i
        BY <1>2, <3>2
      <4>2. stamps[k + i] = issued[d + (k + i)]
        BY <4>1 DEF StampsInv
      <4> QED
        BY <1>3, <1>4, <4>1, <4>2
    <3> QED
      BY <3>1, <3>2
  <2>3. \A j \in 1..(Len(issued') - Len(stamps')) : issued'[j] < now' - Hour
    <3>1. \A j \in 1..(d + k) : j \in 1..n
      BY <1>2
    <3>2. \A j \in 1..(d + k) : issued'[j] < now' - Hour
      BY <1>3, <1>6, <3>1, Zenon
    <3> QED
      BY <1>5, <3>2, Zenon
  <2>4. \A i \in 1..Len(issued') : issued'[i] <= now'
    BY <1>2, <1>3, <1>7 DEF StampsInv
  <2>5. \A i, j \in 1..Len(issued') : i <= j => issued'[i] <= issued'[j]
    <3> SUFFICES ASSUME NEW i \in 1..(n + 1), NEW j \in 1..(n + 1), i <= j
                 PROVE  issued'[i] <= issued'[j]
      BY <1>3
    <3>1. CASE j = n + 1
      BY <1>3, <2>4, <3>1
    <3>2. CASE j # n + 1
      BY <1>2, <1>3, <3>2 DEF StampsInv
    <3> QED
      BY <3>1, <3>2
  <2> QED
    BY <1>3, <1>4, <2>1, <2>2, <2>3, <2>4, <2>5 DEF StampsInv
<1>9. Spaced'
  <2> SUFFICES ASSUME NEW i \in 1..(n + 1), NEW j \in 1..(n + 1), i + MaxPerHour = j
               PROVE  issued'[j] > issued'[i] + Hour
    BY <1>3 DEF Spaced
  <2>1. i \in 1..n
    BY <1>2
  <2>2. CASE j = n + 1
    <3>1. Len(stamps) - k < MaxPerHour
      BY <1>1 DEF Allow
    <3>2. i \in 1..(d + k)
      BY <1>2, <2>1, <2>2, <3>1
    <3>3. issued[i] < now - Hour /\ issued[i] \in Nat
      BY <1>6, <1>7, <2>1, <3>2
    <3> QED
      <4>1. issued'[j] = now /\ issued'[i] = issued[i]
        BY <1>3, <2>1, <2>2, Zenon
      <4>2. now > issued[i] + Hour
        BY <3>3 DEF StampsInv
      <4> QED
        BY <4>1, <4>2, Zenon
  <2>3. CASE j # n + 1
    <3>1. j \in 1..n
      <4>1. n \in Nat
        BY <1>2
      <4> HIDE DEF n
      <4> QED
        BY <2>3, <4>1
    <3>2. issued'[j] = issued[j] /\ issued'[i] = issued[i]
      BY <1>3, <2>1, <3>1, Zenon
    <3>3. issued[j] > issued[i] + Hour
      BY <2>1, <3>1 DEF Spaced
    <3> QED
      BY <3>2, <3>3, Zenon
  <2> QED
    BY <2>2, <2>3
<1> QED
  BY <1>8, <1>9

\* Every step keeps both.
LEMMA StampsStep ==
    ASSUME StampsInv, Spaced, [RiskNext]_riskVars
    PROVE  StampsInv' /\ Spaced'
<1> USE DEF pfVars, history, redisVars, brokerVars
<1>1. ASSUME NEW s \in Suggestions, BarSignal(s) PROVE StampsInv' /\ Spaced'
  BY <1>1, IssueStep DEF BarSignal, Accepted
<1>2. CASE \E withRedis \in BOOLEAN : EngineRestarts(withRedis)
  <2>1. now' = now /\ stamps' = <<>> /\ issued' = <<>>
    BY <1>2 DEF EngineRestarts
  <2> QED
    BY <2>1 DEF StampsInv, Spaced
<1>3. CASE Tick
  <2>1. now' = now + 1 /\ UNCHANGED <<stamps, issued>>
    BY <1>3 DEF Tick
  <2>2. \A j \in 1..Len(issued) : issued[j] \in Nat
    BY DEF StampsInv
  <2> QED
    BY <2>1, <2>2, RiskAssumption DEF StampsInv, Spaced
<1>4. ASSUME UNCHANGED <<now, stamps, issued>> PROVE StampsInv' /\ Spaced'
  BY <1>4 DEF StampsInv, Spaced
<1>5. CASE (\E s \in Suggestions : BarRefused(s)) \/ LoopStep
  BY <1>4, <1>5 DEF BarRefused, LoopStep, KillSwitchDrops, Send, Filled, NotFilled, Poll,
                    BookOne, BookingDone, PersistBegins, PersistEnds
<1>6. CASE \E i \in DOMAIN broker, won \in BOOLEAN : BrokerCloses(i, won)
  BY <1>4, <1>6 DEF BrokerCloses
<1>7. CASE UNCHANGED riskVars
  BY <1>4, <1>7 DEF riskVars
<1> QED
  BY <1>1, <1>2, <1>3, <1>5, <1>6, <1>7 DEF RiskNext, Bars

\* Spaced signals are few in every hour.
LEMMA SpacedIsLimited ==
    ASSUME StampsInv, Spaced
    PROVE  HourlyLimit
<1> USE RiskAssumption
<1> SUFFICES ASSUME NEW i \in DOMAIN issued
             PROVE  Cardinality({j \in DOMAIN issued : issued[j] \in issued[i]..(issued[i] + Hour)})
                        <= MaxPerHour
  BY DEF HourlyLimit
<1> DEFINE W == {j \in DOMAIN issued : issued[j] \in issued[i]..(issued[i] + Hour)}
           a == Min(W)
<1>1. /\ DOMAIN issued = 1..Len(issued) /\ Len(issued) \in Nat
      /\ \A j \in DOMAIN issued : issued[j] \in Nat
  BY DEF StampsInv
<1>2. W \in SUBSET Nat /\ i \in W
  BY <1>1
<1>3. a \in W /\ \A y \in W : a <= y
  BY <1>2, MinOfNaturals
<1> HIDE DEF a
<1>4. a \in 1..Len(issued) /\ issued[a] >= issued[i]
  BY <1>1, <1>3
<1>5. W \subseteq a..(a + MaxPerHour - 1)
  <2> SUFFICES ASSUME NEW j \in W, j >= a + MaxPerHour PROVE FALSE
    BY <1>1, <1>3, <1>4
  <2>1. j \in 1..Len(issued) /\ issued[j] <= issued[i] + Hour
    BY <1>1
  <2>2. a + MaxPerHour \in 1..Len(issued)
    BY <1>1, <1>4, <2>1
  <2>3. issued[a + MaxPerHour] > issued[a] + Hour
    BY <1>4, <2>2 DEF Spaced
  <2>4. issued[a + MaxPerHour] <= issued[j]
    BY <2>1, <2>2 DEF StampsInv
  <2> QED
    BY <1>1, <1>4, <2>1, <2>2, <2>3, <2>4
<1>6. /\ IsFiniteSet(a..(a + MaxPerHour - 1))
      /\ Cardinality(a..(a + MaxPerHour - 1)) = MaxPerHour
  <2>1. a \in Int /\ a + MaxPerHour - 1 \in Int
    BY <1>4
  <2>2. /\ IsFiniteSet(a..(a + MaxPerHour - 1))
        /\ Cardinality(a..(a + MaxPerHour - 1)) =
              IF a > a + MaxPerHour - 1 THEN 0 ELSE (a + MaxPerHour - 1) - a + 1
    BY <2>1, FS_Interval, Zenon
  <2> QED
    BY <1>4, <2>2
<1> QED
  BY <1>5, <1>6, FS_Subset

\* The hourly limit (rate_limiter.py:31-55 as main.py uses it): no process issues more
\* than max_per_hour signals within an hour, both ends included, for any limit, any
\* length of the hour and any number of signals.
THEOREM HourlyLimitHolds == RiskSpec => []HourlyLimit
<1>1. RiskInit => StampsInv /\ Spaced
  BY DEF RiskInit, StampsInv, Spaced
<1>2. StampsInv /\ Spaced /\ [RiskNext]_riskVars => (StampsInv /\ Spaced)'
  BY StampsStep
<1>3. StampsInv /\ Spaced => HourlyLimit
  BY SpacedIsLimited
<1> QED
  BY <1>1, <1>2, <1>3, PTL DEF RiskSpec

-----------------------------------------------------------------------------
(* The cooldown after a streak of losses.                                  *)

\* What a persist task writes and a restart reads: no cooldown, or when one ends.
Streaks ==
    {d \in [losses : Nat, until : Int] :
        d.until = NoStart \/ d.until \in Cooldown..(now + Cooldown)}

StreakTypes ==
    /\ now \in Nat /\ rest \in Int /\ rest <= now + Cooldown
    /\ spiral \in [losses : Nat, from : Int]
    /\ spiral.from = NoStart \/ spiral.from \in 0..now
    /\ results \in Seq(BOOLEAN)
    /\ DOMAIN saved = {"streak", "losses"} /\ saved.streak \in Streaks
    /\ DOMAIN tasks = {"new", "writing"} /\ tasks.writing \subseteq Streaks

\* Every loss at the end of the results is in the streak.
StreakCounts ==
    \A k \in 1..Len(results) :
        (\A i \in (Len(results) - k + 1)..Len(results) : ~results[i]) => spiral.losses >= k

\* A cooldown that is due and not over is one the protection knows of.
DueIsKnown ==
    \/ rest = NoStart
    \/ now >= rest
    \/ spiral.from # NoStart /\ rest <= spiral.from + Cooldown

CooldownInv == StreakTypes /\ StreakCounts /\ DueIsKnown

\* A booked result.
LEMMA BookOneCooldown ==
    ASSUME BookTypes, CooldownInv, BookOne
    PROVE  CooldownInv'
<1> USE RiskAssumption
<1> DEFINE won == Head(closing).won
           n == Len(results)
<1>1. won \in BOOLEAN
  <2>1. Head(closing) \in Trades
    BY DEF BookOne, BookTypes
  <2> QED
    BY <2>1 DEF Trades
<1>2. /\ spiral' = RecordTradeResult(spiral, won)
      /\ results' = Append(results, won)
      /\ UNCHANGED now
      /\ rest' = IF results'[Len(results')] THEN NoStart
                 ELSE IF Len(results') >= MaxLosses
                         /\ \A i \in (Len(results') - MaxLosses + 1)..Len(results') : ~results'[i]
                      THEN now + Cooldown ELSE rest
  BY DEF BookOne
<1>3. /\ n \in Nat /\ results' \in Seq(BOOLEAN) /\ Len(results') = n + 1
      /\ results'[n + 1] = won /\ \A i \in 1..n : results'[i] = results[i]
  BY <1>1, <1>2 DEF CooldownInv, StreakTypes
<1>4. DOMAIN saved' = {"streak", "losses"} /\ saved'.streak \in Streaks'
  <2>1. saved' = SaveDay(pf')
    BY DEF BookOne
  <2> QED
    BY <1>2, <2>1 DEF SaveDay, CooldownInv, StreakTypes, Streaks
<1>5. DOMAIN tasks' = {"new", "writing"} /\ tasks'.writing \subseteq Streaks'
  BY <1>2 DEF BookOne, CooldownInv, StreakTypes, Streaks
<1>6. CASE won
  <2>1. spiral' = NoLosses /\ rest' = NoStart
    <3>1. results'[Len(results')]
      BY <1>3, <1>6, Zenon
    <3> QED
      BY <1>2, <1>6, <3>1 DEF RecordTradeResult
  <2>2. StreakCounts'
    <3> SUFFICES ASSUME NEW k \in 1..(n + 1),
                        \A i \in ((n + 1) - k + 1)..(n + 1) : ~results'[i]
                 PROVE  FALSE
      BY <1>3 DEF StreakCounts
    <3>1. n + 1 \in ((n + 1) - k + 1)..(n + 1)
      BY <1>3
    <3> QED
      BY <1>3, <1>6, <3>1, Zenon
  <2> QED
    <3>1. /\ spiral'.from = NoStart /\ spiral' \in [losses : Nat, from : Int]
          /\ rest' \in Int /\ rest' <= now + Cooldown /\ now \in Nat
      BY <2>1 DEF NoLosses, NoStart, CooldownInv, StreakTypes
    <3>2. StreakTypes'
      BY <1>2, <1>3, <1>4, <1>5, <3>1, Zenon DEF StreakTypes
    <3> QED
      BY <2>1, <2>2, <3>2 DEF CooldownInv, DueIsKnown
<1>7. CASE ~won
  <2>1. /\ spiral' = [losses |-> spiral.losses + 1,
                      from |-> IF spiral.losses + 1 >= MaxLosses THEN now ELSE spiral.from]
    BY <1>2, <1>7 DEF RecordTradeResult
  <2>2. \A k \in 1..(n + 1) :
            (\A i \in ((n + 1) - k + 1)..(n + 1) : ~results'[i]) => spiral.losses + 1 >= k
    <3> SUFFICES ASSUME NEW k \in 1..(n + 1),
                        \A i \in ((n + 1) - k + 1)..(n + 1) : ~results'[i]
                 PROVE  spiral.losses + 1 >= k
      OBVIOUS
    <3>1. CASE k = 1
      BY <3>1 DEF CooldownInv, StreakTypes
    <3>2. CASE k # 1
      <4>1. /\ k - 1 \in 1..n
            /\ \A i \in (n - (k - 1) + 1)..n :
                  i \in 1..n /\ i \in ((n + 1) - k + 1)..(n + 1)
        BY <1>3, <3>2
      <4>2. \A i \in (n - (k - 1) + 1)..n : ~results[i]
        BY <1>3, <4>1, Zenon
      <4>3. spiral.losses >= k - 1
        BY <4>1, <4>2, Zenon DEF CooldownInv, StreakCounts
      <4> QED
        BY <4>3 DEF CooldownInv, StreakTypes
    <3> QED
      BY <3>1, <3>2
  <2>3. StreakCounts'
    BY <1>3, <2>1, <2>2 DEF StreakCounts
  <2>4. rest' = rest \/ (rest' = now + Cooldown /\ spiral.losses + 1 >= MaxLosses)
    <3>1. ~results'[Len(results')]
      BY <1>3, <1>7, Zenon
    <3>2. CASE /\ Len(results') >= MaxLosses
               /\ \A i \in (Len(results') - MaxLosses + 1)..Len(results') : ~results'[i]
      <4>1. MaxLosses \in 1..(n + 1)
        BY <1>3, <3>2
      <4>2. \A i \in ((n + 1) - MaxLosses + 1)..(n + 1) : ~results'[i]
        BY <1>3, <3>2, Zenon
      <4>3. spiral.losses + 1 >= MaxLosses
        BY <2>2, <4>1, <4>2, Zenon
      <4> QED
        BY <1>2, <3>1, <3>2, <4>3, Zenon
    <3>3. CASE ~(/\ Len(results') >= MaxLosses
                 /\ \A i \in (Len(results') - MaxLosses + 1)..Len(results') : ~results'[i])
      BY <1>2, <3>1, <3>3, Zenon
    <3> QED
      BY <3>2, <3>3
  <2>5. /\ spiral' \in [losses : Nat, from : Int]
        /\ spiral'.from \in {now, spiral.from}
        /\ spiral.losses + 1 >= MaxLosses => spiral'.from = now
        /\ spiral.from = NoStart \/ spiral.from \in 0..now
        /\ now \in Nat /\ rest \in Int /\ rest <= now + Cooldown
    BY <2>1 DEF CooldownInv, StreakTypes, NoStart
  <2>6. StreakTypes'
    <3>1. /\ spiral'.from = NoStart \/ spiral'.from \in 0..now
          /\ rest' \in Int /\ rest' <= now + Cooldown
      BY <2>4, <2>5
    <3> QED
      BY <1>2, <1>3, <1>4, <1>5, <2>5, <3>1, Zenon DEF StreakTypes
  <2>7. rest = NoStart \/ now >= rest \/ (spiral.from # NoStart /\ rest <= spiral.from + Cooldown)
    BY DEF CooldownInv, DueIsKnown
  <2>8. rest' = NoStart \/ now >= rest' \/ (spiral'.from # NoStart /\ rest' <= spiral'.from + Cooldown)
    BY <2>4, <2>5, <2>7 DEF NoStart
  <2>9. DueIsKnown'
    BY <1>2, <2>8, Zenon DEF DueIsKnown
  <2> QED
    BY <2>3, <2>6, <2>9 DEF CooldownInv
<1> QED
  BY <1>1, <1>6, <1>7

\* A check that finds the cooldown over forgets it and the streak, and the results with it.
LEMMA CheckKeepsCooldown ==
    ASSUME CooldownInv, UNCHANGED <<now, rest, saved, tasks>>,
           spiral' = AfterCheck(spiral),
           results' = IF spiral.from # NoStart /\ ~InCooldown(spiral) THEN <<>> ELSE results
    PROVE  CooldownInv'
<1> USE RiskAssumption
<1>1. CASE spiral.from # NoStart /\ ~InCooldown(spiral)
  <2>1. spiral' = NoLosses /\ results' = <<>>
    BY <1>1 DEF AfterCheck
  <2>2. rest = NoStart \/ now >= rest
    BY <1>1 DEF InCooldown, CooldownInv, DueIsKnown, StreakTypes
  <2>3. Streaks' = Streaks
    BY DEF Streaks
  <2>4. spiral'.from = NoStart /\ spiral' \in [losses : Nat, from : Int]
    BY <2>1 DEF NoLosses, NoStart
  <2>5. results' \in Seq(BOOLEAN) /\ Len(results') = 0
    BY <2>1, EmptySeq
  <2>6. StreakTypes' /\ DueIsKnown'
    BY <2>2, <2>3, <2>4, <2>5, Zenon DEF CooldownInv, StreakTypes, DueIsKnown
  <2>7. StreakCounts'
    BY <2>5 DEF StreakCounts
  <2> QED
    BY <2>6, <2>7 DEF CooldownInv
<1>2. CASE ~(spiral.from # NoStart /\ ~InCooldown(spiral))
  <2>1. spiral' = spiral /\ results' = results
    BY <1>2 DEF AfterCheck
  <2> QED
    BY <2>1 DEF CooldownInv, StreakTypes, StreakCounts, DueIsKnown, Streaks
<1> QED
  BY <1>1, <1>2

\* A restart takes over the streak that is saved.
LEMMA RestartCooldown ==
    ASSUME CooldownInv, NEW withRedis \in BOOLEAN, EngineRestarts(withRedis)
    PROVE  CooldownInv'
<1> USE RiskAssumption
<1>1. /\ spiral' = IF withRedis THEN LoadedStreak(saved.streak) ELSE NoLosses
      /\ rest' = IF spiral'.from = NoStart THEN NoStart ELSE spiral'.from + Cooldown
      /\ results' = [i \in 1..spiral'.losses |-> FALSE]
      /\ tasks' = [new |-> 0, writing |-> {}]
      /\ UNCHANGED <<now, saved>>
  BY DEF EngineRestarts
<1>2. /\ spiral' \in [losses : Nat, from : Int]
      /\ spiral'.from = NoStart \/ spiral'.from \in 0..now
  BY <1>1 DEF LoadedStreak, NoLosses, NoStart, CooldownInv, StreakTypes, Streaks
<1>3. spiral'.losses \in Nat
  BY <1>2
<1>4. results' \in Seq(BOOLEAN) /\ Len(results') = spiral'.losses
  <2>1. results' \in [1..spiral'.losses -> BOOLEAN]
    BY <1>1, Zenon
  <2> QED
    BY <1>3, <2>1
<1>5. StreakCounts'
  <2> SUFFICES ASSUME NEW k \in 1..spiral'.losses PROVE spiral'.losses >= k
    BY <1>4 DEF StreakCounts
  <2> QED
    BY <1>3
<1>6. rest' \in Int /\ rest' <= now + Cooldown /\ DueIsKnown'
  <2>1. now \in Nat
    BY DEF CooldownInv, StreakTypes
  <2> QED
    BY <1>1, <1>2, <2>1 DEF DueIsKnown, NoStart
<1> QED
  BY <1>1, <1>2, <1>4, <1>5, <1>6 DEF CooldownInv, StreakTypes, Streaks

\* Every step keeps CooldownInv.
LEMMA CooldownStep ==
    ASSUME BookTypes, CooldownInv, [RiskNext]_riskVars
    PROVE  CooldownInv'
<1> USE RiskAssumption DEF pfVars, history, redisVars, brokerVars
<1>0. ASSUME UNCHANGED <<now, rest, spiral, results, saved, tasks>> PROVE CooldownInv'
  BY <1>0 DEF CooldownInv, StreakTypes, StreakCounts, DueIsKnown, Streaks
<1>1. ASSUME NEW s \in Suggestions, BarSignal(s) PROVE CooldownInv'
  <2>1. ~InCooldown(spiral)
    BY <1>1 DEF BarSignal, Accepted
  <2> QED
    BY <1>1, <2>1, CheckKeepsCooldown DEF BarSignal
<1>2. ASSUME NEW s \in Suggestions, BarRefused(s) PROVE CooldownInv'
  <2>1. CASE Generates(s)
    BY <1>2, <2>1, CheckKeepsCooldown DEF BarRefused
  <2>2. CASE ~Generates(s)
    BY <1>0, <1>2, <2>2 DEF BarRefused
  <2> QED
    BY <2>1, <2>2
<1>3. CASE KillSwitchDrops \/ (\E opens \in BOOLEAN : Send(opens)) \/ Poll \/ BookingDone
  BY <1>0, <1>3 DEF KillSwitchDrops, Send, Poll, BookingDone
<1>4. CASE NotFilled
  BY <1>0, <1>4 DEF NotFilled
<1>5. CASE Filled
  <2>1. saved' = SaveDay(pf) /\ UNCHANGED <<now, rest, spiral, results, tasks>>
    BY <1>5 DEF Filled
  <2>2. DOMAIN saved' = DOMAIN saved /\ saved'.streak = saved.streak
    BY <2>1 DEF SaveDay, CooldownInv, StreakTypes
  <2> QED
    BY <2>1, <2>2 DEF CooldownInv, StreakTypes, StreakCounts, DueIsKnown, Streaks
<1>6. CASE BookOne
  BY <1>6, BookOneCooldown
<1>7. CASE PersistBegins
  <2>1. /\ tasks' = [new |-> tasks.new - 1, writing |-> tasks.writing \cup {StreakData(spiral)}]
        /\ UNCHANGED <<now, rest, spiral, results, saved>>
    BY <1>7 DEF PersistBegins
  <2>2. StreakData(spiral) \in Streaks
    BY DEF StreakData, InCooldown, Streaks, CooldownInv, StreakTypes, NoStart
  <2> QED
    BY <2>1, <2>2 DEF CooldownInv, StreakTypes, StreakCounts, DueIsKnown, Streaks
<1>8. ASSUME NEW data \in tasks.writing, NEW ok \in BOOLEAN, PersistEnds(data, ok)
      PROVE  CooldownInv'
  <2>1. /\ tasks' = [tasks EXCEPT !.writing = @ \ {data}]
        /\ saved' = IF ok THEN [saved EXCEPT !.streak = data] ELSE saved
        /\ UNCHANGED <<now, rest, spiral, results>>
    BY <1>8 DEF PersistEnds
  <2> QED
    BY <2>1 DEF CooldownInv, StreakTypes, StreakCounts, DueIsKnown, Streaks
<1>9. ASSUME NEW i \in DOMAIN broker, NEW won \in BOOLEAN, BrokerCloses(i, won)
      PROVE  CooldownInv'
  BY <1>0, <1>9 DEF BrokerCloses
<1>10. ASSUME NEW withRedis \in BOOLEAN, EngineRestarts(withRedis) PROVE CooldownInv'
  BY <1>10, RestartCooldown
<1>11. CASE Tick
  <2>1. now' = now + 1 /\ UNCHANGED <<rest, spiral, results, saved, tasks>>
    BY <1>11 DEF Tick
  <2>2. Streaks \subseteq Streaks'
    BY <2>1 DEF Streaks, CooldownInv, StreakTypes
  <2> QED
    BY <2>1, <2>2 DEF CooldownInv, StreakTypes, StreakCounts, DueIsKnown
<1>12. CASE UNCHANGED riskVars
  BY <1>0, <1>12 DEF riskVars
<1> QED
  BY <1>1, <1>2, <1>3, <1>4, <1>5, <1>6, <1>7, <1>8, <1>9, <1>10, <1>11, <1>12
  DEF RiskNext, LoopStep, Bars

\* The cooldown (spiral_protection.py as main.py uses it) is served: no signal is issued
\* before it is over, for any length of streak and cooldown and any number of restarts,
\* whichever of the writes to Redis arrive, and in any order.
THEOREM CooldownServedAlways == RiskSpec => CooldownServed
<1>1. RiskInit => LimitInv /\ CooldownInv
  <2>1. RiskInit => LimitInv
    BY GatesAssumption
    DEF RiskInit, LimitInv, BookTypes, Covered, Room, OnItsWay, NewPortfolio
  <2>2. RiskInit => CooldownInv
    BY RiskAssumption DEF RiskInit, CooldownInv, StreakTypes, StreakCounts, DueIsKnown,
       NoStreak, NoLosses, NoStart, Streaks
  <2> QED
    BY <2>1, <2>2
<1>2. LimitInv /\ CooldownInv /\ [RiskNext]_riskVars => (LimitInv /\ CooldownInv)'
  BY LimitStep, CooldownStep DEF LimitInv
<1>3. CooldownInv /\ [RiskNext]_riskVars
        => [Dispatches => rest = NoStart \/ now >= rest]_riskVars
  <2> SUFFICES ASSUME CooldownInv, RiskNext, Dispatches PROVE rest = NoStart \/ now >= rest
    OBVIOUS
  <2>1. \E s \in Suggestions : BarSignal(s)
    BY DEF Dispatches, RiskNext, LoopStep, Bars, BarRefused, KillSwitchDrops, Send, Filled,
           NotFilled, AfterDispatch, Poll, BookOne, BookingDone, PersistBegins, PersistEnds,
           BrokerCloses, EngineRestarts, Tick
  <2>2. ~InCooldown(spiral)
    BY <2>1 DEF BarSignal, Accepted
  <2> QED
    BY <2>2, RiskAssumption DEF InCooldown, CooldownInv, DueIsKnown, StreakTypes
<1> QED
  BY <1>1, <1>2, <1>3, PTL DEF RiskSpec, CooldownServed

-----------------------------------------------------------------------------
(* The size of a signal.                                                   *)

\* A rounded quotient is an integer.
LEMMA HalfEvenInt ==
    ASSUME NEW n \in Int, NEW d \in Nat \ {0}
    PROVE  HalfEven(n, d) \in Int
BY DEF HalfEven

\* The same for hundredths, with the bounds that rounding keeps.
LEMMA HalfEvenPercent ==
    ASSUME NEW n \in Int
    PROVE  /\ HalfEven(n, 100) \in Int
           /\ 200 * HalfEven(n, 100) <= 2 * n + 100
           /\ \A x \in Int : n <= 100 * x => HalfEven(n, 100) <= x
<1> DEFINE q == n \div 100
           r == n % 100
<1>1. q \in Int /\ r \in 0..99 /\ n = 100 * q + r
  OBVIOUS
<1>2. HalfEven(n, 100) = q \/ (HalfEven(n, 100) = q + 1 /\ 2 * r >= 100)
  BY <1>1 DEF HalfEven
<1> HIDE DEF q, r
<1> QED
  BY <1>1, <1>2

\* The larger of a number and the smallest size.
LEMMA MaxWithMinLots ==
    ASSUME NEW n \in Int
    PROVE  /\ Max({n, MinLots}) \in Int /\ Max({n, MinLots}) >= MinLots
           /\ Max({n, MinLots}) \in {n, MinLots}
<1>1. \E x \in {n, MinLots} : \A y \in {n, MinLots} : x >= y
  BY DEF MinLots
<1>2. Max({n, MinLots}) \in {n, MinLots} /\ \A y \in {n, MinLots} : Max({n, MinLots}) >= y
  BY <1>1 DEF Max
<1> QED
  BY <1>2 DEF MinLots

\* A size that a sizer rounds is within the limits.
LEMMA ClampedLots ==
    ASSUME NEW n \in Int, NEW d \in Nat \ {0}
    PROVE  ToLots(<<n, d>>) \in MinLots..MaxLots
<1>1. HalfEven(n, d) \in Int
  BY HalfEvenInt
<1> QED
  BY <1>1, GatesAssumption DEF ToLots, Clamp, MinLots

\* A multiplier leaves the size within its limits, and in percents it means what it says.
LEMMA ReducedLots ==
    ASSUME NEW lots \in MinLots..MaxLots, NEW mult \in Int
    PROVE  /\ Reduced(lots, mult) \in MinLots..MaxLots
           /\ mult < 100 => \/ Reduced(lots, mult) = MinLots
                            \/ 200 * Reduced(lots, mult) <= 2 * (lots * mult) + 100
<1>1. lots \in Nat /\ MaxLots \in Nat /\ lots * mult \in Int
  BY GatesAssumption DEF MinLots
<1>2. CASE mult >= 100
  BY <1>2 DEF Reduced
<1>3. CASE ~(mult >= 100)
  <2> DEFINE product == lots * mult
             h == HalfEven(product, 100)
  <2>1. Reduced(lots, mult) = Max({h, MinLots})
    BY <1>3 DEF Reduced
  <2>2. product \in Int /\ product <= 100 * lots
    <3>1. lots * mult <= lots * 100
      BY <1>1, <1>3
    <3> QED
      BY <1>1, <3>1
  <2> HIDE DEF product
  <2>3. h \in Int /\ 200 * h <= 2 * product + 100 /\ h <= lots
    <3>1. h \in Int /\ 200 * h <= 2 * product + 100 /\ \A x \in Int : product <= 100 * x => h <= x
      BY <2>2, HalfEvenPercent
    <3> QED
      BY <1>1, <2>2, <3>1
  <2> HIDE DEF h
  <2>4. Max({h, MinLots}) \in Int /\ Max({h, MinLots}) >= MinLots /\ Max({h, MinLots}) \in {h, MinLots}
    BY <2>3, MaxWithMinLots
  <2>5. Reduced(lots, mult) = h \/ Reduced(lots, mult) = MinLots
    BY <2>1, <2>4
  <2>6. Reduced(lots, mult) \in MinLots..MaxLots
    BY <1>1, <2>1, <2>3, <2>4, <2>5, GatesAssumption DEF MinLots
  <2> QED
    BY <2>3, <2>5, <2>6 DEF product
<1> QED
  BY <1>2, <1>3

\* The two sizers answer within the limits, whatever stop, confidence, drawdown and tail
\* risk they are asked for.
LEMMA SizersWithinLimits ==
    ASSUME NEW s \in Suggestions, start \in Starts
    PROVE  SizedLots(GenerateSignal(s)) \in MinLots..MaxLots
<1> DEFINE g == GenerateSignal(s)
           pip == Instruments[s.sym].pip
           value == Instruments[s.sym].pipValue
           dist == Distance(g)
           risk == Min({Equity * RiskPct * Max({10 - 0, 3}), Equity * MaxRiskPct * 10})
<1>1. /\ s.sym \in DOMAIN Instruments /\ s.conf \in Nat /\ s.price \in Nat /\ s.atr \in Nat
      /\ start.advanced \in BOOLEAN /\ start.maturity \in Nat /\ start.cvar \in Nat
  BY InputAssumption
<1>2. /\ pip \in Nat /\ (PipKnown(s.sym) => value \in Nat \ {0})
      /\ MaxLots \in Nat \ {0} /\ Equity \in Nat /\ RiskPct \in Nat /\ MaxRiskPct \in Nat
  BY <1>1, GatesAssumption, InstrumentAssumption
<1>3. g.sym = s.sym /\ g.conf = s.conf /\ g.entry \in Int /\ g.stop \in Int
  BY <1>1 DEF GenerateSignal, ATRStop
<1>4. dist \in Nat
  BY <1>3 DEF Distance, Abs
<1>5. MinLots \in MinLots..MaxLots
  BY <1>2 DEF MinLots
<1>6. BasicLots(g, 0) \in MinLots..MaxLots
  <2>1. CASE ~PipKnown(g.sym) \/ dist = 0 \/ DrawdownScaling(0) = 0
    BY <1>5, <2>1 DEF BasicLots
  <2>2. CASE ~(~PipKnown(g.sym) \/ dist = 0 \/ DrawdownScaling(0) = 0)
    <3> DEFINE n == (Equity * RiskPct * DrawdownScaling(0)) * 2 * pip
               d == 4 * (dist * value)
    <3>1. BasicLots(g, 0) = ToLots(<<n, d>>)
      BY <1>3, <2>2 DEF BasicLots, LotsFor
    <3>2. DrawdownScaling(0) \in Nat
      BY DEF DrawdownScaling
    <3>3. n \in Int
      BY <1>2, <3>2
    <3>4. d \in Nat \ {0}
      BY <1>2, <1>3, <1>4, <2>2
    <3> HIDE DEF n, d
    <3> QED
      BY <3>1, <3>3, <3>4, ClampedLots
  <2> QED
    BY <2>1, <2>2
<1>7. AdvancedLots(g, 0, start.cvar, <<>>) \in MinLots..MaxLots
  <2>1. CASE ~PipKnown(g.sym) \/ dist = 0
    BY <1>5, <2>1 DEF AdvancedLots
  <2>2. CASE ~(~PipKnown(g.sym) \/ dist = 0)
    <3> DEFINE byStop == LotsFor(g.sym, risk, dist)
               byTail == IF start.cvar > 0 THEN LotsFor(g.sym, risk, 2 * start.cvar) ELSE byStop
               q == MinQ(MinQ(byStop, byTail), byStop)
    <3>1. Kelly(<<>>) = NoKelly
      BY DEF Kelly
    <3>2. AdvancedLots(g, 0, start.cvar, <<>>) = ToLots(<<q[1] * g.conf, 1000 * q[2]>>)
      BY <2>2, <3>1 DEF AdvancedLots, NoKelly
    <3>3. risk \in Int
      <4>1. Max({10 - 0, 3}) = 10
        BY DEF Max
      <4> DEFINE a == Equity * RiskPct * 10
                 b == Equity * MaxRiskPct * 10
      <4>2. a \in Int /\ b \in Int
        BY <1>2
      <4>3. risk = Min({a, b})
        BY <4>1
      <4> HIDE DEF a, b
      <4>4. \E x \in {a, b} : \A y \in {a, b} : x <= y
        BY <4>2
      <4> QED
        BY <4>2, <4>3, <4>4 DEF Min
    <3> HIDE DEF risk
    <3> DEFINE n == risk * 2 * pip
               far == dist * value
               tail == (2 * start.cvar) * value
    <3>4. value \in Nat \ {0} /\ dist \in Nat \ {0}
      BY <1>2, <1>3, <1>4, <2>2
    <3>5. n \in Int /\ far \in Nat \ {0} /\ (start.cvar > 0 => tail \in Nat \ {0})
      BY <1>1, <1>2, <3>3, <3>4
    <3>6. byStop = <<n, far>> /\ (start.cvar > 0 => byTail = <<n, tail>>)
          /\ (~(start.cvar > 0) => byTail = byStop)
      BY <1>3 DEF LotsFor
    <3> HIDE DEF n, far, tail, byStop, byTail
    <3>7. q = <<n, far>> \/ (start.cvar > 0 /\ q = <<n, tail>>)
      BY <3>6 DEF MinQ
    <3> HIDE DEF q
    <3>8. q[1] = n /\ q[2] \in Nat \ {0}
      BY <3>5, <3>7
    <3>9. q[1] * g.conf \in Int /\ 1000 * q[2] \in Nat \ {0}
      <4>1. g.conf \in Int
        BY <1>1, <1>3
      <4> HIDE DEF g
      <4> QED
        BY <3>5, <3>8, <4>1
    <3> QED
      BY <3>2, <3>9, ClampedLots
  <2> QED
    BY <2>1, <2>2
<1> DEFINE lots == IF start.advanced THEN AdvancedLots(g, 0, start.cvar, <<>>) ELSE BasicLots(g, 0)
<1>8. lots \in MinLots..MaxLots
  BY <1>6, <1>7
<1>9. SizedLots(g) = Reduced(lots, start.maturity) /\ start.maturity \in Int
  BY <1>1 DEF SizedLots
<1> HIDE DEF lots
<1> QED
  BY <1>8, <1>9, ReducedLots

\* The streak counts nothing but the losses at the end of the results.
NoMore ==
    /\ spiral.losses <= Len(results)
    /\ \A i \in (Len(results) - spiral.losses + 1)..Len(results) : ~results[i]

\* A cooldown that the protection knows of is one that became due.
FromIsDue == spiral.from # NoStart => rest # NoStart

StreakInv == start \in Starts /\ NoMore /\ FromIsDue

\* A booked result.
LEMMA BookOneStreak ==
    ASSUME BookTypes, CooldownInv, StreakInv, BookOne
    PROVE  NoMore' /\ FromIsDue'
<1> USE RiskAssumption
<1> DEFINE won == Head(closing).won
           n == Len(results)
           k == spiral.losses
<1>1. won \in BOOLEAN
  <2>1. Head(closing) \in Trades
    BY DEF BookOne, BookTypes
  <2> QED
    BY <2>1 DEF Trades
<1>2. /\ spiral' = RecordTradeResult(spiral, won)
      /\ results' = Append(results, won)
      /\ UNCHANGED now
      /\ rest' = IF results'[Len(results')] THEN NoStart
                 ELSE IF Len(results') >= MaxLosses
                         /\ \A i \in (Len(results') - MaxLosses + 1)..Len(results') : ~results'[i]
                      THEN now + Cooldown ELSE rest
  BY DEF BookOne
<1>3. /\ n \in Nat /\ results' \in Seq(BOOLEAN) /\ Len(results') = n + 1
      /\ results'[n + 1] = won /\ \A i \in 1..n : results'[i] = results[i]
      /\ k \in Nat /\ k <= n /\ now \in Nat
  BY <1>1, <1>2 DEF CooldownInv, StreakTypes, StreakInv, NoMore
<1>4. CASE won
  <2>1. spiral' = NoLosses
    BY <1>2, <1>4 DEF RecordTradeResult
  <2>2. spiral'.losses = 0 /\ spiral'.from = NoStart
    BY <2>1 DEF NoLosses
  <2> QED
    BY <1>3, <2>2 DEF NoMore, FromIsDue
<1>5. CASE ~won
  <2>1. /\ spiral'.losses = k + 1
        /\ spiral'.from = IF k + 1 >= MaxLosses THEN now ELSE spiral.from
    BY <1>2, <1>5 DEF RecordTradeResult
  <2>2. \A i \in ((n + 1) - (k + 1) + 1)..(n + 1) : ~results'[i]
    <3> SUFFICES ASSUME NEW i \in ((n + 1) - (k + 1) + 1)..(n + 1) PROVE ~results'[i]
      OBVIOUS
    <3>1. i = n + 1 \/ (i \in 1..n /\ i \in (n - k + 1)..n)
      BY <1>3
    <3>2. \A l \in (n - k + 1)..n : ~results[l]
      BY DEF StreakInv, NoMore
    <3> QED
      BY <1>3, <1>5, <3>1, <3>2, Zenon
  <2>3. NoMore'
    BY <1>3, <2>1, <2>2 DEF NoMore
  <2>4. ~results'[Len(results')]
    BY <1>3, <1>5, Zenon
  <2>5. CASE k + 1 >= MaxLosses
    <3>1. /\ Len(results') >= MaxLosses
          /\ \A i \in (Len(results') - MaxLosses + 1)..Len(results') :
                 i \in ((n + 1) - (k + 1) + 1)..(n + 1)
      BY <1>3, <2>5
    <3>2. rest' = now + Cooldown
      BY <1>2, <2>2, <2>4, <3>1, Zenon
    <3> QED
      BY <1>3, <2>3, <3>2 DEF FromIsDue, NoStart
  <2>6. CASE ~(k + 1 >= MaxLosses)
    <3>1. spiral'.from = spiral.from
      BY <2>1, <2>6
    <3>2. rest' = rest \/ rest' = now + Cooldown
      BY <1>2, <2>4, Zenon
    <3> QED
      BY <1>3, <2>3, <3>1, <3>2 DEF StreakInv, FromIsDue, NoStart
  <2> QED
    BY <2>5, <2>6
<1> QED
  BY <1>1, <1>4, <1>5

\* Every step keeps StreakInv.
LEMMA StreakStep ==
    ASSUME BookTypes, CooldownInv, StreakInv, [RiskNext]_riskVars
    PROVE  StreakInv'
<1> USE DEF pfVars, history, redisVars, brokerVars
<1>0. start' = start
  BY DEF RiskNext, LoopStep, Bars, BarSignal, BarRefused, KillSwitchDrops, Send, Filled,
         NotFilled, Poll, BookOne, BookingDone, PersistBegins, PersistEnds, BrokerCloses,
         EngineRestarts, Tick, riskVars
<1>1. ASSUME UNCHANGED <<rest, spiral, results>> PROVE StreakInv'
  BY <1>0, <1>1 DEF StreakInv, NoMore, FromIsDue
<1>2. ASSUME spiral' = NoLosses, results' = <<>> PROVE StreakInv'
  <2>1. spiral'.losses = 0 /\ spiral'.from = NoStart /\ Len(results') = 0
    BY <1>2 DEF NoLosses
  <2> QED
    BY <1>0, <2>1 DEF StreakInv, NoMore, FromIsDue
<1>3. ASSUME NEW s \in Suggestions, BarSignal(s) PROVE StreakInv'
  <2>1. /\ ~InCooldown(spiral) /\ spiral' = AfterCheck(spiral) /\ rest' = rest
        /\ results' = IF spiral.from # NoStart THEN <<>> ELSE results
    BY <1>3 DEF BarSignal, Accepted
  <2> QED
    BY <1>1, <1>2, <2>1 DEF AfterCheck
<1>4. ASSUME NEW s \in Suggestions, BarRefused(s) PROVE StreakInv'
  <2>1. CASE Generates(s)
    <3>1. /\ spiral' = AfterCheck(spiral) /\ rest' = rest
          /\ results' = IF spiral.from # NoStart /\ ~InCooldown(spiral) THEN <<>> ELSE results
      BY <1>4, <2>1 DEF BarRefused
    <3> QED
      BY <1>1, <1>2, <3>1 DEF AfterCheck
  <2>2. CASE ~Generates(s)
    BY <1>1, <1>4, <2>2 DEF BarRefused
  <2> QED
    BY <2>1, <2>2
<1>5. CASE BookOne
  BY <1>0, <1>5, BookOneStreak DEF StreakInv
<1>6. ASSUME NEW withRedis \in BOOLEAN, EngineRestarts(withRedis) PROVE StreakInv'
  <2>1. /\ rest' = IF spiral'.from = NoStart THEN NoStart ELSE spiral'.from + Cooldown
        /\ results' = [i \in 1..spiral'.losses |-> FALSE]
    BY <1>6 DEF EngineRestarts
  <2>2. /\ spiral'.losses \in Nat
        /\ spiral'.from = NoStart \/ spiral'.from \in Nat
    BY <1>6, RestartCooldown DEF CooldownInv, StreakTypes
  <2>3. results' \in Seq(BOOLEAN) /\ Len(results') = spiral'.losses
    <3>1. results' \in [1..spiral'.losses -> BOOLEAN]
      BY <2>1, Zenon
    <3> QED
      BY <2>2, <3>1
  <2>4. NoMore'
    BY <2>1, <2>2, <2>3 DEF NoMore
  <2>5. FromIsDue'
    BY <2>1, <2>2, RiskAssumption DEF FromIsDue, NoStart
  <2> QED
    BY <1>0, <2>4, <2>5 DEF StreakInv
<1>7. CASE KillSwitchDrops \/ (\E opens \in BOOLEAN : Send(opens)) \/ Filled \/ NotFilled
           \/ Poll \/ BookingDone \/ PersistBegins
           \/ \E data \in tasks.writing, ok \in BOOLEAN : PersistEnds(data, ok)
  BY <1>1, <1>7 DEF KillSwitchDrops, Send, Filled, NotFilled, Poll, BookingDone,
                    PersistBegins, PersistEnds
<1>8. CASE (\E i \in DOMAIN broker, won \in BOOLEAN : BrokerCloses(i, won)) \/ Tick
  BY <1>1, <1>8 DEF BrokerCloses, Tick
<1>9. CASE UNCHANGED riskVars
  BY <1>1, <1>9 DEF riskVars
<1> QED
  BY <1>3, <1>4, <1>5, <1>6, <1>7, <1>8, <1>9 DEF RiskNext, LoopStep, Bars

\* The streak is as long as the losses at the end of the results.
LEMMA StreakIsTrailing ==
    ASSUME CooldownInv, NoMore
    PROVE  TrailingLosses(results) = spiral.losses
<1> DEFINE n == Len(results)
           k == spiral.losses
           won == {i \in DOMAIN results : results[i]}
           last == n - k
<1>1. /\ n \in Nat /\ k \in Nat /\ k <= n /\ DOMAIN results = 1..n
      /\ \A i \in (n - k + 1)..n : ~results[i]
  BY DEF CooldownInv, StreakTypes, NoMore
<1>2. \A l \in 1..n : (\A i \in (n - l + 1)..n : ~results[i]) => k >= l
  BY DEF CooldownInv, StreakCounts
<1> HIDE DEF n, k
<1>3. \A x \in won \cup {0} : x \in Nat /\ x <= last
  <2> SUFFICES ASSUME NEW x \in 1..n, results[x] PROVE x <= last
    BY <1>1
  <2> QED
    BY <1>1
<1>4. last \in won \cup {0}
  <2>1. CASE k = n
    BY <1>1, <2>1
  <2>2. CASE k # n
    <3>1. k + 1 \in 1..n /\ ~(k >= k + 1)
      BY <1>1, <2>2
    <3>2. PICK i \in (n - (k + 1) + 1)..n : results[i]
      BY <1>2, <3>1, Zenon
    <3>3. i = last /\ i \in 1..n
      BY <1>1, <3>1, <3>2
    <3> QED
      BY <1>1, <3>2, <3>3
  <2> QED
    BY <2>1, <2>2
<1> HIDE DEF won
<1>5. Max(won \cup {0}) = last
  <2>1. last \in Nat
    BY <1>1
  <2> HIDE DEF last
  <2>2. \A x \in won \cup {0} : last >= x
    BY <1>3, <2>1
  <2>3. /\ Max(won \cup {0}) \in won \cup {0}
        /\ \A x \in won \cup {0} : Max(won \cup {0}) >= x
    BY <1>4, <2>2, Zenon DEF Max
  <2> DEFINE x == Max(won \cup {0})
  <2>4. x \in Nat /\ x <= last /\ x >= last
    BY <1>3, <1>4, <2>3, Zenon
  <2> HIDE DEF x
  <2>5. x = last
    BY <2>1, <2>4
  <2> QED
    BY <2>5 DEF x
<1>6. TrailingLosses(results) = n - Max(won \cup {0})
  BY DEF TrailingLosses, n, won
<1> QED
  BY <1>1, <1>5, <1>6 DEF k

\* The multiplier in percent after one to six halvings.
LEMMA HalvedPercent ==
    /\ HalfEven(100, 2 ^ 1) = 50 /\ HalfEven(100, 2 ^ 2) = 25 /\ HalfEven(100, 2 ^ 3) = 12
    /\ HalfEven(100, 2 ^ 4) = 6 /\ HalfEven(100, 2 ^ 5) = 3 /\ HalfEven(100, 2 ^ 6) = 2
<1>1. 2 ^ 1 = 2 /\ 2 ^ 2 = 4 /\ 2 ^ 3 = 8 /\ 2 ^ 4 = 16 /\ 2 ^ 5 = 32 /\ 2 ^ 6 = 64
  OBVIOUS
<1> QED
  BY <1>1 DEF HalfEven

\* A size that the multiplier reduces is small enough for the streak.
LEMMA StreakThrottles ==
    ASSUME NEW lots \in MinLots..MaxLots, NEW sp, sp.losses \in Nat, sp.losses >= Threshold
    PROVE  Throttled(sp.losses, Reduced(lots, SizingMultiplier(sp)))
<1> DEFINE j == sp.losses - Threshold + 1
           m == SizingMultiplier(sp)
           r == Reduced(lots, m)
<1>1. j \in Int /\ j >= 1 /\ lots \in Nat /\ MaxLots \in Nat /\ lots <= MaxLots
  BY RiskAssumption, GatesAssumption DEF MinLots
<1>2. m = IF j < 1 THEN 100 ELSE IF j > 6 THEN 0 ELSE HalfEven(100, 2 ^ j)
  BY DEF SizingMultiplier
<1>3. Throttled(sp.losses, r)
        <=> r = MinLots \/ (j <= 6 /\ (200 * r - 100 - MaxLots) * 2 ^ j <= 200 * MaxLots)
  BY DEF Throttled
<1> SUFFICES Throttled(sp.losses, r)
  OBVIOUS
<1> HIDE DEF j, m
<1>4. ASSUME m \in Int, m < 100
      PROVE  r \in MinLots..MaxLots /\ (r = MinLots \/ 200 * r <= 2 * (lots * m) + 100)
  BY <1>4, ReducedLots
<1> HIDE DEF r
<1>5. CASE j > 6
  <2>1. m = 0
    BY <1>1, <1>2, <1>5
  <2> QED
    BY <1>1, <1>3, <1>4, <2>1 DEF MinLots
<1>6. CASE j \in {1, 2, 3, 4, 5, 6}
  <2>1. CASE j = 1
    <3>1. m = 50 /\ 2 ^ j = 2
      BY <1>2, <2>1, HalvedPercent
    <3> QED
      BY <1>1, <1>3, <1>4, <2>1, <3>1 DEF MinLots
  <2>2. CASE j = 2
    <3>1. m = 25 /\ 2 ^ j = 4
      BY <1>2, <2>2, HalvedPercent
    <3> QED
      BY <1>1, <1>3, <1>4, <2>2, <3>1 DEF MinLots
  <2>3. CASE j = 3
    <3>1. m = 12 /\ 2 ^ j = 8
      BY <1>2, <2>3, HalvedPercent
    <3> QED
      BY <1>1, <1>3, <1>4, <2>3, <3>1 DEF MinLots
  <2>4. CASE j = 4
    <3>1. m = 6 /\ 2 ^ j = 16
      BY <1>2, <2>4, HalvedPercent
    <3> QED
      BY <1>1, <1>3, <1>4, <2>4, <3>1 DEF MinLots
  <2>5. CASE j = 5
    <3>1. m = 3 /\ 2 ^ j = 32
      BY <1>2, <2>5, HalvedPercent
    <3> QED
      BY <1>1, <1>3, <1>4, <2>5, <3>1 DEF MinLots
  <2>6. CASE j = 6
    <3>1. m = 2 /\ 2 ^ j = 64
      BY <1>2, <2>6, HalvedPercent
    <3> QED
      BY <1>1, <1>3, <1>4, <2>6, <3>1 DEF MinLots
  <2> QED
    BY <1>6, <2>1, <2>2, <2>3, <2>4, <2>5, <2>6
<1>7. j > 6 \/ j \in {1, 2, 3, 4, 5, 6}
  BY <1>1
<1> QED
  BY <1>5, <1>6, <1>7

\* The multiplier is an integer.
LEMMA MultiplierInt ==
    ASSUME NEW sp, sp.losses \in Nat
    PROVE  SizingMultiplier(sp) \in Int
<1> DEFINE j == sp.losses - Threshold + 1
<1>1. j \in Int
  BY RiskAssumption
<1>2. SizingMultiplier(sp) = IF j < 1 THEN 100 ELSE IF j > 6 THEN 0 ELSE HalfEven(100, 2 ^ j)
  BY DEF SizingMultiplier
<1> HIDE DEF j
<1>3. CASE j < 1 \/ j > 6
  BY <1>1, <1>2, <1>3
<1>4. CASE ~(j < 1 \/ j > 6)
  <2>1. j \in {1, 2, 3, 4, 5, 6}
    BY <1>1, <1>4
  <2>2. HalfEven(100, 2 ^ j) \in {50, 25, 12, 6, 3, 2}
    BY <2>1, HalvedPercent, Zenon
  <2> QED
    BY <1>2, <1>4, <2>2
<1> QED
  BY <1>3, <1>4

\* The streak of losses (spiral_protection.py as main.py uses it) throttles every signal,
\* for any threshold, streak and largest size, any instruments and suggestions, either
\* sizer and any number of restarts: no signal before the cooldown is over, none outside
\* the size limits, and from the threshold on each one halved for every further loss that
\* was booked.
THEOREM LossesThrottleAlways == RiskSpec => LossesThrottle
<1> DEFINE Inv == LimitInv /\ CooldownInv /\ StreakInv
           Throttles == Dispatches =>
                          LET k == TrailingLosses(results)
                          IN  /\ rest = NoStart \/ now >= rest
                              /\ sig'.lots \in MinLots..MaxLots
                              /\ rest = NoStart /\ k >= Threshold => Throttled(k, sig'.lots)
<1>1. RiskInit => Inv
  <2>1. RiskInit => LimitInv
    BY GatesAssumption
    DEF RiskInit, LimitInv, BookTypes, Covered, Room, OnItsWay, NewPortfolio
  <2>2. RiskInit => CooldownInv
    BY RiskAssumption DEF RiskInit, CooldownInv, StreakTypes, StreakCounts, DueIsKnown,
       NoStreak, NoLosses, NoStart, Streaks
  <2>3. RiskInit => StreakInv
    BY DEF RiskInit, StreakInv, NoMore, FromIsDue, NoLosses
  <2> QED
    BY <2>1, <2>2, <2>3
<1>2. Inv /\ [RiskNext]_riskVars => Inv'
  BY LimitStep, CooldownStep, StreakStep DEF LimitInv
<1>3. Inv /\ [RiskNext]_riskVars => [Throttles]_riskVars
  <2> SUFFICES ASSUME Inv, RiskNext, Dispatches
               PROVE  LET k == TrailingLosses(results)
                      IN  /\ rest = NoStart \/ now >= rest
                          /\ sig'.lots \in MinLots..MaxLots
                          /\ rest = NoStart /\ k >= Threshold => Throttled(k, sig'.lots)
    OBVIOUS
  <2>1. PICK s \in Suggestions : BarSignal(s)
    BY DEF Dispatches, RiskNext, LoopStep, Bars, BarRefused, KillSwitchDrops, Send, Filled,
           NotFilled, AfterDispatch, Poll, BookOne, BookingDone, PersistBegins, PersistEnds,
           BrokerCloses, EngineRestarts, Tick
  <2> DEFINE g == GenerateSignal(s)
             lots == SizedLots(g)
             sp == AfterCheck(spiral)
  <2>2. ~InCooldown(spiral) /\ sig'.lots = Reduced(lots, SizingMultiplier(sp))
    BY <2>1 DEF BarSignal, Accepted, LotsAfterGates
  <2>3. rest = NoStart \/ now >= rest
    BY <2>2, RiskAssumption DEF InCooldown, CooldownInv, DueIsKnown, StreakTypes
  <2>4. lots \in MinLots..MaxLots
    BY SizersWithinLimits DEF StreakInv
  <2>5. sp.losses \in Nat
    BY DEF AfterCheck, NoLosses, CooldownInv, StreakTypes
  <2> HIDE DEF lots
  <2>6. sig'.lots \in MinLots..MaxLots
    <3>1. SizingMultiplier(sp) \in Int
      BY <2>5, MultiplierInt
    <3> QED
      BY <2>2, <2>4, <3>1, ReducedLots
  <2>7. ASSUME rest = NoStart, TrailingLosses(results) >= Threshold
        PROVE  Throttled(TrailingLosses(results), sig'.lots)
    <3>1. sp = spiral
      BY <2>7 DEF AfterCheck, StreakInv, FromIsDue
    <3>2. TrailingLosses(results) = sp.losses
      BY <3>1, StreakIsTrailing DEF StreakInv
    <3> HIDE DEF sp
    <3>3. Throttled(sp.losses, Reduced(lots, SizingMultiplier(sp)))
      BY <2>4, <2>5, <2>7, <3>2, StreakThrottles
    <3> QED
      BY <2>2, <3>2, <3>3, Zenon
  <2> QED
    BY <2>3, <2>6, <2>7
<1> QED
  BY <1>1, <1>2, <1>3, PTL DEF RiskSpec, LossesThrottle
=============================================================================
