-------------------------- MODULE KillSwitchProofs --------------------------
(***************************************************************************)
(* Theorems about KillSwitch for any cache life, answer time and age bound:*)
(* type correctness, the bound on unnoticed stops, and that a switch the   *)
(* engine tripped holds; and about EngineLoop, whose steps are steps of    *)
(* KillSwitch: what the loop may dispatch after a stop.                    *)
(***************************************************************************)
EXTENDS EngineLoop, TLAPS

\* What the awaits leave true: only a connected object awaits a GET, a new object is
\* closed, and Redis has no up-time while it is down.
CallInv ==
    /\ call = "get" => connected
    /\ call = "down" => cached /\ ~connected /\ verdict = "none"
    /\ call \in {"get", "set", "del"} => verdict = "none"
    /\ ~redisUp => upAge = 0
    /\ key = "absent" => stopAge = 0

\* An answer "absent" on its way is at least as old as any key that appeared since.
AnswerInv ==
    call = "get" /\ answer # "none" =>
        /\ sampleAge <= getAge /\ sampleAge <= MaxRtt
        /\ answer = "absent" => stopAge <= sampleAge

\* An open cache is at least as old as the key it missed, as the blind clearing it
\* stems from, or as the last failure of Redis.
CacheInv ==
    connected /\ ~cached =>
        \/ stopAge <= cacheAge
        \/ clearedAge <= cacheAge
        \/ BuiltinErrors /\ upAge <= cacheAge

NoticeInv == CallInv /\ AnswerInv /\ CacheInv /\ StopNoticed

-----------------------------------------------------------------------------
\* Ages grow, keep their order and stay within the bound.
LEMMA OlderMonotone ==
    ASSUME NEW a \in Ages, NEW b \in Ages
    PROVE  /\ Older(a) \in Ages /\ Older(a) >= a /\ Older(a) <= a + 1
           /\ a <= b => Older(a) <= Older(b)
           /\ a < AgeCap => Older(a) = a + 1
BY AgesAssumption DEF Older, Ages

\* The ages and their bounds are natural numbers.
LEMMA AgesAreNumbers ==
    ASSUME TypeOK
    PROVE  /\ cacheAge \in Nat /\ getAge \in Nat /\ sampleAge \in Nat
           /\ stopAge \in Nat /\ clearedAge \in Nat /\ upAge \in Nat
           /\ NoticeBound \in Nat /\ MaxRtt <= NoticeBound /\ CacheTtl - 1 <= NoticeBound
           /\ 0 \in Ages /\ AgeCap \in Ages
BY AgesAssumption DEF TypeOK, Ages, NoticeBound

\* The initial state is well-typed.
LEMMA TypeInit == Init => TypeOK
<1>1. 0 \in Ages /\ AgeCap \in Ages
  BY AgesAssumption DEF Ages
<1>2. \A c \in BOOLEAN : (IF c THEN AgeCap ELSE 0) \in Ages
  BY <1>1
<1> QED
  BY <1>1, <1>2, Zenon DEF Init, TypeOK

\* A step of the clock keeps the types.
LEMMA TickTyped == TypeOK /\ Tick => TypeOK'
<1> SUFFICES ASSUME TypeOK, Tick PROVE TypeOK'
  OBVIOUS
<1>1. \A a \in Ages : Older(a) \in Ages
  BY OlderMonotone
<1>2. 0 \in Ages
  BY AgesAreNumbers
<1> QED
  BY <1>1, <1>2 DEF TypeOK, Tick, tripVars

\* Every step keeps the types.
LEMMA TypeStep == TypeOK /\ [Next]_ksVars => TypeOK'
<1> SUFFICES ASSUME TypeOK, [Next]_ksVars PROVE TypeOK'
  OBVIOUS
<1> USE DEF TypeOK, redisVars, cacheVars, getVars, tripVars, KeyValues
<1>0. 0 \in Ages /\ AgeCap \in Ages
  BY AgesAreNumbers
<1>1. CASE Connect \/ ConnectFails
  BY <1>0, <1>1 DEF Connect, ConnectFails
<1>2. CASE IsActive
  BY <1>0, <1>2 DEF IsActive, IsActiveCached, IsActiveLocal, IsActiveRead, ReturnCached
<1>3. CASE RedisGet \/ GetRaises \/ Consume
  BY <1>0, <1>3 DEF RedisGet, GetRaises, Consume
<1>4. CASE GetReturns \/ GetKeeps
  BY <1>4 DEF GetReturns, GetKeeps, ReturnCached, MeansStop
<1>5. CASE Activate \/ SetDone \/ SetFails
  BY <1>0, <1>5 DEF Activate, SetDone, SetFails, WriteKey
<1>6. CASE Deactivate \/ DelDone \/ DelFails
  <2>1. CASE Deactivate
    BY <1>0, <2>1 DEF Deactivate
  <2>2. CASE DelDone
    BY <1>0, <2>2 DEF DelDone, WriteKey
  <2>3. CASE DelFails
    BY <2>3 DEF DelFails
  <2> QED
    BY <1>6, <2>1, <2>2, <2>3
<1>7. CASE Restart
  BY <1>0, <1>7 DEF Restart
<1>8. CASE Environment
  <2>1. CASE ConsoleStarts("set") \/ ConsoleStarts("del")
    BY <2>1 DEF ConsoleStarts
  <2>2. CASE ConsoleSet \/ CorruptKey
    BY <1>0, <2>2 DEF ConsoleSet, CorruptKey, WriteKey
  <2>3. CASE ConsoleDelete
    BY <1>0, <2>3 DEF ConsoleDelete, WriteKey
  <2>4. CASE RedisFailsOrRecovers
    BY <1>0, <2>4 DEF RedisFailsOrRecovers
  <2> QED
    BY <1>8, <2>1, <2>2, <2>3, <2>4 DEF Environment
<1>9. CASE Tick
  BY <1>9, TickTyped
<1>10. CASE UNCHANGED ksVars
  BY <1>10 DEF ksVars
<1> QED
  BY <1>1, <1>2, <1>3, <1>4, <1>5, <1>6, <1>7, <1>8, <1>9, <1>10 DEF Next, Reading

\* Type correctness: every value the engine, the console and Redis leave in the
\* state of the switch is one the code distinguishes (kill_switch.py:62-199).
THEOREM TypeCorrect == Spec => []TypeOK
<1>1. Init => TypeOK
  BY TypeInit
<1>2. TypeOK /\ [Next]_ksVars => TypeOK'
  BY TypeStep
<1> QED
  BY <1>1, <1>2, PTL DEF Spec

-----------------------------------------------------------------------------
\* A write of the key never makes a present key older.
LEMMA WriteKeyAge ==
    ASSUME TypeOK, NEW v \in KeyValues, WriteKey(v), key = "absent" => stopAge = 0
    PROVE  stopAge' <= stopAge /\ (v = "absent" => stopAge' = 0) /\ key' = v
BY AgesAreNumbers DEF WriteKey

\* The engine's steps that do not write the key.
LEMMA NoticeEngine ==
    ASSUME TypeOK, NoticeInv,
           \/ Connect \/ ConnectFails \/ IsActive \/ Reading \/ Consume
           \/ Activate \/ SetFails \/ Deactivate \/ DelFails \/ Restart
    PROVE  NoticeInv'
<1> USE AgesAreNumbers, AgesAssumption
    DEF NoticeInv, CallInv, AnswerInv, CacheInv, StopNoticed, redisVars, cacheVars,
        getVars, tripVars, Calling
<1>n. UNCHANGED <<redisVars>> /\ NoticeBound' = NoticeBound
  BY DEF Connect, ConnectFails, IsActive, IsActiveCached, IsActiveLocal, IsActiveRead,
         Reading, RedisGet, GetReturns, GetRaises, GetKeeps, Consume, Activate, SetFails,
         Deactivate, DelFails, Restart, NoticeBound
<1>1. CASE Connect
  BY <1>n, <1>1 DEF Connect
<1>2. CASE ConnectFails
  BY <1>n, <1>2 DEF ConnectFails
<1>3. CASE IsActiveCached
  BY <1>n, <1>3 DEF IsActiveCached, ReturnCached, StillFresh
<1>4. CASE IsActiveLocal
  BY <1>n, <1>4 DEF IsActiveLocal, ReturnCached
<1>5. CASE IsActiveRead
  BY <1>n, <1>5 DEF IsActiveRead
<1>6. CASE RedisGet
  BY <1>n, <1>6 DEF RedisGet
<1>7. CASE GetReturns
  <2>1. CASE answer = "absent"
    <3>1. cached' = FALSE /\ verdict' = "inactive" /\ cacheAge' = getAge /\ call' = "idle"
      BY <1>7, <2>1 DEF GetReturns, ReturnCached, MeansStop
    <3> QED
      BY <1>n, <1>7, <2>1, <3>1 DEF GetReturns
  <2>2. CASE answer # "absent"
    <3>1. cached' = TRUE /\ verdict' = "active" /\ call' = "idle"
      BY <1>7, <2>2 DEF GetReturns, ReturnCached, MeansStop
    <3> QED
      BY <1>n, <1>7, <3>1 DEF GetReturns
  <2> QED
    BY <2>1, <2>2
<1>8. CASE GetRaises
  BY <1>n, <1>8 DEF GetRaises
<1>9. CASE GetKeeps
  BY <1>n, <1>9 DEF GetKeeps, ReturnCached
<1>10. CASE Consume
  BY <1>n, <1>10 DEF Consume
<1>11. CASE Activate
  BY <1>n, <1>11 DEF Activate
<1>12. CASE SetFails
  BY <1>n, <1>12 DEF SetFails
<1>13. CASE Deactivate
  BY <1>n, <1>13 DEF Deactivate
<1>14. CASE DelFails
  BY <1>n, <1>14 DEF DelFails
<1>15. CASE Restart
  BY <1>n, <1>15 DEF Restart
<1> QED
  BY <1>1, <1>2, <1>3, <1>4, <1>5, <1>6, <1>7, <1>8, <1>9, <1>10, <1>11, <1>12, <1>13,
     <1>14, <1>15 DEF IsActive, Reading

\* The steps that write the key, and the failures of Redis.
LEMMA NoticeRedis ==
    ASSUME TypeOK, NoticeInv, SetDone \/ DelDone \/ Environment
    PROVE  NoticeInv'
<1> USE AgesAreNumbers, AgesAssumption
    DEF NoticeInv, CallInv, AnswerInv, CacheInv, StopNoticed, redisVars, cacheVars,
        getVars, tripVars
<1>n. NoticeBound' = NoticeBound
  BY DEF NoticeBound
<1>w. ASSUME NEW v \in KeyValues, WriteKey(v),
             UNCHANGED <<cacheVars, getVars, verdict>>,
             call' = call \/ (call' = "idle" /\ call \in {"set", "del"})
      PROVE  NoticeInv'
  <2>1. stopAge' <= stopAge /\ (v = "absent" => stopAge' = 0) /\ key' = v /\ stopAge' \in Nat
    BY <1>w, WriteKeyAge DEF WriteKey
  <2>2. UNCHANGED <<redisUp, upAge>>
    BY <1>w DEF WriteKey
  <2> QED
    BY <1>n, <1>w, <2>1, <2>2
<1>1. CASE SetDone
  BY <1>1, <1>w DEF SetDone, KeyValues
<1>2. CASE DelDone
  BY <1>2, <1>w DEF DelDone, KeyValues
<1>3. CASE ConsoleStarts("set") \/ ConsoleStarts("del")
  BY <1>n, <1>3 DEF ConsoleStarts
<1>4. CASE ConsoleSet
  <2>1. CASE redisUp
    BY <1>4, <1>w, <2>1 DEF ConsoleSet, KeyValues
  <2>2. CASE ~redisUp
    BY <1>n, <1>4, <2>2 DEF ConsoleSet
  <2> QED
    BY <2>1, <2>2
<1>5. CASE ConsoleDelete
  <2>1. CASE redisUp
    BY <1>5, <1>w, <2>1 DEF ConsoleDelete, KeyValues
  <2>2. CASE ~redisUp
    BY <1>n, <1>5, <2>2 DEF ConsoleDelete
  <2> QED
    BY <2>1, <2>2
<1>6. CASE CorruptKey
  BY <1>6, <1>w DEF CorruptKey, KeyValues
<1>7. CASE RedisFailsOrRecovers
  BY <1>n, <1>7 DEF RedisFailsOrRecovers
<1> QED
  BY <1>1, <1>2, <1>3, <1>4, <1>5, <1>6, <1>7 DEF Environment

\* The clock: no age overtakes another, because every age grows by the same rule.
LEMMA NoticeTick ==
    ASSUME TypeOK, NoticeInv, Tick
    PROVE  NoticeInv'
<1>0. /\ cacheAge \in Ages /\ getAge \in Ages /\ sampleAge \in Ages
      /\ stopAge \in Ages /\ clearedAge \in Ages /\ upAge \in Ages
  BY DEF TypeOK
<1>1. UNCHANGED <<redisUp, key, connected, cached, call, answer, verdict>> /\ verdict = "none"
  BY DEF Tick
<1>2. CallInv'
  BY <1>1 DEF NoticeInv, CallInv, Tick
<1>3. AnswerInv'
  <2> SUFFICES ASSUME call = "get", answer # "none"
               PROVE  /\ sampleAge' <= getAge' /\ sampleAge' <= MaxRtt
                      /\ answer = "absent" => stopAge' <= sampleAge'
    BY <1>1 DEF AnswerInv
  <2>1. sampleAge' = Older(sampleAge) /\ getAge' = Older(getAge) /\ sampleAge < MaxRtt
    BY DEF Tick
  <2>2. stopAge' = 0 \/ stopAge' = Older(stopAge)
    BY DEF Tick
  <2>3. sampleAge <= getAge /\ (answer = "absent" => stopAge <= sampleAge)
    BY DEF NoticeInv, AnswerInv
  <2>4. Older(sampleAge) <= Older(getAge)
    BY <1>0, <2>3, OlderMonotone
  <2>5. Older(sampleAge) \in Nat /\ Older(sampleAge) <= MaxRtt
    BY <1>0, <2>1, OlderMonotone, AgesAssumption DEF Ages
  <2>6. stopAge <= sampleAge => Older(stopAge) <= Older(sampleAge)
    BY <1>0, OlderMonotone
  <2> QED
    BY <2>1, <2>2, <2>3, <2>4, <2>5, <2>6
<1>4. CacheInv'
  <2> SUFFICES ASSUME connected, ~cached
               PROVE  \/ stopAge' <= cacheAge'
                      \/ clearedAge' <= cacheAge'
                      \/ BuiltinErrors /\ upAge' <= cacheAge'
    BY <1>1 DEF CacheInv
  <2>1. cacheAge' = Older(cacheAge) /\ clearedAge' = Older(clearedAge)
    BY DEF Tick
  <2>2. (stopAge' = 0 \/ stopAge' = Older(stopAge)) /\ (upAge' = 0 \/ upAge' = Older(upAge))
    BY DEF Tick
  <2>3. \A a \in {stopAge, clearedAge, upAge} : a <= cacheAge => Older(a) <= Older(cacheAge)
    BY <1>0, OlderMonotone
  <2>4. 0 <= Older(cacheAge)
    BY <1>0, OlderMonotone DEF Ages
  <2> QED
    BY <2>1, <2>2, <2>3, <2>4 DEF NoticeInv, CacheInv
<1>5. StopNoticed'
  BY <1>1 DEF StopNoticed
<1> QED
  BY <1>2, <1>3, <1>4, <1>5 DEF NoticeInv

\* The initial state satisfies NoticeInv, and every step keeps it.
LEMMA NoticeInit == Init => TypeOK /\ NoticeInv
<1>1. Init => NoticeInv
  BY DEF Init, NoticeInv, CallInv, AnswerInv, CacheInv, StopNoticed
<1> QED
  BY <1>1, TypeInit

\* Every step keeps the ages in order.
LEMMA NoticeStep == TypeOK /\ NoticeInv /\ [Next]_ksVars => (TypeOK /\ NoticeInv)'
<1> SUFFICES ASSUME TypeOK, NoticeInv, [Next]_ksVars PROVE NoticeInv'
  BY TypeStep
<1>1. CASE UNCHANGED ksVars
  BY <1>1 DEF ksVars, redisVars, cacheVars, getVars, NoticeInv, CallInv, AnswerInv,
              CacheInv, StopNoticed, NoticeBound
<1>2. CASE Next
  BY <1>2, NoticeEngine, NoticeRedis, NoticeTick DEF Next
<1> QED
  BY <1>1, <1>2

\* A stop is noticed within the cache's life or an answer's way
\* (kill_switch.py:172-199), for any length of either, any outage of Redis and any
\* number of restarts and operator commands.
THEOREM StopNoticedAlways == Spec => []StopNoticed
<1>1. Init => TypeOK /\ NoticeInv
  BY NoticeInit
<1>2. TypeOK /\ NoticeInv /\ [Next]_ksVars => (TypeOK /\ NoticeInv)'
  BY NoticeStep
<1>3. NoticeInv => StopNoticed
  BY DEF NoticeInv
<1> QED
  BY <1>1, <1>2, <1>3, PTL DEF Spec

-----------------------------------------------------------------------------
\* A trip whose write was not lost is in Redis or on its way there, and an open cache
\* can then only stem from a blind clearing.
TripInv ==
    /\ ~connected /\ ~cached => ~tripped
    /\ call = "del" => ~tripped
    /\ tripped /\ ~setLost => key # "absent" \/ call = "set"
    /\ call = "get" /\ answer = "absent" => ~tripped \/ setLost
    /\ tripped /\ ~setLost /\ ~cached =>
          clearedAge <= cacheAge \/ (BuiltinErrors /\ upAge <= cacheAge)
    /\ TripHolds

\* Every step keeps TripInv.
LEMMA TripStep ==
    ASSUME TypeOK, CallInv, TripInv, Next
    PROVE  TripInv'
<1> USE AgesAreNumbers, AgesAssumption
    DEF TripInv, TripHolds, CallInv, redisVars, cacheVars, getVars, tripVars, Calling
<1>1. CASE Connect \/ ConnectFails
  BY <1>1 DEF Connect, ConnectFails
<1>2. CASE IsActiveCached
  BY <1>2 DEF IsActiveCached, ReturnCached, StillFresh
<1>3. CASE IsActiveLocal \/ IsActiveRead
  BY <1>3 DEF IsActiveLocal, IsActiveRead, ReturnCached
<1>4. CASE RedisGet \/ GetRaises \/ Consume
  BY <1>4 DEF RedisGet, GetRaises, Consume
<1>5. CASE GetReturns
  <2>1. CASE answer = "absent"
    <3>1. cached' = FALSE /\ verdict' = "inactive" /\ call' = "idle"
      BY <1>5, <2>1 DEF GetReturns, ReturnCached, MeansStop
    <3> QED
      BY <1>5, <2>1, <3>1 DEF GetReturns
  <2>2. CASE answer # "absent"
    <3>1. cached' = TRUE /\ verdict' = "active" /\ call' = "idle"
      BY <1>5, <2>2 DEF GetReturns, ReturnCached, MeansStop
    <3> QED
      BY <1>5, <3>1 DEF GetReturns
  <2> QED
    BY <2>1, <2>2
<1>6. CASE GetKeeps
  BY <1>6 DEF GetKeeps
<1>7. CASE Activate
  <2>1. connected => setLost' = FALSE /\ call' = "set"
    BY <1>7 DEF Activate
  <2>2. ~connected => setLost' = TRUE
    BY <1>7 DEF Activate
  <2> QED
    BY <1>7, <2>1, <2>2 DEF Activate
<1>8. CASE SetDone \/ SetFails
  BY <1>8 DEF SetDone, SetFails, WriteKey
<1>9. CASE Deactivate
  BY <1>9 DEF Deactivate
<1>10. CASE DelDone \/ DelFails
  BY <1>10 DEF DelDone, DelFails, WriteKey
<1>11. CASE Restart
  <2>1. call = "set" => setLost' = TRUE
    BY <1>11 DEF Restart
  <2>2. call # "set" => setLost' = setLost
    BY <1>11 DEF Restart, TypeOK
  <2> QED
    BY <1>11, <2>1, <2>2 DEF Restart
<1>12. CASE ConsoleStarts("set") \/ ConsoleStarts("del") \/ RedisFailsOrRecovers
  BY <1>12 DEF ConsoleStarts, RedisFailsOrRecovers
<1>13. CASE ConsoleSet \/ CorruptKey
  BY <1>13 DEF ConsoleSet, CorruptKey, WriteKey
<1>14. CASE ConsoleDelete
  BY <1>14 DEF ConsoleDelete, WriteKey
<1>15. CASE Tick
  <2>1. UNCHANGED <<key, connected, cached, call, answer, verdict, tripped, setLost>>
        /\ verdict = "none"
    BY <1>15 DEF Tick
  <2>2. clearedAge <= cacheAge => clearedAge' <= cacheAge'
    BY <1>15, OlderMonotone DEF Tick, TypeOK
  <2>3. upAge <= cacheAge => upAge' <= cacheAge'
    <3>1. cacheAge \in Ages /\ upAge \in Ages /\ cacheAge' = Older(cacheAge)
          /\ (upAge' = 0 \/ upAge' = Older(upAge))
      BY <1>15 DEF Tick, TypeOK
    <3>2. Older(cacheAge) \in Ages /\ (upAge <= cacheAge => Older(upAge) <= Older(cacheAge))
      BY <3>1, OlderMonotone
    <3>3. 0 <= Older(cacheAge)
      BY <3>2 DEF Ages
    <3> QED
      BY <3>1, <3>2, <3>3
  <2> QED
    BY <2>1, <2>2, <2>3
<1> QED
  BY <1>1, <1>2, <1>3, <1>4, <1>5, <1>6, <1>7, <1>8, <1>9, <1>10, <1>11, <1>12, <1>13,
     <1>14, <1>15 DEF Next, IsActive, Reading, Environment

\* A trip holds until somebody deactivates the switch (kill_switch.py:110-148), if its
\* write reached Redis, for any cache life and answer time.
THEOREM TripHoldsAlways == Spec => []TripHolds
<1>1. Init => TypeOK /\ NoticeInv /\ TripInv
  <2>1. Init => NoticeInv /\ TripInv
    BY DEF Init, NoticeInv, CallInv, AnswerInv, CacheInv, StopNoticed, TripInv, TripHolds
  <2> QED
    BY <2>1, TypeInit
<1>2. TypeOK /\ NoticeInv /\ TripInv /\ [Next]_ksVars => (TypeOK /\ NoticeInv /\ TripInv)'
  <2> SUFFICES ASSUME TypeOK, NoticeInv, TripInv, [Next]_ksVars PROVE (NoticeInv /\ TripInv)'
    BY TypeStep
  <2>1. CASE UNCHANGED ksVars
    BY <2>1 DEF ksVars, redisVars, cacheVars, getVars, tripVars, NoticeInv, CallInv,
                AnswerInv, CacheInv, StopNoticed, NoticeBound, TripInv, TripHolds
  <2>2. CASE Next
    <3>1. NoticeInv'
      BY <2>2, NoticeEngine, NoticeRedis, NoticeTick DEF Next
    <3>2. TripInv'
      BY <2>2, TripStep DEF NoticeInv
    <3> QED
      BY <3>1, <3>2
  <2> QED
    BY <2>1, <2>2
<1>3. TripInv => TripHolds
  BY DEF TripInv
<1> QED
  BY <1>1, <1>2, <1>3, PTL DEF Spec

-----------------------------------------------------------------------------
(* The main loop.                                                          *)

\* A step of the loop is a step of the kill switch, or none at all.
LEMMA LoopStepsSwitch == [LoopNext]_vars => [Next]_ksVars
<1> SUFFICES ASSUME [LoopNext]_vars PROVE [Next]_ksVars
  OBVIOUS
<1>1. CASE Boot
  BY <1>1 DEF Boot, Next
<1>2. CASE Ask \/ ReadingStep
  BY <1>2 DEF Ask, ReadingStep, Next
<1>3. CASE ActOnTop \/ ActOnCheck \/ IterationRaised
  BY <1>3 DEF ActOnTop, ActOnCheck, IterationRaised, Next
<1>4. CASE Wake \/ BarNone \/ BarSignal \/ Receive \/ RetryAttempt \/ SendDone
  BY <1>4 DEF Wake, BarNone, BarSignal, Receive, RetryAttempt, SendDone
<1>5. CASE EngineRestart \/ OtherSteps \/ LoopTick
  BY <1>5 DEF EngineRestart, OtherSteps, LoopTick, Next
<1>6. CASE UNCHANGED vars
  BY <1>6 DEF vars
<1> QED
  BY <1>1, <1>2, <1>3, <1>4, <1>5, <1>6 DEF LoopNext, LoopStep

\* An answer is only there where the loop asked, the loop never starts a write, and
\* without a connection the cache stays closed.
LoopInv ==
    /\ verdict # "none" => pc \in {"top", "check"}
    /\ call \in {"down", "idle", "get"}
    /\ ~connected => cached
    /\ verdict = "inactive" => connected

\* Every step of the loop keeps LoopInv and the types.
LEMMA LoopInvStep ==
    ASSUME LoopTypeOK, NoticeInv, LoopInv, [LoopNext]_vars
    PROVE  LoopTypeOK' /\ LoopInv'
<1>0. TypeOK' /\ TypeOK /\ CallInv
  BY LoopStepsSwitch, TypeStep DEF LoopTypeOK, NoticeInv
<1> USE <1>0 DEF LoopTypeOK, LoopInv, CallInv, loopVars, redisVars, cacheVars, getVars,
        tripVars
<1>1. CASE Boot
  BY <1>1 DEF Boot, Connect, ConnectFails
<1>2. CASE Ask
  BY <1>2 DEF Ask, IsActive, IsActiveCached, IsActiveLocal, IsActiveRead, ReturnCached, Calling
<1>3. CASE ReadingStep
  BY <1>3 DEF ReadingStep, Reading, RedisGet, GetReturns, GetRaises, GetKeeps, ReturnCached
<1>4. CASE ActOnTop
  BY <1>4 DEF ActOnTop, Consume
<1>5. CASE ActOnCheck
  BY <1>5, AttemptsAssumption DEF ActOnCheck, Consume
<1>6. CASE IterationRaised
  BY <1>6 DEF IterationRaised, Consume
<1>7. CASE Wake \/ BarNone \/ BarSignal \/ Receive
  BY <1>7 DEF Wake, BarNone, BarSignal, Receive, ksVars
<1>8. CASE RetryAttempt \/ SendDone
  BY <1>8, AttemptsAssumption DEF RetryAttempt, SendDone, ksVars
<1>9. CASE EngineRestart
  <2>1. 0 \in 0..MaxAttempts /\ ~(0 > 0)
    BY AttemptsAssumption
  <2>2. /\ call' = "down" /\ cached' = TRUE /\ verdict' = "none"
        /\ pc' = "boot" /\ attempts' = 0 /\ lossOver' = FALSE
    BY <1>9 DEF EngineRestart, Restart
  <2> QED
    BY <2>1, <2>2, Zenon
<1>10. CASE OtherSteps
  <2>1. UNCHANGED <<cacheVars, call, verdict, loopVars>>
    BY <1>10 DEF OtherSteps, Environment, ConsoleStarts, ConsoleSet, ConsoleDelete,
                 CorruptKey, RedisFailsOrRecovers
  <2> QED
    BY <2>1
<1>11. CASE LoopTick
  BY <1>11 DEF LoopTick, Tick
<1>12. CASE UNCHANGED vars
  BY <1>12 DEF vars, ksVars
<1> QED
  BY <1>1, <1>2, <1>3, <1>4, <1>5, <1>6, <1>7, <1>8, <1>9, <1>10, <1>11, <1>12
  DEF LoopNext, LoopStep

\* The invariant of the loop.
LEMMA LoopInvariant == LoopSpec => [](LoopTypeOK /\ NoticeInv /\ LoopInv)
<1>1. LoopInit => LoopTypeOK /\ NoticeInv /\ LoopInv
  <2> SUFFICES ASSUME LoopInit PROVE LoopTypeOK /\ NoticeInv /\ LoopInv
    OBVIOUS
  <2>1. TypeOK /\ NoticeInv
    BY NoticeInit DEF LoopInit
  <2>2. 0 \in 0..MaxAttempts /\ ~(0 > 0)
    BY AttemptsAssumption
  <2> QED
    BY <2>1, <2>2, Zenon DEF LoopInit, Init, LoopTypeOK, LoopInv
<1>2. LoopTypeOK /\ NoticeInv /\ LoopInv /\ [LoopNext]_vars
        => (LoopTypeOK /\ NoticeInv /\ LoopInv)'
  <2> SUFFICES ASSUME LoopTypeOK, NoticeInv, LoopInv, [LoopNext]_vars
               PROVE  (LoopTypeOK /\ NoticeInv /\ LoopInv)'
    OBVIOUS
  <2>1. NoticeInv'
    BY LoopStepsSwitch, NoticeStep DEF LoopTypeOK
  <2> QED
    BY <2>1, LoopInvStep
<1> QED
  BY <1>1, <1>2, PTL DEF LoopSpec

\* The loop's own state is consistent with the switch it asks (main.py:300-505): it
\* awaits a GET only where it asks, and a dispatch has attempts exactly while it runs.
THEOREM LoopTypeCorrect == LoopSpec => []LoopTypeOK
BY LoopInvariant, PTL

\* Only the check before a dispatch starts one, and its answer is "not active".
LEMMA DispatchFollowsCheck ==
    ASSUME [LoopNext]_vars, pc = "check", pc' = "send"
    PROVE  verdict = "inactive"
<1>1. ActOnCheck
  BY DEF LoopNext, LoopStep, Boot, Ask, ReadingStep, ActOnTop, IterationRaised, Wake,
         BarNone, BarSignal, Receive, RetryAttempt, SendDone, EngineRestart, OtherSteps,
         LoopTick, loopVars, vars
<1> QED
  BY <1>1 DEF ActOnCheck, GoOn

\* A dispatch (main.py:378-385) starts only on a connected engine, and only within the
\* cache's life or an answer's way of the stop, or of a blind clearing, for any number
\* of retries, any lengths of the sleeps and any outage of Redis, if the Redis client
\* raises only its own exceptions.
THEOREM DispatchNoticesStopAlways ==
    ASSUME BuiltinErrors = FALSE
    PROVE  LoopSpec => DispatchNoticesStop
<1>1. NoticeInv /\ LoopInv /\ [LoopNext]_vars
        => [pc = "check" /\ pc' = "send" =>
              connected /\ (stopAge <= NoticeBound \/ clearedAge < CacheTtl)]_vars
  <2> SUFFICES ASSUME NoticeInv, LoopInv, [LoopNext]_vars, pc = "check", pc' = "send"
               PROVE  connected /\ (stopAge <= NoticeBound \/ clearedAge < CacheTtl)
    OBVIOUS
  <2>1. verdict = "inactive"
    BY DispatchFollowsCheck
  <2> QED
    BY <2>1 DEF NoticeInv, StopNoticed, LoopInv
<1> QED
  BY <1>1, LoopInvariant, PTL DEF LoopSpec, DispatchNoticesStop
=============================================================================
