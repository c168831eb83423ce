----------------------------- MODULE KillSwitch -----------------------------
(***************************************************************************)
(* The global kill switch: the key moneymaker:kill_switch in Redis, the    *)
(* KillSwitch object of the algo engine with its local cache, and the      *)
(* operator's console.                                                     *)
(*                                                                         *)
(* One asyncio task calls the object, so its methods run one after the     *)
(* other; every awaited Redis command is a state (`call`) in which time    *)
(* passes, Redis fails or recovers and the console writes the key.  Times  *)
(* are kept as ages, which grow up to AgeCap.                              *)
(***************************************************************************)
EXTENDS Integers

CONSTANTS
    CacheTtl,       \* _cache_ttl
    MaxRtt,         \* longest way of a GET's answer back to the engine
    AgeCap,         \* ages are not told apart beyond this bound
    BuiltinErrors   \* the Redis client may raise builtin OSError, ConnectionError, TimeoutError

ASSUME AgesAssumption ==
    /\ CacheTtl \in Nat \ {0}
    /\ MaxRtt \in Nat
    /\ AgeCap \in Nat
    /\ AgeCap > CacheTtl /\ AgeCap > MaxRtt
    /\ BuiltinErrors \in BOOLEAN

VARIABLES
    redisUp,      \* Redis answers
    key,          \* what the key holds
    connected,    \* self._redis is not None
    cached,       \* _cached_active
    cacheAge,     \* time.monotonic() - _cache_ts
    call,         \* where the running method awaits Redis ("down": not connected yet)
    getAge,       \* age of the `now` is_active read before it awaited the GET
    answer,       \* what Redis answered to the GET, or "none" so far
    sampleAge,    \* how long ago Redis answered it
    verdict,      \* what is_active returned to its caller, until the caller acts on it
    stopAge,      \* how long the key has been present
    clearedAge,   \* how long ago the cache was cleared without a look at the key
    tripped,      \* activate() was called and nobody has deactivated since
    setLost,      \* the write of the last activate() did not reach Redis
    upAge,        \* how long Redis has been up
    console       \* the console command between its ping and its write

redisVars == <<redisUp, upAge, key, stopAge>>
cacheVars == <<connected, cached, cacheAge, clearedAge>>
getVars == <<getAge, answer, sampleAge>>
tripVars == <<tripped, setLost>>
ksVars == <<redisVars, cacheVars, call, getVars, verdict, tripVars, console>>

KeyValues == {"absent", "active", "corrupt"}
Ages == 0..AgeCap

TypeOK ==
    /\ redisUp \in BOOLEAN
    /\ key \in KeyValues
    /\ connected \in BOOLEAN
    /\ cached \in BOOLEAN
    /\ call \in {"down", "idle", "get", "set", "del"}
    /\ answer \in KeyValues \cup {"none"}
    /\ verdict \in {"none", "active", "inactive", "raised"}
    /\ tripped \in BOOLEAN
    /\ setLost \in BOOLEAN
    /\ console \in {"idle", "set", "del"}
    /\ cacheAge \in Ages /\ getAge \in Ages /\ sampleAge \in Ages
    /\ stopAge \in Ages /\ clearedAge \in Ages /\ upAge \in Ages

Init ==
    /\ redisUp \in BOOLEAN
    /\ key \in KeyValues
    /\ connected = FALSE
    /\ cached = TRUE
    /\ call = "down"
    /\ answer = "none"
    /\ verdict = "none"
    /\ tripped = FALSE
    /\ setLost = FALSE
    /\ console = "idle"
    /\ cacheAge = AgeCap /\ getAge = 0 /\ sampleAge = 0
    /\ stopAge = (IF key = "absent" THEN 0 ELSE AgeCap) /\ clearedAge = AgeCap
    /\ upAge = (IF redisUp THEN AgeCap ELSE 0)

-----------------------------------------------------------------------------
(* Helpers.                                                                *)

Older(age) == IF age < AgeCap THEN age + 1 ELSE age

\* The key is written or deleted: its age starts again unless it was there.
WriteKey(value) ==
    /\ key' = value
    /\ stopAge' = IF key # "absent" /\ value # "absent" THEN stopAge ELSE 0
    /\ UNCHANGED <<redisUp, upAge>>

\* Sensitivity variant: the bare flag is returned instead of flag and reason.
ReturnBareFlag(value) == verdict' = IF value THEN "True" ELSE "False"

\* is_active returns the cached value to its caller.
ReturnCached(value) == verdict' = IF value THEN "active" ELSE "inactive"

\* `now - self._cache_ts < self._cache_ttl`
StillFresh == cacheAge < CacheTtl

\* Sensitivity variant: a corrupt value is read as no value.
MeansStopIfActive(value) == value = "active"

\* What a GET's answer means: present and active, or not JSON (fail closed).
MeansStop(value) == value # "absent"

Calling == call = "idle" /\ verdict = "none"

-----------------------------------------------------------------------------
(* The engine's side.                                                      *)

\* connect(): the ping succeeds and the cache is cleared; the key is not read.
Connect ==
    /\ call = "down" /\ redisUp
    /\ connected' = TRUE
    /\ cached' = FALSE /\ cacheAge' = 0 /\ clearedAge' = 0
    /\ call' = "idle"
    /\ UNCHANGED <<redisVars, getVars, verdict, tripVars, console>>

\* connect(): the ping fails; the object never tries again.
ConnectFails ==
    /\ call = "down" /\ ~redisUp
    /\ connected' = FALSE
    /\ call' = "idle"
    /\ UNCHANGED <<redisVars, cached, cacheAge, clearedAge, getVars, verdict, tripVars, console>>

\* is_active() within the cache's time to live.
IsActiveCached ==
    /\ Calling /\ StillFresh
    /\ ReturnCached(cached)
    /\ UNCHANGED <<redisVars, cacheVars, call, getVars, tripVars, console>>

\* is_active() without Redis: the cached value is kept.
IsActiveLocal ==
    /\ Calling /\ ~StillFresh /\ ~connected
    /\ cacheAge' = 0
    /\ ReturnCached(cached)
    /\ UNCHANGED <<redisVars, connected, cached, clearedAge, call, getVars, tripVars, console>>

\* is_active() reads the clock, then awaits the GET.
IsActiveRead ==
    /\ Calling /\ ~StillFresh /\ connected
    /\ call' = "get"
    /\ getAge' = 0 /\ answer' = "none" /\ sampleAge' = 0
    /\ UNCHANGED <<redisVars, cacheVars, verdict, tripVars, console>>

\* Redis answers the GET; the answer is on its way.
RedisGet ==
    /\ call = "get" /\ answer = "none" /\ redisUp
    /\ answer' = key /\ sampleAge' = 0
    /\ UNCHANGED <<redisVars, cacheVars, call, getAge, verdict, tripVars, console>>

\* Sensitivity variant: the cache is stamped with the time of the answer.
GetReturnsRestamped ==
    /\ call = "get" /\ answer # "none"
    /\ cached' = MeansStop(answer)
    /\ cacheAge' = 0
    /\ ReturnCached(MeansStop(answer))
    /\ call' = "idle"
    /\ UNCHANGED <<redisVars, connected, clearedAge, getVars, tripVars, console>>

\* Sensitivity variant: an absent key does not clear the cache.
GetReturnsSticky ==
    /\ call = "get" /\ answer # "none"
    /\ cached' = (cached \/ MeansStop(answer))
    /\ cacheAge' = getAge
    /\ ReturnCached(cached')
    /\ call' = "idle"
    /\ UNCHANGED <<redisVars, connected, clearedAge, getVars, tripVars, console>>

\* The answer arrives; the cache is stamped with the time read before the await.
GetReturns ==
    /\ call = "get" /\ answer # "none"
    /\ cached' = MeansStop(answer)
    /\ cacheAge' = getAge
    /\ ReturnCached(MeansStop(answer))
    /\ call' = "idle"
    /\ UNCHANGED <<redisVars, connected, clearedAge, getVars, tripVars, console>>

\* The client raises redis.exceptions.*, which is_active does not catch.
GetRaises ==
    /\ call = "get" /\ ~redisUp
    /\ verdict' = "raised"
    /\ call' = "idle"
    /\ UNCHANGED <<redisVars, cacheVars, getVars, tripVars, console>>

\* A builtin exception is caught: the cached value lives for another period.
GetKeeps ==
    /\ BuiltinErrors
    /\ call = "get" /\ ~redisUp
    /\ cacheAge' = getAge
    /\ ReturnCached(cached)
    /\ call' = "idle"
    /\ UNCHANGED <<redisVars, connected, cached, clearedAge, getVars, tripVars, console>>

\* activate(), called by auto_check, hierarchical_check and DrawdownEnforcer:
\* the cache first, then the key.
Activate ==
    /\ Calling
    /\ cached' = TRUE /\ cacheAge' = 0
    /\ tripped' = TRUE
    /\ call' = IF connected THEN "set" ELSE "idle"
    /\ setLost' = ~connected
    /\ UNCHANGED <<redisVars, connected, clearedAge, getVars, verdict, console>>

\* Sensitivity variant: the key is never written.
SetDoneLocally ==
    /\ call = "set" /\ redisUp
    /\ call' = "idle"
    /\ UNCHANGED <<redisVars, cacheVars, getVars, verdict, tripVars, console>>

SetDone ==
    /\ call = "set" /\ redisUp
    /\ WriteKey("active")
    /\ call' = "idle"
    /\ UNCHANGED <<cacheVars, getVars, verdict, tripVars, console>>

\* The write raises; the exception is logged and swallowed.
SetFails ==
    /\ call = "set" /\ ~redisUp
    /\ setLost' = TRUE
    /\ call' = "idle"
    /\ UNCHANGED <<redisVars, cacheVars, getVars, verdict, tripped, console>>

\* deactivate(): the cache first, then the key.
Deactivate ==
    /\ Calling
    /\ cached' = FALSE /\ cacheAge' = 0 /\ clearedAge' = 0
    /\ tripped' = FALSE
    /\ call' = IF connected THEN "del" ELSE "idle"
    /\ UNCHANGED <<redisVars, connected, getVars, verdict, setLost, console>>

DelDone ==
    /\ call = "del" /\ redisUp
    /\ WriteKey("absent")
    /\ call' = "idle"
    /\ UNCHANGED <<cacheVars, getVars, verdict, tripVars, console>>

\* The delete raises: swallowed when the exception is builtin, else passed on.
DelFails ==
    /\ call = "del" /\ ~redisUp
    /\ call' = "idle"
    /\ verdict' \in {"raised"} \cup (IF BuiltinErrors THEN {"none"} ELSE {})
    /\ UNCHANGED <<redisVars, cacheVars, getVars, tripVars, console>>

\* The caller acts on the answer.
Consume ==
    /\ verdict # "none"
    /\ verdict' = "none"
    /\ UNCHANGED <<redisVars, cacheVars, call, getVars, tripVars, console>>

\* The engine process dies and starts again with a new object.
Restart ==
    /\ call # "down"
    /\ call' = "down"
    /\ connected' = FALSE /\ cached' = TRUE /\ cacheAge' = AgeCap
    /\ answer' = "none"
    /\ verdict' = "none"
    /\ setLost' = (setLost \/ call = "set")
    /\ UNCHANGED <<redisVars, clearedAge, getAge, sampleAge, tripped, console>>

-----------------------------------------------------------------------------
(* The console, Redis and the clock.                                       *)

\* `kill activate` and `kill deactivate` ping Redis and give up if it is down.
ConsoleStarts(what) ==
    /\ console = "idle" /\ redisUp
    /\ console' = what
    /\ UNCHANGED <<redisVars, cacheVars, call, getVars, verdict, tripVars>>

\* The result of the write is not looked at.
ConsoleSet ==
    /\ console = "set"
    /\ IF redisUp THEN WriteKey("active") ELSE UNCHANGED redisVars
    /\ console' = "idle"
    /\ UNCHANGED <<cacheVars, call, getVars, verdict, tripVars>>

ConsoleDelete ==
    /\ console = "del"
    /\ IF redisUp
       THEN WriteKey("absent") /\ tripped' = FALSE
       ELSE UNCHANGED <<redisVars, tripped>>
    /\ console' = "idle"
    /\ UNCHANGED <<cacheVars, call, getVars, verdict, setLost>>

\* Another writer leaves something that is not JSON.
CorruptKey ==
    /\ redisUp /\ key # "corrupt"
    /\ WriteKey("corrupt")
    /\ UNCHANGED <<cacheVars, call, getVars, verdict, tripVars, console>>

RedisFailsOrRecovers ==
    /\ redisUp' = ~redisUp /\ upAge' = 0
    /\ UNCHANGED <<key, stopAge, cacheVars, call, getVars, verdict, tripVars, console>>

\* Time passes, except between is_active's return and the caller's reaction; an
\* answer takes at most MaxRtt to arrive.
Tick ==
    /\ verdict = "none"
    /\ call = "get" /\ answer # "none" => sampleAge < MaxRtt
    /\ cacheAge' = Older(cacheAge)
    /\ clearedAge' = Older(clearedAge)
    /\ getAge' = IF call = "get" THEN Older(getAge) ELSE getAge
    /\ sampleAge' = IF call = "get" /\ answer # "none" THEN Older(sampleAge) ELSE sampleAge
    /\ stopAge' = IF key # "absent" THEN Older(stopAge) ELSE 0
    /\ upAge' = IF redisUp THEN Older(upAge) ELSE 0
    /\ UNCHANGED <<redisUp, key, connected, cached, call, answer, verdict, tripVars, console>>

-----------------------------------------------------------------------------
IsActive == IsActiveCached \/ IsActiveLocal \/ IsActiveRead

Reading == RedisGet \/ GetReturns \/ GetRaises \/ GetKeeps

Environment ==
    \/ ConsoleStarts("set") \/ ConsoleStarts("del")
    \/ ConsoleSet \/ ConsoleDelete
    \/ CorruptKey
    \/ RedisFailsOrRecovers

Next ==
    \/ Connect \/ ConnectFails
    \/ IsActive \/ Reading \/ Consume
    \/ Activate \/ SetDone \/ SetFails
    \/ Deactivate \/ DelDone \/ DelFails
    \/ Restart
    \/ Environment
    \/ Tick

Spec == Init /\ [][Next]_ksVars

-----------------------------------------------------------------------------
(* Properties.                                                             *)

\* The longest a stop may go unnoticed.
NoticeBound == IF MaxRtt >= CacheTtl THEN MaxRtt ELSE CacheTtl - 1

\* The cache bounds how long a stop is missed (kill_switch.py:172-199): when
\* is_active of a connected engine answers "not active" although the key is there,
\* the key appeared no longer ago than the cache's life or the way of an answer,
\* unless connect() or deactivate() cleared the cache less than a cache's life ago,
\* or Redis was down until less than a cache's life ago and its client raises
\* exceptions that keep the cached value.  Slow GETs, failing GETs, restarts and operators who set and clear
\* the key in between do not add up.
StopNoticed ==
    connected /\ verdict = "inactive" =>
        \/ stopAge <= NoticeBound
        \/ clearedAge < CacheTtl
        \/ BuiltinErrors /\ upAge < CacheTtl

\* A switch the engine tripped itself (kill_switch.py:110-148, 207-242) holds
\* until somebody deactivates it, provided its write reached Redis: neither the end
\* of the cache's life nor a slow write nor a failing GET reopens trading, with the
\* exceptions of StopNoticed.
TripHolds ==
    verdict = "inactive" /\ tripped =>
        \/ setLost
        \/ clearedAge < CacheTtl
        \/ BuiltinErrors /\ upAge < CacheTtl
=============================================================================
