---------------------------- MODULE RateLimiter ----------------------------
(***************************************************************************)
(* The token buckets of the shared libraries, in Python and in Go: one in  *)
(* Redis, worked by a Lua script, and one in memory that is taken when     *)
(* Redis does not answer at the start.  All callers read one clock.        *)
(*                                                                         *)
(* Time is in ticks, Second of them a second; a token in memory is Window  *)
(* units, so that a tick brings Requests units.                            *)
(***************************************************************************)
EXTENDS Integers

CONSTANTS
    Keys,       \* a caller and an endpoint
    Requests,   \* requests_per_window
    Burst,      \* burst_size
    Window,     \* window_seconds, in ticks
    Second,
    MaxAge,     \* argument of the Go limiter's Cleanup
    LastTick    \* bound: end of time

\* requests_per_window, window_seconds, burst_size.
Presets ==
    [public |-> <<60, 60, 10>>, internal |-> <<1000, 60, 100>>, trading |-> <<10, 60, 5>>,
     health |-> <<300, 60, 50>>, strict |-> <<5, 60, 2>>]

\* The Go module's own, with the same fields.
GoPresets ==
    [public |-> <<60, 60, 10>>, internal |-> <<1000, 60, 100>>, trading |-> <<10, 60, 5>>,
     health |-> <<300, 60, 50>>, strict |-> <<5, 60, 2>>]

\* Both languages share the presets, since they may share the keys.
ASSUME LimiterAssumption ==
    /\ Requests \in Nat \ {0} /\ Second \in Nat \ {0} /\ Window \in Nat \ {0}
    /\ Burst \in 0..Requests /\ MaxAge \in Nat
    /\ GoPresets = Presets /\ \A p \in DOMAIN Presets : Presets[p][3] <= Presets[p][1]

VARIABLES
    limiter,    \* [lang, kind]: "python" or "go", "redis" or "memory"
    redis,      \* [up, script]: it answers, it knows the script
    sha,        \* the client has loaded the script
    buckets,    \* key -> <<>> or <<[tokens, last]>>, in Redis or in memory
    now,
    answer,     \* of the last check: [allowed, retry, remaining]
    served,     \* the last request reached its handler
    credit,     \* history, key -> units of an exact bucket of the same size
    promise     \* history, key -> when a caller was told to come back, -1 for never

limitVars == <<limiter, redis, sha, buckets, now, answer, served, credit, promise>>

MaxTokens == Requests + Burst

\* Sensitivity variant: a full bucket gets the burst once more.
RefilledBurst(tokens, elapsed) ==
    LET n == tokens + (elapsed * Requests) \div Window
    IN  IF n >= MaxTokens THEN MaxTokens + Burst ELSE n

\* Whole tokens only, the rest of the elapsed time is lost.
Refilled(tokens, elapsed) ==
    LET n == tokens + (elapsed * Requests) \div Window
    IN  IF n > MaxTokens THEN MaxTokens ELSE n

\* The script: the bucket it leaves and [tokens, wait].  A refusal stores the time but
\* not the tokens.  A key expires two windows after it was touched.
Script(b) ==
    LET known == b # <<>> /\ now - b[1].last < 2 * Window
        tokens == IF known THEN Refilled(b[1].tokens, now - b[1].last) ELSE MaxTokens
    IN  IF tokens >= 1
        THEN [bucket |-> <<[tokens |-> tokens - 1, last |-> now]>>, tokens |-> tokens - 1, wait |-> 0]
        ELSE [bucket |-> <<[b[1] EXCEPT !.last = now]>>, tokens |-> tokens,
              wait |-> (Window * (1 - tokens)) \div (Requests * Second)]

\* The same in units, and a refusal keeps the units that came in.
InMemory(b) ==
    LET full == MaxTokens * Window
        units == IF b = <<>> THEN full ELSE b[1].tokens + (now - b[1].last) * Requests
        held == IF units > full THEN full ELSE units
        left == IF held >= Window THEN held - Window ELSE held
    IN  [bucket |-> <<[tokens |-> left, last |-> now]>>, tokens |-> left \div Window,
         allowed |-> held >= Window,
         wait |-> IF held >= Window THEN 0 ELSE (Window - held + Requests - 1) \div Requests]

-----------------------------------------------------------------------------
Answer(allowed, retry, remaining) ==
    answer' = [allowed |-> allowed, retry |-> retry, remaining |-> remaining]

\* What came in since the last tick is in credit already; a granted token is taken.
Account(key, allowed, retry) ==
    /\ credit' = IF allowed THEN [credit EXCEPT ![key] = @ - Window] ELSE credit
    /\ promise' = [promise EXCEPT ![key] = IF allowed THEN -1 ELSE now + retry]

-----------------------------------------------------------------------------
(* The doors: whether the request reaches its handler after the check.     *)

\* An exception, for the caller to handle.
CheckOrRaise(allowed) == allowed

\* The decorator catches it and calls context.abort, a coroutine nobody awaits, and
\* goes on to the method.
GrpcRateLimit(allowed) == TRUE

\* A response with status 429.
AiohttpMiddleware(allowed) == allowed

PythonDoors(allowed) == {CheckOrRaise(allowed), GrpcRateLimit(allowed), AiohttpMiddleware(allowed)}

\* RESOURCE_EXHAUSTED, for a call and for a stream; 429 over HTTP.
UnaryServerInterceptor(allowed) == allowed
StreamServerInterceptor(allowed) == allowed
HTTPMiddleware(allowed) == allowed

GoDoors(allowed) ==
    {UnaryServerInterceptor(allowed), StreamServerInterceptor(allowed), HTTPMiddleware(allowed)}

-----------------------------------------------------------------------------

\* An error of Redis, or a script it has forgotten, lets every request through.
FailsOpen(key) ==
    /\ limiter.kind = "redis"
    /\ ~redis.up \/ (sha /\ ~redis.script)
    /\ Answer(TRUE, 0, MaxTokens) /\ served' = TRUE
    /\ UNCHANGED <<limiter, redis, sha, buckets, now, credit, promise>>

\* The script is loaded by the first check and never again.
EnsureScript == sha' = TRUE /\ redis' = [redis EXCEPT !.script = TRUE]

CheckRedis(key) ==
    LET r == Script(buckets[key])
    IN  /\ limiter = [lang |-> "python", kind |-> "redis"]
        /\ redis.up /\ (sha => redis.script)
        /\ EnsureScript
        /\ buckets' = [buckets EXCEPT ![key] = r.bucket]
        /\ Answer(r.wait = 0, r.wait, r.tokens)
        /\ Account(key, r.wait = 0, r.wait * Second)
        /\ served' \in PythonDoors(r.wait = 0)
        /\ UNCHANGED <<limiter, now>>

\* Redis answers with integers and the Go client asserts a float: it panics, the
\* token is gone.
CheckRedisGo(key) ==
    /\ limiter = [lang |-> "go", kind |-> "redis"]
    /\ redis.up /\ (sha => redis.script)
    /\ EnsureScript
    /\ buckets' = [buckets EXCEPT ![key] = Script(buckets[key]).bucket]
    /\ served' = FALSE
    /\ UNCHANGED <<limiter, now, answer, credit, promise>>

CheckMemory(key) ==
    LET r == InMemory(buckets[key])
    IN  /\ limiter = [lang |-> "python", kind |-> "memory"]
        /\ buckets' = [buckets EXCEPT ![key] = r.bucket]
        /\ Answer(r.allowed, r.wait, r.tokens)
        /\ Account(key, r.allowed, r.wait)
        /\ served' \in PythonDoors(r.allowed)
        /\ UNCHANGED <<limiter, redis, sha, now>>

CheckMemoryGo(key) ==
    LET r == InMemory(buckets[key])
    IN  /\ limiter = [lang |-> "go", kind |-> "memory"]
        /\ buckets' = [buckets EXCEPT ![key] = r.bucket]
        /\ Answer(r.allowed, r.wait, r.tokens)
        /\ Account(key, r.allowed, r.wait)
        /\ served' \in GoDoors(r.allowed)
        /\ UNCHANGED <<limiter, redis, sha, now>>

\* A path or method that is not limited.
Excluded ==
    /\ served' = TRUE
    /\ UNCHANGED <<limiter, redis, sha, buckets, now, answer, credit, promise>>

\* A forgotten bucket is a full one.
CleanupBuckets ==
    /\ limiter = [lang |-> "go", kind |-> "memory"]
    /\ buckets' = [k \in Keys |-> IF buckets[k] # <<>> /\ now - buckets[k][1].last > MaxAge
                                  THEN <<>> ELSE buckets[k]]
    /\ UNCHANGED <<limiter, redis, sha, now, answer, served, credit, promise>>

\* Redis stops answering, or answers again; a restart forgets the scripts.
RedisChanges ==
    /\ limiter.kind = "redis"
    /\ redis' \in [up : BOOLEAN, script : {redis.script, FALSE}]
    /\ UNCHANGED <<limiter, sha, buckets, now, answer, served, credit, promise>>

LimiterTick ==
    LET full == MaxTokens * Window
    IN  /\ now < LastTick
        /\ now' = now + 1
        /\ credit' = [k \in Keys |-> IF credit[k] + Requests > full THEN full
                                     ELSE credit[k] + Requests]
        /\ UNCHANGED <<limiter, redis, sha, buckets, answer, served, promise>>

\* create_rate_limiter, NewLimiter: memory if Redis is not configured or does not answer.
CreateLimiter ==
    /\ limiter \in [lang : {"python", "go"}, kind : {"redis", "memory"}]
    /\ redis = [up |-> limiter.kind = "redis", script |-> FALSE] /\ sha = FALSE

LimiterInit ==
    /\ CreateLimiter
    /\ buckets = [k \in Keys |-> <<>>] /\ now = 0
    /\ answer = [allowed |-> TRUE, retry |-> 0, remaining |-> 0] /\ served = FALSE
    /\ credit = [k \in Keys |-> MaxTokens * Window] /\ promise = [k \in Keys |-> -1]

LimiterNext ==
    \/ \E key \in Keys : \/ FailsOpen(key) \/ CheckRedis(key) \/ CheckMemory(key)
                         \/ CheckRedisGo(key) \/ CheckMemoryGo(key)
    \/ Excluded \/ CleanupBuckets \/ RedisChanges \/ LimiterTick

LimiterSpec == LimiterInit /\ [][LimiterNext]_limitVars

-----------------------------------------------------------------------------
\* The limiters that keep the rate: all in memory, if the Go one's Cleanup (called by no
\* service) forgets only what is full again, and the script where a token takes a
\* second or more, as with the public, trading and strict presets.  Its answer is cut to
\* whole seconds, and a wait of none is read as a grant.
RateConditions ==
    /\ limiter.kind = "redis" => Requests * Second <= Window
    /\ limiter = [lang |-> "go", kind |-> "memory"] => MaxTokens * Window <= MaxAge * Requests

\* The limiters whose retry-after is long enough: the script's if a token takes a whole
\* number of seconds.
WaitConditions == limiter.kind = "redis" => Window % (Requests * Second) = 0

\* Over every stretch of time a bucket grants a key at most its capacity and what the
\* rate brings, though Redis counts whole tokens, forgets keys and stores no refusals;
\* and the caller that was refused and stays away as long as it was told is granted
\* its next request (check of the four limiters; what is let through because Redis
\* fails no bucket has granted).
LimiterKeepsRate ==
    /\ [](RateConditions => \A k \in Keys : credit[k] >= 0)
    /\ [][WaitConditions =>
            \A k \in Keys : promise[k] >= 0 /\ now >= promise[k] /\ promise'[k] # promise[k]
                              => promise'[k] = -1]_limitVars
=============================================================================
