---------------------------- MODULE ExternalData ----------------------------
(***************************************************************************)
(* The external data service: MacroDataScheduler runs one loop per job, a  *)
(* job fetches figures from a provider and saves each to Redis, with a     *)
(* time to live, and to the database; stop cancels the loops, then closes  *)
(* what they use.  Tasks of one event loop: a step runs from one await to  *)
(* the next.                                                               *)
(*                                                                         *)
(* Rates are in tenths of a percent; None is a figure that is missing.     *)
(***************************************************************************)
EXTENDS Integers, Sequences, FiniteSets

CONSTANTS
    VixReadings,    \* what CBOE and Yahoo may answer: an index or None
    FredReadings,   \* [y2, y5, y10, y30, be10, be5, recession], each a figure or None
    CotFiles,       \* sequences of rows [market, amLong, amShort, lfLong, lfShort, oi]
    Job,            \* names of jobs: "vix", "yield_curve", "cot"
    MaxErrors,      \* max_consecutive_errors
    MaxLoops        \* bound: loops ever started

None == -1000

ASSUME ExternalAssumption ==
    Job \subseteq {"vix", "yield_curve", "cot"} /\ MaxErrors \in Nat \ {0} /\ MaxLoops \in Nat

VARIABLES
    service,    \* "new" | "running" | "stopping" | "closed"
    scheduled,  \* the scheduler's _running
    jobs,       \* _jobs: job -> [errors, disabled]; only jobs that are registered
    tasks,      \* _tasks: job -> number of its task, 0 for none
    loops,      \* tasks that have not ended: [n, job, pc, todo]
    started,    \* loops ever started
    pools,      \* [db, redis]: there is a pool, there is a client
    cache,      \* Redis: job -> the values it holds
    late        \* history: jobs added to a running scheduler

externalVars == <<service, scheduled, jobs, tasks, loops, started, pools, cache, late>>

-----------------------------------------------------------------------------
(* Providers.                                                              *)

Known(x) == x # None

\* A falsy figure is saved as none.
OrNone(x) == IF x = 0 THEN None ELSE x

\* VIXData.calculate_regime.
VixRegime(v) == IF v >= 25 THEN 2 ELSE IF v >= 15 THEN 1 ELSE 0

\* What a job saves, one value after the other: [key, data, row], row if the database
\* gets it.
VixValues(v) == IF Known(v) THEN <<[key |-> "vix", data |-> <<v, VixRegime(v)>>, row |-> TRUE]>>
                ELSE <<>>

\* Yahoo is asked only when CBOE has no index.
VixOrBackup(cboe, yahoo) == VixValues(IF Known(cboe) THEN cboe ELSE yahoo)

YieldCurve(r) ==
    LET spread == IF Known(r.y2) THEN r.y10 - r.y2 ELSE None
    IN  IF ~Known(r.y10) THEN <<>>
        ELSE <<[key |-> "yield_curve", row |-> TRUE,
                data |-> <<OrNone(r.y2), r.y10, OrNone(spread), Known(r.y2) /\ spread < 0>>]>>

RealRates(r) ==
    IF ~Known(r.y10) \/ ~Known(r.be10) THEN <<>>
    ELSE <<[key |-> "real_rates", data |-> <<r.y10 - r.be10, r.y10, r.be10>>, row |-> TRUE]>>

\* The recession probability has no table.
Recession(r) ==
    LET level == IF r.recession >= 40 THEN 2 ELSE IF r.recession >= 20 THEN 1 ELSE 0
    IN  IF ~Known(r.recession) THEN <<>>
        ELSE <<[key |-> "recession", data |-> <<r.recession, level>>, row |-> FALSE]>>

\* Only markets of interest, and only with an open interest.
RelevantMarkets == {"GOLD", "SILVER", "EUR", "JPY", "GBP", "DXY"}

Sentiment(row) ==
    LET net == row.amLong - row.amShort + row.lfLong - row.lfShort
    IN  IF 10 * net > row.oi THEN 1 ELSE IF 10 * net < -row.oi THEN -1 ELSE 0

CotValues(rows) ==
    LET used == SelectSeq(rows, LAMBDA r : r.market \in RelevantMarkets /\ r.oi # 0)
    IN  [i \in DOMAIN used |->
            [key |-> used[i].market, data |-> <<Sentiment(used[i])>>, row |-> TRUE]]

\* What a provider may answer; an error is an empty answer.
Answers(job) ==
    CASE job = "vix" -> {VixOrBackup(v, w) : v, w \in VixReadings}
      [] job = "yield_curve" -> {YieldCurve(r) \o RealRates(r) \o Recession(r) : r \in FredReadings}
      [] job = "cot" -> {<<>>} \cup {CotValues(rows) : rows \in CotFiles}

-----------------------------------------------------------------------------
(* MacroDataScheduler.                                                     *)

NewLoop(job) == [n |-> started + 1, job |-> job, pc |-> "fresh", todo |-> <<>>]

AddJob(job) ==
    jobs' = [j \in DOMAIN jobs \cup {job} |->
                IF j = job THEN [errors |-> 0, disabled |-> FALSE] ELSE jobs[j]]

\* add_job of a scheduler that runs: no loop is started.
AddJobLate(job) ==
    /\ scheduled /\ job \notin DOMAIN jobs
    /\ AddJob(job)
    /\ late' = late \cup {job}
    /\ UNCHANGED <<service, scheduled, tasks, loops, started, pools, cache>>

\* The task is cancelled: it ends where it waits.
RemoveJob(job) ==
    /\ service = "running" /\ job \in DOMAIN jobs
    /\ jobs' = [j \in DOMAIN jobs \ {job} |-> jobs[j]]
    /\ tasks' = [tasks EXCEPT ![job] = 0]
    /\ loops' = {l \in loops : l.n # tasks[job]}
    /\ late' = late \ {job}
    /\ UNCHANGED <<service, scheduled, started, pools, cache>>

TaskDone(job) == ~ \E l \in loops : l.n = tasks[job]

\* Sensitivity variant: a task that has a number is taken for done.
ReEnableJobTwice(job) ==
    /\ service = "running" /\ job \in DOMAIN jobs /\ started < MaxLoops
    /\ jobs' = [jobs EXCEPT ![job] = [errors |-> 0, disabled |-> FALSE]]
    /\ loops' = loops \cup {NewLoop(job)} /\ started' = started + 1
    /\ tasks' = [tasks EXCEPT ![job] = started + 1] /\ late' = late \ {job}
    /\ UNCHANGED <<service, scheduled, pools, cache>>

ReEnableJob(job) ==
    /\ service = "running" /\ job \in DOMAIN jobs
    /\ jobs' = [jobs EXCEPT ![job] = [errors |-> 0, disabled |-> FALSE]]
    /\ IF scheduled /\ TaskDone(job)
       THEN /\ started < MaxLoops
            /\ loops' = loops \cup {NewLoop(job)} /\ started' = started + 1
            /\ tasks' = [tasks EXCEPT ![job] = started + 1] /\ late' = late \ {job}
       ELSE UNCHANGED <<loops, started, tasks, late>>
    /\ UNCHANGED <<service, scheduled, pools, cache>>

Move(l, pc, todo) == loops' = (loops \ {l}) \cup {[l EXCEPT !.pc = pc, !.todo = todo]}

\* Where _run_job_loop goes after a run: to sleep, or out.
Afterwards(l, job) ==
    IF scheduled /\ l.job \in DOMAIN jobs /\ ~job.disabled
    THEN Move(l, "sleep", <<>>) ELSE loops' = loops \ {l}

\* The task runs for the first time (run_immediately) or wakes up.
RunJob(l) ==
    /\ l.pc \in {"fresh", "sleep"}
    /\ IF l.job \in DOMAIN jobs /\ ~jobs[l.job].disabled /\ (l.pc = "sleep" => scheduled)
       THEN Move(l, "fetch", <<>>) ELSE loops' = loops \ {l}
    /\ UNCHANGED <<service, scheduled, jobs, tasks, started, pools, cache, late>>

\* _execute_job when the job returns, and when it raises.
JobReturns(l) ==
    LET job == [errors |-> 0, disabled |-> jobs[l.job].disabled]
    IN  jobs' = [jobs EXCEPT ![l.job] = job] /\ Afterwards(l, job)

JobRaises(l) ==
    LET n == jobs[l.job].errors + 1
        job == [errors |-> n, disabled |-> jobs[l.job].disabled \/ n >= MaxErrors]
    IN  /\ l.pc = "fetch"
        /\ jobs' = [jobs EXCEPT ![l.job] = job] /\ Afterwards(l, job)
        /\ UNCHANGED <<service, scheduled, tasks, started, pools, cache, late>>

-----------------------------------------------------------------------------
(* The jobs: fetch, then for each value Redis and the database.            *)

\* The next value to save, or the end of the job.
NextValue(l, todo) ==
    IF todo = <<>> THEN JobReturns(l) ELSE Move(l, "redis", todo) /\ UNCHANGED jobs

\* Without an answer of CBOE the job asks Yahoo.
Fetched(l, values) ==
    /\ l.pc \in {"fetch", "backup"}
    /\ IF l.job = "vix" /\ l.pc = "fetch" /\ values = <<>>
       THEN Move(l, "backup", <<>>) /\ UNCHANGED jobs
       ELSE NextValue(l, values)
    /\ UNCHANGED <<service, scheduled, tasks, started, pools, cache, late>>

\* _save_to_redis: errors are logged.
SavedToRedis(l, ok) ==
    /\ l.pc = "redis"
    /\ cache' = IF pools.redis /\ ok
                THEN [cache EXCEPT ![l.job] = {v \in @ : v.key # Head(l.todo).key}
                                              \cup {Head(l.todo)}]
                ELSE cache
    /\ IF pools.db /\ Head(l.todo).row
       THEN Move(l, "db", l.todo) /\ UNCHANGED jobs
       ELSE NextValue(l, Tail(l.todo))
    /\ UNCHANGED <<service, scheduled, tasks, started, pools, late>>

\* The insert is over, written or failed: a failure is logged, and the rows are read by
\* nobody here.
SavedToDb(l) ==
    /\ l.pc = "db"
    /\ NextValue(l, Tail(l.todo))
    /\ UNCHANGED <<service, scheduled, tasks, started, pools, cache, late>>

\* redis_cache_ttl_seconds is over; five minutes, whatever the interval of the job.
CacheExpires(job) ==
    /\ cache[job] # {}
    /\ \E key \in cache[job] : cache' = [cache EXCEPT ![job] = @ \ {key}]
    /\ UNCHANGED <<service, scheduled, jobs, tasks, loops, started, pools, late>>

-----------------------------------------------------------------------------
(* ExternalDataService.                                                    *)

\* Redis and database may fail to open, and the service goes on without.
StartService ==
    /\ service = "new" /\ Cardinality(Job) <= MaxLoops
    /\ service' = "running" /\ scheduled' = TRUE
    /\ pools' \in [db : BOOLEAN, redis : BOOLEAN]
    /\ jobs' = [j \in Job |-> [errors |-> 0, disabled |-> FALSE]]
    /\ tasks' = CHOOSE t \in [Job -> 1..Cardinality(Job)] : \A i, j \in Job : i # j => t[i] # t[j]
    /\ loops' = {[n |-> tasks'[j], job |-> j, pc |-> "fresh", todo |-> <<>>] : j \in Job}
    /\ started' = Cardinality(Job)
    /\ UNCHANGED <<cache, late>>

\* A signal: start returns, stop runs; from now on the scheduler is not running.
StopService ==
    /\ service = "running"
    /\ service' = "stopping" /\ scheduled' = FALSE
    /\ UNCHANGED <<jobs, tasks, loops, started, pools, cache, late>>

\* Cancel a task and await its end; tasks not yet cancelled may run on meanwhile.
CancelTask(job) ==
    /\ service = "stopping" /\ tasks[job] # 0
    /\ loops' = {l \in loops : l.n # tasks[job]}
    /\ tasks' = [tasks EXCEPT ![job] = 0]
    /\ UNCHANGED <<service, scheduled, jobs, started, pools, cache, late>>

\* The providers' clients, the pool and Redis are closed.
CloseService ==
    /\ service = "stopping" /\ \A j \in Job : tasks[j] = 0
    /\ service' = "closed" /\ pools' = [db |-> FALSE, redis |-> FALSE]
    /\ UNCHANGED <<scheduled, jobs, tasks, loops, started, cache, late>>

ExternalInit ==
    /\ service = "new" /\ scheduled = FALSE /\ jobs = [j \in {} |-> 0]
    /\ tasks = [j \in Job |-> 0] /\ loops = {} /\ started = 0
    /\ pools = [db |-> FALSE, redis |-> FALSE] /\ cache = [j \in Job |-> {}] /\ late = {}

ExternalNext ==
    \/ StartService \/ StopService \/ CloseService
    \/ \E job \in Job : \/ AddJobLate(job) \/ RemoveJob(job) \/ ReEnableJob(job)
                        \/ CancelTask(job) \/ CacheExpires(job)
    \/ \E l \in loops : \/ RunJob(l) \/ JobRaises(l) \/ SavedToDb(l)
                        \/ \E values \in Answers(l.job) : Fetched(l, values)
                        \/ \E ok \in BOOLEAN : SavedToRedis(l, ok)

ExternalSpec == ExternalInit /\ [][ExternalNext]_externalVars

\* Through errors, removals and re-enabling a job has never two loops; while the
\* scheduler runs, an enabled job that was there at its start or was re-enabled has
\* one; and no loop is left to use the clients once they are closed (re_enable_job,
\* _run_job_loop, ExternalDataService.stop).
JobsKeepTheirLoops ==
    /\ \A j \in Job : Cardinality({l \in loops : l.job = j}) <= 1
    /\ scheduled => \A j \in DOMAIN jobs \ late :
                       jobs[j].disabled \/ \E l \in loops : l.job = j
    /\ service = "closed" => loops = {}
=============================================================================
