--------------------------- MODULE ComponentProofs ---------------------------
(***************************************************************************)
(* Theorems about components that stand by themselves: the scheduler of    *)
(* the external data service, the audit trail, the life of the bridge      *)
(* process and the rate limiters.                                          *)
(***************************************************************************)
EXTENDS ExternalData, AuditTrail, BridgeProcess, RateLimiter, FiniteSetTheorems,
        FunctionTheorems, SequenceTheorems, TLAPS

-----------------------------------------------------------------------------
(* The scheduler of the external data service.                             *)

\* Every loop is the task of its job and of no other.
LoopsAreTasks ==
    /\ started \in Nat
    /\ tasks \in [Job -> 0..started]
    /\ \A i, j \in Job : tasks[i] = tasks[j] /\ tasks[i] # 0 => i = j
    /\ DOMAIN jobs \subseteq Job
    /\ \A l \in loops : /\ {"n", "job"} \subseteq DOMAIN l
                        /\ l.job \in DOMAIN jobs /\ l.n # 0 /\ l.n = tasks[l.job]
    /\ \A l, m \in loops : l.n = m.n => l = m

HasLoop(j) == \E l \in loops : l.job = j

\* While the scheduler runs an enabled job has its loop, unless it was added late.
JobsRun ==
    /\ \A j \in DOMAIN jobs : jobs[j] \in [errors : Nat, disabled : BOOLEAN]
    /\ scheduled \in BOOLEAN
    /\ service = "running" <=> scheduled
    /\ scheduled => \A j \in DOMAIN jobs \ late : jobs[j].disabled \/ HasLoop(j)
    /\ service = "closed" => loops = {}

SchedulerInv == LoopsAreTasks /\ JobsRun

\* There are finitely many jobs.
LEMMA JobsFinite == IsFiniteSet(Job)
<1>1. IsFiniteSet({"vix", "yield_curve", "cot"})
  <2>1. IsFiniteSet({"vix"})
    BY FS_Singleton
  <2>2. IsFiniteSet({"vix"} \cup {"yield_curve"})
    BY <2>1, FS_AddElement
  <2>3. IsFiniteSet(({"vix"} \cup {"yield_curve"}) \cup {"cot"})
    BY <2>2, FS_AddElement
  <2>4. ({"vix"} \cup {"yield_curve"}) \cup {"cot"} = {"vix", "yield_curve", "cot"}
    OBVIOUS
  <2> QED
    BY <2>3, <2>4
<1> QED
  BY <1>1, ExternalAssumption, FS_Subset

\* The numbers that start() gives to the tasks.
LEMMA TaskNumbers ==
    \E t \in [Job -> 1..Cardinality(Job)] : \A i, j \in Job : i # j => t[i] # t[j]
<1>1. ExistsBijection(Job, 1..Cardinality(Job))
  BY JobsFinite, FS_CardinalityType, Fun_ExistsBijSymmetric
<1> QED
  BY <1>1 DEF ExistsBijection, Bijection, Injection, IsInjective

\* What one step of a loop can do: it goes on as the same task of the same job, or it ends
\* because its job is disabled or the scheduler stops.
LoopGoesOn(l) ==
    \E m : /\ {"n", "job"} \subseteq DOMAIN m /\ m.n = l.n /\ m.job = l.job
           /\ loops' = (loops \ {l}) \cup {m}

LoopEnds(l) ==
    /\ loops' = loops \ {l}
    /\ ~scheduled \/ jobs'[l.job].disabled

JobKept(l) ==
    /\ DOMAIN jobs' = DOMAIN jobs
    /\ jobs'[l.job] \in [errors : Nat, disabled : BOOLEAN]
    /\ \A j \in DOMAIN jobs \ {l.job} : jobs'[j] = jobs[j]

\* A loop that moves is still the same task.
LEMMA MoveGoesOn ==
    ASSUME NEW l \in loops, LoopsAreTasks, NEW pc, NEW left, Move(l, pc, left)
    PROVE  LoopGoesOn(l)
<1> DEFINE m == [l EXCEPT !.pc = pc, !.todo = left]
<1>1. {"n", "job"} \subseteq DOMAIN l
  BY DEF LoopsAreTasks
<1>2. {"n", "job"} \subseteq DOMAIN m /\ m.n = l.n /\ m.job = l.job
  BY <1>1
<1> QED
  BY <1>2 DEF LoopGoesOn, Move

\* _execute_job and what follows it in _run_job_loop.
LEMMA ExecutedJob ==
    ASSUME SchedulerInv, NEW l \in loops, NEW job \in [errors : Nat, disabled : BOOLEAN],
           jobs' = [jobs EXCEPT ![l.job] = job], Afterwards(l, job)
    PROVE  JobKept(l) /\ (LoopGoesOn(l) \/ LoopEnds(l))
<1>1. l.job \in DOMAIN jobs
  BY DEF SchedulerInv, LoopsAreTasks
<1>2. jobs'[l.job] = job /\ JobKept(l)
  BY <1>1 DEF JobKept
<1>3. CASE Move(l, "sleep", <<>>)
  BY <1>2, <1>3, MoveGoesOn DEF SchedulerInv
<1>4. CASE loops' = loops \ {l} /\ ~(scheduled /\ l.job \in DOMAIN jobs /\ ~job.disabled)
  BY <1>1, <1>2, <1>4 DEF LoopEnds
<1> QED
  BY <1>2, <1>3, <1>4 DEF Afterwards

\* NextValue is the end of the job, or a move.
LEMMA NextValueKeeps ==
    ASSUME SchedulerInv, NEW l \in loops, NEW left, NextValue(l, left)
    PROVE  JobKept(l) /\ (LoopGoesOn(l) \/ LoopEnds(l))
<1>1. l.job \in DOMAIN jobs /\ jobs[l.job] \in [errors : Nat, disabled : BOOLEAN]
  BY DEF SchedulerInv, LoopsAreTasks, JobsRun
<1>2. CASE left = <<>>
  <2> DEFINE job == [errors |-> 0, disabled |-> jobs[l.job].disabled]
  <2>1. job \in [errors : Nat, disabled : BOOLEAN]
    BY <1>1
  <2>2. jobs' = [jobs EXCEPT ![l.job] = job] /\ Afterwards(l, job)
    BY <1>2 DEF NextValue, JobReturns
  <2> HIDE DEF job
  <2> QED
    BY <2>1, <2>2, ExecutedJob
<1>3. CASE left # <<>>
  <2>1. Move(l, "redis", left) /\ jobs' = jobs
    BY <1>3 DEF NextValue
  <2> QED
    BY <1>1, <2>1, MoveGoesOn DEF SchedulerInv, JobKept
<1> QED
  BY <1>2, <1>3

LoopStep(l) ==
    \/ RunJob(l) \/ JobRaises(l) \/ SavedToDb(l)
    \/ \E values \in Answers(l.job) : Fetched(l, values)
    \/ \E ok \in BOOLEAN : SavedToRedis(l, ok)

\* Every step of a loop is of this kind.
LEMMA LoopStepKinds ==
    ASSUME SchedulerInv, NEW l \in loops, LoopStep(l)
    PROVE  /\ JobKept(l) /\ (LoopGoesOn(l) \/ LoopEnds(l))
           /\ UNCHANGED <<service, scheduled, tasks, started, late>>
<1>1. l.job \in DOMAIN jobs /\ jobs[l.job] \in [errors : Nat, disabled : BOOLEAN]
  BY DEF SchedulerInv, LoopsAreTasks, JobsRun
<1>2. UNCHANGED <<service, scheduled, tasks, started, late>>
  BY DEF LoopStep, RunJob, JobRaises, SavedToDb, Fetched, SavedToRedis
<1>3. CASE RunJob(l)
  <2>1. jobs' = jobs
    BY <1>3 DEF RunJob
  <2>2. Move(l, "fetch", <<>>) \/ LoopEnds(l)
    BY <1>1, <1>3, <2>1 DEF RunJob, LoopEnds
  <2> QED
    BY <1>1, <1>2, <2>1, <2>2, MoveGoesOn DEF SchedulerInv, JobKept
<1>4. CASE JobRaises(l)
  <2> DEFINE n == jobs[l.job].errors + 1
             job == [errors |-> n, disabled |-> jobs[l.job].disabled \/ n >= MaxErrors]
  <2>1. job \in [errors : Nat, disabled : BOOLEAN]
    BY <1>1
  <2>2. jobs' = [jobs EXCEPT ![l.job] = job] /\ Afterwards(l, job)
    BY <1>4 DEF JobRaises
  <2> HIDE DEF job
  <2> QED
    BY <1>2, <2>1, <2>2, ExecutedJob
<1>5. CASE SavedToDb(l)
  BY <1>2, <1>5, NextValueKeeps DEF SavedToDb
<1>6. ASSUME NEW values \in Answers(l.job), Fetched(l, values)
      PROVE  JobKept(l) /\ (LoopGoesOn(l) \/ LoopEnds(l))
  <2>1. (Move(l, "backup", <<>>) /\ jobs' = jobs) \/ NextValue(l, values)
    BY <1>6 DEF Fetched
  <2> QED
    BY <1>1, <2>1, MoveGoesOn, NextValueKeeps DEF SchedulerInv, JobKept
<1>7. ASSUME NEW ok \in BOOLEAN, SavedToRedis(l, ok)
      PROVE  JobKept(l) /\ (LoopGoesOn(l) \/ LoopEnds(l))
  <2>1. (Move(l, "db", l.todo) /\ jobs' = jobs) \/ NextValue(l, Tail(l.todo))
    BY <1>7 DEF SavedToRedis
  <2> QED
    BY <1>1, <2>1, MoveGoesOn, NextValueKeeps DEF SchedulerInv, JobKept
<1> QED
  BY <1>2, <1>3, <1>4, <1>5, <1>6, <1>7 DEF LoopStep

\* So a step of a loop keeps the invariant.
LEMMA LoopStepKeeps ==
    ASSUME SchedulerInv, NEW l \in loops, LoopStep(l)
    PROVE  SchedulerInv'
<1>1. /\ JobKept(l) /\ (LoopGoesOn(l) \/ LoopEnds(l))
      /\ UNCHANGED <<service, scheduled, tasks, started, late>>
  BY LoopStepKinds
<1>2. DOMAIN jobs' = DOMAIN jobs /\ l.job \in DOMAIN jobs
  BY <1>1 DEF JobKept, SchedulerInv, LoopsAreTasks
<1>3. \A j \in DOMAIN jobs' : jobs'[j] \in [errors : Nat, disabled : BOOLEAN]
  BY <1>1, <1>2 DEF JobKept, SchedulerInv, JobsRun
<1>4. service # "closed"
  BY DEF SchedulerInv, JobsRun
<1>5. CASE LoopGoesOn(l)
  <2>1. PICK m : /\ {"n", "job"} \subseteq DOMAIN m /\ m.n = l.n /\ m.job = l.job
                 /\ loops' = (loops \ {l}) \cup {m}
    BY <1>5 DEF LoopGoesOn
  <2>2. LoopsAreTasks'
    BY <1>1, <1>2, <2>1 DEF SchedulerInv, LoopsAreTasks
  <2>3. \A j : HasLoop(j) => HasLoop(j)'
    BY <2>1 DEF HasLoop
  <2>4. HasLoop(l.job)'
    BY <2>1 DEF HasLoop
  <2>5. ASSUME scheduled, NEW j \in DOMAIN jobs \ late PROVE jobs'[j].disabled \/ HasLoop(j)'
    <3>1. CASE j = l.job
      BY <2>4, <3>1
    <3>2. CASE j # l.job
      BY <1>1, <2>3, <2>5, <3>2 DEF JobKept, SchedulerInv, JobsRun
    <3> QED
      BY <3>1, <3>2
  <2> QED
    BY <1>1, <1>2, <1>3, <1>4, <2>2, <2>5 DEF SchedulerInv, JobsRun
<1>6. CASE LoopEnds(l)
  <2>1. loops' = loops \ {l} /\ (~scheduled \/ jobs'[l.job].disabled)
    BY <1>6 DEF LoopEnds
  <2>2. LoopsAreTasks'
    BY <1>1, <1>2, <2>1 DEF SchedulerInv, LoopsAreTasks
  <2>3. ASSUME scheduled, NEW j \in DOMAIN jobs \ late PROVE jobs'[j].disabled \/ HasLoop(j)'
    <3>1. CASE j = l.job
      BY <2>1, <2>3, <3>1
    <3>2. CASE j # l.job
      <4>1. HasLoop(j) => HasLoop(j)'
        BY <2>1, <3>2 DEF HasLoop
      <4> QED
        BY <1>1, <2>3, <3>2, <4>1 DEF JobKept, SchedulerInv, JobsRun
    <3> QED
      BY <3>1, <3>2
  <2> QED
    BY <1>1, <1>2, <1>3, <1>4, <2>2, <2>3 DEF SchedulerInv, JobsRun
<1> QED
  BY <1>1, <1>5, <1>6

\* A task that is cancelled ends the one loop of its job and no other.
LEMMA CancelledLoops ==
    ASSUME SchedulerInv, NEW job \in Job
    PROVE  {l \in loops : l.n # tasks[job]} = {l \in loops : l.job # job}
<1>1. ASSUME NEW l \in loops PROVE l.n # tasks[job] <=> l.job # job
  <2>1. l.job \in Job /\ l.n # 0 /\ l.n = tasks[l.job]
    BY DEF SchedulerInv, LoopsAreTasks
  <2> QED
    BY <2>1 DEF SchedulerInv, LoopsAreTasks
<1> QED
  BY <1>1

\* Every step of the service and its scheduler keeps the invariant.
LEMMA SchedulerStep ==
    ASSUME SchedulerInv, [ExternalNext]_externalVars
    PROVE  SchedulerInv'
<1> USE DEF SchedulerInv
<1>0. [errors |-> 0, disabled |-> FALSE] \in [errors : Nat, disabled : BOOLEAN]
  OBVIOUS
<1>1. CASE StartService
  <2>1. /\ tasks' \in [Job -> 1..Cardinality(Job)] /\ \A i, j \in Job : i # j => tasks'[i] # tasks'[j]
        /\ started' = Cardinality(Job) /\ service' = "running" /\ scheduled' = TRUE
        /\ jobs' = [j \in Job |-> [errors |-> 0, disabled |-> FALSE]]
        /\ loops' = {[n |-> tasks'[j], job |-> j, pc |-> "fresh", todo |-> <<>>] : j \in Job}
    BY <1>1, TaskNumbers DEF StartService
  <2>2. Cardinality(Job) \in Nat
    BY JobsFinite, FS_CardinalityType
  <2>3. \A j \in Job : tasks'[j] \in 0..started' /\ tasks'[j] # 0
    BY <2>1, <2>2
  <2>4. \A l \in loops' : \E j \in Job : /\ {"n", "job"} \subseteq DOMAIN l
                                         /\ l.job = j /\ l.n = tasks'[j]
                                         /\ l = [n |-> tasks'[j], job |-> j, pc |-> "fresh", todo |-> <<>>]
    BY <2>1
  <2>5. ASSUME NEW j \in Job PROVE HasLoop(j)'
    <3>1. /\ [n |-> tasks'[j], job |-> j, pc |-> "fresh", todo |-> <<>>] \in loops'
          /\ [n |-> tasks'[j], job |-> j, pc |-> "fresh", todo |-> <<>>].job = j
      BY <2>1
    <3> QED
      BY <3>1, Zenon DEF HasLoop
  <2>6. LoopsAreTasks'
    <3>1. tasks' \in [Job -> 0..started']
      BY <2>1, <2>3
    <3>2. \A l, m \in loops' : l.n = m.n => l = m
      BY <2>1, <2>4
    <3> QED
      BY <2>1, <2>2, <2>3, <2>4, <3>1, <3>2 DEF LoopsAreTasks
  <2> QED
    BY <2>1, <2>5, <2>6 DEF JobsRun
<1>2. CASE StopService
  BY <1>2 DEF StopService, LoopsAreTasks, JobsRun
<1>3. CASE CloseService
  <2>1. loops = {}
    BY <1>3 DEF CloseService, LoopsAreTasks
  <2> QED
    BY <1>3, <2>1 DEF CloseService, LoopsAreTasks, JobsRun
<1>4. ASSUME NEW job \in Job, AddJobLate(job) PROVE SchedulerInv'
  <2>1. /\ DOMAIN jobs' = DOMAIN jobs \cup {job}
        /\ jobs'[job] = [errors |-> 0, disabled |-> FALSE]
        /\ \A j \in DOMAIN jobs \ {job} : jobs'[j] = jobs[j]
        /\ late' = late \cup {job} /\ UNCHANGED <<service, scheduled, tasks, loops, started>>
    BY <1>4 DEF AddJobLate, AddJob
  <2>2. \A j : HasLoop(j)' <=> HasLoop(j)
    BY <2>1 DEF HasLoop
  <2>3. LoopsAreTasks'
    BY <2>1 DEF LoopsAreTasks
  <2>4. \A j \in DOMAIN jobs' : jobs'[j] \in [errors : Nat, disabled : BOOLEAN]
    BY <1>0, <2>1, Zenon DEF JobsRun
  <2>5. \A j \in DOMAIN jobs' \ late' : j \in DOMAIN jobs \ late /\ jobs'[j] = jobs[j]
    BY <2>1
  <2> QED
    BY <2>1, <2>2, <2>3, <2>4, <2>5 DEF JobsRun
<1>5. ASSUME NEW job \in Job, RemoveJob(job) PROVE SchedulerInv'
  <2>1. /\ DOMAIN jobs' = DOMAIN jobs \ {job} /\ \A j \in DOMAIN jobs' : jobs'[j] = jobs[j]
        /\ tasks' = [tasks EXCEPT ![job] = 0] /\ loops' = {l \in loops : l.job # job}
        /\ late' = late \ {job} /\ UNCHANGED <<service, scheduled, started>>
    BY <1>5, CancelledLoops DEF RemoveJob
  <2>2. \A j \in Job \ {job} : HasLoop(j)' <=> HasLoop(j)
    BY <2>1 DEF HasLoop
  <2>3. LoopsAreTasks'
    <3>1. /\ tasks' \in [Job -> 0..started] /\ tasks'[job] = 0
          /\ \A j \in Job \ {job} : tasks'[j] = tasks[j]
      BY <2>1 DEF LoopsAreTasks
    <3> QED
      BY <2>1, <3>1 DEF LoopsAreTasks
  <2>4. \A j \in DOMAIN jobs' \ late' : j \in DOMAIN jobs \ late /\ j \in Job \ {job}
    BY <2>1 DEF LoopsAreTasks
  <2>5. service # "closed"
    BY <1>5 DEF RemoveJob
  <2> QED
    BY <2>1, <2>2, <2>3, <2>4, <2>5 DEF JobsRun
<1>6. ASSUME NEW job \in Job, ReEnableJob(job) PROVE SchedulerInv'
  <2>1. /\ service = "running" /\ scheduled /\ job \in DOMAIN jobs
        /\ DOMAIN jobs' = DOMAIN jobs /\ jobs'[job] = [errors |-> 0, disabled |-> FALSE]
        /\ \A j \in DOMAIN jobs \ {job} : jobs'[j] = jobs[j]
        /\ UNCHANGED <<service, scheduled>>
    BY <1>6 DEF ReEnableJob, JobsRun
  <2>2. \A j \in DOMAIN jobs' : jobs'[j] \in [errors : Nat, disabled : BOOLEAN]
    BY <1>0, <2>1, Zenon DEF JobsRun
  <2>3. CASE TaskDone(job)
    <3>1. /\ loops' = loops \cup {NewLoop(job)} /\ started' = started + 1
          /\ tasks' = [tasks EXCEPT ![job] = started + 1] /\ late' = late \ {job}
      BY <1>6, <2>1, <2>3 DEF ReEnableJob
    <3>2. NewLoop(job).n = started + 1 /\ NewLoop(job).job = job
          /\ {"n", "job"} \subseteq DOMAIN NewLoop(job)
      BY DEF NewLoop
    <3>3. \A l \in loops : l.job # job /\ l.n \in 1..started
      BY <2>3 DEF TaskDone, LoopsAreTasks
    <3>4. /\ tasks'[job] = started + 1 /\ \A j \in Job \ {job} : tasks'[j] = tasks[j]
          /\ started \in Nat /\ \A j \in Job : tasks[j] \in 0..started
      BY <3>1 DEF LoopsAreTasks
    <3>5. tasks' \in [Job -> 0..started']
      BY <3>1, <3>4 DEF LoopsAreTasks
    <3>6. \A i, j \in Job : tasks'[i] = tasks'[j] /\ tasks'[i] # 0 => i = j
      BY <3>4 DEF LoopsAreTasks
    <3>7. \A l \in loops' : /\ {"n", "job"} \subseteq DOMAIN l
                            /\ l.job \in DOMAIN jobs' /\ l.n # 0 /\ l.n = tasks'[l.job]
      BY <2>1, <3>1, <3>2, <3>3, <3>4 DEF LoopsAreTasks
    <3>8. \A l, m \in loops' : l.n = m.n => l = m
      BY <3>1, <3>2, <3>3, <3>4 DEF LoopsAreTasks
    <3>9. LoopsAreTasks'
      BY <2>1, <3>1, <3>4, <3>5, <3>6, <3>7, <3>8 DEF LoopsAreTasks
    <3>10. HasLoop(job)' /\ \A j : HasLoop(j) => HasLoop(j)'
      BY <3>1, <3>2 DEF HasLoop
    <3>11. \A j \in DOMAIN jobs' \ late' : jobs'[j].disabled \/ HasLoop(j)'
      BY <2>1, <3>1, <3>10 DEF JobsRun
    <3> QED
      BY <2>1, <2>2, <3>9, <3>11 DEF JobsRun
  <2>4. CASE ~TaskDone(job)
    <3>1. UNCHANGED <<loops, started, tasks, late>>
      BY <1>6, <2>4 DEF ReEnableJob
    <3>2. HasLoop(job)
      BY <2>4 DEF TaskDone, HasLoop, LoopsAreTasks
    <3>3. \A j : HasLoop(j)' <=> HasLoop(j)
      BY <3>1 DEF HasLoop
    <3>4. LoopsAreTasks'
      BY <2>1, <3>1 DEF LoopsAreTasks
    <3> QED
      BY <2>1, <2>2, <3>1, <3>2, <3>3, <3>4 DEF JobsRun
  <2> QED
    BY <2>3, <2>4
<1>7. ASSUME NEW job \in Job, CancelTask(job) PROVE SchedulerInv'
  <2>1. /\ tasks' = [tasks EXCEPT ![job] = 0] /\ loops' = {l \in loops : l.job # job}
        /\ service = "stopping" /\ UNCHANGED <<service, scheduled, jobs, started, late>>
    BY <1>7, CancelledLoops DEF CancelTask
  <2>2. /\ tasks' \in [Job -> 0..started] /\ tasks'[job] = 0
        /\ \A j \in Job \ {job} : tasks'[j] = tasks[j]
    BY <2>1 DEF LoopsAreTasks
  <2>3. LoopsAreTasks'
    BY <2>1, <2>2 DEF LoopsAreTasks
  <2> QED
    BY <2>1, <2>3 DEF JobsRun
<1>8. ASSUME UNCHANGED <<service, scheduled, jobs, tasks, loops, started, late>> PROVE SchedulerInv'
  BY <1>8 DEF LoopsAreTasks, JobsRun, HasLoop
<1>9. ASSUME NEW job \in Job, CacheExpires(job) PROVE SchedulerInv'
  BY <1>8, <1>9 DEF CacheExpires
<1>10. ASSUME NEW l \in loops, LoopStep(l) PROVE SchedulerInv'
  BY <1>10, LoopStepKeeps
<1> QED
  BY <1>1, <1>2, <1>3, <1>4, <1>5, <1>6, <1>7, <1>8, <1>9, <1>10
  DEF ExternalNext, LoopStep, externalVars

\* JobsKeepTheirLoops (scheduler.py, _run_job_loop, remove_job, re_enable_job; main.py of the
\* external data service, stop): for any jobs, answers and number of errors.
THEOREM JobsKeepTheirLoopsAlways == ExternalSpec => []JobsKeepTheirLoops
<1>1. ExternalInit => SchedulerInv
  <2> SUFFICES ASSUME ExternalInit PROVE SchedulerInv
    OBVIOUS
  <2>1. LoopsAreTasks
    BY DEF ExternalInit, LoopsAreTasks
  <2>2. JobsRun
    BY DEF ExternalInit, JobsRun
  <2> QED
    BY <2>1, <2>2 DEF SchedulerInv
<1>2. SchedulerInv /\ [ExternalNext]_externalVars => SchedulerInv'
  BY SchedulerStep
<1>3. SchedulerInv => JobsKeepTheirLoops
  <2> SUFFICES ASSUME SchedulerInv PROVE JobsKeepTheirLoops
    OBVIOUS
  <2>1. ASSUME NEW j \in Job PROVE Cardinality({l \in loops : l.job = j}) <= 1
    <3> DEFINE L == {l \in loops : l.job = j}
    <3>1. \A l, m \in L : l = m
      BY DEF SchedulerInv, LoopsAreTasks
    <3>2. CASE L = {}
      BY <3>2, FS_EmptySet
    <3>3. CASE L # {}
      <4>1. PICK l \in L : TRUE
        BY <3>3
      <4>2. L = {l}
        BY <3>1, <4>1
      <4> HIDE DEF L
      <4>3. Cardinality(L) = 1
        BY <4>2, FS_Singleton
      <4> QED
        BY <4>3 DEF L
    <3> QED
      BY <3>2, <3>3
  <2>2. scheduled => \A j \in DOMAIN jobs \ late : jobs[j].disabled \/ \E l \in loops : l.job = j
    BY DEF SchedulerInv, JobsRun, HasLoop
  <2> QED
    BY <2>1, <2>2 DEF JobsKeepTheirLoops, SchedulerInv, JobsRun
<1> QED
  BY <1>1, <1>2, <1>3, PTL DEF ExternalSpec

-----------------------------------------------------------------------------
(* Audit trail.                                                            *)

AuditEntries == [hash : Int, prev : Int]

AuditTypes ==
    /\ lastHash \in Nat /\ dropped \in Nat /\ shifted \in Nat
    /\ buffer \in Seq(AuditEntries)
    /\ writing \subseteq AuditEntries
    /\ flushing \in [on : BOOLEAN, i : Nat, entry : AuditEntries, remaining : Seq(AuditEntries)]

\* What is left if nothing of the flush under way were to count.
Standing == auditLog \cup ToSet(buffer)

\* What is left when the flush goes to its end: it looks only at what is behind its index.
Rest == {buffer[k] : k \in (flushing.i + 1)..Len(buffer)}

Flushed == auditLog \cup ToSet(flushing.remaining) \cup {flushing.entry} \cup Rest

\* How many entries logged from now on the flush does not see, its index being beyond the end.
Overrun == IF flushing.i > Len(buffer) THEN flushing.i - Len(buffer) ELSE 0

\* A flush may be cancelled or may end: either way no more is lost than was counted.
AuditInv ==
    /\ AuditTypes
    /\ IsFiniteSet(Logged)
    /\ Cardinality(Logged \ Standing) <= dropped + shifted
    /\ flushing.on => Cardinality(Logged \ Flushed) + Overrun <= dropped + shifted

\* A part of a finite set has no more elements.
LEMMA CountOfPart ==
    ASSUME NEW S, NEW T, IsFiniteSet(T), S \subseteq T
    PROVE  Cardinality(S) \in Nat /\ Cardinality(T) \in Nat /\ Cardinality(S) <= Cardinality(T)
  BY FS_Subset, FS_CardinalityType

\* Nor has a part of a set with one more element more than one more.
LEMMA CountOfOneMore ==
    ASSUME NEW S, NEW T, NEW x, IsFiniteSet(T), S \subseteq T \cup {x}
    PROVE  Cardinality(S) \in Nat /\ Cardinality(T) \in Nat /\ Cardinality(S) <= Cardinality(T) + 1
<1>1. IsFiniteSet(T \cup {x}) /\ Cardinality(T \cup {x}) <= Cardinality(T) + 1
  <2>1. Cardinality(T) \in Nat
    BY FS_CardinalityType
  <2>2. /\ IsFiniteSet(T \cup {x})
        /\ Cardinality(T \cup {x}) = IF x \in T THEN Cardinality(T) ELSE Cardinality(T) + 1
    BY FS_AddElement
  <2> QED
    BY <2>1, <2>2
<1>2. Cardinality(S) <= Cardinality(T \cup {x}) /\ Cardinality(S) \in Nat
  BY <1>1, CountOfPart
<1> QED
  BY <1>1, <1>2, FS_CardinalityType

\* list.remove: the elements behind the one removed move up by one.
LEMMA RemoveAtFacts ==
    ASSUME NEW S, NEW s \in Seq(S), NEW p \in 1..Len(s)
    PROVE  /\ RemoveAt(s, p) \in Seq(S)
           /\ Len(RemoveAt(s, p)) = Len(s) - 1
           /\ \A k \in 1..(Len(s) - 1) : RemoveAt(s, p)[k] = IF k < p THEN s[k] ELSE s[k + 1]
<1> DEFINE a == SubSeq(s, 1, p - 1)
           b == SubSeq(s, p + 1, Len(s))
<1>1. Len(s) \in Nat /\ \A k \in 1..Len(s) : s[k] \in S
  BY LenProperties, ElementOfSeq
<1>2. a \in Seq(S) /\ Len(a) = p - 1 /\ \A k \in 1..(p - 1) : a[k] = s[k]
  <2>1. \A k \in 1..(p - 1) : s[k] \in S
    BY <1>1
  <2> QED
    BY <1>1, <2>1, SubSeqProperties
<1>3. b \in Seq(S) /\ Len(b) = Len(s) - p /\ \A k \in 1..(Len(s) - p) : b[k] = s[p + k]
  <2>1. \A k \in (p + 1)..Len(s) : s[k] \in S
    BY <1>1
  <2>2. /\ b \in Seq(S) /\ Len(b) = IF p + 1 <= Len(s) THEN Len(s) - (p + 1) + 1 ELSE 0
        /\ \A k \in 1..(Len(s) - (p + 1) + 1) : b[k] = s[(p + 1) + k - 1]
    BY <1>1, <2>1, SubSeqProperties
  <2> QED
    BY <1>1, <2>2
<1> HIDE DEF a, b
<1>4. /\ a \o b \in Seq(S) /\ Len(a \o b) = Len(s) - 1
      /\ \A k \in 1..(Len(s) - 1) : (a \o b)[k] = IF k <= p - 1 THEN a[k] ELSE b[k - (p - 1)]
  BY <1>1, <1>2, <1>3, ConcatProperties
<1>5. \A k \in 1..(Len(s) - 1) : (a \o b)[k] = IF k < p THEN s[k] ELSE s[k + 1]
  <2> TAKE k \in 1..(Len(s) - 1)
  <2>1. CASE k < p
    BY <1>1, <1>2, <1>4, <2>1
  <2>2. CASE k >= p
    <3>1. (a \o b)[k] = b[k - (p - 1)] /\ k - (p - 1) \in 1..(Len(s) - p)
      BY <1>1, <1>4, <2>2
    <3>2. b[k - (p - 1)] = s[p + (k - (p - 1))]
      BY <1>3, <3>1
    <3>3. p + (k - (p - 1)) = k + 1
      BY <1>1
    <3> QED
      BY <2>2, <3>1, <3>2, <3>3
  <2>3. k < p \/ k >= p
    OBVIOUS
  <2> QED
    BY <2>1, <2>2, <2>3
<1> QED
  BY <1>4, <1>5 DEF RemoveAt, a, b

\* _persist: the oldest of a full buffer makes room.
LEMMA PersistFacts ==
    ASSUME AuditTypes, NEW entry \in AuditEntries, Persist(entry)
    PROVE  /\ buffer' \in Seq(AuditEntries) /\ dropped' \in Nat /\ buffer'[Len(buffer')] = entry
           /\ \/ /\ dropped' = dropped /\ Len(buffer') = Len(buffer) + 1
                 /\ \A k \in 1..Len(buffer) : buffer'[k] = buffer[k]
              \/ /\ dropped' = dropped + 1 /\ Len(buffer') = Len(buffer) /\ Len(buffer) > 0
                 /\ \A k \in 1..(Len(buffer) - 1) : buffer'[k] = buffer[k + 1]
<1>1. Len(buffer) \in Nat /\ dropped \in Nat /\ buffer \in Seq(AuditEntries)
  BY LenProperties DEF AuditTypes
<1>2. CASE Len(buffer) >= MaxBuffer
  <2>1. Len(buffer) > 0 /\ buffer # <<>>
    BY <1>1, <1>2, AuditAssumption
  <2>2. /\ Tail(buffer) \in Seq(AuditEntries) /\ Len(Tail(buffer)) = Len(buffer) - 1
        /\ \A k \in 1..Len(Tail(buffer)) : Tail(buffer)[k] = buffer[k + 1]
    BY <1>1, <2>1, HeadTailProperties
  <2>3. buffer' = Append(Tail(buffer), entry) /\ dropped' = dropped + 1
    BY <1>2 DEF Persist
  <2>4. /\ buffer' \in Seq(AuditEntries) /\ Len(buffer') = Len(buffer)
        /\ \A k \in 1..(Len(buffer) - 1) : buffer'[k] = Tail(buffer)[k]
        /\ buffer'[Len(buffer)] = entry
    BY <1>1, <2>1, <2>2, <2>3, AppendProperties
  <2>5. \A k \in 1..(Len(buffer) - 1) : buffer'[k] = buffer[k + 1]
    BY <2>2, <2>4
  <2>6. dropped' \in Nat
    BY <1>1, <2>3
  <2> QED
    BY <2>1, <2>3, <2>4, <2>5, <2>6
<1>3. CASE ~ (Len(buffer) >= MaxBuffer)
  <2>1. buffer' = Append(buffer, entry) /\ dropped' = dropped
    BY <1>3 DEF Persist
  <2>2. /\ buffer' \in Seq(AuditEntries) /\ Len(buffer') = Len(buffer) + 1
        /\ \A k \in 1..Len(buffer) : buffer'[k] = buffer[k]
        /\ buffer'[Len(buffer) + 1] = entry
    BY <1>1, <2>1, AppendProperties
  <2> QED
    BY <1>1, <2>1, <2>2
<1> QED
  BY <1>2, <1>3

\* AuditTrail.log adds one entry to those logged.
LEMMA LoggedGrows ==
    ASSUME lastHash \in Nat, lastHash' = NewEntry.hash
    PROVE  /\ Logged' = Logged \cup {NewEntry} /\ NewEntry \in AuditEntries
           /\ lastHash' \in Nat
<1>1. lastHash' = lastHash + 1 /\ NewEntry = [hash |-> lastHash + 1, prev |-> (lastHash + 1) - 1]
  BY DEF NewEntry
<1>2. 1..(lastHash + 1) = (1..lastHash) \cup {lastHash + 1}
  OBVIOUS
<1>3. Logged' = {[hash |-> h, prev |-> h - 1] : h \in 1..(lastHash + 1)}
  BY <1>1 DEF Logged
<1>4. Logged' = Logged \cup {NewEntry}
  BY <1>1, <1>2, <1>3 DEF Logged
<1>5. NewEntry \in AuditEntries /\ lastHash' \in Nat
  BY <1>1 DEF AuditEntries
<1> QED
  BY <1>4, <1>5

\* A logged entry goes to the end of the buffer, where the flush under way finds it unless
\* its index is beyond the end; a full buffer loses the first entry, and for the flush
\* the one behind its index instead.
LEMMA PersistKeeps ==
    ASSUME AuditInv, Persist(NewEntry), lastHash' = NewEntry.hash,
           UNCHANGED <<flushing, auditLog, shifted>>
    PROVE  /\ IsFiniteSet(Logged')
           /\ Cardinality(Logged' \ Standing') <= dropped' + shifted'
           /\ flushing'.on => Cardinality(Logged' \ Flushed') + Overrun' <= dropped' + shifted'
<1> DEFINE n == Len(buffer)
           i == flushing.i
           old == buffer[1]
           next == buffer[i + 1]
<1>1. /\ lastHash \in Nat /\ dropped \in Nat /\ shifted \in Nat /\ i \in Nat /\ n \in Nat
      /\ buffer \in Seq(AuditEntries) /\ DOMAIN buffer = 1..n
  BY LenProperties DEF AuditInv, AuditTypes
<1>2. /\ Logged' = Logged \cup {NewEntry} /\ NewEntry \in AuditEntries
      /\ IsFiniteSet(Logged) /\ IsFiniteSet(Logged')
  BY <1>1, LoggedGrows, FS_AddElement DEF AuditInv
<1>3. /\ buffer' \in Seq(AuditEntries) /\ dropped' \in Nat /\ buffer'[Len(buffer')] = NewEntry
      /\ \/ /\ dropped' = dropped /\ Len(buffer') = n + 1
            /\ \A k \in 1..n : buffer'[k] = buffer[k]
         \/ /\ dropped' = dropped + 1 /\ Len(buffer') = n /\ n > 0
            /\ \A k \in 1..(n - 1) : buffer'[k] = buffer[k + 1]
  BY <1>2, PersistFacts DEF AuditInv
<1>4. DOMAIN buffer' = 1..Len(buffer') /\ Len(buffer') \in Nat
  BY <1>3, LenProperties
<1>5. /\ IsFiniteSet(Logged \ Standing) /\ Cardinality(Logged \ Standing) \in Nat
      /\ Cardinality(Logged \ Standing) <= dropped + shifted
  BY <1>2, FS_Difference, FS_CardinalityType DEF AuditInv
<1>6. /\ IsFiniteSet(Logged \ Flushed) /\ Cardinality(Logged \ Flushed) \in Nat
      /\ flushing.on => Cardinality(Logged \ Flushed) + Overrun <= dropped + shifted
  BY <1>2, FS_Difference, FS_CardinalityType DEF AuditInv
<1>7. /\ Rest = {buffer[k] : k \in (i + 1)..n} /\ Rest' = {buffer'[k] : k \in (i + 1)..Len(buffer')}
      /\ ToSet(buffer) = {buffer[k] : k \in 1..n}
      /\ ToSet(buffer') = {buffer'[k] : k \in 1..Len(buffer')}
  BY <1>1, <1>4 DEF Rest, ToSet
<1>8. Overrun = (IF i > n THEN i - n ELSE 0) /\ Overrun' = IF i > Len(buffer') THEN i - Len(buffer') ELSE 0
  BY DEF Overrun
<1>9. /\ Standing = auditLog \cup ToSet(buffer) /\ Standing' = auditLog \cup ToSet(buffer')
      /\ \A x : x \in Flushed /\ x \notin Rest => x \in Flushed'
      /\ Rest' \subseteq Flushed'
  BY DEF Standing, Flushed
<1> HIDE DEF n, i, old, next
<1>a. CASE /\ dropped' = dropped /\ Len(buffer') = n + 1
           /\ \A k \in 1..n : buffer'[k] = buffer[k]
  <2>1. ToSet(buffer) \subseteq ToSet(buffer') /\ NewEntry \in ToSet(buffer')
    BY <1>1, <1>3, <1>7, <1>a
  <2>2. Logged' \ Standing' \subseteq Logged \ Standing
    BY <1>2, <1>9, <2>1
  <2>3. Cardinality(Logged' \ Standing') <= dropped' + shifted'
    BY <1>1, <1>3, <1>5, <1>a, <2>2, CountOfPart
  <2>4. Rest \subseteq Rest'
    BY <1>1, <1>7, <1>a
  <2>5. CASE i <= n
    <3>1. NewEntry \in Rest'
      BY <1>1, <1>3, <1>7, <1>a, <2>5
    <3>2. Logged' \ Flushed' \subseteq Logged \ Flushed
      BY <1>2, <1>9, <2>4, <3>1
    <3>3. /\ Cardinality(Logged' \ Flushed') <= Cardinality(Logged \ Flushed)
          /\ Cardinality(Logged' \ Flushed') \in Nat
      BY <1>6, <3>2, CountOfPart
    <3>4. Overrun = 0 /\ Overrun' = 0
      BY <1>1, <1>8, <1>a, <2>5
    <3> QED
      BY <1>1, <1>2, <1>6, <1>a, <2>3, <3>3, <3>4
  <2>6. CASE i > n
    <3>1. Logged' \ Flushed' \subseteq (Logged \ Flushed) \cup {NewEntry}
      BY <1>2, <1>9, <2>4
    <3>2. /\ Cardinality(Logged' \ Flushed') <= Cardinality(Logged \ Flushed) + 1
          /\ Cardinality(Logged' \ Flushed') \in Nat
      BY <1>6, <3>1, CountOfOneMore
    <3>3. Overrun' = Overrun - 1 /\ Overrun \in Nat
      BY <1>1, <1>8, <1>a, <2>6
    <3> QED
      BY <1>1, <1>2, <1>6, <1>a, <2>3, <3>2, <3>3
  <2> QED
    BY <1>1, <2>5, <2>6
<1>b. CASE /\ dropped' = dropped + 1 /\ Len(buffer') = n /\ n > 0
           /\ \A k \in 1..(n - 1) : buffer'[k] = buffer[k + 1]
  <2>0. \A k \in 2..n : buffer[k] = buffer'[k - 1]
    BY <1>1, <1>b
  <2>1. ToSet(buffer) \subseteq ToSet(buffer') \cup {old} /\ NewEntry \in ToSet(buffer')
    <3>1. \A k \in 1..n : buffer[k] \in ToSet(buffer') \cup {old}
      BY <1>1, <1>7, <1>b, <2>0 DEF old
    <3>2. n \in 1..n
      BY <1>1, <1>b
    <3> QED
      BY <1>3, <1>7, <1>b, <3>1, <3>2
  <2>2. Logged' \ Standing' \subseteq (Logged \ Standing) \cup {old}
    BY <1>2, <1>9, <2>1
  <2>3. Cardinality(Logged' \ Standing') <= dropped' + shifted'
    <3>1. /\ Cardinality(Logged' \ Standing') <= Cardinality(Logged \ Standing) + 1
          /\ Cardinality(Logged' \ Standing') \in Nat
      BY <1>5, <2>2, CountOfOneMore
    <3> QED
      BY <1>1, <1>5, <1>b, <3>1
  <2>4. Overrun' = Overrun /\ Overrun \in Nat
    BY <1>1, <1>8, <1>b
  <2>5. \E x : Logged' \ Flushed' \subseteq (Logged \ Flushed) \cup {x}
    <3>1. CASE i < n
      <4>1. \A k \in (i + 1)..n : buffer[k] \in Rest' \cup {next}
        <5> TAKE k \in (i + 1)..n
        <5>1. CASE k = i + 1
          BY <5>1 DEF next
        <5>2. CASE k # i + 1
          <6>1. k - 1 \in (i + 1)..n /\ k \in 2..n
            BY <1>1, <5>2
          <6> QED
            BY <1>7, <1>b, <2>0, <6>1
        <5> QED
          BY <5>1, <5>2
      <4>2. n \in (i + 1)..n
        BY <1>1, <3>1
      <4>3. Rest \subseteq Rest' \cup {next} /\ NewEntry \in Rest'
        BY <1>3, <1>7, <1>b, <4>1, <4>2
      <4>4. Logged' \ Flushed' \subseteq (Logged \ Flushed) \cup {next}
        BY <1>2, <1>9, <4>3
      <4> QED
        BY <4>4
    <3>2. CASE i >= n
      <4>1. Rest = {}
        BY <1>1, <1>7, <3>2
      <4>2. Logged' \ Flushed' \subseteq (Logged \ Flushed) \cup {NewEntry}
        BY <1>2, <1>9, <4>1
      <4> QED
        BY <4>2
    <3> QED
      BY <1>1, <3>1, <3>2
  <2>6. /\ Cardinality(Logged' \ Flushed') <= Cardinality(Logged \ Flushed) + 1
        /\ Cardinality(Logged' \ Flushed') \in Nat
    BY <1>6, <2>5, CountOfOneMore
  <2> QED
    BY <1>1, <1>2, <1>6, <1>b, <2>3, <2>4, <2>6
<1> QED
  BY <1>3, <1>a, <1>b

\* log_async takes out of the buffer only what it has written; for a flush under way the
\* next entry moves under its index and is passed over, which shifted counts.
LEMMA AsyncKeeps ==
    ASSUME AuditInv, NEW entry \in writing, NEW result \in Outcomes, AsyncWritten(entry, result)
    PROVE  AuditInv'
<1> DEFINE n == Len(buffer)
           i == flushing.i
           next == buffer[i + 1]
           p == PlaceOf(entry)
           there == result = "ok" /\ Contains(buffer, entry)
<1>1. /\ lastHash \in Nat /\ dropped \in Nat /\ shifted \in Nat /\ i \in Nat /\ n \in Nat
      /\ buffer \in Seq(AuditEntries) /\ DOMAIN buffer = 1..n
  BY LenProperties DEF AuditInv, AuditTypes
<1>2. /\ UNCHANGED <<lastHash, dropped, flushing>> /\ writing' = writing \ {entry}
      /\ auditLog' = Inserted(entry, result)
      /\ buffer' = IF there THEN RemoveAt(buffer, p) ELSE buffer
      /\ shifted' = IF there /\ flushing.on THEN shifted + 1 ELSE shifted
  BY DEF AsyncWritten
<1>3. auditLog \subseteq auditLog' /\ (result = "ok" => entry \in auditLog')
  BY <1>2 DEF Inserted
<1>4. Logged' = Logged /\ IsFiniteSet(Logged)
  BY <1>2 DEF Logged, AuditInv
<1>5. /\ IsFiniteSet(Logged \ Standing) /\ Cardinality(Logged \ Standing) \in Nat
      /\ Cardinality(Logged \ Standing) <= dropped + shifted
  BY <1>4, FS_Difference, FS_CardinalityType DEF AuditInv
<1>6. /\ IsFiniteSet(Logged \ Flushed) /\ Cardinality(Logged \ Flushed) \in Nat
      /\ flushing.on => Cardinality(Logged \ Flushed) + Overrun <= dropped + shifted
  BY <1>4, FS_Difference, FS_CardinalityType DEF AuditInv
<1>7. CASE ~ there
  <2>1. buffer' = buffer /\ shifted' = shifted
    BY <1>2, <1>7
  <2>2. AuditTypes'
    BY <1>2, <2>1 DEF AuditInv, AuditTypes
  <2>3. Logged' \ Standing' \subseteq Logged \ Standing
    BY <1>3, <1>4, <2>1 DEF Standing
  <2>4. Logged' \ Flushed' \subseteq Logged \ Flushed /\ Overrun' = Overrun
    BY <1>2, <1>3, <1>4, <2>1 DEF Flushed, Rest, Overrun
  <2>5. Overrun \in Nat
    BY <1>1 DEF Overrun
  <2>6. /\ Cardinality(Logged' \ Standing') <= Cardinality(Logged \ Standing)
        /\ Cardinality(Logged' \ Standing') \in Nat
        /\ Cardinality(Logged' \ Flushed') <= Cardinality(Logged \ Flushed)
        /\ Cardinality(Logged' \ Flushed') \in Nat
    BY <1>5, <1>6, <2>3, <2>4, CountOfPart
  <2>7. /\ Cardinality(Logged' \ Standing') <= dropped' + shifted'
        /\ flushing'.on => Cardinality(Logged' \ Flushed') + Overrun' <= dropped' + shifted'
    BY <1>1, <1>2, <1>5, <1>6, <2>1, <2>4, <2>5, <2>6
  <2> QED
    BY <1>4, <2>2, <2>7 DEF AuditInv
<1>8. CASE there
  <2>1. p \in 1..n /\ buffer[p] = entry
    BY <1>1, <1>8 DEF Contains, PlaceOf
  <2>2. buffer' = RemoveAt(buffer, p)
    BY <1>2, <1>8
  <2>3. /\ buffer' \in Seq(AuditEntries) /\ Len(buffer') = n - 1
        /\ \A k \in 1..(n - 1) : buffer'[k] = IF k < p THEN buffer[k] ELSE buffer[k + 1]
    BY <1>1, <2>1, <2>2, RemoveAtFacts
  <2>4. DOMAIN buffer' = 1..(n - 1)
    BY <2>3, LenProperties
  <2>5. /\ Rest = {buffer[k] : k \in (i + 1)..n} /\ Rest' = {buffer'[k] : k \in (i + 1)..(n - 1)}
        /\ ToSet(buffer) = {buffer[k] : k \in 1..n}
        /\ ToSet(buffer') = {buffer'[k] : k \in 1..(n - 1)}
    BY <1>1, <1>2, <2>3, <2>4 DEF Rest, ToSet
  <2>6. /\ Overrun = (IF i > n THEN i - n ELSE 0)
        /\ Overrun' = IF i > n - 1 THEN i - (n - 1) ELSE 0
    BY <1>2, <2>3 DEF Overrun
  <2>7. /\ Standing = auditLog \cup ToSet(buffer) /\ Standing' = auditLog' \cup ToSet(buffer')
        /\ \A x : x \in Flushed /\ x \notin Rest => x \in Flushed'
        /\ Rest' \subseteq Flushed' /\ auditLog' \subseteq Flushed'
    BY <1>2, <1>3 DEF Standing, Flushed
  <2>8. entry \in auditLog'
    BY <1>3, <1>8
  <2>9. AuditTypes'
    <3>1. shifted' \in Nat
      BY <1>1, <1>2
    <3>2. writing' \subseteq AuditEntries
      BY <1>2 DEF AuditInv, AuditTypes
    <3> QED
      BY <1>2, <2>3, <3>1, <3>2 DEF AuditInv, AuditTypes
  <2> HIDE DEF n, i, next, p, there
  \* Everything else finds its place one further up or where it was.
  <2>10. \A k \in 1..n : k = p \/ (k < p /\ k \in 1..(n - 1) /\ buffer[k] = buffer'[k])
                               \/ (k > p /\ k - 1 \in 1..(n - 1) /\ buffer[k] = buffer'[k - 1])
    <3> TAKE k \in 1..n
    <3>1. CASE k < p
      BY <1>1, <2>1, <2>3, <3>1
    <3>2. CASE k > p
      <4>1. k - 1 \in 1..(n - 1) /\ ~ (k - 1 < p) /\ (k - 1) + 1 = k
        BY <1>1, <2>1, <3>2
      <4>2. buffer'[k - 1] = buffer[(k - 1) + 1]
        BY <2>3, <4>1
      <4> QED
        BY <3>2, <4>1, <4>2
    <3>3. k < p \/ k > p \/ k = p
      BY <1>1, <2>1
    <3> QED
      BY <3>1, <3>2, <3>3
  <2>11. ToSet(buffer) \subseteq ToSet(buffer') \cup {entry}
    BY <2>1, <2>5, <2>10
  <2>12. Logged' \ Standing' \subseteq Logged \ Standing
    BY <1>3, <1>4, <2>7, <2>8, <2>11
  <2>13. Cardinality(Logged' \ Standing') <= dropped' + shifted'
    <3>1. /\ Cardinality(Logged' \ Standing') <= Cardinality(Logged \ Standing)
          /\ Cardinality(Logged' \ Standing') \in Nat
      BY <1>5, <2>12, CountOfPart
    <3> QED
      BY <1>1, <1>2, <1>5, <3>1
  <2>14. ASSUME flushing.on
         PROVE  Cardinality(Logged' \ Flushed') + Overrun' <= dropped' + shifted'
    <3>1. shifted' = shifted + 1 /\ dropped' = dropped
      BY <1>2, <1>8, <2>14
    <3>2. CASE i < n
      <4>1. \A k \in (i + 1)..n : buffer[k] \in Rest' \cup {next, entry}
        <5> TAKE k \in (i + 1)..n
        <5>1. CASE k = i + 1
          BY <5>1 DEF next
        <5>2. CASE k = p
          BY <2>1, <5>2
        <5>3. CASE k # i + 1 /\ k # p
          <6>1. k \in 1..n /\ k - 1 \in (i + 1)..n
            BY <1>1, <5>3
          <6>2. CASE k < p
            <7>1. k \in (i + 1)..(n - 1) /\ buffer[k] = buffer'[k]
              BY <1>1, <2>1, <2>10, <6>1, <6>2
            <7> QED
              BY <2>5, <7>1
          <6>3. CASE k > p
            <7>1. k - 1 \in (i + 1)..(n - 1) /\ buffer[k] = buffer'[k - 1]
              BY <1>1, <2>1, <2>10, <6>1, <6>3
            <7> QED
              BY <2>5, <7>1
          <6>4. k < p \/ k > p
            BY <1>1, <2>1, <5>3
          <6> QED
            BY <6>2, <6>3, <6>4
        <5> QED
          BY <5>1, <5>2, <5>3
      <4>2. Rest \subseteq Rest' \cup {next, entry}
        BY <2>5, <4>1
      <4>3. Logged' \ Flushed' \subseteq (Logged \ Flushed) \cup {next}
        BY <1>4, <2>7, <2>8, <4>2
      <4>4. /\ Cardinality(Logged' \ Flushed') <= Cardinality(Logged \ Flushed) + 1
            /\ Cardinality(Logged' \ Flushed') \in Nat
        BY <1>6, <4>3, CountOfOneMore
      <4>5. Overrun = 0 /\ Overrun' = 0
        BY <1>1, <2>6, <3>2
      <4> QED
        BY <1>1, <1>6, <2>14, <3>1, <4>4, <4>5
    <3>3. CASE i >= n
      <4>1. Rest = {}
        BY <1>1, <2>5, <3>3
      <4>2. Logged' \ Flushed' \subseteq Logged \ Flushed
        BY <1>4, <2>7, <4>1
      <4>3. /\ Cardinality(Logged' \ Flushed') <= Cardinality(Logged \ Flushed)
            /\ Cardinality(Logged' \ Flushed') \in Nat
        BY <1>6, <4>2, CountOfPart
      <4>4. Overrun' = Overrun + 1 /\ Overrun \in Nat
        BY <1>1, <2>6, <3>3
      <4> QED
        BY <1>1, <1>6, <2>14, <3>1, <4>3, <4>4
    <3> QED
      BY <1>1, <3>2, <3>3
  <2>15. flushing'.on = flushing.on
    BY <1>2
  <2> QED
    BY <1>4, <2>9, <2>13, <2>14, <2>15 DEF AuditInv
<1> QED
  BY <1>7, <1>8

\* A flush begins with everything the buffer holds before it.
LEMMA BeginKeeps ==
    ASSUME AuditInv, FlushBegins, buffer # <<>>, auditLog \subseteq auditLog',
           UNCHANGED <<lastHash, buffer, dropped, writing, shifted>>
    PROVE  AuditInv'
<1> DEFINE n == Len(buffer)
<1>1. /\ buffer \in Seq(AuditEntries) /\ n \in Nat \ {0} /\ DOMAIN buffer = 1..n
      /\ dropped \in Nat /\ shifted \in Nat
  BY EmptySeq, LenProperties DEF AuditInv, AuditTypes
<1>2. /\ flushing' = [on |-> TRUE, i |-> 1, entry |-> buffer[1], remaining |-> <<>>]
      /\ buffer[1] \in AuditEntries
  BY <1>1, ElementOfSeq DEF FlushBegins
<1>3. AuditTypes'
  BY <1>2 DEF AuditInv, AuditTypes
<1>4. Logged' = Logged /\ IsFiniteSet(Logged)
  BY DEF Logged, AuditInv
<1>5. /\ IsFiniteSet(Logged \ Standing) /\ Cardinality(Logged \ Standing) \in Nat
      /\ Cardinality(Logged \ Standing) <= dropped + shifted
  BY <1>4, FS_Difference, FS_CardinalityType DEF AuditInv
<1>6. ToSet(buffer) = {buffer[k] : k \in 1..n} /\ Rest' = {buffer[k] : k \in 2..n} /\ Overrun' = 0
  BY <1>1, <1>2 DEF ToSet, Rest, Overrun
<1>7. Standing \subseteq Standing'
  BY DEF Standing
<1>8. Standing \subseteq Flushed'
  <2>1. \A k \in 1..n : buffer[k] \in Rest' \cup {flushing'.entry}
    BY <1>1, <1>2, <1>6
  <2>2. auditLog \subseteq Flushed' /\ Rest' \cup {flushing'.entry} \subseteq Flushed'
    BY DEF Flushed
  <2> QED
    BY <1>6, <2>1, <2>2 DEF Standing
<1>9. Logged' \ Standing' \subseteq Logged \ Standing /\ Logged' \ Flushed' \subseteq Logged \ Standing
  BY <1>4, <1>7, <1>8
<1>10. /\ Cardinality(Logged' \ Standing') <= Cardinality(Logged \ Standing)
       /\ Cardinality(Logged' \ Flushed') <= Cardinality(Logged \ Standing)
       /\ Cardinality(Logged' \ Standing') \in Nat /\ Cardinality(Logged' \ Flushed') \in Nat
  BY <1>5, <1>9, CountOfPart
<1>11. /\ Cardinality(Logged' \ Standing') <= dropped' + shifted'
       /\ Cardinality(Logged' \ Flushed') + Overrun' <= dropped' + shifted'
  BY <1>1, <1>5, <1>6, <1>10
<1> QED
  BY <1>3, <1>4, <1>11 DEF AuditInv

\* A write of the flush ends: its entry is in the table or to be standing, and the flush goes
\* on to the next index or puts what it standing in the place of the buffer.
LEMMA WrittenKeeps ==
    ASSUME AuditInv, NEW result \in Outcomes, FlushWritten(result)
    PROVE  AuditInv'
<1> DEFINE n == Len(buffer)
           i == flushing.i
           standing == Kept(result)
<1>1. /\ dropped \in Nat /\ shifted \in Nat /\ i \in Nat /\ n \in Nat
      /\ flushing.on /\ flushing.entry \in AuditEntries
      /\ buffer \in Seq(AuditEntries) /\ flushing.remaining \in Seq(AuditEntries)
  BY LenProperties DEF AuditInv, AuditTypes, FlushWritten
<1>2. UNCHANGED <<lastHash, dropped, writing, shifted>> /\ auditLog' = Inserted(flushing.entry, result)
  BY DEF FlushWritten
<1>3. /\ standing \in Seq(AuditEntries) /\ auditLog \subseteq auditLog'
      /\ ToSet(flushing.remaining) \cup {flushing.entry} \subseteq auditLog' \cup ToSet(standing)
  <2>1. CASE result = "ok"
    BY <1>1, <1>2, <2>1 DEF Kept, Inserted
  <2>2. CASE result # "ok"
    <3> DEFINE r == flushing.remaining
    <3>1. standing = Append(r, flushing.entry)
      BY <2>2 DEF Kept
    <3>2. /\ standing \in Seq(AuditEntries) /\ Len(standing) = Len(r) + 1 /\ standing[Len(r) + 1] = flushing.entry
          /\ \A k \in 1..Len(r) : standing[k] = r[k]
      BY <1>1, <3>1, AppendProperties
    <3>3. DOMAIN standing = 1..(Len(r) + 1) /\ DOMAIN r = 1..Len(r) /\ Len(r) \in Nat
      BY <1>1, <3>2, LenProperties
    <3> HIDE DEF standing, r
    <3>4. ToSet(r) \cup {flushing.entry} \subseteq ToSet(standing)
      BY <3>2, <3>3 DEF ToSet
    <3> QED
      BY <1>2, <3>2, <3>4 DEF Inserted, r
  <2> QED
    BY <2>1, <2>2
<1>4. Logged' = Logged /\ IsFiniteSet(Logged)
  BY <1>2 DEF Logged, AuditInv
<1>5. /\ IsFiniteSet(Logged \ Standing) /\ Cardinality(Logged \ Standing) \in Nat
      /\ Cardinality(Logged \ Standing) <= dropped + shifted
  BY <1>4, FS_Difference, FS_CardinalityType DEF AuditInv
<1>6. /\ IsFiniteSet(Logged \ Flushed) /\ Cardinality(Logged \ Flushed) \in Nat
      /\ Cardinality(Logged \ Flushed) + Overrun <= dropped + shifted
  BY <1>1, <1>4, FS_Difference, FS_CardinalityType DEF AuditInv
<1>7. Overrun \in Nat
  BY <1>1 DEF Overrun
<1>8. Rest = {buffer[k] : k \in (i + 1)..n}
  BY DEF Rest
<1>9. Flushed \subseteq auditLog' \cup ToSet(standing) \cup Rest
  BY <1>3 DEF Flushed
<1>10. CASE i + 1 <= n
  <2>1. /\ flushing' = [on |-> TRUE, i |-> i + 1, entry |-> buffer[i + 1], remaining |-> standing]
        /\ buffer' = buffer
    BY <1>10 DEF FlushWritten
  <2>2. buffer[i + 1] \in AuditEntries
    BY <1>1, <1>10, ElementOfSeq
  <2> HIDE DEF standing
  <2>3. AuditTypes'
    BY <1>1, <1>2, <1>3, <2>1, <2>2 DEF AuditInv, AuditTypes
  <2>4. Rest' = {buffer[k] : k \in (i + 2)..n} /\ Overrun' = 0
    BY <1>1, <1>10, <2>1 DEF Rest, Overrun
  <2>5. Rest \subseteq Rest' \cup {buffer[i + 1]}
    <3>1. \A k \in (i + 1)..n : k = i + 1 \/ k \in (i + 2)..n
      BY <1>1
    <3> QED
      BY <1>8, <2>4, <3>1
  <2>6. Flushed' = auditLog' \cup ToSet(standing) \cup {buffer[i + 1]} \cup Rest'
    BY <2>1 DEF Flushed
  <2>7. Logged' \ Flushed' \subseteq Logged \ Flushed /\ Logged' \ Standing' \subseteq Logged \ Standing
    BY <1>3, <1>4, <1>9, <2>1, <2>5, <2>6 DEF Standing
  <2>8. /\ Cardinality(Logged' \ Flushed') <= Cardinality(Logged \ Flushed)
        /\ Cardinality(Logged' \ Standing') <= Cardinality(Logged \ Standing)
        /\ Cardinality(Logged' \ Flushed') \in Nat /\ Cardinality(Logged' \ Standing') \in Nat
    BY <1>5, <1>6, <2>7, CountOfPart
  <2>9. /\ Cardinality(Logged' \ Standing') <= dropped' + shifted'
        /\ Cardinality(Logged' \ Flushed') + Overrun' <= dropped' + shifted'
    BY <1>1, <1>2, <1>5, <1>6, <1>7, <2>4, <2>8
  <2> QED
    BY <1>4, <2>3, <2>9 DEF AuditInv
<1>11. CASE ~ (i + 1 <= n)
  <2>1. flushing' = NotFlushing /\ buffer' = standing
    BY <1>11 DEF FlushWritten
  <2> HIDE DEF standing
  <2>2. AuditTypes'
    BY <1>1, <1>2, <1>3, <2>1 DEF AuditInv, AuditTypes, NotFlushing, AuditEntries
  <2>3. Rest = {}
    BY <1>1, <1>8, <1>11
  <2>4. Logged' \ Standing' \subseteq Logged \ Flushed
    BY <1>4, <1>9, <2>1, <2>3 DEF Standing
  <2>5. /\ Cardinality(Logged' \ Standing') <= Cardinality(Logged \ Flushed)
        /\ Cardinality(Logged' \ Standing') \in Nat
    BY <1>6, <2>4, CountOfPart
  <2>6. Cardinality(Logged' \ Standing') <= dropped' + shifted'
    BY <1>1, <1>2, <1>6, <1>7, <2>5
  <2>7. ~ flushing'.on
    BY <2>1 DEF NotFlushing
  <2> QED
    BY <1>4, <2>2, <2>6, <2>7 DEF AuditInv
<1> QED
  BY <1>10, <1>11

\* The log starts empty, with nothing lost.
LEMMA AuditInvStart == AuditInit => AuditInv
<1> SUFFICES ASSUME AuditInit PROVE AuditInv
  OBVIOUS
<1>1. AuditTypes
  BY EmptySeq DEF AuditInit, AuditTypes, NotFlushing, AuditEntries
<1>2. Logged = {} /\ ~ flushing.on /\ dropped = 0 /\ shifted = 0
  BY DEF AuditInit, Logged, NotFlushing
<1>3. IsFiniteSet(Logged) /\ Cardinality(Logged \ Standing) = 0
  <2>1. Logged \ Standing = {}
    BY <1>2
  <2> QED
    BY <1>2, <2>1, FS_EmptySet
<1> QED
  BY <1>1, <1>2, <1>3 DEF AuditInv

\* Without a flush under way only the table can grow.
LEMMA StandingKeeps ==
    ASSUME AuditInv, auditLog \subseteq auditLog',
           flushing' \in {flushing, NotFlushing}, flushing'.on => auditLog' = auditLog,
           UNCHANGED <<lastHash, buffer, dropped, writing, shifted>>
    PROVE  AuditInv'
<1>1. AuditTypes'
  <2>1. NotFlushing \in [on : BOOLEAN, i : Nat, entry : AuditEntries, remaining : Seq(AuditEntries)]
    BY EmptySeq DEF NotFlushing, AuditEntries
  <2> QED
    BY <2>1 DEF AuditInv, AuditTypes
<1>2. Logged' = Logged /\ IsFiniteSet(Logged)
  BY DEF Logged, AuditInv
<1>3. Cardinality(Logged' \ Standing') <= dropped' + shifted'
  <2>1. IsFiniteSet(Logged \ Standing) /\ Cardinality(Logged \ Standing) <= dropped + shifted
    BY <1>2, FS_Difference DEF AuditInv
  <2>2. Logged' \ Standing' \subseteq Logged \ Standing
    BY <1>2 DEF Standing
  <2>3. /\ Cardinality(Logged' \ Standing') <= Cardinality(Logged \ Standing)
        /\ Cardinality(Logged' \ Standing') \in Nat /\ Cardinality(Logged \ Standing) \in Nat
    BY <2>1, <2>2, CountOfPart
  <2> QED
    BY <2>1, <2>3 DEF AuditInv, AuditTypes
<1>4. flushing'.on => Cardinality(Logged' \ Flushed') + Overrun' <= dropped' + shifted'
  <2> HAVE flushing'.on
  <2>1. flushing' = flushing /\ auditLog' = auditLog
    BY DEF NotFlushing
  <2>2. Flushed' = Flushed /\ Overrun' = Overrun
    BY <2>1 DEF Flushed, Rest, Overrun
  <2> QED
    BY <1>2, <2>1, <2>2 DEF AuditInv
<1> QED
  BY <1>1, <1>2, <1>3, <1>4 DEF AuditInv

\* Every step keeps AuditInv.
LEMMA AuditInvStep == AuditInv /\ [AuditNext]_auditVars => AuditInv'
<1> SUFFICES ASSUME AuditInv, [AuditNext]_auditVars PROVE AuditInv'
  OBVIOUS
<1>1. CASE \E ok \in BOOLEAN : ConnectAudit(ok)
  BY <1>1, StandingKeeps DEF ConnectAudit
<1>2. CASE Log
  <2>1. Persist(NewEntry) /\ lastHash' = NewEntry.hash /\ UNCHANGED <<flushing, writing, auditLog, shifted>>
    BY <1>2 DEF Log
  <2>2. AuditTypes'
    BY <2>1, LoggedGrows, PersistFacts DEF AuditInv, AuditTypes
  <2> QED
    BY <2>1, <2>2, PersistKeeps DEF AuditInv
<1>3. CASE LogAsync
  <2>1. /\ Persist(NewEntry) /\ lastHash' = NewEntry.hash /\ UNCHANGED <<flushing, auditLog, shifted>>
        /\ writing' \subseteq writing \cup {NewEntry}
    BY <1>3 DEF LogAsync
  <2>2. AuditTypes'
    BY <2>1, LoggedGrows, PersistFacts DEF AuditInv, AuditTypes
  <2> QED
    BY <2>1, <2>2, PersistKeeps DEF AuditInv
<1>4. CASE PeriodicFlush
  BY <1>4, BeginKeeps DEF PeriodicFlush
<1>5. ASSUME NEW result \in Outcomes, NEW entry \in writing, AsyncWritten(entry, result)
      PROVE  AuditInv'
  BY <1>5, AsyncKeeps
<1>6. ASSUME NEW result \in Outcomes, FlushWritten(result)
      PROVE  AuditInv'
  BY <1>6, WrittenKeeps
<1>7. ASSUME NEW result \in Outcomes, CloseAudit(result)
      PROVE  AuditInv'
  <2>1. auditLog \subseteq auditLog' /\ UNCHANGED <<lastHash, buffer, dropped, writing, shifted>>
    BY <1>7 DEF CloseAudit, Inserted
  <2>2. CASE pool /\ buffer # <<>>
    BY <1>7, <2>1, <2>2, BeginKeeps DEF CloseAudit
  <2>3. CASE ~ (pool /\ buffer # <<>>)
    <3>1. flushing' = NotFlushing /\ ~ flushing'.on
      BY <1>7, <2>3 DEF CloseAudit, NotFlushing
    <3> QED
      BY <2>1, <3>1, StandingKeeps
  <2> QED
    BY <2>2, <2>3
<1>8. CASE UNCHANGED auditVars
  BY <1>8, StandingKeeps DEF auditVars
<1> QED
  BY <1>1, <1>2, <1>3, <1>4, <1>5, <1>6, <1>7, <1>8 DEF AuditNext

\* No more entries of the audit trail are lost than AUDIT_BUFFER_DROPS and the removals
\* of log_async during a flush say, for any size of the buffer and any failing writes
\* (PostgresAuditTrail.log, log_async, flush and close).
THEOREM AuditLossesAlwaysCounted == AuditSpec => []AuditLossesCounted
<1>1. AuditInv => AuditLossesCounted
  <2> SUFFICES ASSUME AuditInv PROVE AuditLossesCounted
    OBVIOUS
  <2>1. /\ IsFiniteSet(Logged \ Standing) /\ Cardinality(Logged \ Standing) <= dropped + shifted
        /\ dropped \in Nat /\ shifted \in Nat
    BY FS_Difference DEF AuditInv, AuditTypes
  <2>2. Logged \ Held \subseteq Logged \ Standing
    BY DEF Held, Standing
  <2>3. /\ Cardinality(Logged \ Held) <= Cardinality(Logged \ Standing)
        /\ Cardinality(Logged \ Held) \in Nat /\ Cardinality(Logged \ Standing) \in Nat
    BY <2>1, <2>2, CountOfPart
  <2> QED
    BY <2>1, <2>3 DEF AuditLossesCounted
<1> QED
  BY <1>1, AuditInvStart, AuditInvStep, PTL DEF AuditSpec

-----------------------------------------------------------------------------
(* The bridge process, for any number of calls, pending orders and         *)
(* reconnects, a terminal that may die or lose its broker at any step and  *)
(* a broker that acts on a request at any time after it left.  The         *)
(* inductive invariant has four parts that no action ties together.        *)

\* The calls: a handler answers for a thread that is done, and a thread that returned
\* FILLED or PENDING has its order at the broker.
CallInv ==
    /\ handler \in [Calls -> {"none", "waiting", "answered", "cut"}]
    /\ thread \in [Calls -> {"none", "queued", "sending", "done"}]
    /\ outcome \in [Calls -> {"none", "FILLED", "PENDING", "REJECTED", "ERROR"}]
    /\ \A c \in Calls : handler[c] = "none" => thread[c] = "none"
    /\ \A c \in Calls : handler[c] = "answered" => thread[c] = "done"
    /\ \A c \in Calls : outcome[c] \in {"FILLED", "PENDING"} => c \in placed

Serving == {"boot", "serving"}
Shutting == {"list", "cancel", "look"}
ServerDown == {"close", "disconnect", "drain", "over"}

\* The stages: what main has ended stays ended.
StageInv ==
    /\ stage \in Serving \cup Shutting \cup {"grace"} \cup ServerDown
    /\ stage = "boot" <=> monitor = "new"
    /\ stage \notin Serving => monitor = "gone"
    /\ stage \in {"grace"} \cup ServerDown => server # "listening"
    /\ stage \in ServerDown => \A c \in Calls : handler[c] # "waiting"
    /\ stage = "over" => \A c \in Calls : thread[c] \in {"none", "done"}
    /\ stage \in {"disconnect", "drain", "over"} => recorder # "open"

\* The pending orders: once main has asked for the list it has each still before it,
\* could not cancel it, or it came later.
OrderInv ==
    /\ stage \notin Serving \cup {"list"} => pending \subseteq kept \cup missed \cup todo
    /\ stage # "cancel" => todo = {}

\* The session: there is none that the connector does not know of, and none at the end.
SessionInv ==
    /\ flag \in BOOLEAN /\ session \in BOOLEAN
    /\ session => flag
    /\ stage \in {"drain", "over"} => ~flag

BridgeInv == CallInv /\ StageInv /\ OrderInv /\ SessionInv

-----------------------------------------------------------------------------
\* Only the steps of a call, and the end of the server's grace, change a call.
LEMMA CallStep ==
    ASSUME CallInv, StageInv, BridgeNext
    PROVE  CallInv'
<1> USE DEF callVars, orderVars
<1>1. ASSUME UNCHANGED callVars, placed \subseteq placed' PROVE CallInv'
  BY <1>1 DEF CallInv
<1>2. ASSUME NEW c \in Calls, ExecuteTrade(c) PROVE CallInv'
  <2>1. /\ handler' = [handler EXCEPT ![c] = "waiting"]
        /\ thread' = [thread EXCEPT ![c] = "queued"]
        /\ UNCHANGED <<outcome, placed>> /\ handler[c] = "none"
    BY <1>2 DEF ExecuteTrade
  <2> QED
    BY <2>1 DEF CallInv
<1>3. ASSUME NEW c \in Calls, ThreadRefused(c) PROVE CallInv'
  BY <1>3 DEF ThreadRefused, Returns, CallInv
<1>4. ASSUME NEW c \in Calls, ThreadSends(c) PROVE CallInv'
  BY <1>4 DEF ThreadSends, CallInv
<1>5. ASSUME NEW c \in Calls, SendEnds(c) PROVE CallInv'
  BY <1>5 DEF SendEnds, Returns, CallInv
<1>6. ASSUME NEW c \in Calls, HandlerAnswers(c) PROVE CallInv'
  BY <1>6 DEF HandlerAnswers, CallInv
<1>7. ASSUME NEW tardy \in SUBSET Calls, ServerStopped(tardy) PROVE CallInv'
  BY <1>7 DEF ServerStopped, CallInv
<1>8. ASSUME NEW c \in Calls, OrderReaches(c) PROVE CallInv'
  <2>1. UNCHANGED callVars /\ placed \subseteq placed'
    BY <1>8 DEF OrderReaches
  <2> QED
    BY <1>1, <2>1
<1> QED
  BY <1>1, <1>2, <1>3, <1>4, <1>5, <1>6, <1>7, <1>8
  DEF BridgeNext, Boot, MonitorWakes, RecordEnds, ReconnectShuts, ReconnectDials, MonitorBeats, Signal,
      ListPending, ListPositions, StopServer, CancelOrder, PendingTriggers, CloseRecorder,
      DisconnectAtEnd, ProcessEnds, TerminalChanges, MonitorUnchanged

\* Each stage keeps what the ones before it have ended.
LEMMA StageStep ==
    ASSUME CallInv, StageInv, BridgeNext
    PROVE  StageInv'
<1> USE DEF callVars, Serving, Shutting, ServerDown, StageInv
<1>1. CASE Boot
  BY <1>1 DEF Boot, RecorderConnects, ServerStarts
<1>2. CASE MonitorWakes \/ RecordEnds \/ ReconnectShuts \/ ReconnectDials \/ MonitorBeats
  BY <1>2 DEF MonitorWakes, RecordEnds, ReconnectShuts, ReconnectDials, MonitorBeats, MonitorUnchanged
<1>3. ASSUME NEW c \in Calls, ExecuteTrade(c) PROVE StageInv'
  BY <1>3 DEF ExecuteTrade
<1>4. ASSUME NEW c \in Calls, ThreadRefused(c) \/ ThreadSends(c) \/ OrderReaches(c) \/ SendEnds(c)
      PROVE  StageInv'
  BY <1>4 DEF ThreadRefused, OrderReaches, ThreadSends, SendEnds, Returns, CallInv
<1>5. ASSUME NEW c \in Calls, HandlerAnswers(c) PROVE StageInv'
  BY <1>5 DEF HandlerAnswers, CallInv
<1>6. CASE Signal \/ (\E ok \in BOOLEAN : ListPending(ok)) \/ ListPositions \/ StopServer
  BY <1>6 DEF Signal, ListPending, ListPositions, StopServer
<1>7. ASSUME NEW o \in Leftovers \cup LimitCalls, NEW ok \in BOOLEAN,
             CancelOrder(o, ok) \/ PendingTriggers(o)
      PROVE  StageInv'
  BY <1>7 DEF CancelOrder, PendingTriggers
<1>8. ASSUME NEW tardy \in SUBSET Calls, ServerStopped(tardy) PROVE StageInv'
  BY <1>8 DEF ServerStopped
<1>9. CASE CloseRecorder \/ DisconnectAtEnd \/ ProcessEnds \/ TerminalChanges
  BY <1>9 DEF CloseRecorder, DisconnectAtEnd, ProcessEnds, TerminalChanges
<1> QED
  BY <1>1, <1>2, <1>3, <1>4, <1>5, <1>6, <1>7, <1>8, <1>9 DEF BridgeNext

\* An order leaves main's list as it leaves the broker or is kept, and one that comes
\* after main asked for the list is missed.
LEMMA OrderStep ==
    ASSUME StageInv, OrderInv, BridgeNext
    PROVE  OrderInv'
<1> USE DEF orderVars, Serving, OrderInv
<1>1. CASE Boot
  BY <1>1 DEF Boot
<1>2. CASE MonitorWakes \/ RecordEnds \/ ReconnectShuts \/ ReconnectDials \/ MonitorBeats
  BY <1>2 DEF MonitorWakes, RecordEnds, ReconnectShuts, ReconnectDials, MonitorBeats, MonitorUnchanged
<1>3. ASSUME NEW c \in Calls, \/ ExecuteTrade(c) \/ ThreadRefused(c) \/ ThreadSends(c)
                              \/ SendEnds(c) \/ HandlerAnswers(c)
      PROVE  OrderInv'
  BY <1>3 DEF ExecuteTrade, ThreadRefused, ThreadSends, SendEnds, HandlerAnswers
<1>4. ASSUME NEW c \in Calls, OrderReaches(c) PROVE OrderInv'
  <2>1. /\ UNCHANGED <<stage, todo, kept>> /\ pending' \subseteq pending \cup {c}
        /\ missed' = IF stage \in Serving \cup {"list"} THEN missed ELSE missed \cup {c}
    BY <1>4 DEF OrderReaches
  <2> QED
    BY <2>1
<1>5. CASE Signal
  BY <1>5 DEF Signal
<1>6. ASSUME NEW ok \in BOOLEAN, ListPending(ok) PROVE OrderInv'
  <2>1. stage' = "cancel" /\ pending' = pending /\ (todo' = pending \/ kept' = pending)
    BY <1>6 DEF ListPending
  <2> QED
    BY <2>1
<1>7. CASE ListPositions \/ StopServer
  BY <1>7 DEF ListPositions, StopServer
<1>8. ASSUME NEW o \in Leftovers \cup LimitCalls, NEW ok \in BOOLEAN, CancelOrder(o, ok) PROVE OrderInv'
  <2>1. /\ stage = "cancel" /\ stage' = "cancel" /\ todo' = todo \ {o} /\ missed' = missed
        /\ \/ pending' = pending \ {o} /\ kept' = kept
           \/ pending' = pending /\ kept' = kept \cup {o}
    BY <1>8, Zenon DEF CancelOrder
  <2> QED
    BY <2>1
<1>9. ASSUME NEW o \in Leftovers \cup LimitCalls, PendingTriggers(o) PROVE OrderInv'
  BY <1>9 DEF PendingTriggers
<1>10. ASSUME NEW tardy \in SUBSET Calls, ServerStopped(tardy) PROVE OrderInv'
  BY <1>10 DEF ServerStopped
<1>11. CASE CloseRecorder \/ DisconnectAtEnd \/ ProcessEnds \/ TerminalChanges
  BY <1>11 DEF CloseRecorder, DisconnectAtEnd, ProcessEnds, TerminalChanges
<1> QED
  BY <1>1, <1>2, <1>3, <1>4, <1>5, <1>6, <1>7, <1>8, <1>9, <1>10, <1>11 DEF BridgeNext

\* No step leaves a session behind the connector's back.
LEMMA SessionStep ==
    ASSUME StageInv, SessionInv, BridgeNext
    PROVE  SessionInv'
<1> USE DEF SessionInv, mtVars
<1>1. CASE Boot
  BY <1>1 DEF Boot, Connect
<1>2. CASE MonitorWakes \/ MonitorBeats
  BY <1>2 DEF MonitorWakes, MonitorBeats, FlagAfterLook, MonitorUnchanged
<1>3. CASE RecordEnds
  BY <1>3 DEF RecordEnds, MonitorUnchanged
<1>4. CASE ReconnectShuts
  <2>1. stage' = stage
    BY <1>4 DEF ReconnectShuts, MonitorUnchanged
  <2> QED
    BY <1>4, <2>1 DEF ReconnectShuts, Disconnect
<1>5. CASE ReconnectDials
  <2>1. stage' = stage /\ stage \notin {"drain", "over"}
    BY <1>5 DEF ReconnectDials, MonitorUnchanged, StageInv, Serving
  <2> QED
    BY <1>5, <2>1 DEF ReconnectDials, Connect
<1>6. ASSUME NEW c \in Calls, \/ ExecuteTrade(c) \/ ThreadRefused(c) \/ ThreadSends(c)
                              \/ OrderReaches(c) \/ SendEnds(c) \/ HandlerAnswers(c)
      PROVE  SessionInv'
  BY <1>6 DEF ExecuteTrade, ThreadRefused, ThreadSends, OrderReaches, SendEnds, HandlerAnswers
<1>7. CASE Signal \/ ListPositions
  <2>1. stage' \notin {"drain", "over"}
    BY <1>7 DEF Signal, ListPositions
  <2> QED
    BY <1>7, <2>1 DEF Signal, ListPositions, FlagAfterLook
<1>8. CASE (\E ok \in BOOLEAN : ListPending(ok)) \/ StopServer \/ CloseRecorder \/ ProcessEnds
  <2>1. flag' = flag /\ session' = session
    BY <1>8 DEF ListPending, StopServer, CloseRecorder, ProcessEnds
  <2>2. stage' \in {"drain", "over"} => stage \in {"drain", "over"}
    BY <1>8 DEF ListPending, StopServer, CloseRecorder, ProcessEnds
  <2> QED
    BY <2>1, <2>2
<1>9. ASSUME NEW o \in Leftovers \cup LimitCalls, NEW ok \in BOOLEAN,
             CancelOrder(o, ok) \/ PendingTriggers(o)
      PROVE  SessionInv'
  BY <1>9 DEF CancelOrder, PendingTriggers
<1>10. ASSUME NEW tardy \in SUBSET Calls, ServerStopped(tardy) PROVE SessionInv'
  <2>1. stage' \notin {"drain", "over"} /\ flag' = flag /\ session' = session
    BY <1>10 DEF ServerStopped
  <2> QED
    BY <2>1
<1>11. CASE DisconnectAtEnd
  BY <1>11 DEF DisconnectAtEnd, Disconnect
<1>12. CASE TerminalChanges
  <2>1. flag' = flag /\ stage' = stage /\ (session' = session \/ session' = FALSE)
    BY <1>12, Zenon DEF TerminalChanges
  <2>2. CASE session' = session
    BY <2>1, <2>2
  <2>3. CASE session' = FALSE
    BY <2>1, <2>3
  <2> QED
    BY <2>1, <2>2, <2>3
<1> QED
  BY <1>1, <1>2, <1>3, <1>4, <1>5, <1>6, <1>7, <1>8, <1>9, <1>10, <1>11, <1>12 DEF BridgeNext

\* The invariant holds before the process connects anything.
LEMMA BridgeInvInit == BridgeInit => BridgeInv
<1> SUFFICES ASSUME BridgeInit PROVE BridgeInv
  OBVIOUS
<1>1. CallInv
  BY DEF BridgeInit, CallInv
<1>2. StageInv /\ OrderInv
  BY DEF BridgeInit, StageInv, OrderInv, Serving, Shutting, ServerDown
<1>3. SessionInv
  BY DEF BridgeInit, SessionInv
<1> QED
  BY <1>1, <1>2, <1>3 DEF BridgeInv

\* BridgeStopsCleanly (main.py of the bridge, connector.py cancel_order and disconnect,
\* order_manager.py _submit_order and _submit_limit_order, grpc_server.py stop), for any
\* number of market and limit orders, leftovers and reconnects.
THEOREM BridgeStopsCleanlyAlways == BridgeSpec => []BridgeStopsCleanly
<1>1. BridgeInv /\ [BridgeNext]_procVars => BridgeInv'
  <2> SUFFICES ASSUME BridgeInv, [BridgeNext]_procVars PROVE BridgeInv'
    OBVIOUS
  <2>1. CASE BridgeNext
    BY <2>1, CallStep, StageStep, OrderStep, SessionStep DEF BridgeInv
  <2>2. CASE UNCHANGED procVars
    BY <2>2 DEF procVars, BridgeInv, CallInv, StageInv, OrderInv, SessionInv
  <2> QED
    BY <2>1, <2>2
<1>2. BridgeInv => BridgeStopsCleanly
  <2> SUFFICES ASSUME BridgeInv PROVE BridgeStopsCleanly
    OBVIOUS
  <2>1. \A c \in Calls : handler[c] = "answered" /\ outcome[c] \in {"FILLED", "PENDING"} => c \in placed
    BY DEF BridgeInv, CallInv
  <2>2. ASSUME stage = "over"
        PROVE  /\ \A c \in Calls : /\ handler[c] \in {"none", "answered", "cut"}
                                   /\ thread[c] \in {"none", "done"}
               /\ recorder # "open" /\ pending \subseteq kept \cup missed
    BY <2>2 DEF BridgeInv, CallInv, StageInv, OrderInv, Serving, ServerDown
  <2>3. stage = "over" => ~flag /\ ~session
    BY Zenon DEF BridgeInv, SessionInv
  <2> QED
    BY <2>1, <2>2, <2>3 DEF BridgeStopsCleanly
<1> QED
  BY <1>1, <1>2, BridgeInvInit, PTL DEF BridgeSpec

-----------------------------------------------------------------------------
(* The rate limiters.                                                      *)

\* A quotient is the multiple of the divisor just below.
LEMMA QuotientBelow ==
    ASSUME NEW n \in Nat, NEW d \in Nat \ {0}
    PROVE  /\ n \div d \in Nat /\ n % d \in Nat
           /\ n = d * (n \div d) + (n % d)
           /\ n % d < d
OBVIOUS

\* A product grows with its factor.
LEMMA ProductOrder ==
    ASSUME NEW x \in Int, NEW y \in Int, NEW r \in Nat, x <= y
    PROVE  x * r <= y * r
OBVIOUS

\* A sum and a difference times a number.
LEMMA ProductSplits ==
    ASSUME NEW x \in Int, NEW y \in Int, NEW r \in Int
    PROVE  /\ (x + y) * r = x * r + y * r
           /\ (x - y) * r = x * r - y * r
           /\ r * x = x * r
OBVIOUS

\* A rest and a refill that make up a unit make up a token.
LEMMA AtLeastOne ==
    ASSUME NEW x \in Nat, NEW y \in Nat \ {0}, NEW n \in Nat, x * y + n >= y
    PROVE  x + n \div y >= 1
<1>1. CASE x = 0
  BY <1>1, QuotientBelow
<1>2. CASE x # 0
  BY <1>2, QuotientBelow
<1> QED
  BY <1>1, <1>2

\* The constants of the limiters and the capacity of a bucket.
LEMMA LimiterNumbers ==
    /\ Requests \in Nat \ {0} /\ Second \in Nat \ {0} /\ Window \in Nat \ {0} /\ MaxAge \in Nat
    /\ MaxTokens \in Nat /\ MaxTokens >= 1 /\ MaxTokens <= 2 * Requests
    /\ MaxTokens * Window \in Nat /\ MaxTokens * Window >= Window
    /\ MaxTokens * Window <= (2 * Window) * Requests
<1>1. /\ Requests \in Nat \ {0} /\ Second \in Nat \ {0} /\ Window \in Nat \ {0} /\ MaxAge \in Nat
      /\ Burst \in 0..Requests
  BY LimiterAssumption
<1>2. MaxTokens \in Nat /\ MaxTokens >= 1 /\ MaxTokens <= 2 * Requests
  BY <1>1 DEF MaxTokens
<1>3. 1 * Window <= MaxTokens * Window /\ MaxTokens * Window <= (2 * Requests) * Window
  BY <1>1, <1>2, ProductOrder
<1>4. MaxTokens * Window \in Nat /\ (2 * Requests) * Window = (2 * Window) * Requests
  BY <1>1, <1>2
<1> QED
  BY <1>1, <1>2, <1>3, <1>4

\* The bucket's worth in units, what it would hold now, and what it would hold at time t.
Worth(b) == IF limiter.kind = "memory" THEN b[1].tokens ELSE b[1].tokens * Window
HeldAt(b, t) == Worth(b) + (t - b[1].last) * Requests

\* An empty slot stands for a full bucket, and the exact bucket holds what the slot would.
BucketInv(k) ==
    LET b == buckets[k]
        full == MaxTokens * Window
    IN  /\ credit[k] \in Int /\ credit[k] <= full
        /\ promise[k] \in Int
        /\ RateConditions => credit[k] >= 0
        /\ RateConditions /\ b = <<>> => credit[k] = full
        /\ b # <<>> => /\ b = <<[tokens |-> b[1].tokens, last |-> b[1].last]>>
                       /\ b[1].tokens \in Nat /\ b[1].last \in 0..now
                       /\ Worth(b) <= full
                       /\ RateConditions => credit[k] = full \/ credit[k] >= HeldAt(b, now)
                       /\ WaitConditions /\ promise[k] >= 0 => HeldAt(b, promise[k]) >= Window

LimiterInv ==
    /\ limiter \in [lang : {"python", "go"}, kind : {"redis", "memory"}]
    /\ now \in Nat
    /\ buckets = [k \in Keys |-> buckets[k]]
    /\ credit = [k \in Keys |-> credit[k]]
    /\ promise = [k \in Keys |-> promise[k]]
    /\ \A k \in Keys : BucketInv(k)
    /\ limiter = [lang |-> "go", kind |-> "redis"] => \A k \in Keys : promise[k] = -1

\* What the Redis script finds in the bucket is never more than the exact bucket holds,
\* and a caller that stayed away as long as it was told finds a token.
LEMMA ScriptFinds ==
    ASSUME LimiterInv, limiter.kind = "redis", NEW k \in Keys
    PROVE  LET b == buckets[k]
               known == b # <<>> /\ now - b[1].last < 2 * Window
               tokens == IF known THEN Refilled(b[1].tokens, now - b[1].last) ELSE MaxTokens
           IN  /\ tokens \in 0..MaxTokens
               /\ RateConditions => tokens * Window <= credit[k]
               /\ WaitConditions /\ promise[k] >= 0 /\ now >= promise[k] => tokens >= 1
               /\ tokens = 0 => b # <<>> /\ b[1].tokens = 0
<1> DEFINE b == buckets[k]
           full == MaxTokens * Window
           elapsed == now - b[1].last
           known == b # <<>> /\ elapsed < 2 * Window
           came == elapsed * Requests
           n == b[1].tokens + came \div Window
           tokens == IF known THEN Refilled(b[1].tokens, elapsed) ELSE MaxTokens
<1>1. BucketInv(k) /\ now \in Nat
  BY DEF LimiterInv
<1>2. /\ credit[k] \in Int /\ credit[k] <= full /\ promise[k] \in Int
      /\ RateConditions /\ b = <<>> => credit[k] = full
  BY <1>1 DEF BucketInv
<1>3. full \in Nat /\ MaxTokens \in Nat /\ MaxTokens >= 1 /\ Window \in Nat \ {0} /\ Requests \in Nat \ {0}
  BY LimiterNumbers
<1>4. ASSUME b # <<>>
      PROVE  /\ b[1].tokens \in Nat /\ b[1].last \in 0..now /\ elapsed \in Nat /\ came \in Nat
             /\ b[1].tokens * Window \in Nat
             /\ RateConditions => credit[k] = full \/ credit[k] >= b[1].tokens * Window + came
             /\ WaitConditions /\ promise[k] >= 0 => b[1].tokens * Window + (promise[k] - b[1].last) * Requests >= Window
  <2>1. /\ b[1].tokens \in Nat /\ b[1].last \in 0..now
        /\ RateConditions => credit[k] = full \/ credit[k] >= HeldAt(b, now)
        /\ WaitConditions /\ promise[k] >= 0 => HeldAt(b, promise[k]) >= Window
    BY <1>1, <1>4 DEF BucketInv
  <2>2. Worth(b) = b[1].tokens * Window
    BY DEF Worth
  <2>3. elapsed \in Nat
    BY <1>1, <2>1
  <2>4. came \in Nat /\ b[1].tokens * Window \in Nat
    BY <1>3, <2>1, <2>3
  <2> QED
    BY <2>1, <2>2, <2>3, <2>4 DEF HeldAt
<1>5. CASE known
  <2>1. /\ b[1].tokens \in Nat /\ b[1].last \in 0..now /\ elapsed \in Nat /\ came \in Nat
        /\ b[1].tokens * Window \in Nat
        /\ RateConditions => credit[k] = full \/ credit[k] >= b[1].tokens * Window + came
        /\ WaitConditions /\ promise[k] >= 0 => b[1].tokens * Window + (promise[k] - b[1].last) * Requests >= Window
    BY <1>4, <1>5
  <2>2. tokens = IF n > MaxTokens THEN MaxTokens ELSE n
    BY <1>5 DEF Refilled
  <2> HIDE DEF came, b, elapsed, full, tokens
  <2>3. came \div Window \in Nat /\ (came \div Window) * Window <= came
    BY <1>3, <2>1, QuotientBelow
  <2>4. n \in Nat /\ n * Window = b[1].tokens * Window + (came \div Window) * Window
    <3>1. n \in Nat
      BY <2>1, <2>3
    <3> QED
      BY <1>3, <2>1, <2>3, <3>1, ProductSplits
  <2> HIDE DEF n
  <2>5. n * Window <= b[1].tokens * Window + came
    BY <1>3, <2>1, <2>3, <2>4
  <2>6. tokens \in 0..MaxTokens
    BY <1>3, <2>2, <2>4
  <2>7. tokens * Window <= n * Window /\ tokens * Window <= full
    BY <1>3, <2>2, <2>4, <2>6, ProductOrder DEF full
  <2>8. n * Window \in Int /\ tokens * Window \in Int
    BY <1>3, <2>4, <2>6
  <2>9. ASSUME RateConditions PROVE tokens * Window <= credit[k]
    <3>1. CASE credit[k] = full
      BY <2>7, <3>1
    <3>2. CASE credit[k] >= b[1].tokens * Window + came
      <4> DEFINE held == b[1].tokens * Window + came
                 counted == n * Window
                 found == tokens * Window
      <4>1. held \in Int /\ counted \in Int /\ found \in Int /\ credit[k] \in Int
        BY <1>2, <1>3, <2>1, <2>8
      <4>2. found <= counted /\ counted <= held /\ held <= credit[k]
        BY <2>5, <2>7, <3>2, <4>1
      <4> HIDE DEF held, counted, found
      <4>3. found <= credit[k]
        BY <4>1, <4>2
      <4> QED
        BY <4>3 DEF found
    <3> QED
      BY <2>1, <2>9, <3>1, <3>2
  <2>10. ASSUME WaitConditions, promise[k] >= 0, now >= promise[k] PROVE tokens >= 1
    <3> DEFINE gone == promise[k] - b[1].last
    <3>1. gone \in Int /\ elapsed \in Int /\ gone <= elapsed
      BY <1>1, <1>2, <2>1, <2>10 DEF elapsed
    <3>2. gone * Requests <= came /\ gone * Requests \in Int
      <4> HIDE DEF gone
      <4> QED
        BY <1>3, <3>1, ProductOrder DEF came
    <3>3. b[1].tokens * Window + came >= Window
      BY <1>3, <2>1, <2>10, <3>2
    <3>4. n >= 1
      BY <1>3, <2>1, <3>3, AtLeastOne DEF n
    <3> QED
      BY <1>3, <2>2, <2>4, <3>4
  <2>11. tokens = 0 => b[1].tokens = 0
    <3>1. tokens = 0 => n = 0
      BY <1>3, <2>2
    <3> QED
      BY <2>1, <2>3, <3>1 DEF n
  <2> QED
    BY <1>5, <2>6, <2>9, <2>10, <2>11 DEF b, elapsed, tokens
<1>6. CASE ~known
  <2>1. tokens = MaxTokens
    BY <1>6
  <2>2. CASE b = <<>>
    BY <1>2, <1>3, <2>1, <2>2
  <2>3. CASE b # <<>>
    <3>1. elapsed >= 2 * Window
      BY <1>3, <1>4, <1>6, <2>3
    <3>2. (2 * Window) * Requests <= came
      BY <1>3, <1>4, <2>3, <3>1, ProductOrder
    <3> HIDE DEF full, came
    <3>3. full <= came
      <4>1. full <= (2 * Window) * Requests /\ (2 * Window) * Requests \in Nat
        BY LimiterNumbers DEF full
      <4> QED
        BY <1>3, <1>4, <2>3, <3>2, <4>1
    <3>4. ASSUME RateConditions PROVE credit[k] = full
      <4> DEFINE held == b[1].tokens * Window
      <4>1. /\ held \in Nat /\ came \in Nat /\ full \in Nat /\ credit[k] \in Int /\ credit[k] <= full
            /\ credit[k] = full \/ credit[k] >= held + came
        BY <1>2, <1>3, <1>4, <2>3, <3>4
      <4> HIDE DEF held
      <4> QED
        BY <3>3, <4>1
    <3> QED
      BY <1>2, <1>3, <2>1, <2>3, <3>4 DEF full
  <2> QED
    BY <2>2, <2>3
<1> QED
  BY <1>5, <1>6

\* The same for the bucket in memory.
LEMMA MemoryFinds ==
    ASSUME LimiterInv, limiter.kind = "memory", NEW k \in Keys
    PROVE  LET b == buckets[k]
               full == MaxTokens * Window
               units == IF b = <<>> THEN full ELSE b[1].tokens + (now - b[1].last) * Requests
               held == IF units > full THEN full ELSE units
           IN  /\ held \in 0..full
               /\ RateConditions => held <= credit[k]
               /\ WaitConditions /\ promise[k] >= 0 /\ now >= promise[k] => held >= Window
<1> DEFINE b == buckets[k]
           full == MaxTokens * Window
           came == (now - b[1].last) * Requests
           units == IF b = <<>> THEN full ELSE b[1].tokens + came
           held == IF units > full THEN full ELSE units
<1>1. BucketInv(k) /\ now \in Nat
  BY DEF LimiterInv
<1>2. /\ credit[k] \in Int /\ credit[k] <= full /\ promise[k] \in Int
      /\ RateConditions /\ b = <<>> => credit[k] = full
  BY <1>1 DEF BucketInv
<1>3. full \in Nat /\ full >= Window /\ Window \in Nat \ {0} /\ Requests \in Nat \ {0}
  BY LimiterNumbers
<1>4. CASE b = <<>>
  <2> HIDE DEF full
  <2> QED
    BY <1>2, <1>3, <1>4 DEF full
<1>5. CASE b # <<>>
  <2>1. /\ b[1].tokens \in Nat /\ b[1].last \in 0..now
        /\ RateConditions => credit[k] = full \/ credit[k] >= HeldAt(b, now)
        /\ WaitConditions /\ promise[k] >= 0 => HeldAt(b, promise[k]) >= Window
    BY <1>1, <1>5 DEF BucketInv
  <2>2. Worth(b) = b[1].tokens
    BY DEF Worth
  <2>3. came \in Nat
    BY <1>1, <1>3, <2>1
  <2>4. units = b[1].tokens + came /\ HeldAt(b, now) = units
    BY <1>5, <2>2 DEF HeldAt
  <2> HIDE DEF full, units
  <2>5. held \in 0..full /\ (RateConditions => held <= credit[k]) /\ units \in Nat
    <3> HIDE DEF came
    <3>1. units \in Nat /\ full \in Nat /\ credit[k] \in Int /\ credit[k] <= full
      BY <1>2, <1>3, <2>1, <2>3, <2>4
    <3>2. RateConditions => credit[k] = full \/ credit[k] >= units
      BY <2>1, <2>4
    <3> QED
      BY <3>1, <3>2
  <2>6. ASSUME WaitConditions, promise[k] >= 0, now >= promise[k] PROVE held >= Window
    <3> DEFINE gone == promise[k] - b[1].last
               elapsed == now - b[1].last
    <3>1. gone \in Int /\ elapsed \in Int /\ gone <= elapsed /\ came = elapsed * Requests
      BY <1>1, <1>2, <2>1, <2>6
    <3>2. HeldAt(b, promise[k]) = b[1].tokens + gone * Requests
      BY <2>2 DEF HeldAt
    <3> HIDE DEF gone, elapsed, came
    <3>3. gone * Requests <= came /\ gone * Requests \in Int
      BY <1>3, <3>1, ProductOrder
    <3>4. units >= Window
      BY <1>3, <2>1, <2>3, <2>4, <2>6, <3>2, <3>3
    <3> QED
      BY <1>3, <2>5, <3>4
  <2> QED
    BY <2>5, <2>6 DEF full, units
<1> QED
  BY <1>4, <1>5

\* A check that leaves t tokens (or units) in the bucket of a key.
LEMMA BucketStep ==
    ASSUME LimiterInv, NEW key \in Keys, NEW t \in Nat, NEW c \in Int, NEW p \in Int,
           UNCHANGED <<limiter, now>>,
           buckets' = [buckets EXCEPT ![key] = <<[tokens |-> t, last |-> now]>>],
           credit' = [credit EXCEPT ![key] = c],
           promise' = [promise EXCEPT ![key] = p],
           LET w == IF limiter.kind = "memory" THEN t ELSE t * Window
           IN  /\ w <= MaxTokens * Window
               /\ RateConditions => w <= c
               /\ WaitConditions /\ p >= 0 => w + (p - now) * Requests >= Window,
           c <= MaxTokens * Window,
           limiter = [lang |-> "go", kind |-> "redis"] => p = -1
    PROVE  LimiterInv'
<1> DEFINE slot == <<[tokens |-> t, last |-> now]>>
           w == IF limiter.kind = "memory" THEN t ELSE t * Window
           full == MaxTokens * Window
<1>1. /\ limiter \in [lang : {"python", "go"}, kind : {"redis", "memory"}]
      /\ now \in Nat
      /\ buckets = [k \in Keys |-> buckets[k]]
      /\ credit = [k \in Keys |-> credit[k]]
      /\ promise = [k \in Keys |-> promise[k]]
      /\ \A k \in Keys : BucketInv(k)
      /\ limiter = [lang |-> "go", kind |-> "redis"] => \A k \in Keys : promise[k] = -1
  BY DEF LimiterInv
<1>2. /\ buckets'[key] = slot /\ credit'[key] = c /\ promise'[key] = p
      /\ \A k \in Keys \ {key} : /\ buckets'[k] = buckets[k] /\ credit'[k] = credit[k]
                                 /\ promise'[k] = promise[k]
      /\ DOMAIN buckets' = Keys /\ DOMAIN credit' = Keys /\ DOMAIN promise' = Keys
  BY <1>1
<1>3. /\ buckets' = [k \in Keys |-> buckets'[k]]
      /\ credit' = [k \in Keys |-> credit'[k]]
      /\ promise' = [k \in Keys |-> promise'[k]]
  BY <1>1
<1>0. RateConditions' = RateConditions /\ WaitConditions' = WaitConditions
  BY DEF RateConditions, WaitConditions
<1>4. ASSUME NEW k \in Keys \ {key} PROVE BucketInv(k)'
  BY <1>0, <1>1, <1>2, <1>4 DEF BucketInv, HeldAt, Worth
<1>5. BucketInv(key)'
  <2>1. slot # <<>> /\ slot[1].tokens = t /\ slot[1].last = now
    OBVIOUS
  <2>2. w \in Nat /\ full \in Nat /\ Window \in Nat /\ Requests \in Nat
    BY LimiterNumbers
  <2>3. Worth(slot)' = w
    BY <2>1 DEF Worth
  <2>4. HeldAt(slot, now)' = w
    <3>1. HeldAt(slot, now)' = w + (now - now) * Requests
      BY <2>1, <2>3 DEF HeldAt
    <3> QED
      BY <1>1, <2>2, <3>1
  <2>5. HeldAt(slot, p)' = w + (p - now) * Requests
    BY <2>1, <2>3 DEF HeldAt
  <2> HIDE DEF w, full, slot
  <2>6. /\ w <= full /\ c <= full /\ (RateConditions => w <= c)
        /\ WaitConditions /\ p >= 0 => w + (p - now) * Requests >= Window
    BY DEF w, full
  <2>7. RateConditions => c >= 0
    BY <2>2, <2>6
  <2> QED
    BY <1>0, <1>1, <1>2, <2>1, <2>2, <2>3, <2>4, <2>5, <2>6, <2>7 DEF BucketInv, slot, full
<1> QED
  BY <1>1, <1>2, <1>3, <1>4, <1>5 DEF LimiterInv

\* What the script says to a refused caller: not nothing where a token takes a second,
\* and the time of a token where that is a whole number of seconds.
LEMMA WaitOfAToken ==
    ASSUME limiter.kind = "redis"
    PROVE  LET wait == (Window * (1 - 0)) \div (Requests * Second)
           IN  /\ wait \in Nat
               /\ RateConditions => wait # 0
               /\ WaitConditions => wait # 0 /\ (wait * Second) * Requests = Window
<1> DEFINE d == Requests * Second
           wait == Window \div d
<1>1. Window \in Nat \ {0} /\ Requests \in Nat \ {0} /\ Second \in Nat \ {0}
  BY LimiterNumbers
<1>2. d \in Nat \ {0}
  BY <1>1
<1>3. /\ RateConditions => d <= Window
      /\ WaitConditions => Window % d = 0
  BY DEF RateConditions, WaitConditions
<1>4. (wait * Second) * Requests = d * wait /\ wait \in Nat
  <2>1. wait \in Nat
    <3> HIDE DEF d
    <3> QED
      BY <1>1, <1>2, QuotientBelow
  <2> HIDE DEF wait
  <2> QED
    BY <1>1, <2>1
<1> HIDE DEF d
<1>5. Window = d * wait + (Window % d) /\ Window % d < d /\ Window % d \in Nat
  BY <1>1, <1>2, QuotientBelow
<1>6. wait = 0 => Window = Window % d
  BY <1>1, <1>2, <1>5
<1>7. RateConditions => wait # 0
  BY <1>1, <1>2, <1>3, <1>5, <1>6
<1>8. ASSUME WaitConditions PROVE wait # 0 /\ (wait * Second) * Requests = Window
  BY <1>1, <1>2, <1>3, <1>4, <1>5, <1>6, <1>8
<1>9. Window * (1 - 0) = Window
  BY <1>1
<1> QED
  BY <1>4, <1>7, <1>8, <1>9 DEF d

\* The caller that stayed away as long as it was told is not told to wait again.
ComesBack ==
    WaitConditions =>
        \A k \in Keys : promise[k] >= 0 /\ now >= promise[k] /\ promise'[k] # promise[k]
                           => promise'[k] = -1

\* A check with the script in Redis.
LEMMA CheckRedisKeeps ==
    ASSUME LimiterInv, NEW key \in Keys, CheckRedis(key)
    PROVE  LimiterInv' /\ ComesBack
<1> DEFINE b == buckets[key]
           known == b # <<>> /\ now - b[1].last < 2 * Window
           tokens == IF known THEN Refilled(b[1].tokens, now - b[1].last) ELSE MaxTokens
           r == Script(b)
           full == MaxTokens * Window
<1>1. /\ limiter = [lang |-> "python", kind |-> "redis"] /\ UNCHANGED <<limiter, now>>
      /\ buckets' = [buckets EXCEPT ![key] = r.bucket]
      /\ credit' = IF r.wait = 0 THEN [credit EXCEPT ![key] = @ - Window] ELSE credit
      /\ promise' = [promise EXCEPT ![key] = IF r.wait = 0 THEN -1 ELSE now + r.wait * Second]
  BY DEF CheckRedis, Account
<1>2. /\ tokens \in 0..MaxTokens
      /\ RateConditions => tokens * Window <= credit[key]
      /\ WaitConditions /\ promise[key] >= 0 /\ now >= promise[key] => tokens >= 1
      /\ tokens = 0 => b # <<>> /\ b[1].tokens = 0
  BY <1>1, ScriptFinds
<1>3. BucketInv(key) /\ now \in Nat /\ credit = [k \in Keys |-> credit[k]]
      /\ promise = [k \in Keys |-> promise[k]]
  BY DEF LimiterInv
<1>4. /\ MaxTokens \in Nat /\ Window \in Nat \ {0} /\ Requests \in Nat /\ Second \in Nat
      /\ full \in Nat /\ credit[key] \in Int /\ credit[key] <= full
      /\ RateConditions => credit[key] >= 0
  BY <1>3, LimiterNumbers DEF BucketInv
<1>5. r = IF tokens >= 1
          THEN [bucket |-> <<[tokens |-> tokens - 1, last |-> now]>>, tokens |-> tokens - 1, wait |-> 0]
          ELSE [bucket |-> <<[b[1] EXCEPT !.last = now]>>, tokens |-> tokens,
                wait |-> (Window * (1 - tokens)) \div (Requests * Second)]
  BY DEF Script
<1> HIDE DEF tokens, full
<1>6. CASE tokens >= 1
  <2> DEFINE left == tokens - 1
             rest == credit[key] - Window
  <2>1. left \in Nat /\ rest \in Int /\ tokens \in Int
    BY <1>2, <1>4, <1>6
  <2>2. r.bucket = <<[tokens |-> left, last |-> now]>> /\ r.wait = 0
    BY <1>5, <1>6
  <2>3. left * Window = tokens * Window - Window /\ tokens * Window \in Int
    BY <1>4, <2>1
  <2>4. /\ RateConditions => left * Window <= rest
        /\ rest <= full /\ left * Window <= full
    <3>1. tokens * Window <= full
      BY <1>2, <1>4, <2>1, ProductOrder DEF full
    <3> QED
      BY <1>2, <1>4, <2>1, <2>3, <3>1
  <2>5. /\ credit' = [credit EXCEPT ![key] = rest] /\ promise' = [promise EXCEPT ![key] = -1]
        /\ buckets' = [buckets EXCEPT ![key] = <<[tokens |-> left, last |-> now]>>]
    BY <1>1, <2>2
  <2> HIDE DEF left, rest
  <2>6. LimiterInv'
    <3> DEFINE never == -1
    <3>1. LET w == IF limiter.kind = "memory" THEN left ELSE left * Window
          IN  /\ w <= MaxTokens * Window
              /\ RateConditions => w <= rest
              /\ WaitConditions /\ never >= 0 => w + (never - now) * Requests >= Window
      BY <1>1, <2>4 DEF full
    <3>2. /\ UNCHANGED <<limiter, now>> /\ rest <= MaxTokens * Window
          /\ limiter # [lang |-> "go", kind |-> "redis"]
      BY <1>1, <2>4 DEF full
    <3>3. promise' = [promise EXCEPT ![key] = never] /\ never \in Int
      BY <2>5
    <3> HIDE DEF never
    <3> QED
      BY <2>1, <2>5, <3>1, <3>2, <3>3, BucketStep
  <2>7. ComesBack
    BY <1>3, <2>5 DEF ComesBack
  <2> QED
    BY <2>6, <2>7
<1>7. CASE ~(tokens >= 1)
  <2> DEFINE wait == (Window * (1 - 0)) \div (Requests * Second)
             rest == IF wait = 0 THEN credit[key] - Window ELSE credit[key]
             back == IF wait = 0 THEN -1 ELSE now + wait * Second
  <2>1. tokens = 0 /\ b # <<>> /\ b[1].tokens = 0
    BY <1>2, <1>4, <1>7
  <2>2. /\ wait \in Nat
        /\ RateConditions => wait # 0
        /\ WaitConditions => wait # 0 /\ (wait * Second) * Requests = Window
    BY <1>1, WaitOfAToken
  <2>3. r.bucket = <<[b[1] EXCEPT !.last = now]>> /\ r.wait = wait
    BY <1>5, <1>7, <2>1
  <2>4. b[1] = [tokens |-> 0, last |-> b[1].last]
    BY <1>3, <2>1 DEF BucketInv
  <2>5. r.bucket = <<[tokens |-> 0, last |-> now]>>
    BY <2>3, <2>4
  <2> HIDE DEF wait, b, r
  <2>6. /\ credit' = [credit EXCEPT ![key] = rest]
        /\ promise' = [promise EXCEPT ![key] = back]
        /\ buckets' = [buckets EXCEPT ![key] = <<[tokens |-> 0, last |-> now]>>]
    <3>1. CASE wait = 0
      BY <1>1, <1>3, <2>3, <2>5, <3>1
    <3>2. CASE wait # 0
      BY <1>1, <1>3, <2>3, <2>5, <3>2
    <3> QED
      BY <3>1, <3>2
  <2>7. back \in Int /\ (WaitConditions => (back - now) * Requests = Window)
    <3>1. wait * Second \in Nat
      BY <1>4, <2>2
    <3>2. back \in Int /\ (wait # 0 => back - now = wait * Second)
      BY <1>3, <3>1
    <3> HIDE DEF back
    <3> QED
      BY <2>2, <3>2
  <2>8. /\ 0 * Window = 0 /\ rest \in Int /\ rest <= full /\ 0 <= full
        /\ RateConditions => 0 <= rest
    BY <1>4, <2>2
  <2> HIDE DEF back, rest
  <2>9. LimiterInv'
    <3>1. LET w == IF limiter.kind = "memory" THEN 0 ELSE 0 * Window
          IN  /\ w <= MaxTokens * Window
              /\ RateConditions => w <= rest
              /\ WaitConditions /\ back >= 0 => w + (back - now) * Requests >= Window
      <4>1. WaitConditions => 0 + (back - now) * Requests >= Window
        BY <1>4, <2>7
      <4> QED
        BY <1>1, <2>8, <4>1 DEF full
    <3>2. /\ UNCHANGED <<limiter, now>> /\ rest <= MaxTokens * Window
          /\ limiter # [lang |-> "go", kind |-> "redis"]
      BY <1>1, <2>8 DEF full
    <3> QED
      BY <2>6, <2>7, <2>8, <3>1, <3>2, BucketStep
  <2>10. ComesBack
    BY <1>2, <1>3, <1>7, <2>6 DEF ComesBack
  <2> QED
    BY <2>9, <2>10
<1> QED
  BY <1>6, <1>7

\* The Go client's panic takes a token that nobody was granted.
LEMMA CheckRedisGoKeeps ==
    ASSUME LimiterInv, NEW key \in Keys, CheckRedisGo(key)
    PROVE  LimiterInv' /\ ComesBack
<1> DEFINE b == buckets[key]
           known == b # <<>> /\ now - b[1].last < 2 * Window
           tokens == IF known THEN Refilled(b[1].tokens, now - b[1].last) ELSE MaxTokens
           left == IF tokens >= 1 THEN tokens - 1 ELSE 0
           full == MaxTokens * Window
<1>1. /\ limiter = [lang |-> "go", kind |-> "redis"] /\ UNCHANGED <<limiter, now, credit, promise>>
      /\ buckets' = [buckets EXCEPT ![key] = Script(b).bucket]
  BY DEF CheckRedisGo
<1>2. /\ tokens \in 0..MaxTokens
      /\ RateConditions => tokens * Window <= credit[key]
      /\ tokens = 0 => b # <<>> /\ b[1].tokens = 0
  BY <1>1, ScriptFinds
<1>3. /\ BucketInv(key) /\ now \in Nat /\ credit = [k \in Keys |-> credit[k]]
      /\ promise = [k \in Keys |-> promise[k]] /\ promise[key] = -1
  BY <1>1 DEF LimiterInv
<1>4. /\ MaxTokens \in Nat /\ Window \in Nat \ {0} /\ full \in Nat
      /\ credit[key] <= full /\ credit[key] \in Int
  BY <1>3, LimiterNumbers DEF BucketInv
<1>5. Script(b).bucket = IF tokens >= 1 THEN <<[tokens |-> tokens - 1, last |-> now]>>
                         ELSE <<[b[1] EXCEPT !.last = now]>>
  BY DEF Script
<1> HIDE DEF tokens, full
<1>6. Script(b).bucket = <<[tokens |-> left, last |-> now]>>
  <2>1. CASE tokens >= 1
    BY <1>5, <2>1
  <2>2. CASE ~(tokens >= 1)
    <3>1. tokens = 0 /\ b # <<>>
      BY <1>2, <1>4, <2>2
    <3>2. b[1] = [tokens |-> 0, last |-> b[1].last]
      BY <1>2, <1>3, <3>1 DEF BucketInv
    <3>3. [b[1] EXCEPT !.last = now] = [tokens |-> 0, last |-> now]
      <4> HIDE DEF b
      <4> QED
        BY <3>2
    <3> QED
      BY <1>5, <2>2, <3>3
  <2> QED
    BY <2>1, <2>2
<1>7. /\ left \in Nat /\ left * Window <= full
      /\ RateConditions => left * Window <= credit[key]
  <2>1. left \in Nat /\ left <= tokens /\ tokens \in Int /\ tokens <= MaxTokens
    BY <1>2, <1>4
  <2>2. /\ left * Window <= tokens * Window /\ tokens * Window <= full
        /\ left * Window \in Int /\ tokens * Window \in Int
    <3> HIDE DEF left
    <3> QED
      BY <1>4, <2>1, ProductOrder DEF full
  <2> QED
    BY <1>2, <1>4, <2>1, <2>2
<1> HIDE DEF b, left
<1>8. LimiterInv'
  <2> DEFINE same == credit[key]
             never == promise[key]
  <2>1. LET w == IF limiter.kind = "memory" THEN left ELSE left * Window
        IN  /\ w <= MaxTokens * Window
            /\ RateConditions => w <= same
            /\ WaitConditions /\ never >= 0 => w + (never - now) * Requests >= Window
    BY <1>1, <1>3, <1>7 DEF full
  <2>2. UNCHANGED <<limiter, now>> /\ same <= MaxTokens * Window /\ same \in Int
    BY <1>1, <1>4 DEF full
  <2>3. promise' = [promise EXCEPT ![key] = never] /\ never \in Int /\ never = -1
    BY <1>1, <1>3
  <2>4. credit' = [credit EXCEPT ![key] = same]
    BY <1>1, <1>3
  <2>5. buckets' = [buckets EXCEPT ![key] = <<[tokens |-> left, last |-> now]>>]
    BY <1>1, <1>6
  <2> HIDE DEF same, never
  <2> QED
    BY <1>7, <2>1, <2>2, <2>3, <2>4, <2>5, BucketStep
<1>9. ComesBack
  BY <1>1 DEF ComesBack
<1> QED
  BY <1>8, <1>9

\* A check with a bucket in memory, in Python or in Go.
LEMMA CheckMemoryKeeps ==
    ASSUME LimiterInv, NEW key \in Keys, CheckMemory(key) \/ CheckMemoryGo(key)
    PROVE  LimiterInv' /\ ComesBack
<1> DEFINE b == buckets[key]
           full == MaxTokens * Window
           units == IF b = <<>> THEN full ELSE b[1].tokens + (now - b[1].last) * Requests
           held == IF units > full THEN full ELSE units
           left == IF held >= Window THEN held - Window ELSE held
           wait == IF held >= Window THEN 0 ELSE (Window - held + Requests - 1) \div Requests
           rest == IF held >= Window THEN credit[key] - Window ELSE credit[key]
           back == IF held >= Window THEN -1 ELSE now + wait
           r == InMemory(b)
<1>1. /\ limiter.kind = "memory" /\ UNCHANGED <<limiter, now>>
      /\ buckets' = [buckets EXCEPT ![key] = r.bucket]
      /\ credit' = IF r.allowed THEN [credit EXCEPT ![key] = @ - Window] ELSE credit
      /\ promise' = [promise EXCEPT ![key] = IF r.allowed THEN -1 ELSE now + r.wait]
  BY DEF CheckMemory, CheckMemoryGo, Account
<1>2. /\ held \in 0..full
      /\ RateConditions => held <= credit[key]
      /\ WaitConditions /\ promise[key] >= 0 /\ now >= promise[key] => held >= Window
  BY <1>1, MemoryFinds
<1>3. BucketInv(key) /\ now \in Nat /\ credit = [k \in Keys |-> credit[k]]
      /\ promise = [k \in Keys |-> promise[k]]
  BY DEF LimiterInv
<1>4. /\ Window \in Nat \ {0} /\ Requests \in Nat \ {0} /\ full \in Nat
      /\ credit[key] <= full /\ credit[key] \in Int
  BY <1>3, LimiterNumbers DEF BucketInv
<1>5. /\ r.bucket = <<[tokens |-> left, last |-> now]>>
      /\ r.allowed = (held >= Window) /\ r.wait = wait
  BY DEF InMemory
<1> HIDE DEF r, held, full
<1>6. left \in Nat /\ left <= full /\ rest \in Int /\ rest <= full /\ (RateConditions => left <= rest)
  BY <1>2, <1>4
<1>7. back \in Int /\ (back >= 0 => left + (back - now) * Requests >= Window)
  <2>1. CASE held >= Window
    BY <2>1
  <2>2. CASE ~(held >= Window)
    <3> DEFINE lack == Window - held + Requests - 1
    <3>1. lack \in Nat
      BY <1>2, <1>4, <2>2
    <3>2. wait = lack \div Requests /\ back = now + wait /\ left = held
      BY <2>2
    <3> HIDE DEF lack, wait, back, left
    <3>3. wait \in Nat /\ lack = Requests * wait + (lack % Requests) /\ lack % Requests < Requests
          /\ lack % Requests \in Nat
      BY <1>4, <3>1, <3>2, QuotientBelow
    <3>4. wait * Requests = Requests * wait /\ Requests * wait \in Int /\ back - now = wait /\ back \in Int
      BY <1>3, <1>4, <3>2, <3>3
    <3>5. held + wait * Requests >= Window
      BY <1>2, <1>4, <3>1, <3>3, <3>4 DEF lack
    <3> QED
      BY <3>2, <3>4, <3>5
  <2> QED
    BY <2>1, <2>2
<1>8. /\ buckets' = [buckets EXCEPT ![key] = <<[tokens |-> left, last |-> now]>>]
      /\ credit' = [credit EXCEPT ![key] = rest]
      /\ promise' = [promise EXCEPT ![key] = back]
  <2> HIDE DEF wait, b
  <2>1. CASE held >= Window
    BY <1>1, <1>5, <2>1
  <2>2. CASE ~(held >= Window)
    BY <1>1, <1>3, <1>5, <2>2
  <2> QED
    BY <2>1, <2>2
<1>9. ComesBack
  <2>1. CASE held >= Window
    BY <1>3, <1>8, <2>1 DEF ComesBack
  <2>2. CASE ~(held >= Window)
    BY <1>2, <1>3, <1>8, <2>2 DEF ComesBack
  <2> QED
    BY <2>1, <2>2
<1>10. LimiterInv'
  <2> HIDE DEF left, rest, back
  <2>1. LET w == IF limiter.kind = "memory" THEN left ELSE left * Window
        IN  /\ w <= MaxTokens * Window
            /\ RateConditions => w <= rest
            /\ WaitConditions /\ back >= 0 => w + (back - now) * Requests >= Window
    BY <1>1, <1>6, <1>7 DEF full
  <2>2. /\ UNCHANGED <<limiter, now>> /\ rest <= MaxTokens * Window
        /\ limiter # [lang |-> "go", kind |-> "redis"]
    BY <1>1, <1>6 DEF full
  <2> QED
    BY <1>6, <1>7, <1>8, <2>1, <2>2, BucketStep
<1> QED
  BY <1>9, <1>10

\* Only a bucket that is full again is forgotten.
LEMMA CleanupKeeps ==
    ASSUME LimiterInv, CleanupBuckets
    PROVE  LimiterInv'
<1> DEFINE full == MaxTokens * Window
<1>1. /\ UNCHANGED <<limiter, now, credit, promise>> /\ now \in Nat
      /\ limiter = [lang |-> "go", kind |-> "memory"]
      /\ buckets' = [k \in Keys |-> IF buckets[k] # <<>> /\ now - buckets[k][1].last > MaxAge
                                    THEN <<>> ELSE buckets[k]]
      /\ \A k \in Keys : BucketInv(k)
  BY DEF CleanupBuckets, LimiterInv
<1>0. RateConditions' = RateConditions /\ WaitConditions' = WaitConditions
  BY <1>1 DEF RateConditions, WaitConditions
<1>2. ASSUME NEW k \in Keys PROVE BucketInv(k)'
  <2>1. CASE buckets'[k] = buckets[k]
    BY <1>0, <1>1, <2>1 DEF BucketInv, HeldAt, Worth
  <2>2. CASE buckets'[k] # buckets[k]
    <3> DEFINE b == buckets[k]
               elapsed == now - b[1].last
    <3>1. buckets'[k] = <<>> /\ b # <<>> /\ elapsed > MaxAge
      BY <1>1, <2>2
    <3>2. /\ b[1].tokens \in Nat /\ b[1].last \in 0..now /\ credit[k] \in Int /\ credit[k] <= full
          /\ RateConditions => credit[k] >= 0 /\ (credit[k] = full \/ credit[k] >= HeldAt(b, now))
          /\ promise[k] \in Int
      BY <1>1, <3>1 DEF BucketInv
    <3>3. /\ Requests \in Nat /\ Window \in Nat /\ MaxAge \in Nat /\ full \in Nat
          /\ RateConditions => full <= MaxAge * Requests
          /\ MaxAge * Requests \in Int
      BY <1>1, LimiterNumbers DEF RateConditions
    <3>4. Worth(b) \in Nat /\ elapsed \in Int /\ elapsed * Requests \in Int
      <4>1. Worth(b) \in Nat
        BY <3>2, <3>3 DEF Worth
      <4>2. elapsed \in Int
        BY <1>1, <3>2
      <4> HIDE DEF elapsed
      <4> QED
        BY <3>3, <4>1, <4>2
    <3>5. MaxAge * Requests <= elapsed * Requests
      <4> HIDE DEF elapsed
      <4> QED
        BY <3>1, <3>3, <3>4, ProductOrder
    <3>6. HeldAt(b, now) = Worth(b) + elapsed * Requests
      BY DEF HeldAt
    <3> HIDE DEF full, elapsed
    <3>7. (RateConditions => HeldAt(b, now) >= full) /\ HeldAt(b, now) \in Int
      BY <3>3, <3>4, <3>5, <3>6
    <3> HIDE DEF b
    <3>8. RateConditions => credit[k] = full
      BY <3>2, <3>3, <3>7
    <3> QED
      BY <1>0, <1>1, <3>1, <3>2, <3>3, <3>8 DEF BucketInv, full
  <2> QED
    BY <2>1, <2>2
<1> QED
  BY <1>1, <1>2 DEF LimiterInv

\* A tick brings the exact bucket what it would bring the stored one.
LEMMA TickKeeps ==
    ASSUME LimiterInv, LimiterTick
    PROVE  LimiterInv'
<1> DEFINE full == MaxTokens * Window
<1>1. /\ UNCHANGED <<limiter, buckets, promise>> /\ now \in Nat /\ now' = now + 1
      /\ credit' = [k \in Keys |-> IF credit[k] + Requests > full THEN full
                                   ELSE credit[k] + Requests]
      /\ \A k \in Keys : BucketInv(k)
  BY DEF LimiterTick, LimiterInv
<1>2. Requests \in Nat /\ Window \in Nat /\ full \in Nat
  BY LimiterNumbers
<1>0. RateConditions' = RateConditions /\ WaitConditions' = WaitConditions
  BY <1>1 DEF RateConditions, WaitConditions
<1>3. ASSUME NEW k \in Keys PROVE BucketInv(k)'
  <2> DEFINE b == buckets[k]
  <2> HIDE DEF full
  <2>1. /\ credit[k] \in Int /\ credit[k] <= full /\ promise[k] \in Int
        /\ RateConditions => credit[k] >= 0
    BY <1>1 DEF BucketInv, full
  <2>2. credit'[k] \in Int /\ credit'[k] <= full /\ (RateConditions => credit'[k] >= 0)
    BY <1>1, <1>2, <2>1
  <2>3. RateConditions /\ b = <<>> => credit'[k] = full
    <3>1. RateConditions /\ b = <<>> => credit[k] = full
      BY <1>1 DEF BucketInv, full
    <3> QED
      BY <1>1, <1>2, <2>1, <3>1
  <2>4. ASSUME b # <<>>
        PROVE  /\ b = <<[tokens |-> b[1].tokens, last |-> b[1].last]>>
               /\ b[1].tokens \in Nat /\ b[1].last \in 0..now'
               /\ (Worth(b))' <= full
               /\ RateConditions => credit'[k] = full \/ credit'[k] >= HeldAt(b, now)'
               /\ WaitConditions /\ promise[k] >= 0 => HeldAt(b, promise[k])' >= Window
    <3>1. /\ b = <<[tokens |-> b[1].tokens, last |-> b[1].last]>>
          /\ b[1].tokens \in Nat /\ b[1].last \in 0..now
          /\ Worth(b) <= full
          /\ RateConditions => credit[k] = full \/ credit[k] >= HeldAt(b, now)
          /\ WaitConditions /\ promise[k] >= 0 => HeldAt(b, promise[k]) >= Window
      BY <1>1, <2>4 DEF BucketInv, full
    <3>2. Worth(b)' = Worth(b) /\ Worth(b) \in Nat /\ HeldAt(b, promise[k])' = HeldAt(b, promise[k])
      BY <1>1, <1>2, <3>1 DEF Worth, HeldAt
    <3>3. HeldAt(b, now)' = HeldAt(b, now) + Requests /\ HeldAt(b, now) \in Int
      <4> DEFINE elapsed == now - b[1].last
      <4>1. elapsed \in Int /\ now' - b[1].last = elapsed + 1
        BY <1>1, <3>1
      <4>2. HeldAt(b, now)' = Worth(b) + (now' - b[1].last) * Requests
        BY <1>1, <3>2 DEF HeldAt
      <4>3. HeldAt(b, now) = Worth(b) + elapsed * Requests
        BY DEF HeldAt
      <4> HIDE DEF elapsed
      <4>4. (elapsed + 1) * Requests = elapsed * Requests + 1 * Requests
        BY <1>2, <4>1, ProductSplits
      <4> DEFINE came == elapsed * Requests
      <4>5. came \in Int /\ 1 * Requests = Requests
        BY <1>2, <4>1
      <4>6. HeldAt(b, now)' = Worth(b) + (came + Requests)
        BY <4>1, <4>2, <4>4, <4>5
      <4> HIDE DEF came
      <4> QED
        BY <1>2, <3>2, <4>3, <4>5, <4>6 DEF came
    <3>4. b[1].last \in 0..now'
      BY <1>1, <3>1
    <3>5. credit'[k] = IF credit[k] + Requests > full THEN full ELSE credit[k] + Requests
      BY <1>1
    <3> HIDE DEF b
    <3>6. RateConditions => credit'[k] = full \/ credit'[k] >= HeldAt(b, now)'
      BY <1>2, <2>1, <3>1, <3>3, <3>5
    <3> QED
      BY <3>1, <3>2, <3>4, <3>6
  <2> QED
    BY <1>0, <1>1, <2>1, <2>2, <2>3, <2>4 DEF BucketInv, full
<1>4. limiter = [lang |-> "go", kind |-> "redis"] => \A k \in Keys : promise[k] = -1
  BY DEF LimiterInv
<1>5. /\ limiter \in [lang : {"python", "go"}, kind : {"redis", "memory"}]
      /\ buckets = [k \in Keys |-> buckets[k]] /\ promise = [k \in Keys |-> promise[k]]
  BY DEF LimiterInv
<1> QED
  BY <1>1, <1>3, <1>4, <1>5 DEF LimiterInv

\* Every step keeps LimiterInv, and who comes back in time is admitted.
LEMMA LimiterStep ==
    LimiterInv /\ [LimiterNext]_limitVars => LimiterInv' /\ (ComesBack \/ UNCHANGED limitVars)
<1> SUFFICES ASSUME LimiterInv, [LimiterNext]_limitVars
             PROVE  LimiterInv' /\ (ComesBack \/ UNCHANGED limitVars)
  OBVIOUS
<1>1. ASSUME UNCHANGED <<limiter, buckets, now, credit, promise>> PROVE LimiterInv' /\ ComesBack
  <2>1. RateConditions' = RateConditions /\ WaitConditions' = WaitConditions
    BY <1>1 DEF RateConditions, WaitConditions
  <2> QED
    BY <1>1, <2>1 DEF LimiterInv, BucketInv, HeldAt, Worth, ComesBack
<1>2. ASSUME NEW key \in Keys, FailsOpen(key) PROVE LimiterInv' /\ ComesBack
  BY <1>1, <1>2 DEF FailsOpen
<1>3. ASSUME NEW key \in Keys, CheckRedis(key) PROVE LimiterInv' /\ ComesBack
  BY <1>3, CheckRedisKeeps
<1>4. ASSUME NEW key \in Keys, CheckMemory(key) \/ CheckMemoryGo(key) PROVE LimiterInv' /\ ComesBack
  BY <1>4, CheckMemoryKeeps
<1>5. ASSUME NEW key \in Keys, CheckRedisGo(key) PROVE LimiterInv' /\ ComesBack
  BY <1>5, CheckRedisGoKeeps
<1>6. ASSUME Excluded \/ RedisChanges PROVE LimiterInv' /\ ComesBack
  BY <1>1, <1>6 DEF Excluded, RedisChanges
<1>7. ASSUME CleanupBuckets PROVE LimiterInv' /\ ComesBack
  BY <1>7, CleanupKeeps DEF CleanupBuckets, ComesBack
<1>8. ASSUME LimiterTick PROVE LimiterInv' /\ ComesBack
  BY <1>8, TickKeeps DEF LimiterTick, ComesBack
<1>9. CASE UNCHANGED limitVars
  BY <1>1, <1>9 DEF limitVars
<1> QED
  BY <1>2, <1>3, <1>4, <1>5, <1>6, <1>7, <1>8, <1>9 DEF LimiterNext

\* LimiterKeepsRate for any number of callers, rate, burst, window and schedule of
\* failures, restarts and cleanups (check of the Python and the Go limiters, Cleanup).  The
\* limiters in memory keep every rate, the Python script one of at most a token a
\* second.  It is about the grants of a bucket: while Redis fails, and for ever once it
\* has forgotten the script, every request is let through without one, and the Go
\* client grants nothing else over Redis.
THEOREM LimiterAlwaysKeepsRate == LimiterSpec => LimiterKeepsRate
<1>1. LimiterInit => LimiterInv
  <2> SUFFICES ASSUME LimiterInit PROVE LimiterInv
    OBVIOUS
  <2>1. MaxTokens * Window \in Nat
    BY LimiterNumbers
  <2> QED
    BY <2>1 DEF LimiterInit, CreateLimiter, LimiterInv, BucketInv
<1>2. LimiterInv => (RateConditions => \A k \in Keys : credit[k] >= 0)
  BY DEF LimiterInv, BucketInv
<1>3. LimiterInv /\ [LimiterNext]_limitVars => LimiterInv'
  BY LimiterStep
<1>4. LimiterInv /\ [LimiterNext]_limitVars =>
         [WaitConditions =>
            \A k \in Keys : promise[k] >= 0 /\ now >= promise[k] /\ promise'[k] # promise[k]
                              => promise'[k] = -1]_limitVars
  BY LimiterStep DEF ComesBack
<1> QED
  BY <1>1, <1>2, <1>3, <1>4, PTL DEF LimiterSpec, LimiterKeepsRate
=============================================================================
