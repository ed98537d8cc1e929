-------------------------------- MODULE Jobs --------------------------------
(***************************************************************************)
(* The persistent job queue (D-32): the jobs table of store/jobs.go, under *)
(* the worker pool it was written for.  The pool is not in the repository: *)
(* its workers are modelled from the calls the queue offers them (claim,   *)
(* run, then complete or fail), as is the daemon that requeues the running *)
(* jobs once at startup, before a worker starts.  A handler may kill the   *)
(* process, or the process may die under it: both are Crash.               *)
(***************************************************************************)
EXTENDS Integers, FiniteSets

CONSTANTS
  Workers,      \* goroutines of the pool
  MaxJobs,      \* jobs ever enqueued
  Kinds,        \* job kinds
  Thumbnail,    \* the kind with the better default priority
  PriorityThumbnail, PriorityTranscode,
  MaxAttempts,  \* attempts the pool grants a job (three, D-32)
  MaxCrashes,   \* times the process dies
  MaxTime       \* the clock stops here

ASSUME JobsAssumption ==
  /\ MaxJobs \in Nat
  /\ MaxAttempts \in Nat \ {0}
  /\ MaxCrashes \in Nat
  /\ MaxTime \in Nat
  /\ PriorityThumbnail \in Nat \ {0}
  /\ PriorityTranscode \in Nat \ {0}

JobIds == 1..MaxJobs    \* rowids grow with each insert
Nothing == 0            \* what a worker without a job holds

VARIABLES
  clock,    \* the wall clock
  jobs,     \* the jobs table
  held,     \* the job each worker is running
  up,       \* the process is running and has requeued what a crash left
  crashes   \* times the process died

vars == <<clock, jobs, held, up, crashes>>

-----------------------------------------------------------------------------
(* State *)

JobState == {"absent", "queued", "running", "done", "failed"}
Job == [state : JobState, priority : Nat, attempts : Nat, nextAttemptAt : Nat]
NoJob == [state |-> "absent", priority |-> 0, attempts |-> 0, nextAttemptAt |-> 0]

TypeOK ==
  /\ clock \in Nat
  /\ jobs \in [JobIds -> Job]
  /\ held \in [Workers -> JobIds \cup {Nothing}]
  /\ up \in BOOLEAN
  /\ crashes \in 0..MaxCrashes

Init ==
  /\ clock = 0
  /\ jobs = [j \in JobIds |-> NoJob]
  /\ held = [w \in Workers |-> Nothing]
  /\ up = TRUE
  /\ crashes = 0

-----------------------------------------------------------------------------
(* Store operations, each one write transaction *)

DefaultPriority(kind) ==
  IF kind = Thumbnail THEN PriorityThumbnail ELSE PriorityTranscode

\* EnqueueJob: a priority of 0 asks for the kind's default.
EnqueueJob(kind, priority, at) ==
  /\ up
  /\ \E j \in JobIds :
       /\ jobs[j].state = "absent"
       /\ \A k \in JobIds : k < j => jobs[k].state # "absent"
       /\ jobs' = [jobs EXCEPT ![j] =
            [state |-> "queued",
             priority |-> IF priority = 0 THEN DefaultPriority(kind) ELSE priority,
             attempts |-> 0,
             nextAttemptAt |-> at]]
  /\ UNCHANGED <<clock, held, up, crashes>>

\* A bug: the selection forgets that only queued jobs are up for a claim.
DueUnlessDone(j) ==
  /\ jobs[j].state \in {"queued", "running"}
  /\ jobs[j].nextAttemptAt <= clock

Due(j) ==
  /\ jobs[j].state = "queued"
  /\ jobs[j].nextAttemptAt <= clock

\* ORDER BY priority, next_attempt_at, job_id
Before(j, k) ==
  \/ jobs[j].priority < jobs[k].priority
  \/ /\ jobs[j].priority = jobs[k].priority
     /\ \/ jobs[j].nextAttemptAt < jobs[k].nextAttemptAt
        \/ /\ jobs[j].nextAttemptAt = jobs[k].nextAttemptAt
           /\ j < k

First(j) == Due(j) /\ \A k \in JobIds \ {j} : Due(k) => Before(j, k)

Started(job) == [job EXCEPT !.state = "running", !.attempts = job.attempts + 1]

\* ClaimJob: select and update in one transaction.
ClaimJob(w) ==
  /\ up
  /\ held[w] = Nothing
  /\ \E j \in JobIds :
       /\ First(j)
       /\ jobs' = [jobs EXCEPT ![j] = Started(@)]
       /\ held' = [held EXCEPT ![w] = j]
  /\ UNCHANGED <<clock, up, crashes>>

Released(w) == held' = [held EXCEPT ![w] = Nothing]

Done(job) == [job EXCEPT !.state = "done"]

\* CompleteJob, whatever the state of the row.
CompleteJob(w) ==
  /\ held[w] # Nothing
  /\ jobs' = [jobs EXCEPT ![held[w]] = Done(@)]
  /\ Released(w)
  /\ UNCHANGED <<clock, up, crashes>>

GivenUp(job) == [job EXCEPT !.state = "failed", !.nextAttemptAt = 0]

\* A bug: the arguments of the update are swapped, the cause lands in the state column.
DelayedSwapped(job, at) == [job EXCEPT !.state = "cause", !.nextAttemptAt = at]
Delayed(job, at) == [job EXCEPT !.state = "queued", !.nextAttemptAt = at]

\* Bugs: the limit is off by one, on either side.
RetriedOnceMore(job, at) ==
  IF job.attempts > MaxAttempts THEN GivenUp(job) ELSE Delayed(job, at)
RetriedOnceLess(job, at) ==
  IF job.attempts + 1 >= MaxAttempts THEN GivenUp(job) ELSE Delayed(job, at)

\* The last attempt gives up, an earlier one goes back to the queue.
Retried(job, at) ==
  IF job.attempts >= MaxAttempts THEN GivenUp(job) ELSE Delayed(job, at)

\* FailJob: the next attempt is due at the caller's backoff.
FailJob(w, at) ==
  /\ held[w] # Nothing
  /\ jobs' = [jobs EXCEPT ![held[w]] = Retried(@, at)]
  /\ Released(w)
  /\ UNCHANGED <<clock, up, crashes>>

\* A bug: the attempt a crash cut short is forgotten.
RequeuedAnew(job) ==
  IF job.state = "running" THEN [job EXCEPT !.state = "queued", !.attempts = 0] ELSE job

\* A bug: the running jobs stay as the crash left them.
LeftRunning(job) == job

\* RequeueRunningJobs leaves the attempts alone.
Requeued(job) ==
  IF job.state = "running" THEN [job EXCEPT !.state = "queued"] ELSE job

-----------------------------------------------------------------------------
(* The process *)

Crash ==
  /\ up
  /\ crashes < MaxCrashes
  /\ up' = FALSE
  /\ crashes' = crashes + 1
  /\ held' = [w \in Workers |-> Nothing]
  /\ UNCHANGED <<clock, jobs>>

\* The daemon requeues what was running, then starts its workers.
Startup ==
  /\ ~up
  /\ up' = TRUE
  /\ jobs' = [j \in JobIds |-> Requeued(jobs[j])]
  /\ UNCHANGED <<clock, held, crashes>>

Tick ==
  /\ clock < MaxTime
  /\ clock' = clock + 1
  /\ UNCHANGED <<jobs, held, up, crashes>>

Times == clock..MaxTime

\* What a caller may ask for: the default, or to go before everything else.
RequestedPriorities == {0, 1}

\* A worker's handler returns, with or without an error.
Finish(w) == CompleteJob(w) \/ \E at \in Times : FailJob(w, at)

Next ==
  \/ \E k \in Kinds, p \in RequestedPriorities, at \in Times : EnqueueJob(k, p, at)
  \/ \E w \in Workers : ClaimJob(w) \/ Finish(w)
  \/ Crash
  \/ Startup
  \/ Tick

Spec == Init /\ [][Next]_vars

\* Workers poll, handlers return, a daemon that died is started again, time passes.
Fairness ==
  /\ \A w \in Workers : WF_vars(ClaimJob(w)) /\ WF_vars(Finish(w))
  /\ WF_vars(Startup)
  /\ WF_vars(Tick)

FairSpec == Spec /\ Fairness

-----------------------------------------------------------------------------
(* Properties *)

\* While the process runs, the running jobs are those in a worker's hands, each in one:
\* no job runs twice at once, and none is left running with nobody behind it (D-32).
RunningIsHeld ==
  /\ \A v, w \in Workers : held[v] # Nothing /\ held[v] = held[w] => v = w
  /\ up => \A j \in JobIds : jobs[j].state = "running" <=> \E w \in Workers : held[w] = j

\* Only a crash grants an attempt beyond MaxAttempts, one per crash.
AttemptsBounded == \A j \in JobIds : jobs[j].attempts <= MaxAttempts + crashes

\* Attempts never go down, and a job that is done or has given up stays so.
JobsProgress ==
  [][\A j \in JobIds :
       /\ jobs'[j].attempts >= jobs[j].attempts
       /\ jobs[j].state \in {"done", "failed"} => jobs'[j].state = jobs[j].state
    ]_vars

\* A job gives up only once MaxAttempts attempts were started, those a crash cut short
\* included.
GivesUpLate == \A j \in JobIds : jobs[j].state = "failed" => jobs[j].attempts >= MaxAttempts

\* Every job ends, done or failed, whatever crashes and failed attempts it meets.
EveryJobEnds ==
  \A j \in JobIds : jobs[j].state = "queued" ~> jobs[j].state \in {"done", "failed"}

\* A job is with the worker that holds it, or else where its row says.
Holders(j) == {w \in Workers : held[w] = j}
Place == [j \in JobIds |->
  IF Holders(j) = {} THEN <<jobs[j].state>> ELSE <<"held", CHOOSE w \in Holders(j) : TRUE>>]
Starts == [j \in JobIds |-> jobs[j].attempts]

Lifecycle == INSTANCE JobLifecycle WITH Jobs <- JobIds, place <- Place, starts <- Starts

\* Every step of the queue is at most one step of JobLifecycle: no job is in two places,
\* and between a crash and the requeueing nothing is started (jobs.go:97-245).
ImplementsJobLifecycle == Lifecycle!Spec

\* What RequeueRunningJobs says of a job that kills the process: it reaches maxAttempts
\* like any other, so that no job is ever started more often than that.
NeverBeyondMaxAttempts == \A j \in JobIds : jobs[j].attempts <= MaxAttempts
=============================================================================
