----------------------------- MODULE JobsProofs -----------------------------
(***************************************************************************)
(* What holds of the job queue for any number of workers and jobs, any     *)
(* attempt limit and any number of crashes.                                *)
(***************************************************************************)
EXTENDS Jobs, TLAPS

-----------------------------------------------------------------------------
(* Types *)

\* What each update of a row gives.
LEMMA JobUpdates ==
  ASSUME NEW job \in Job
  PROVE  /\ Started(job) \in Job
         /\ Started(job).state = "running" /\ Started(job).attempts = job.attempts + 1
         /\ Done(job) \in Job
         /\ Done(job).state = "done" /\ Done(job).attempts = job.attempts
         /\ Requeued(job) \in Job
         /\ Requeued(job).attempts = job.attempts
         /\ job.state = "running" => Requeued(job).state = "queued"
         /\ job.state # "running" => Requeued(job) = job
<1>1. /\ Started(job) \in Job
      /\ Started(job).state = "running" /\ Started(job).attempts = job.attempts + 1
  <2>1. job.attempts + 1 \in Nat
    BY DEF Job
  <2>2. ASSUME NEW n \in Nat
        PROVE  /\ [job EXCEPT !.state = "running", !.attempts = n] \in Job
               /\ [job EXCEPT !.state = "running", !.attempts = n].state = "running"
               /\ [job EXCEPT !.state = "running", !.attempts = n].attempts = n
    BY DEF Job, JobState
  <2>3. QED
    BY <2>1, <2>2 DEF Started
<1>2. Done(job) \in Job /\ Done(job).state = "done" /\ Done(job).attempts = job.attempts
  BY DEF Done, Job, JobState
<1>3. /\ Requeued(job) \in Job /\ Requeued(job).attempts = job.attempts
      /\ job.state = "running" => Requeued(job).state = "queued"
      /\ job.state # "running" => Requeued(job) = job
  BY DEF Requeued, Job, JobState
<1>4. QED
  BY <1>1, <1>2, <1>3

\* A failed attempt gives the job up or queues it again, and counts nothing.
LEMMA RetriedUpdate ==
  ASSUME NEW job \in Job, NEW at \in Nat
  PROVE  /\ Retried(job, at) \in Job
         /\ Retried(job, at).attempts = job.attempts
         /\ \/ job.attempts >= MaxAttempts /\ Retried(job, at).state = "failed"
            \/ job.attempts < MaxAttempts /\ Retried(job, at).state = "queued"
<1>1. /\ GivenUp(job) \in Job
      /\ GivenUp(job).attempts = job.attempts /\ GivenUp(job).state = "failed"
  BY DEF GivenUp, Job, JobState
<1>2. /\ Delayed(job, at) \in Job
      /\ Delayed(job, at).attempts = job.attempts /\ Delayed(job, at).state = "queued"
  BY DEF Delayed, Job, JobState
<1>3. job.attempts \in Nat /\ MaxAttempts \in Nat
  BY JobsAssumption DEF Job
<1>4. QED
  BY <1>1, <1>2, <1>3 DEF Retried

LEMMA TypeStep == TypeOK /\ [Next]_vars => TypeOK'
<1> SUFFICES ASSUME TypeOK, [Next]_vars PROVE TypeOK'
  OBVIOUS
<1> USE DEF TypeOK
<1>1. ASSUME NEW k \in Kinds, NEW p \in RequestedPriorities, NEW at \in Times,
             EnqueueJob(k, p, at)
      PROVE  TypeOK'
  <2>1. /\ p \in Nat /\ at \in Nat
        /\ (IF p = 0 THEN DefaultPriority(k) ELSE p) \in Nat
    BY JobsAssumption DEF RequestedPriorities, Times, DefaultPriority
  <2>2. [state |-> "queued", priority |-> IF p = 0 THEN DefaultPriority(k) ELSE p,
         attempts |-> 0, nextAttemptAt |-> at] \in Job
    BY <2>1 DEF Job, JobState
  <2>3. QED
    BY <1>1, <2>2 DEF EnqueueJob
<1>2. ASSUME NEW w \in Workers, ClaimJob(w) PROVE TypeOK'
  BY <1>2, JobUpdates DEF ClaimJob
<1>3. ASSUME NEW w \in Workers, CompleteJob(w) PROVE TypeOK'
  BY <1>3, JobUpdates DEF CompleteJob, Released
<1>4. ASSUME NEW w \in Workers, NEW at \in Times, FailJob(w, at) PROVE TypeOK'
  BY <1>4, RetriedUpdate, JobsAssumption DEF FailJob, Released, Times
<1>5. CASE Crash
  <2>1. crashes' \in 0..MaxCrashes
    BY <1>5, JobsAssumption DEF Crash
  <2>2. UNCHANGED <<clock, jobs>> /\ up' \in BOOLEAN
    BY <1>5 DEF Crash
  <2>3. held' \in [Workers -> JobIds \cup {Nothing}]
    BY <1>5 DEF Crash
  <2>4. QED
    BY <2>1, <2>2, <2>3
<1>6. CASE Startup
  BY <1>6, JobUpdates DEF Startup
<1>7. CASE Tick
  BY <1>7 DEF Tick
<1>8. CASE UNCHANGED vars
  BY <1>8 DEF vars
<1>9. QED
  BY <1>1, <1>2, <1>3, <1>4, <1>5, <1>6, <1>7, <1>8 DEF Next, Finish

\* Every variable always has its type.
THEOREM TypeCorrect == Spec => []TypeOK
<1>1. Init => TypeOK
  BY JobsAssumption DEF Init, TypeOK, NoJob, Job, JobState
<1>2. QED
  BY <1>1, TypeStep, PTL DEF Spec

-----------------------------------------------------------------------------
(* One holder per running job *)

\* A worker holds a job only while the process runs.
HeldWhileUp == ~up => \A w \in Workers : held[w] = Nothing

HeldInv == RunningIsHeld /\ HeldWhileUp

LEMMA HeldStep == TypeOK /\ HeldInv /\ [Next]_vars => HeldInv'
<1> SUFFICES ASSUME TypeOK, HeldInv, [Next]_vars PROVE HeldInv'
  OBVIOUS
<1> USE DEF TypeOK, HeldInv, RunningIsHeld, HeldWhileUp, JobIds, Nothing
<1>1. ASSUME NEW k \in Kinds, NEW p \in RequestedPriorities, NEW at \in Times,
             EnqueueJob(k, p, at)
      PROVE  HeldInv'
  BY <1>1 DEF EnqueueJob
<1>2. ASSUME NEW w \in Workers, ClaimJob(w) PROVE HeldInv'
  <2>1. PICK j \in JobIds : /\ jobs[j].state = "queued"
                            /\ jobs' = [jobs EXCEPT ![j] = Started(@)]
                            /\ held' = [held EXCEPT ![w] = j]
    BY <1>2 DEF ClaimJob, First, Due
  <2>2. jobs'[j].state = "running" /\ \A v \in Workers : held[v] # j
    BY <1>2, <2>1, JobUpdates DEF ClaimJob
  <2>3. QED
    BY <1>2, <2>1, <2>2 DEF ClaimJob
<1>3. ASSUME NEW w \in Workers, held[w] # Nothing, Released(w), UNCHANGED up,
             \A j \in JobIds \ {held[w]} : jobs'[j] = jobs[j],
             jobs'[held[w]].state # "running"
      PROVE  HeldInv'
  BY <1>3 DEF Released
<1>4. ASSUME NEW w \in Workers, CompleteJob(w) PROVE HeldInv'
  BY <1>3, <1>4, JobUpdates DEF CompleteJob
<1>5. ASSUME NEW w \in Workers, NEW at \in Times, FailJob(w, at) PROVE HeldInv'
  <2>1. at \in Nat
    BY JobsAssumption DEF Times
  <2>2. held[w] \in JobIds /\ jobs[held[w]] \in Job
    BY <1>5 DEF FailJob
  <2>3. Retried(jobs[held[w]], at).state # "running"
    BY <2>1, <2>2, RetriedUpdate
  <2>4. QED
    BY <1>3, <1>5, <2>2, <2>3 DEF FailJob
<1>6. CASE Crash
  BY <1>6 DEF Crash
<1>7. CASE Startup
  <2>1. \A j \in JobIds : jobs'[j].state # "running"
    BY <1>7, JobUpdates DEF Startup
  <2>2. QED
    BY <1>7, <2>1 DEF Startup
<1>8. CASE UNCHANGED <<jobs, held, up>>
  BY <1>8, Zenon
<1>9. QED
  BY <1>1, <1>2, <1>4, <1>5, <1>6, <1>7, <1>8 DEF Next, Finish, Tick, vars

LEMMA HeldInvariant == Spec => []HeldInv
<1>1. Init => HeldInv
  BY DEF Init, HeldInv, RunningIsHeld, HeldWhileUp, NoJob, JobIds, Nothing
<1>2. QED
  BY <1>1, HeldStep, TypeCorrect, PTL DEF Spec

\* While the process runs, a job is running exactly when one worker holds it.
THEOREM RunningJobsAreHeld == Spec => []RunningIsHeld
BY HeldInvariant, PTL DEF HeldInv

-----------------------------------------------------------------------------
(* Attempts *)

\* A job waiting for a worker, or left running by a crash, has an attempt to go before
\* it exceeds the limit by the number of crashes.
AttemptsInv ==
  \A j \in JobIds :
    /\ jobs[j].attempts <= MaxAttempts + crashes
    /\ jobs[j].state \in {"absent", "queued"} \/ (jobs[j].state = "running" /\ ~up) =>
         jobs[j].attempts < MaxAttempts + crashes
    /\ jobs[j].state = "failed" => jobs[j].attempts >= MaxAttempts
    /\ jobs[j].state = "absent" => jobs[j].attempts = 0

LEMMA AttemptsStep == TypeOK /\ HeldInv /\ AttemptsInv /\ [Next]_vars => AttemptsInv'
<1> SUFFICES ASSUME TypeOK, HeldInv, AttemptsInv, [Next]_vars PROVE AttemptsInv'
  OBVIOUS
<1> USE JobsAssumption DEF TypeOK, AttemptsInv
<1>0. \A j \in JobIds : jobs[j].attempts \in Nat
  BY DEF Job
<1>1. ASSUME NEW k \in Kinds, NEW p \in RequestedPriorities, NEW at \in Times,
             EnqueueJob(k, p, at)
      PROVE  AttemptsInv'
  BY <1>1 DEF EnqueueJob
<1>2. ASSUME NEW w \in Workers, ClaimJob(w) PROVE AttemptsInv'
  BY <1>0, <1>2, JobUpdates DEF ClaimJob, First, Due
<1>3. ASSUME NEW w \in Workers, CompleteJob(w) PROVE AttemptsInv'
  BY <1>3, JobUpdates DEF CompleteJob
<1>4. ASSUME NEW w \in Workers, NEW at \in Times, FailJob(w, at) PROVE AttemptsInv'
  <2>1. at \in Nat
    BY DEF Times
  <2>2. UNCHANGED <<up, crashes>> /\ \A j \in JobIds \ {held[w]} : jobs'[j] = jobs[j]
    BY <1>4 DEF FailJob
  <2>3. ASSUME NEW j \in JobIds, j = held[w]
        PROVE  /\ jobs'[j].attempts = jobs[j].attempts
               /\ \/ jobs[j].attempts >= MaxAttempts /\ jobs'[j].state = "failed"
                  \/ jobs[j].attempts < MaxAttempts /\ jobs'[j].state = "queued"
    BY <1>4, <2>1, <2>3, RetriedUpdate DEF FailJob
  <2>4. QED
    BY <1>0, <2>2, <2>3
<1>5. CASE Crash
  BY <1>0, <1>5 DEF Crash
<1>6. CASE Startup
  BY <1>6, JobUpdates DEF Startup
<1>7. CASE Tick \/ UNCHANGED vars
  BY <1>7 DEF Tick, vars
<1>8. QED
  BY <1>1, <1>2, <1>3, <1>4, <1>5, <1>6, <1>7 DEF Next, Finish

LEMMA AttemptsInvariant == Spec => []AttemptsInv
<1>1. Init => AttemptsInv
  BY JobsAssumption DEF Init, AttemptsInv, NoJob
<1>2. QED
  BY <1>1, AttemptsStep, TypeCorrect, HeldInvariant, PTL DEF Spec

\* A job is started at most MaxAttempts times, and once more for each crash.
THEOREM AttemptsAreBounded == Spec => []AttemptsBounded
<1>1. AttemptsInv => AttemptsBounded
  BY DEF AttemptsInv, AttemptsBounded
<1>2. QED
  BY <1>1, AttemptsInvariant, PTL

\* A job gives up only once MaxAttempts attempts were started.
THEOREM JobsGiveUpLate == Spec => []GivesUpLate
<1>1. AttemptsInv => GivesUpLate
  BY DEF AttemptsInv, GivesUpLate
<1>2. QED
  BY <1>1, AttemptsInvariant, PTL

\* Attempts never go down; a job that is done or has given up stays so.
THEOREM JobsOnlyProgress == Spec => JobsProgress
<1> DEFINE Progress(j) ==
      /\ jobs'[j].attempts >= jobs[j].attempts
      /\ jobs[j].state \in {"done", "failed"} => jobs'[j].state = jobs[j].state
<1>1. ASSUME TypeOK, HeldInv, AttemptsInv, [Next]_vars, NEW j \in JobIds
      PROVE  Progress(j)
  <2> USE <1>1, JobsAssumption DEF TypeOK
  <2>1. jobs[j] \in Job /\ jobs[j].attempts \in Nat
    BY DEF Job
  <2>2. CASE jobs'[j] = jobs[j]
    BY <2>1, <2>2
  <2>3. ASSUME NEW k \in Kinds, NEW p \in RequestedPriorities, NEW at \in Times,
               EnqueueJob(k, p, at)
        PROVE  jobs'[j] = jobs[j] \/ Progress(j)
    <3>1. CASE jobs[j].state = "absent"
      <4>1. jobs[j].attempts = 0 /\ (jobs'[j] = jobs[j] \/ jobs'[j].attempts = 0)
        BY <2>3, <3>1 DEF EnqueueJob, AttemptsInv
      <4>2. QED
        BY <3>1, <4>1
    <3>2. CASE jobs[j].state # "absent"
      BY <2>3, <3>2 DEF EnqueueJob
    <3>3. QED
      BY <3>1, <3>2
  <2>4. ASSUME NEW w \in Workers, ClaimJob(w) PROVE Progress(j)
    BY <2>1, <2>4, JobUpdates DEF ClaimJob, First, Due
  <2>5. ASSUME NEW w \in Workers, held[w] # Nothing PROVE jobs[held[w]].state = "running"
    BY <2>5 DEF HeldInv, RunningIsHeld, HeldWhileUp
  <2>6. ASSUME NEW w \in Workers, CompleteJob(w) PROVE Progress(j)
    BY <2>1, <2>5, <2>6, JobUpdates DEF CompleteJob
  <2>7. ASSUME NEW w \in Workers, NEW at \in Times, FailJob(w, at) PROVE Progress(j)
    <3>1. at \in Nat
      BY DEF Times
    <3>2. QED
      BY <2>1, <2>5, <2>7, <3>1, RetriedUpdate DEF FailJob
  <2>8. CASE Startup
    BY <2>1, <2>8, JobUpdates DEF Startup
  <2>9. QED
    BY <2>2, <2>3, <2>4, <2>6, <2>7, <2>8 DEF Next, Finish, Crash, Tick, vars
<1>2. TypeOK /\ HeldInv /\ AttemptsInv /\ [Next]_vars => [\A j \in JobIds : Progress(j)]_vars
  BY <1>1
<1>3. QED
  BY <1>2, TypeCorrect, HeldInvariant, AttemptsInvariant, PTL DEF Spec, JobsProgress

-----------------------------------------------------------------------------
(* The places of JobLifecycle *)

\* Where a job is, by who holds it.
LEMMA Places ==
  ASSUME HeldInv, NEW j \in JobIds
  PROVE  /\ \A w \in Workers : held[w] = j => Holders(j) = {w} /\ Place[j] = <<"held", w>>
         /\ (\A w \in Workers : held[w] # j) => Holders(j) = {} /\ Place[j] = <<jobs[j].state>>
<1> USE DEF JobIds, Nothing
<1>1. ASSUME NEW w \in Workers, held[w] = j
      PROVE  Holders(j) = {w} /\ Place[j] = <<"held", w>>
  <2>1. Holders(j) = {w}
    BY <1>1 DEF HeldInv, RunningIsHeld, Holders
  <2>2. (CHOOSE v \in {w} : TRUE) = w
    OBVIOUS
  <2>3. QED
    BY <2>1, <2>2, Zenon DEF Place
<1>2. ASSUME \A w \in Workers : held[w] # j
      PROVE  Holders(j) = {} /\ Place[j] = <<jobs[j].state>>
  <2>1. Holders(j) = {}
    BY <1>2 DEF Holders
  <2>2. QED
    BY <2>1, Zenon DEF Place
<1>3. QED
  BY <1>1, <1>2

\* A job that keeps its holders and its row keeps its place.
LEMMA Stays ==
  ASSUME NEW j \in JobIds, Holders(j)' = Holders(j), jobs'[j].state = jobs[j].state
  PROVE  Place'[j] = Place[j]
<1>1. Place[j] = IF Holders(j) = {} THEN <<jobs[j].state>>
                 ELSE <<"held", CHOOSE w \in Holders(j) : TRUE>>
  BY Zenon DEF Place
<1>2. Place'[j] = IF Holders(j)' = {} THEN <<jobs'[j].state>>
                  ELSE <<"held", CHOOSE w \in Holders(j)' : TRUE>>
  BY Zenon DEF Place
<1>3. QED
  BY <1>1, <1>2, Zenon

\* A held job is running, and nothing is held by nobody.
LEMMA HeldRuns ==
  ASSUME HeldInv, TypeOK, NEW w \in Workers, held[w] # Nothing
  PROVE  up /\ held[w] \in JobIds /\ jobs[held[w]].state = "running"
BY DEF HeldInv, RunningIsHeld, HeldWhileUp, TypeOK

\* A worker lets go of its job: the job is where its row says, the others stay.
LEMMA Releases ==
  ASSUME TypeOK, HeldInv, HeldInv', NEW w \in Workers, NEW j \in JobIds, held[w] = j,
         Released(w), NEW job, jobs' = [jobs EXCEPT ![j] = job]
  PROVE  Lifecycle!Move(j, <<"held", w>>, <<job.state>>) /\ jobs'[j] = job
<1>1. jobs'[j] = job /\ \A k \in JobIds \ {j} : jobs'[k] = jobs[k]
  BY DEF TypeOK
<1>2. held'[w] = Nothing /\ \A v \in Workers \ {w} : held'[v] = held[v] /\ held[v] # j
  BY DEF Released, TypeOK, HeldInv, RunningIsHeld, JobIds, Nothing
<1>3. Place[j] = <<"held", w>>
  BY <1>1, Places
<1>4. Place'[j] = <<job.state>>
  <2>1. Holders(j)' = {}
    <3>1. \A v \in Workers : held'[v] # j
      BY <1>1, <1>2 DEF JobIds, Nothing
    <3>2. QED
      BY <3>1, Zenon DEF Holders
  <2>2. jobs'[j].state = job.state
    BY <1>1
  <2>3. Place'[j] = <<jobs'[j].state>>
    BY <1>1, <2>1, Zenon DEF Place
  <2>4. QED
    BY <2>2, <2>3
<1>5. ASSUME NEW k \in JobIds, k # j PROVE Place'[k] = Place[k]
  <2>1. Holders(k)' = Holders(k)
    BY <1>2, <1>5 DEF Holders, JobIds, Nothing
  <2>2. QED
    BY <1>1, <1>5, <2>1, Stays
<1>6. Place' = [Place EXCEPT ![j] = <<job.state>>]
  <2>1. DOMAIN Place = JobIds /\ DOMAIN Place' = JobIds
    BY DEF Place
  <2>2. \A k \in JobIds : Place'[k] = [Place EXCEPT ![j] = <<job.state>>][k]
    BY <1>1, <1>4, <1>5, <2>1 DEF Place
  <2>3. QED
    BY <2>2 DEF Place
<1>7. QED
  BY <1>1, <1>3, <1>6 DEF Lifecycle!Move

LEMMA ImplementsEnqueue ==
  ASSUME TypeOK, HeldInv, AttemptsInv, NEW k \in Kinds, NEW p \in RequestedPriorities,
         NEW at \in Times, EnqueueJob(k, p, at)
  PROVE  \E j \in JobIds : Lifecycle!Enqueue(j)
<1>1. PICK j \in JobIds :
        /\ jobs[j].state = "absent"
        /\ jobs' = [jobs EXCEPT ![j] =
             [state |-> "queued", priority |-> IF p = 0 THEN DefaultPriority(k) ELSE p,
              attempts |-> 0, nextAttemptAt |-> at]]
  BY DEF EnqueueJob
<1>2. /\ jobs'[j].state = "queued" /\ jobs'[j].attempts = 0
      /\ \A i \in JobIds \ {j} : jobs'[i] = jobs[i]
      /\ held' = held
  BY <1>1 DEF EnqueueJob, TypeOK
<1>3. \A i \in JobIds : Holders(i)' = Holders(i)
  BY <1>2 DEF Holders
<1>4. Holders(j) = {} /\ Place[j] = <<"absent">>
  BY <1>1, Places, HeldRuns DEF Nothing, JobIds
<1>5. Place'[j] = <<"queued">>
  BY <1>2, <1>3, <1>4, Zenon DEF Place
<1>6. Place' = [Place EXCEPT ![j] = <<"queued">>]
  <2>1. \A i \in JobIds \ {j} : Place'[i] = Place[i]
    BY <1>2, <1>3, Stays
  <2>2. QED
    BY <1>5, <2>1 DEF Place
<1>7. Starts' = Starts
  BY <1>1, <1>2 DEF Starts, AttemptsInv
<1>8. QED
  BY <1>4, <1>6, <1>7
     DEF Lifecycle!Enqueue, Lifecycle!Move, Lifecycle!Outside, Lifecycle!Queue

LEMMA ImplementsClaim ==
  ASSUME TypeOK, HeldInv, HeldInv', NEW w \in Workers, ClaimJob(w)
  PROVE  \E j \in JobIds : Lifecycle!Start(j, w)
<1>1. PICK j \in JobIds : /\ jobs[j].state = "queued"
                          /\ jobs' = [jobs EXCEPT ![j] = Started(@)]
                          /\ held' = [held EXCEPT ![w] = j]
  BY DEF ClaimJob, First, Due
<1>2. /\ up /\ held[w] = Nothing /\ held'[w] = j
      /\ \A v \in Workers \ {w} : held'[v] = held[v]
      /\ \A i \in JobIds \ {j} : jobs'[i] = jobs[i]
      /\ jobs'[j].attempts = jobs[j].attempts + 1
  BY <1>1, JobUpdates DEF ClaimJob, TypeOK
<1>3. Place[j] = <<"queued">>
  BY <1>1, Places, HeldRuns DEF Nothing, JobIds
<1>4. Place'[j] = <<"held", w>>
  <2>1. Holders(j)' = {w}
    BY <1>2 DEF HeldInv, RunningIsHeld, Holders, JobIds, Nothing
  <2>2. (CHOOSE v \in {w} : TRUE) = w
    OBVIOUS
  <2>3. QED
    BY <2>1, <2>2, Zenon DEF Place
<1>5. ASSUME NEW i \in JobIds, i # j PROVE Place'[i] = Place[i]
  <2>1. Holders(i)' = Holders(i)
    BY <1>2, <1>5 DEF Holders, JobIds, Nothing
  <2>2. QED
    BY <1>2, <1>5, <2>1, Stays
<1>6. Place' = [Place EXCEPT ![j] = <<"held", w>>]
  BY <1>4, <1>5 DEF Place
<1>7. ASSUME NEW i \in JobIds PROVE Place[i] \notin {<<"held", w>>, <<"running">>}
  <2>1. CASE \E v \in Workers : held[v] = i
    <3>1. PICK v \in Workers : held[v] = i
      BY <2>1
    <3>2. v # w /\ Place[i] = <<"held", v>>
      BY <1>2, <3>1, Places DEF JobIds, Nothing
    <3>3. QED
      BY <3>2
  <2>2. CASE \A v \in Workers : held[v] # i
    <3>1. Place[i] = <<jobs[i].state>> /\ jobs[i].state # "running"
      BY <1>2, <2>2, Places DEF HeldInv, RunningIsHeld
    <3>2. QED
      BY <3>1
  <2>3. QED
    BY <2>1, <2>2
<1>8. Starts' = [Starts EXCEPT ![j] = @ + 1]
  BY <1>2 DEF Starts
<1>9. QED
  BY <1>3, <1>6, <1>7, <1>8
     DEF Lifecycle!Start, Lifecycle!Move, Lifecycle!With, Lifecycle!Lost, Lifecycle!Queue

LEMMA ImplementsFinish ==
  ASSUME TypeOK, HeldInv, HeldInv', NEW w \in Workers, Finish(w)
  PROVE  \E j \in JobIds : \/ Lifecycle!Finish(j, w)
                           \/ Lifecycle!Retry(j, w)
                           \/ Lifecycle!GiveUp(j, w)
<1>1. held[w] \in JobIds /\ Released(w)
  BY HeldRuns DEF Finish, CompleteJob, FailJob
<1>2. PICK j \in JobIds : j = held[w] /\ jobs[j] \in Job
  BY <1>1 DEF TypeOK
<1>3. ASSUME NEW job, jobs' = [jobs EXCEPT ![j] = job], job.attempts = jobs[j].attempts
      PROVE  Lifecycle!Move(j, <<"held", w>>, <<job.state>>) /\ Starts' = Starts
  <2>1. Lifecycle!Move(j, <<"held", w>>, <<job.state>>) /\ jobs'[j] = job
    BY <1>1, <1>2, <1>3, Releases
  <2>2. \A i \in JobIds : jobs'[i].attempts = jobs[i].attempts
    BY <1>2, <1>3, <2>1 DEF TypeOK
  <2>3. QED
    BY <2>1, <2>2 DEF Starts
<1>4. CASE CompleteJob(w)
  <2>1. jobs' = [jobs EXCEPT ![j] = Done(jobs[j])]
    BY <1>2, <1>4 DEF CompleteJob
  <2>2. Done(jobs[j]).state = "done" /\ Done(jobs[j]).attempts = jobs[j].attempts
    BY <1>2, JobUpdates
  <2>3. Lifecycle!Finish(j, w)
    BY <1>3, <2>1, <2>2 DEF Lifecycle!Finish, Lifecycle!With, Lifecycle!Done
  <2>4. QED
    BY <1>2, <2>3
<1>5. ASSUME NEW at \in Times, FailJob(w, at)
      PROVE  Lifecycle!Retry(j, w) \/ Lifecycle!GiveUp(j, w)
  <2>1. jobs' = [jobs EXCEPT ![j] = Retried(jobs[j], at)]
    BY <1>2, <1>5 DEF FailJob
  <2>2. at \in Nat
    BY JobsAssumption DEF Times, TypeOK
  <2>3. /\ Retried(jobs[j], at).attempts = jobs[j].attempts
        /\ \/ jobs[j].attempts >= MaxAttempts /\ Retried(jobs[j], at).state = "failed"
           \/ jobs[j].attempts < MaxAttempts /\ Retried(jobs[j], at).state = "queued"
    BY <1>2, <2>2, RetriedUpdate
  <2>4. Lifecycle!Move(j, <<"held", w>>, <<Retried(jobs[j], at).state>>) /\ Starts' = Starts
    BY <1>3, <2>1, <2>3
  <2>5. Starts[j] = jobs[j].attempts
    BY <1>2 DEF Starts
  <2>6. QED
    BY <2>3, <2>4, <2>5
       DEF Lifecycle!Retry, Lifecycle!GiveUp, Lifecycle!With, Lifecycle!Queue, Lifecycle!Failed
<1>6. QED
  BY <1>2, <1>4, <1>5 DEF Finish

LEMMA ImplementsCrash ==
  ASSUME TypeOK, HeldInv, Crash
  PROVE  Lifecycle!Crash
<1>1. jobs' = jobs /\ \A w \in Workers : held'[w] = Nothing
  BY DEF Crash
<1>2. ASSUME NEW j \in JobIds
      PROVE  Place'[j] = IF Lifecycle!IsHeld(j) THEN <<"running">> ELSE Place[j]
  <2>1. Holders(j)' = {}
    BY <1>1 DEF Holders, JobIds, Nothing
  <2>2. Place'[j] = <<jobs[j].state>>
    BY <1>1, <2>1, Zenon DEF Place
  <2>3. CASE \E w \in Workers : held[w] = j
    <3>1. PICK w \in Workers : held[w] = j
      BY <2>3
    <3>2. Place[j] = <<"held", w>> /\ jobs[j].state = "running"
      BY <3>1, Places, HeldRuns DEF JobIds, Nothing
    <3>3. QED
      BY <2>2, <3>2 DEF Lifecycle!IsHeld, Lifecycle!With
  <2>4. CASE \A w \in Workers : held[w] # j
    <3>1. Place[j] = <<jobs[j].state>>
      BY <2>4, Places
    <3>2. \A w \in Workers : Place[j] # <<"held", w>>
      BY <3>1
    <3>3. QED
      BY <2>2, <3>1, <3>2 DEF Lifecycle!IsHeld, Lifecycle!With
  <2>5. QED
    BY <2>3, <2>4
<1>3. Place' = [j \in JobIds |-> IF Lifecycle!IsHeld(j) THEN <<"running">> ELSE Place[j]]
  BY <1>2 DEF Place
<1>4. Starts' = Starts
  BY <1>1 DEF Starts
<1>5. QED
  BY <1>3, <1>4 DEF Lifecycle!Crash, Lifecycle!Lost

LEMMA ImplementsRecover ==
  ASSUME TypeOK, HeldInv, Startup
  PROVE  Lifecycle!Recover
<1>1. /\ jobs' = [j \in JobIds |-> Requeued(jobs[j])]
      /\ held' = held /\ \A w \in Workers : held[w] = Nothing
  BY DEF Startup, HeldInv, HeldWhileUp
<1>2. ASSUME NEW j \in JobIds
      PROVE  /\ Place'[j] = IF Place[j] = <<"running">> THEN <<"queued">> ELSE Place[j]
             /\ jobs'[j].attempts = jobs[j].attempts
  <2>1. Holders(j) = {} /\ Holders(j)' = {}
    BY <1>1 DEF Holders, JobIds, Nothing
  <2>2. Place[j] = <<jobs[j].state>> /\ Place'[j] = <<jobs'[j].state>>
    BY <2>1, Zenon DEF Place
  <2>3. /\ jobs'[j].attempts = jobs[j].attempts
        /\ jobs[j].state = "running" => jobs'[j].state = "queued"
        /\ jobs[j].state # "running" => jobs'[j] = jobs[j]
    BY <1>1, JobUpdates DEF TypeOK
  <2>4. QED
    BY <2>2, <2>3
<1>3. Place' = [j \in JobIds |-> IF Place[j] = <<"running">> THEN <<"queued">> ELSE Place[j]]
  BY <1>2 DEF Place
<1>4. Starts' = Starts
  BY <1>2 DEF Starts
<1>5. QED
  BY <1>3, <1>4 DEF Lifecycle!Recover, Lifecycle!Lost, Lifecycle!Queue

\* The queue implements JobLifecycle: a job has at most one worker, a worker at most one
\* job, each start is counted, and what a crash cut short is all requeued before any job
\* is started, for any workers, jobs, crashes and clock.
THEOREM JobsImplementLifecycle == Spec => ImplementsJobLifecycle
<1>1. Init => Lifecycle!Init
  <2> SUFFICES ASSUME Init PROVE Lifecycle!Init
    OBVIOUS
  <2>1. ASSUME NEW j \in JobIds PROVE Place[j] = <<"absent">> /\ jobs[j].attempts = 0
    <3>1. Holders(j) = {}
      BY DEF Init, Holders, JobIds, Nothing
    <3>2. Place[j] = <<jobs[j].state>>
      BY <3>1, Zenon DEF Place
    <3>3. QED
      BY <3>2 DEF Init, NoJob
  <2>2. QED
    BY <2>1 DEF Lifecycle!Init, Lifecycle!Outside, Place, Starts
<1>2. /\ TypeOK /\ HeldInv /\ HeldInv' /\ AttemptsInv /\ [Next]_vars
      => [Lifecycle!Next]_<<Place, Starts>>
  <2> SUFFICES ASSUME TypeOK, HeldInv, HeldInv', AttemptsInv, [Next]_vars
               PROVE  [Lifecycle!Next]_<<Place, Starts>>
    OBVIOUS
  <2>1. ASSUME NEW k \in Kinds, NEW p \in RequestedPriorities, NEW at \in Times,
               EnqueueJob(k, p, at)
        PROVE  Lifecycle!Next
    BY <2>1, ImplementsEnqueue DEF Lifecycle!Next
  <2>2. ASSUME NEW w \in Workers, ClaimJob(w) PROVE Lifecycle!Next
    BY <2>2, ImplementsClaim DEF Lifecycle!Next
  <2>3. ASSUME NEW w \in Workers, Finish(w) PROVE Lifecycle!Next
    BY <2>3, ImplementsFinish DEF Lifecycle!Next
  <2>4. CASE Crash
    BY <2>4, ImplementsCrash DEF Lifecycle!Next
  <2>5. CASE Startup
    BY <2>5, ImplementsRecover DEF Lifecycle!Next
  <2>6. CASE UNCHANGED <<jobs, held>>
    <3>1. \A j \in JobIds : Holders(j)' = Holders(j)
      BY <2>6 DEF Holders
    <3>2. Place' = Place
      BY <2>6, <3>1, Stays DEF Place
    <3>3. Starts' = Starts
      BY <2>6, Zenon DEF Starts
    <3>4. QED
      BY <3>2, <3>3
  <2>7. QED
    BY <2>1, <2>2, <2>3, <2>4, <2>5, <2>6 DEF Next, Tick, vars
<1>3. QED
  BY <1>1, <1>2, TypeCorrect, HeldInvariant, AttemptsInvariant, PTL
     DEF Spec, ImplementsJobLifecycle, Lifecycle!Spec

=============================================================================
