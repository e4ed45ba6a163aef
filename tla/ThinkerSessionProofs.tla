----------------------- MODULE ThinkerSessionProofs -----------------------
(***************************************************************************)
(* Proofs about ThinkerJobs, for any set of job ids and any bounds, and    *)
(* about ThinkerSession: under a page that drives it the Thinker keeps     *)
(* what is proved of it alone, what the page hands over is what the        *)
(* gateway decided, and what it shows of a job while it polls and lets the *)
(* user press is so, for any number of jobs, events and polls.             *)
(***************************************************************************)
EXTENDS ThinkerSession, TLAPS

(* What the safety invariants need beside each other: a live task is its   *)
(* job's latest execution, and a job that the store knows, or that has     *)
(* yielded a payload, was launched at least once (so its id is not fresh). *)
Launched ==
  /\ \A t \in tasks : t.attempt = attempt[t.job]
  /\ \A j \in Jobs : jobs[j].status # "unknown" => attempt[j] # 0
  /\ \A p \in payloads : attempt[p.job] # 0

(* The inductive invariant. *)
IInv ==
  /\ TypeOK
  /\ OneExecutor
  /\ ResultOfLatestAttempt
  /\ ErrorOnlyWhileFailed
  /\ OnePayload
  /\ Launched

-----------------------------------------------------------------------------
(* A transition the table does not list leaves the store alone; one that it *)
(* lists changes the one job, and nothing of it but status, result, error. *)
LEMMA TransitionEffect ==
  ASSUME jobs \in [Jobs -> Job],
         NEW j \in Jobs, NEW status \in Statuses, NEW result \in Nat,
         NEW error \in ErrorCodes \union {NoError}
  PROVE  /\ Transition(j, status, result, error) \in [Jobs -> Job]
         /\ \A i \in Jobs \ {j} :
              Transition(j, status, result, error)[i] = jobs[i]
         /\ MayMove(j, status) =>
              /\ Transition(j, status, result, error)[j].status = status
              /\ Transition(j, status, result, error)[j].result = result
              /\ Transition(j, status, result, error)[j].error = error
         /\ ~ MayMove(j, status) => Transition(j, status, result, error) = jobs
  BY DEF Transition, Job, Statuses

(* The table, row by row. *)
LEMMA Table ==
  ASSUME jobs \in [Jobs -> Job], NEW j \in Jobs
  PROVE  /\ MayMove(j, "created") <=> jobs[j].status = "failed"
         /\ MayMove(j, "running") <=> jobs[j].status = "created"
         /\ MayMove(j, "succeeded") <=> jobs[j].status = "running"
         /\ MayMove(j, "failed") <=> jobs[j].status \in {"created", "running"}
         /\ MayMove(j, "materialized") <=> jobs[j].status = "succeeded"
         /\ MayMove(j, "skipped") <=> jobs[j].status \in {"succeeded", "failed"}
  BY DEF MayMove, AllowedTransitions, Job, Statuses

(* Initially no job is known and nothing runs. *)
LEMMA InitEstablishes == Init => IInv
  BY BoundsAssumption
     DEF Init, IInv, TypeOK, OneExecutor, ResultOfLatestAttempt,
         ErrorOnlyWhileFailed, OnePayload, Launched, Unknown, Job, Modes,
         Statuses, None, NoError, ErrorCodes, Live

(* What a launch adds: one task of the new attempt, not scheduled yet. *)
LEMMA SpawnEffect ==
  ASSUME NEW j \in Jobs, NEW n \in Nat
  PROVE  /\ Spawn(j, n) \in Task
         /\ Spawn(j, n).job = j
         /\ Spawn(j, n).attempt = n
         /\ Spawn(j, n).stage = "spawned"
  BY DEF Spawn, Task, Stages

(* Where a run moves to: the same execution, further on. *)
LEMMA AtEffect ==
  ASSUME NEW t \in Task, NEW stage \in Stages, NEW left \in Nat
  PROVE  /\ At(t, stage, left) \in Task
         /\ At(t, stage, left).job = t.job
         /\ At(t, stage, left).attempt = t.attempt
         /\ At(t, stage, left).stage = stage
  BY DEF At, Task

LEMMA AdvanceEffect ==
  ASSUME NEW t \in Task, NEW u \in Advance(t)
  PROVE  /\ t.stage \in {"search", "scrape"}
         /\ u \in Task
         /\ u.job = t.job
         /\ u.attempt = t.attempt
         /\ u.stage \in {"scrape", "llm"}
<1>1. /\ t.stage \in {"search", "scrape"}
      /\ \E stage \in {"scrape", "llm"}, left \in Nat : u = At(t, stage, left)
  BY BoundsAssumption DEF Advance, Task, Stages
<1>2. QED
  BY <1>1, AtEffect DEF Stages

-----------------------------------------------------------------------------
(* Each step preserves the inductive invariant. *)

LEMMA CreateJobPreserves ==
  ASSUME IInv, NEW j \in Jobs, NEW mode \in Modes, CreateJob(j, mode)
  PROVE  IInv'
<1> USE DEF CreateJob, Launch, IInv, TypeOK
<1> DEFINE new == Spawn(j, attempt[j] + 1)
<1>n. /\ new \in Task
      /\ new.job = j
      /\ new.attempt = attempt[j] + 1
      /\ new.stage = "spawned"
  BY SpawnEffect
<1> HIDE DEF new
<1>l. /\ tasks' = tasks \union {new}
      /\ attempt' = [attempt EXCEPT ![j] = attempt[j] + 1]
  BY DEF new
<1>1. /\ jobs[j].status = "unknown"
      /\ \A t \in tasks : t.job # j
      /\ \A p \in payloads : p.job # j
  BY DEF Launched, OneExecutor
<1>2. TypeOK'
  <2>1. jobs' \in [Jobs -> Job]
    BY DEF Job, Unknown, Statuses, Modes, None, NoError
  <2>2. tasks' \subseteq Task
    BY <1>n, <1>l
  <2>3. attempt' \in [Jobs -> Nat]
    BY <1>l
  <2>4. QED
    BY <2>1, <2>2, <2>3
<1>3. OneExecutor'
  <2>1. \A t, u \in tasks' : t.job = u.job => t = u
    BY <1>1, <1>n, <1>l DEF OneExecutor
  <2>2. ASSUME NEW t \in tasks'
        PROVE  jobs'[t.job].status = IF t.stage = "spawned" THEN "created"
                                                           ELSE "running"
    BY <2>2, <1>1, <1>n, <1>l DEF OneExecutor, Task, Job, Unknown
  <2>3. ASSUME NEW i \in Jobs, jobs'[i].status \in {"created", "running"}
        PROVE  \E t \in tasks' : t.job = i
    <3>1. CASE i = j
      BY <3>1, <1>n, <1>l
    <3>2. CASE i # j
      BY <2>3, <3>2, <1>l DEF OneExecutor, Live
    <3>3. QED
      BY <3>1, <3>2
  <2>4. QED
    BY <2>1, <2>2, <2>3 DEF OneExecutor, Live
<1>4. ResultOfLatestAttempt' /\ ErrorOnlyWhileFailed'
  BY <1>1 DEF ResultOfLatestAttempt, ErrorOnlyWhileFailed, Unknown, None, NoError
<1>5. OnePayload'
  BY <1>1 DEF OnePayload, Unknown
<1>6. Launched'
  BY <1>1, <1>n, <1>l DEF Launched, Unknown, Task
<1>7. QED
  BY <1>2, <1>3, <1>4, <1>5, <1>6

LEMMA RetryJobPreserves ==
  ASSUME IInv, NEW j \in Jobs, RetryJob(j)
  PROVE  IInv'
<1> USE DEF RetryJob, Launch, IInv, TypeOK
<1> DEFINE new == Spawn(j, attempt[j] + 1)
<1>n. /\ new \in Task
      /\ new.job = j
      /\ new.attempt = attempt[j] + 1
      /\ new.stage = "spawned"
  BY SpawnEffect
<1> HIDE DEF new
<1>l. /\ tasks' = tasks \union {new}
      /\ attempt' = [attempt EXCEPT ![j] = attempt[j] + 1]
  BY DEF new
<1>1. /\ jobs[j].status = "failed"
      /\ \A t \in tasks : t.job # j
      /\ \A p \in payloads : p.job # j
  BY Table DEF OneExecutor, OnePayload
<1>2. /\ jobs' \in [Jobs -> Job]
      /\ \A i \in Jobs \ {j} : jobs'[i] = jobs[i]
      /\ jobs'[j].status = "created"
      /\ jobs'[j].result = None
      /\ jobs'[j].error = NoError
  BY TransitionEffect DEF ResetForRetry, Statuses, None
<1>3. TypeOK'
  <2>1. tasks' \subseteq Task
    BY <1>n, <1>l
  <2>2. attempt' \in [Jobs -> Nat]
    BY <1>l
  <2>3. QED
    BY <1>2, <2>1, <2>2
<1>4. OneExecutor'
  <2>1. \A t, u \in tasks' : t.job = u.job => t = u
    BY <1>1, <1>n, <1>l DEF OneExecutor
  <2>2. ASSUME NEW t \in tasks'
        PROVE  jobs'[t.job].status = IF t.stage = "spawned" THEN "created"
                                                           ELSE "running"
    BY <2>2, <1>1, <1>2, <1>n, <1>l DEF OneExecutor, Task
  <2>3. ASSUME NEW i \in Jobs, jobs'[i].status \in {"created", "running"}
        PROVE  \E t \in tasks' : t.job = i
    <3>1. CASE i = j
      BY <3>1, <1>n, <1>l
    <3>2. CASE i # j
      BY <2>3, <3>2, <1>2, <1>l DEF OneExecutor, Live
    <3>3. QED
      BY <3>1, <3>2
  <2>4. QED
    BY <2>1, <2>2, <2>3 DEF OneExecutor, Live
<1>5. ResultOfLatestAttempt' /\ ErrorOnlyWhileFailed'
  BY <1>1, <1>2 DEF ResultOfLatestAttempt, ErrorOnlyWhileFailed
<1>6. OnePayload'
  BY <1>1, <1>2 DEF OnePayload
<1>7. Launched'
  BY <1>1, <1>2, <1>n, <1>l DEF Launched, Task
<1>8. QED
  BY <1>3, <1>4, <1>5, <1>6, <1>7

LEMMA SkipJobPreserves ==
  ASSUME IInv, NEW j \in Jobs, SkipJob(j)
  PROVE  IInv'
<1> USE DEF SkipJob, IInv, TypeOK
<1>1. jobs[j].status \in {"succeeded", "failed"}
  BY Table
<1>2. /\ jobs' \in [Jobs -> Job]
      /\ \A i \in Jobs \ {j} : jobs'[i] = jobs[i]
      /\ jobs'[j].status = "skipped"
      /\ jobs'[j].result = jobs[j].result
      /\ jobs'[j].error = NoError
  BY TransitionEffect DEF MarkSkipped, Statuses, Job
<1>3. TypeOK'
  BY <1>2
<1>4. OneExecutor'
  BY <1>1, <1>2 DEF OneExecutor, Live, Task
<1>5. ResultOfLatestAttempt' /\ ErrorOnlyWhileFailed'
  BY <1>1, <1>2 DEF ResultOfLatestAttempt, ErrorOnlyWhileFailed
<1>6. OnePayload'
  BY <1>1, <1>2 DEF OnePayload
<1>7. Launched'
  BY <1>1, <1>2 DEF Launched
<1>8. QED
  BY <1>3, <1>4, <1>5, <1>6, <1>7

LEMMA MaterializeJobPreserves ==
  ASSUME IInv, NEW j \in Jobs, NEW adopted \in SUBSET Fields,
         MaterializeJob(j, adopted)
  PROVE  IInv'
<1> USE DEF MaterializeJob, IInv, TypeOK
<1>1. /\ jobs[j].status = "succeeded"
      /\ jobs[j].result = attempt[j]
      /\ \A p \in payloads : p.job # j
  BY DEF OnePayload, ResultOfLatestAttempt
<1>2. /\ jobs' \in [Jobs -> Job]
      /\ \A i \in Jobs \ {j} : jobs'[i] = jobs[i]
      /\ jobs'[j].status = "materialized"
      /\ jobs'[j].result = jobs[j].result
      /\ jobs'[j].error = NoError
  BY TransitionEffect DEF MarkMaterialized, Statuses, Job
<1>3. /\ Materialized(j, adopted).job = j
      /\ \A f \in Fields :
           Materialized(j, adopted).parts[f] \in {Adopted, attempt[j]}
  BY <1>1 DEF Materialized
<1>4. TypeOK'
  BY <1>2, <1>3
<1>5. OneExecutor'
  BY <1>1, <1>2 DEF OneExecutor, Live, Task
<1>6. ResultOfLatestAttempt' /\ ErrorOnlyWhileFailed'
  BY <1>1, <1>2 DEF ResultOfLatestAttempt, ErrorOnlyWhileFailed
<1>7. OnePayload'
  BY <1>1, <1>2, <1>3 DEF OnePayload
<1>8. Launched'
  BY <1>1, <1>2, <1>3 DEF Launched
<1>9. QED
  BY <1>4, <1>5, <1>6, <1>7, <1>8

(* A task that gives way to its continuation, in a store where only its     *)
(* job may have changed and says what the continuation's stage says.        *)
LEMMA ReplaceTask ==
  ASSUME IInv, NEW t \in tasks, NEW u \in Task,
         u.job = t.job, u.attempt = t.attempt,
         tasks' = (tasks \ {t}) \union {u},
         jobs' \in [Jobs -> Job],
         \A i \in Jobs \ {t.job} : jobs'[i] = jobs[i],
         jobs'[t.job].status = IF u.stage = "spawned" THEN "created"
                                                      ELSE "running"
  PROVE  OneExecutor'
<1> USE DEF IInv, TypeOK
<1>1. \A x, y \in tasks' : x.job = y.job => x = y
  BY DEF OneExecutor
<1>2. ASSUME NEW x \in tasks'
      PROVE  jobs'[x.job].status = IF x.stage = "spawned" THEN "created"
                                                          ELSE "running"
  BY <1>2 DEF OneExecutor, Task
<1>3. ASSUME NEW i \in Jobs, jobs'[i].status \in {"created", "running"}
      PROVE  \E x \in tasks' : x.job = i
  BY <1>3 DEF OneExecutor, Live, Task
<1>4. QED
  BY <1>1, <1>2, <1>3 DEF OneExecutor, Live

(* A task that ends, in a store where only its job may have changed and is  *)
(* no longer in progress.                                                   *)
LEMMA EndTask ==
  ASSUME IInv, NEW t \in tasks,
         tasks' = tasks \ {t},
         jobs' \in [Jobs -> Job],
         \A i \in Jobs \ {t.job} : jobs'[i] = jobs[i],
         jobs'[t.job].status \notin {"created", "running"}
  PROVE  OneExecutor'
<1> USE DEF IInv, TypeOK
<1>1. \A x, y \in tasks' : x.job = y.job => x = y
  BY DEF OneExecutor
<1>2. ASSUME NEW x \in tasks'
      PROVE  jobs'[x.job].status = IF x.stage = "spawned" THEN "created"
                                                          ELSE "running"
  BY <1>2 DEF OneExecutor, Task
<1>3. ASSUME NEW i \in Jobs, jobs'[i].status \in {"created", "running"}
      PROVE  \E x \in tasks' : x.job = i
  BY <1>3 DEF OneExecutor, Live, Task
<1>4. QED
  BY <1>1, <1>2, <1>3 DEF OneExecutor, Live

LEMMA StartTaskPreserves ==
  ASSUME IInv, NEW t \in tasks, StartTask(t)
  PROVE  IInv'
<1> USE DEF StartTask, IInv, TypeOK
<1>1. /\ t \in Task /\ t.job \in Jobs
      /\ jobs[t.job].status = "created"
  BY Table DEF Task
<1>2. /\ jobs' \in [Jobs -> Job]
      /\ \A i \in Jobs \ {t.job} : jobs'[i] = jobs[i]
      /\ jobs'[t.job].status = "running"
      /\ jobs'[t.job].result = jobs[t.job].result
      /\ jobs'[t.job].error = NoError
  BY <1>1, TransitionEffect DEF MarkRunning, Statuses, Job
<1> DEFINE u == At(t, FirstStage(jobs[t.job].mode), 0)
<1>3. /\ u \in Task
      /\ u.job = t.job
      /\ u.attempt = t.attempt
      /\ u.stage # "spawned"
  <2>1. /\ FirstStage(jobs[t.job].mode) \in Stages
        /\ FirstStage(jobs[t.job].mode) # "spawned"
    BY DEF FirstStage, Stages
  <2>2. QED
    BY <1>1, <2>1, AtEffect
<1>4. tasks' = (tasks \ {t}) \union {u}
  OBVIOUS
<1> HIDE DEF u
<1>5. OneExecutor'
  BY <1>2, <1>3, <1>4, ReplaceTask
<1>6. TypeOK'
  BY <1>2, <1>3, <1>4
<1>7. ResultOfLatestAttempt' /\ ErrorOnlyWhileFailed'
  BY <1>1, <1>2 DEF ResultOfLatestAttempt, ErrorOnlyWhileFailed
<1>8. OnePayload'
  BY <1>1, <1>2 DEF OnePayload
<1>9. Launched'
  BY <1>1, <1>2, <1>3, <1>4 DEF Launched
<1>10. QED
  BY <1>5, <1>6, <1>7, <1>8, <1>9

LEMMA ContinueTaskPreserves ==
  ASSUME IInv, NEW t \in tasks, ContinueTask(t)
  PROVE  IInv'
<1> USE DEF IInv, TypeOK
<1>1. t \in Task /\ UNCHANGED <<jobs, attempt, payloads>>
  BY DEF ContinueTask
<1>2. PICK u \in Advance(t) : tasks' = (tasks \ {t}) \union {u}
  BY DEF ContinueTask
<1>3. /\ t.stage \in {"search", "scrape"}
      /\ u \in Task
      /\ u.job = t.job
      /\ u.attempt = t.attempt
      /\ u.stage \in {"scrape", "llm"}
  BY <1>1, AdvanceEffect
<1>4. jobs[t.job].status = "running"
  BY <1>3 DEF OneExecutor
<1>5. OneExecutor'
  BY <1>1, <1>2, <1>3, <1>4, ReplaceTask
<1>6. TypeOK'
  BY <1>1, <1>2, <1>3
<1>7. ResultOfLatestAttempt' /\ ErrorOnlyWhileFailed' /\ OnePayload'
  BY <1>1 DEF ResultOfLatestAttempt, ErrorOnlyWhileFailed, OnePayload
<1>8. Launched'
  BY <1>1, <1>2, <1>3 DEF Launched
<1>9. QED
  BY <1>5, <1>6, <1>7, <1>8

LEMMA FinishTaskPreserves ==
  ASSUME IInv, NEW t \in tasks, FinishTask(t)
  PROVE  IInv'
<1> USE DEF FinishTask, IInv, TypeOK
<1>1. /\ t \in Task /\ t.job \in Jobs
      /\ jobs[t.job].status = "running"
      /\ t.attempt = attempt[t.job]
      /\ attempt[t.job] # None
  BY DEF Task, OneExecutor, Launched, None
<1>2. /\ jobs' \in [Jobs -> Job]
      /\ \A i \in Jobs \ {t.job} : jobs'[i] = jobs[i]
      /\ jobs'[t.job].status = "succeeded"
      /\ jobs'[t.job].result = t.attempt
      /\ jobs'[t.job].error = NoError
  <2>1. MayMove(t.job, "succeeded")
    BY <1>1, Table
  <2>2. t.attempt \in Nat
    BY <1>1
  <2>3. QED
    BY <1>1, <2>1, <2>2, TransitionEffect DEF MarkSucceeded, Statuses
<1>3. OneExecutor'
  BY <1>2, EndTask
<1>4. TypeOK'
  BY <1>2
<1>5. ResultOfLatestAttempt' /\ ErrorOnlyWhileFailed'
  BY <1>1, <1>2 DEF ResultOfLatestAttempt, ErrorOnlyWhileFailed
<1>6. OnePayload'
  BY <1>1, <1>2 DEF OnePayload
<1>7. Launched'
  BY <1>1, <1>2 DEF Launched
<1>8. QED
  BY <1>3, <1>4, <1>5, <1>6, <1>7

LEMMA FailTaskPreserves ==
  ASSUME IInv, NEW t \in tasks, NEW error \in ErrorCodes, FailTask(t, error)
  PROVE  IInv'
<1> USE DEF FailTask, IInv, TypeOK
<1>1. /\ t \in Task /\ t.job \in Jobs
      /\ jobs[t.job].status \in {"created", "running"}
  BY DEF Task, OneExecutor
<1>2. /\ jobs' \in [Jobs -> Job]
      /\ \A i \in Jobs \ {t.job} : jobs'[i] = jobs[i]
      /\ jobs'[t.job].status = "failed"
      /\ jobs'[t.job].result = jobs[t.job].result
      /\ jobs'[t.job].error = error
  <2>1. MayMove(t.job, "failed")
    BY <1>1, Table
  <2>2. jobs[t.job].result \in Nat
    BY <1>1 DEF Job
  <2>3. QED
    BY <1>1, <2>1, <2>2, TransitionEffect DEF MarkFailed, Statuses
<1>3. OneExecutor'
  BY <1>2, EndTask
<1>4. TypeOK'
  BY <1>2
<1>5. error # NoError
  BY DEF ErrorCodes, NoError
<1>6. ResultOfLatestAttempt' /\ ErrorOnlyWhileFailed'
  BY <1>1, <1>2, <1>5 DEF ResultOfLatestAttempt, ErrorOnlyWhileFailed
<1>7. OnePayload'
  BY <1>1, <1>2 DEF OnePayload
<1>8. Launched'
  BY <1>1, <1>2 DEF Launched
<1>9. QED
  BY <1>3, <1>4, <1>6, <1>7, <1>8

LEMMA RestartPreserves ==
  ASSUME IInv, Restart
  PROVE  IInv'
  BY DEF Restart, IInv, TypeOK, OneExecutor, ResultOfLatestAttempt,
         ErrorOnlyWhileFailed, OnePayload, Launched, Unknown, Job, Modes,
         Statuses, None, NoError, Live

(* Every step preserves the inductive invariant. *)
LEMMA NextPreserves == IInv /\ [Next]_vars => IInv'
<1> SUFFICES ASSUME IInv, [Next]_vars
             PROVE  IInv'
  OBVIOUS
<1>1. ASSUME NEW j \in Jobs, NEW mode \in Modes, CreateJob(j, mode)
      PROVE  IInv'
  BY <1>1, CreateJobPreserves
<1>2. ASSUME NEW j \in Jobs, RetryJob(j)
      PROVE  IInv'
  BY <1>2, RetryJobPreserves
<1>3. ASSUME NEW j \in Jobs, SkipJob(j)
      PROVE  IInv'
  BY <1>3, SkipJobPreserves
<1>4. ASSUME NEW j \in Jobs, NEW adopted \in SUBSET Fields,
             MaterializeJob(j, adopted)
      PROVE  IInv'
  BY <1>4, MaterializeJobPreserves
<1>5. ASSUME NEW t \in tasks, TaskStep(t)
      PROVE  IInv'
  <2>1. CASE StartTask(t)
    BY <2>1, StartTaskPreserves
  <2>2. CASE ContinueTask(t)
    BY <2>2, ContinueTaskPreserves
  <2>3. CASE FinishTask(t)
    BY <2>3, FinishTaskPreserves
  <2>4. CASE \E e \in ErrorCodes : FailTask(t, e)
    BY <2>4, FailTaskPreserves
  <2>5. QED
    BY <1>5, <2>1, <2>2, <2>3, <2>4 DEF TaskStep
<1>6. CASE Restart
  BY <1>6, RestartPreserves
<1>7. CASE UNCHANGED vars
  BY <1>7 DEF vars, IInv, TypeOK, OneExecutor, ResultOfLatestAttempt,
              ErrorOnlyWhileFailed, OnePayload, Launched, Live
<1>8. QED
  BY <1>1, <1>2, <1>3, <1>4, <1>5, <1>6, <1>7 DEF Next

(* The inductive invariant holds throughout every behaviour of the Thinker. *)
THEOREM Invariance == Spec => []IInv
  BY InitEstablishes, NextPreserves, PTL DEF Spec

(* The variables keep their types, whatever the number of jobs. *)
THEOREM TypeCorrect == Spec => []TypeOK
<1>1. IInv => TypeOK
  BY DEF IInv
<1>2. QED
  BY <1>1, Invariance, PTL

(* A job is being executed by exactly one asyncio task while it is created  *)
(* or running, and by none otherwise.                                       *)
THEOREM SingleExecutor == Spec => []OneExecutor
<1>1. IInv => OneExecutor
  BY DEF IInv
<1>2. QED
  BY <1>1, Invariance, PTL

(* A stored result is the latest execution's, and a job that can be or was  *)
(* materialized has one.                                                    *)
THEOREM ResultProvenance == Spec => []ResultOfLatestAttempt
<1>1. IInv => ResultOfLatestAttempt
  BY DEF IInv
<1>2. QED
  BY <1>1, Invariance, PTL

(* Failure metadata is visible exactly while the job is failed.             *)
THEOREM NoStaleError == Spec => []ErrorOnlyWhileFailed
<1>1. IInv => ErrorOnlyWhileFailed
  BY DEF IInv
<1>2. QED
  BY <1>1, Invariance, PTL

(* However many clients adopt a job's result, one payload is handed out.    *)
THEOREM PayloadUniqueness == Spec => []OnePayload
<1>1. IInv => OnePayload
  BY DEF IInv
<1>2. QED
  BY <1>1, Invariance, PTL

-----------------------------------------------------------------------------
(* What a step does to one job that the store knows, the two statuses that  *)
(* no handler and no task leaves among them.                                *)
LEMMA FinalStep ==
  ASSUME IInv, [Next]_vars, NEW j \in Jobs,
         jobs[j].status \in {"materialized", "skipped"}
  PROVE  jobs'[j] \in {jobs[j], Unknown}
<1> USE DEF IInv, TypeOK
<1>1. ASSUME NEW i \in Jobs, NEW mode \in Modes, CreateJob(i, mode)
      PROVE  jobs'[j] = jobs[j]
  BY <1>1 DEF CreateJob, Launched
<1>2. ASSUME NEW i \in Jobs, RetryJob(i)
      PROVE  jobs'[j] = jobs[j]
  BY <1>2, Table, TransitionEffect DEF RetryJob, ResetForRetry, Statuses, None
<1>3. ASSUME NEW i \in Jobs, SkipJob(i)
      PROVE  jobs'[j] = jobs[j]
  BY <1>3, Table, TransitionEffect DEF SkipJob, MarkSkipped, Statuses, Job
<1>4. ASSUME NEW i \in Jobs, NEW adopted \in SUBSET Fields,
             MaterializeJob(i, adopted)
      PROVE  jobs'[j] = jobs[j]
  BY <1>4, TransitionEffect DEF MaterializeJob, MarkMaterialized, Statuses, Job
<1>5. ASSUME NEW t \in tasks, TaskStep(t)
      PROVE  jobs'[j] = jobs[j]
  <2>1. /\ t \in Task /\ t.job \in Jobs /\ t.attempt \in Nat
        /\ t.job # j
    BY DEF OneExecutor, Task
  <2>2. CASE StartTask(t)
    BY <2>1, <2>2, TransitionEffect DEF StartTask, MarkRunning, Statuses, Job
  <2>3. CASE ContinueTask(t)
    BY <2>3 DEF ContinueTask
  <2>4. CASE FinishTask(t)
    BY <2>1, <2>4, TransitionEffect DEF FinishTask, MarkSucceeded, Statuses
  <2>5. CASE \E e \in ErrorCodes : FailTask(t, e)
    <3>1. PICK e \in ErrorCodes : FailTask(t, e)
      BY <2>5
    <3>2. jobs' = Transition(t.job, "failed", jobs[t.job].result, e)
      BY <3>1 DEF FailTask, MarkFailed
    <3>3. jobs[t.job].result \in Nat
      BY <2>1 DEF Job
    <3>4. QED
      BY <2>1, <3>2, <3>3, TransitionEffect DEF Statuses
  <2>6. QED
    BY <1>5, <2>2, <2>3, <2>4, <2>5 DEF TaskStep
<1>6. CASE Restart
  BY <1>6 DEF Restart
<1>7. CASE UNCHANGED vars
  BY <1>7 DEF vars
<1>8. QED
  BY <1>1, <1>2, <1>3, <1>4, <1>5, <1>6, <1>7 DEF Next

(* A materialized or skipped job never changes again while the process      *)
(* lives: no late task and no repeated request reopens it.                  *)
THEOREM Finality == Spec => FinalStatusIsFinal
<1>1. IInv /\ [Next]_vars =>
        [\A j \in Jobs : jobs[j].status \in {"materialized", "skipped"} =>
                           jobs'[j] \in {jobs[j], Unknown}]_vars
  BY FinalStep
<1>2. QED
  BY <1>1, Invariance, PTL DEF Spec, FinalStatusIsFinal

-----------------------------------------------------------------------------
(* The refinement: each step of the store, the handlers and the tasks is a  *)
(* step of the documented state machine, or leaves every phase alone.       *)

(* One job changes its status and no other does: that is how the phases     *)
(* change.                                                                  *)
LEMMA PhaseStep ==
  ASSUME jobs \in [Jobs -> Job], jobs' \in [Jobs -> Job], NEW j \in Jobs,
         \A i \in Jobs \ {j} : jobs'[i] = jobs[i],
         jobs'[j].status # "unknown"
  PROVE  phaseBar' = [phaseBar EXCEPT ![j] = jobs'[j].status]
  BY DEF phaseBar

LEMMA RefinementStep ==
  ASSUME IInv, [Next]_vars
  PROVE  [Lifecycle!Next]_phaseBar
<1> USE DEF IInv, TypeOK
<1>a. \A j \in Jobs : phaseBar[j] = IF jobs[j].status = "unknown"
                                    THEN "absent" ELSE jobs[j].status
  BY DEF phaseBar
<1>1. ASSUME NEW j \in Jobs, NEW mode \in Modes, CreateJob(j, mode)
      PROVE  Lifecycle!Create(j)
  <2>1. jobs[j].status = "unknown"
    BY <1>1 DEF CreateJob, Launched
  <2>2. /\ jobs' \in [Jobs -> Job]
        /\ \A i \in Jobs \ {j} : jobs'[i] = jobs[i]
        /\ jobs'[j].status = "created"
    BY <1>1 DEF CreateJob, Job, Unknown, Statuses, None, NoError
  <2>3. QED
    BY <1>a, <2>1, <2>2, PhaseStep DEF Lifecycle!Create, Lifecycle!Move
<1>2. ASSUME NEW j \in Jobs, RetryJob(j)
      PROVE  Lifecycle!Retry(j)
  <2>1. jobs[j].status = "failed"
    BY <1>2, Table DEF RetryJob
  <2>2. /\ jobs' \in [Jobs -> Job]
        /\ \A i \in Jobs \ {j} : jobs'[i] = jobs[i]
        /\ jobs'[j].status = "created"
    BY <1>2, TransitionEffect DEF RetryJob, ResetForRetry, Statuses, None
  <2>3. QED
    BY <1>a, <2>1, <2>2, PhaseStep DEF Lifecycle!Retry, Lifecycle!Move
<1>3. ASSUME NEW j \in Jobs, SkipJob(j)
      PROVE  Lifecycle!Skip(j)
  <2>1. jobs[j].status \in {"succeeded", "failed"}
    BY <1>3, Table DEF SkipJob
  <2>2. /\ jobs' \in [Jobs -> Job]
        /\ \A i \in Jobs \ {j} : jobs'[i] = jobs[i]
        /\ jobs'[j].status = "skipped"
    BY <1>3, TransitionEffect DEF SkipJob, MarkSkipped, Statuses, Job
  <2>3. QED
    BY <1>a, <2>1, <2>2, PhaseStep DEF Lifecycle!Skip, Lifecycle!Move
<1>4. ASSUME NEW j \in Jobs, NEW adopted \in SUBSET Fields,
             MaterializeJob(j, adopted)
      PROVE  Lifecycle!Materialize(j)
  <2>1. jobs[j].status = "succeeded"
    BY <1>4 DEF MaterializeJob
  <2>2. /\ jobs' \in [Jobs -> Job]
        /\ \A i \in Jobs \ {j} : jobs'[i] = jobs[i]
        /\ jobs'[j].status = "materialized"
    BY <1>4, TransitionEffect DEF MaterializeJob, MarkMaterialized, Statuses, Job
  <2>3. QED
    BY <1>a, <2>1, <2>2, PhaseStep DEF Lifecycle!Materialize, Lifecycle!Move
<1>5. ASSUME NEW t \in tasks, TaskStep(t)
      PROVE  [Lifecycle!Next]_phaseBar
  <2>1. /\ t \in Task /\ t.job \in Jobs /\ t.attempt \in Nat
        /\ jobs[t.job].status = IF t.stage = "spawned" THEN "created"
                                                       ELSE "running"
        /\ jobs[t.job].result \in Nat
    BY DEF OneExecutor, Task, Job
  <2>2. CASE StartTask(t)
    <3>1. /\ jobs[t.job].status = "created"
          /\ jobs' \in [Jobs -> Job]
          /\ \A i \in Jobs \ {t.job} : jobs'[i] = jobs[i]
          /\ jobs'[t.job].status = "running"
      BY <2>1, <2>2, TransitionEffect DEF StartTask, MarkRunning, Statuses
    <3>2. Lifecycle!Start(t.job)
      BY <1>a, <2>1, <3>1, PhaseStep DEF Lifecycle!Start, Lifecycle!Move
    <3>3. QED
      BY <2>1, <3>2 DEF Lifecycle!Next
  <2>3. CASE ContinueTask(t)
    BY <2>3 DEF ContinueTask, phaseBar
  <2>4. CASE FinishTask(t)
    <3>1. /\ jobs[t.job].status = "running"
          /\ jobs' \in [Jobs -> Job]
          /\ \A i \in Jobs \ {t.job} : jobs'[i] = jobs[i]
          /\ jobs'[t.job].status = "succeeded"
      <4>1. jobs[t.job].status = "running" /\ MayMove(t.job, "succeeded")
        BY <2>1, <2>4, Table DEF FinishTask
      <4>2. QED
        BY <2>1, <2>4, <4>1, TransitionEffect
           DEF FinishTask, MarkSucceeded, Statuses
    <3>2. Lifecycle!Finish(t.job)
      BY <1>a, <2>1, <3>1, PhaseStep DEF Lifecycle!Finish, Lifecycle!Move
    <3>3. QED
      BY <2>1, <3>2 DEF Lifecycle!Next
  <2>5. CASE \E e \in ErrorCodes : FailTask(t, e)
    <3>1. PICK e \in ErrorCodes : FailTask(t, e)
      BY <2>5
    <3>2. /\ jobs[t.job].status \in {"created", "running"}
          /\ MayMove(t.job, "failed")
      BY <2>1, Table
    <3>3. /\ jobs' \in [Jobs -> Job]
          /\ \A i \in Jobs \ {t.job} : jobs'[i] = jobs[i]
          /\ jobs'[t.job].status = "failed"
      BY <2>1, <3>1, <3>2, TransitionEffect DEF FailTask, MarkFailed, Statuses
    <3>4. Lifecycle!Fail(t.job)
      BY <1>a, <2>1, <3>2, <3>3, PhaseStep DEF Lifecycle!Fail, Lifecycle!Move
    <3>5. QED
      BY <2>1, <3>4 DEF Lifecycle!Next
  <2>6. QED
    BY <1>5, <2>2, <2>3, <2>4, <2>5 DEF TaskStep
<1>6. CASE Restart
  <2>1. Lifecycle!Lose
    BY <1>6 DEF Restart, Lifecycle!Lose, phaseBar, Unknown
  <2>2. QED
    BY <2>1 DEF Lifecycle!Next
<1>7. CASE UNCHANGED vars
  BY <1>7 DEF vars, phaseBar
<1>8. QED
  BY <1>1, <1>2, <1>3, <1>4, <1>5, <1>6, <1>7 DEF Next, Lifecycle!Next

(* The Thinker implements the state machine its design documents.           *)
THEOREM Refinement == Spec => FollowsLifecycle
<1>1. Init => Lifecycle!Init
  BY DEF Init, Lifecycle!Init, phaseBar, Unknown
<1>2. IInv /\ [Next]_vars => [Lifecycle!Next]_phaseBar
  BY RefinementStep
<1>3. QED
  BY <1>1, <1>2, Invariance, PTL DEF Spec, FollowsLifecycle, Lifecycle!Spec
-----------------------------------------------------------------------------
(* The session of the page.                                                *)

(* What the gateway has made of a job whose inputs went on.                *)
Settled(origin, j) ==
  /\ jobs[j].status \in
       {"unknown", IF origin = "thinker" THEN "materialized" ELSE "skipped"}
  /\ (origin = "thinker") <=> \E p \in payloads : p.job = j

(* Thinker is on as long as a job is held or being created, the job's      *)
(* event, if it has one, stays selected, and only a job has a status.      *)
PageInv ==
  /\ session.job # NoJob => enabled /\ call.op # "create"
  /\ session.job = NoJob => session.shown = "none"
  /\ call.op = "create" => enabled /\ session.mode \in {"upload", "polymarket"}
  /\ session.mode = "polymarket" /\ (session.job # NoJob \/ call.op = "create")
       => event # NoEvent /\ event = session.event

(* Ids the page knows were given out, and a reply that says a job was      *)
(* adopted or skipped stays true until it is received.                     *)
LedgerInv ==
  /\ session.job # NoJob => attempt[session.job] # 0
  /\ \A h \in handed : h.job # NoJob =>
       attempt[h.job] # 0 /\ Settled(h.origin, h.job)
  /\ Answered("create") => call.job \in Jobs /\ attempt[call.job] # 0
  /\ Answered("adopt") => Settled("thinker", session.job)
  /\ Answered("skip") => Settled("original", session.job)

SessionInv == SessionTypeOK /\ IInv /\ PageInv /\ LedgerInv

-----------------------------------------------------------------------------
(* The shapes the page gives its session and its requests.                 *)
LEMMA NoneTypes == NoSession \in Sessions /\ NoCall \in Calls
  BY DEF NoSession, NoCall, Sessions, Calls, Ops, Shown

LEMMA PendingEffect ==
  ASSUME NEW op \in Ops
  PROVE  /\ Pending(op) \in Calls
         /\ Pending(op).op = op
         /\ Pending(op).reply = "pending"
  BY DEF Pending, NoCall, Calls, Ops, Shown

LEMMA ShowingEffect ==
  ASSUME NEW s \in Sessions, NEW status \in Shown
  PROVE  /\ Showing(s, status) \in Sessions
         /\ Showing(s, status).job = s.job
         /\ Showing(s, status).mode = s.mode
         /\ Showing(s, status).event = s.event
  BY DEF Showing, Sessions, AvailableActions

LEMMA SessionInitEstablishes == SessionInit => SessionInv
<1> SUFFICES ASSUME SessionInit PROVE SessionInv
  OBVIOUS
<1>1. SessionTypeOK
  <2>1. session \in Sessions /\ call \in Calls /\ call.op = "none"
    BY NoneTypes DEF SessionInit, NoCall
  <2>2. enabled \in BOOLEAN /\ trouble \in BOOLEAN
    BY DEF SessionInit
  <2>3. tab \in {"upload", "polymarket"} /\ event \in Events \union {NoEvent}
    BY DEF SessionInit
  <2>4. polls \in 0..MaxPolls /\ handed \subseteq Handover
    BY PollsAssumption DEF SessionInit
  <2>5. QED
    BY <2>1, <2>2, <2>3, <2>4 DEF SessionTypeOK
<1>2. IInv
  BY InitEstablishes DEF SessionInit
<1>3. PageInv /\ LedgerInv
  BY DEF SessionInit, PageInv, LedgerInv, NoSession, NoCall, Answered
<1>4. QED
  BY <1>1, <1>2, <1>3 DEF SessionInv

(* A request is one of the gateway's handlers, or changes nothing there.   *)
LEMMA HandleStep ==
  ASSUME SessionInv, NEW j \in Jobs, Handle(j)
  PROVE  [Next]_vars
<1>1. CASE call.op = "create" /\ CreateJob(j, session.mode)
  BY <1>1 DEF Next, SessionInv, PageInv, Modes
<1>2. CASE UNCHANGED vars
  BY <1>2
<1>3. CASE MaterializeJob(j, Fields)
  BY <1>3 DEF Next
<1>4. CASE RetryJob(j) \/ SkipJob(j)
  BY <1>4 DEF Next
<1>5. QED
  BY <1>1, <1>2, <1>3, <1>4 DEF Handle

(* To the gateway, the page is a client like any other: what the page does *)
(* on its own is a stuttering step.                                        *)
LEMMA SessionStep ==
  ASSUME SessionInv, [SessionNext]_sessionVars
  PROVE  [Next]_vars
<1>1. CASE UserStep
  BY <1>1 DEF UserStep
<1>2. CASE Answer
  BY <1>2, HandleStep DEF Answer
<1>3. CASE Refuse \/ LoseRequest \/ Receive
  BY <1>3 DEF Refuse, LoseRequest, Receive
<1>4. CASE RunStep
  BY <1>4 DEF RunStep, Next
<1>5. CASE GatewayRestart
  BY <1>5 DEF GatewayRestart, Next
<1>6. CASE UNCHANGED sessionVars
  BY <1>6 DEF sessionVars
<1>7. QED
  BY <1>1, <1>2, <1>3, <1>4, <1>5, <1>6 DEF SessionNext, CallStep

-----------------------------------------------------------------------------
(* What is settled stays settled.                                          *)

(* An id that was given out once is not given out again, and a job that    *)
(* the gateway has forgotten stays forgotten.                              *)
LEMMA ForgottenStays ==
  ASSUME IInv, [Next]_vars, NEW j \in Jobs, attempt[j] # 0
  PROVE  /\ attempt'[j] # 0
         /\ jobs[j].status = "unknown" => jobs'[j] = jobs[j] \/ jobs'[j] = Unknown
<1> USE DEF IInv, TypeOK
<1>1. ASSUME NEW i \in Jobs, NEW mode \in Modes, CreateJob(i, mode)
      PROVE  attempt'[j] # 0 /\ jobs'[j] = jobs[j]
  BY <1>1 DEF CreateJob, Launch
<1>2. ASSUME NEW i \in Jobs, RetryJob(i)
      PROVE  attempt'[j] # 0 /\ (jobs[j].status = "unknown" => jobs'[j] = jobs[j])
  BY <1>2, Table, TransitionEffect
     DEF RetryJob, Launch, ResetForRetry, Statuses, None
<1>3. ASSUME NEW i \in Jobs, SkipJob(i)
      PROVE  attempt' = attempt /\ (jobs[j].status = "unknown" => jobs'[j] = jobs[j])
  BY <1>3, Table, TransitionEffect DEF SkipJob, MarkSkipped, Statuses, Job
<1>4. ASSUME NEW i \in Jobs, NEW adopted \in SUBSET Fields,
             MaterializeJob(i, adopted)
      PROVE  attempt' = attempt /\ (jobs[j].status = "unknown" => jobs'[j] = jobs[j])
  BY <1>4, TransitionEffect DEF MaterializeJob, MarkMaterialized, Statuses, Job
<1>5. ASSUME NEW t \in tasks, TaskStep(t)
      PROVE  attempt' = attempt /\ (jobs[j].status = "unknown" => jobs'[j] = jobs[j])
  <2>1. /\ t \in Task /\ t.job \in Jobs /\ t.attempt \in Nat
        /\ jobs[j].status = "unknown" => t.job # j
    BY DEF OneExecutor, Task
  <2>2. CASE StartTask(t)
    BY <2>1, <2>2, TransitionEffect DEF StartTask, MarkRunning, Statuses, Job
  <2>3. CASE ContinueTask(t)
    BY <2>3 DEF ContinueTask
  <2>4. CASE FinishTask(t)
    BY <2>1, <2>4, TransitionEffect DEF FinishTask, MarkSucceeded, Statuses
  <2>5. CASE \E e \in ErrorCodes : FailTask(t, e)
    <3>1. PICK e \in ErrorCodes : FailTask(t, e)
      BY <2>5
    <3>2. jobs' = Transition(t.job, "failed", jobs[t.job].result, e)
      BY <3>1 DEF FailTask, MarkFailed
    <3>3. jobs[t.job].result \in Nat
      BY <2>1 DEF Job
    <3>4. QED
      BY <2>1, <3>1, <3>2, <3>3, TransitionEffect DEF Statuses, FailTask
  <2>6. QED
    BY <1>5, <2>2, <2>3, <2>4, <2>5 DEF TaskStep
<1>6. CASE Restart
  BY <1>6 DEF Restart
<1>7. CASE UNCHANGED vars
  BY <1>7 DEF vars
<1>8. QED
  BY <1>1, <1>2, <1>3, <1>4, <1>5, <1>6, <1>7 DEF Next

(* Only the adoption of a succeeded job yields a payload.                  *)
LEMMA PayloadStep ==
  ASSUME [Next]_vars, NEW j \in Jobs, jobs[j].status # "succeeded"
  PROVE  (\E p \in payloads' : p.job = j) <=> (\E p \in payloads : p.job = j)
<1>1. ASSUME NEW i \in Jobs, NEW adopted \in SUBSET Fields,
             MaterializeJob(i, adopted)
      PROVE  (\E p \in payloads' : p.job = j) <=> (\E p \in payloads : p.job = j)
  <2>1. Materialized(i, adopted).job = i /\ i # j
    BY <1>1 DEF MaterializeJob, Materialized
  <2>2. QED
    BY <1>1, <2>1 DEF MaterializeJob
<1>2. CASE payloads' = payloads
  BY <1>2
<1>3. QED
  BY <1>1, <1>2
     DEF Next, vars, CreateJob, RetryJob, SkipJob, TaskStep, StartTask,
         ContinueTask, FinishTask, FailTask, Restart

LEMMA SettledStays ==
  ASSUME IInv, [Next]_vars, NEW j \in Jobs, attempt[j] # 0,
         NEW origin, Settled(origin, j)
  PROVE  Settled(origin, j)'
<1>1. jobs[j].status \in {"unknown", "materialized", "skipped"}
  BY DEF Settled
<1>2. jobs'[j] \in {jobs[j], Unknown}
  BY <1>1, FinalStep, ForgottenStays
<1>3. (\E p \in payloads' : p.job = j) <=> (\E p \in payloads : p.job = j)
  BY <1>1, PayloadStep
<1>4. QED
  BY <1>2, <1>3 DEF Settled, Unknown

-----------------------------------------------------------------------------
(* The parts of the invariant, step by step.                               *)

(* What a handler leaves of the job it is about.                           *)
LEMMA HandleEffect ==
  ASSUME SessionInv, NEW j \in Jobs, Handle(j)
  PROVE  /\ jobs'[j].status \in Statuses
         /\ attempt'[j] # 0
         /\ call.op = "adopt" => j = session.job /\ Settled("thinker", j)'
         /\ call.op = "skip" => j = session.job /\ Settled("original", j)'
<1> USE DEF SessionInv, IInv, TypeOK
<1>1. IInv'
  BY HandleStep, NextPreserves
<1>2. CASE call.op = "create" /\ CreateJob(j, session.mode)
  BY <1>2 DEF CreateJob, Launch, Statuses, Unknown
<1>3. CASE call.op \in {"poll", "recover"} /\ jobs[j].status # "unknown"
             /\ UNCHANGED vars
  BY <1>3 DEF Job, vars, Launched
<1>4. CASE call.op = "adopt" /\ j = session.job /\ MaterializeJob(j, Fields)
  <2>1. jobs'[j].status = "materialized"
    BY <1>4, TransitionEffect DEF MaterializeJob, MarkMaterialized, Statuses, Job
  <2>2. attempt' = attempt /\ attempt[j] # 0
    BY <1>4 DEF MaterializeJob, Launched
  <2>3. QED
    BY <1>1, <1>4, <2>1, <2>2 DEF OnePayload, Settled, Statuses
<1>5. CASE call.op = "retry" /\ RetryJob(j)
  <2>1. jobs'[j].status = "created"
    BY <1>5, TransitionEffect DEF RetryJob, ResetForRetry, Statuses, None
  <2>2. QED
    BY <1>5, <2>1 DEF RetryJob, Launch, Statuses
<1>6. CASE call.op = "skip" /\ j = session.job /\ SkipJob(j)
  <2>1. jobs'[j].status = "skipped"
    BY <1>6, TransitionEffect DEF SkipJob, MarkSkipped, Statuses, Job
  <2>2. attempt' = attempt /\ attempt[j] # 0
    BY <1>6, Table DEF SkipJob, Launched
  <2>3. QED
    BY <1>1, <1>6, <2>1, <2>2 DEF OnePayload, Settled, Statuses
<1>7. QED
  BY <1>2, <1>3, <1>4, <1>5, <1>6 DEF Handle

(* A step that hands nothing over keeps the ledger, if what is left of the *)
(* session is about the same job and no new reply has come.                *)
LEMMA LedgerKept ==
  ASSUME SessionInv, [Next]_vars, handed' = handed,
         \/ call'.op = "none"
         \/ call'.reply # "answer"
         \/ call' = call /\ session' = session,
         \/ session'.job \in {session.job, NoJob}
         \/ Answered("create") /\ session'.job = call.job
  PROVE  LedgerInv'
<1> USE DEF SessionInv, LedgerInv
<1>1. session.job # NoJob => session.job \in Jobs
  BY DEF SessionTypeOK, Sessions
<1>2. session'.job # NoJob => session'.job \in Jobs /\ attempt'[session'.job] # 0
  BY <1>1, ForgottenStays
<1>3. ASSUME NEW h \in handed, h.job # NoJob
      PROVE  attempt'[h.job] # 0 /\ Settled(h.origin, h.job)'
  <2>1. h.job \in Jobs
    BY <1>3 DEF SessionTypeOK, Handover
  <2>2. QED
    BY <1>3, <2>1, SettledStays, ForgottenStays
<1>4. CASE call'.op = "none" \/ call'.reply # "answer"
  BY <1>2, <1>3, <1>4 DEF Answered
<1>5. CASE call' = call /\ session' = session
  <2>1. Answered("create") => attempt'[call.job] # 0
    BY ForgottenStays
  <2>2. ASSUME NEW j \in Jobs, NEW origin, attempt[j] # 0, Settled(origin, j)
        PROVE  Settled(origin, j)'
    BY <2>2, SettledStays
  <2>3. Answered("adopt") \/ Answered("skip") => session.job # NoJob
    BY DEF SessionTypeOK, Answered
  <2>4. /\ Answered("adopt") => Settled("thinker", session.job)'
        /\ Answered("skip") => Settled("original", session.job)'
    BY <1>1, <1>5, <2>2, <2>3 DEF Settled
  <2>5. Answered("create") => Answered("create")' /\ attempt'[call.job] # 0
    BY <1>5, <2>1 DEF Answered
  <2>6. QED
    BY <1>2, <1>3, <1>5, <2>1, <2>4 DEF Answered
<1>6. QED
  BY <1>4, <1>5

(* The fresh page after a hand-over that was decided, or after a reload.   *)
LEMMA FreshKeeps ==
  ASSUME SessionInv, IInv', UNCHANGED vars, FreshPage,
         \/ handed' = handed
         \/ \E origin \in {"direct", "thinker", "original"},
               j \in Jobs \union {NoJob} :
              /\ handed' = handed \union {[origin |-> origin, job |-> j]}
              /\ j # NoJob => attempt[j] # 0 /\ Settled(origin, j)
  PROVE  SessionInv'
<1> USE DEF SessionInv
<1>1. session' = NoSession /\ call' = NoCall
  BY DEF FreshPage
<1>2. \A h \in handed' : /\ h \in Handover
                         /\ h.job # NoJob => attempt[h.job] # 0
                                             /\ Settled(h.origin, h.job)
  BY DEF LedgerInv, SessionTypeOK, Handover
<1>3. SessionTypeOK'
  <2>1. session' \in Sessions /\ call' \in Calls /\ call'.op = "none"
    BY <1>1, NoneTypes DEF NoCall
  <2>2. enabled' \in BOOLEAN /\ trouble' \in BOOLEAN
    BY DEF FreshPage
  <2>3. tab' \in {"upload", "polymarket"} /\ event' \in Events \union {NoEvent}
    BY DEF FreshPage
  <2>4. polls' \in 0..MaxPolls
    BY PollsAssumption DEF FreshPage
  <2>5. QED
    BY <1>2, <2>1, <2>2, <2>3, <2>4 DEF SessionTypeOK
<1>4. PageInv'
  BY <1>1 DEF PageInv, NoSession, NoCall
<1>5. LedgerInv'
  <2>1. \A h \in handed' : h.job # NoJob =>
          attempt'[h.job] # 0 /\ Settled(h.origin, h.job)'
    BY <1>2 DEF Settled, vars
  <2>2. QED
    BY <1>1, <2>1 DEF LedgerInv, Answered, NoSession, NoCall
<1>6. QED
  BY <1>3, <1>4, <1>5

-----------------------------------------------------------------------------
(* Each step preserves the invariant; that the gateway's part of it is     *)
(* preserved is NextPreserves, through SessionStep.                        *)

LEMMA UserStepPreserves ==
  ASSUME SessionInv, UserStep
  PROVE  SessionInv'
<1> USE DEF SessionInv
<1>1. UNCHANGED vars /\ [Next]_vars /\ IInv'
  BY NextPreserves DEF UserStep
<1> DEFINE Stays == /\ enabled' = enabled
                    /\ UNCHANGED <<session, call, polls, handed, trouble>>
<1> DEFINE TabAndEvent ==
      /\ tab' \in {"upload", "polymarket"}
      /\ event' \in Events \union {NoEvent}
      /\ event' = event \/ (session.job = NoJob /\ call.op = "none")
<1>2. ASSUME Stays, TabAndEvent
      PROVE  SessionInv'
  <2>1. SessionTypeOK'
    BY <1>2 DEF SessionTypeOK
  <2>2. PageInv'
    BY <1>2 DEF PageInv
  <2>3. LedgerInv'
    BY <1>1, <1>2, LedgerKept
  <2>4. QED
    BY <1>1, <2>1, <2>2, <2>3
<1>3. CASE SwitchTab
  <2>1. Stays
    BY <1>3 DEF SwitchTab
  <2>2. TabAndEvent
    BY <1>3 DEF SwitchTab, SessionTypeOK
  <2> HIDE DEF Stays, TabAndEvent, SessionInv
  <2>3. QED
    BY <1>2, <2>1, <2>2
<1>4. CASE SelectEvent
  <2>1. Stays
    BY <1>4 DEF SelectEvent
  <2>2. TabAndEvent
    BY <1>4 DEF SelectEvent, Loading, PageInv, SessionTypeOK
  <2> HIDE DEF Stays, TabAndEvent, SessionInv
  <2>3. QED
    BY <1>2, <2>1, <2>2
<1>5. CASE ToggleThinker
  <2>1. UNCHANGED <<tab, event, call, polls, handed, trouble>>
    BY <1>5 DEF ToggleThinker
  <2>2. enabled' \in BOOLEAN
    BY <1>5 DEF ToggleThinker
  <2>3. \/ session' = session /\ ~ enabled
        \/ session' = NoSession
    BY <1>5 DEF ToggleThinker
  <2>4. call.op = "none"
    BY <1>5 DEF ToggleThinker, Loading
  <2>5. SessionTypeOK'
    BY <2>1, <2>2, <2>3, <2>4, NoneTypes DEF SessionTypeOK
  <2>6. PageInv'
    BY <2>1, <2>3, <2>4 DEF PageInv, NoSession
  <2>7. LedgerInv'
    <3>1. session'.job \in {session.job, NoJob}
      BY <2>3 DEF NoSession
    <3>2. QED
      BY <1>1, <2>1, <2>4, <3>1, LedgerKept
  <2>8. QED
    BY <1>1, <2>5, <2>6, <2>7
<1>6. CASE StartDirectly
  <2>1. FreshPage /\ handed' = handed \union {[origin |-> "direct", job |-> NoJob]}
    BY <1>6 DEF StartDirectly, HandOver
  <2>2. QED
    BY <1>1, <2>1, FreshKeeps
<1>7. CASE StartThinker
  <2>1. /\ UNCHANGED <<tab, event, enabled, handed, trouble>>
        /\ call' = Pending("create") /\ polls' = 0
        /\ enabled /\ session.job = NoJob
        /\ tab = "polymarket" => event # NoEvent
    BY <1>7 DEF StartThinker, CanSubmit
  <2>2. /\ session' \in Sessions
        /\ session'.job = NoJob
        /\ session'.mode = tab
        /\ session'.shown = session.shown
        /\ tab = "polymarket" => session'.event = event
    BY <1>7, <2>1 DEF StartThinker, SessionTypeOK, Sessions
  <2>3. /\ call' \in Calls /\ call'.op = "create" /\ call'.reply = "pending"
    BY <2>1, PendingEffect DEF Ops
  <2>4. SessionTypeOK'
    BY <2>1, <2>2, <2>3, PollsAssumption DEF SessionTypeOK
  <2>5. PageInv'
    BY <2>1, <2>2, <2>3 DEF PageInv, SessionTypeOK
  <2>6. LedgerInv'
    BY <1>1, <2>1, <2>2, <2>3, LedgerKept
  <2>7. QED
    BY <1>1, <2>4, <2>5, <2>6
<1>8. ASSUME NEW op \in {"adopt", "retry", "skip"}, Press(op),
             session.shown # "none"
      PROVE  SessionInv'
  <2>1. /\ UNCHANGED <<tab, event, enabled, session, handed, trouble>>
        /\ polls' = 0 /\ session.job # NoJob
    BY <1>8 DEF Press, PageInv
  <2>2. call' \in Calls /\ call'.op = op /\ call'.reply = "pending"
    BY <1>8, PendingEffect DEF Press, Ops
  <2>3. SessionTypeOK'
    BY <2>1, <2>2, PollsAssumption DEF SessionTypeOK
  <2>4. PageInv'
    BY <2>1, <2>2 DEF PageInv
  <2>5. LedgerInv'
    BY <1>1, <2>1, <2>2, LedgerKept
  <2>6. QED
    BY <1>1, <2>3, <2>4, <2>5
<1>9. CASE AdoptResult
  BY <1>8, <1>9 DEF AdoptResult
<1>10. CASE RetryThinker
  BY <1>8, <1>10 DEF RetryThinker
<1>11. CASE SkipThinker
  BY <1>8, <1>11 DEF SkipThinker
<1>12. CASE Reload
  BY <1>1, <1>12, FreshKeeps DEF Reload
<1>13. QED
  BY <1>3, <1>4, <1>5, <1>6, <1>7, <1>9, <1>10, <1>11, <1>12 DEF UserStep

(* The gateway handles the request, and its reply arrives or not.          *)
LEMMA AnswerPreserves ==
  ASSUME SessionInv, Answer
  PROVE  SessionInv'
<1> USE DEF SessionInv
<1>1. /\ UNCHANGED <<tab, event, enabled, session, polls, handed>>
      /\ call.reply = "pending"
  BY DEF Answer
<1>2. PICK j \in Jobs :
        /\ Handle(j)
        /\ \/ /\ call' = [call EXCEPT !.reply = "answer", !.job = j,
                                      !.status = jobs'[j].status]
              /\ UNCHANGED trouble
           \/ call' = [call EXCEPT !.reply = "lost"] /\ trouble' = TRUE
  BY DEF Answer
<1>3. [Next]_vars /\ IInv'
  BY <1>2, HandleStep, NextPreserves
<1>4. /\ jobs'[j].status \in Statuses
      /\ attempt'[j] # 0
      /\ call.op = "adopt" => j = session.job /\ Settled("thinker", j)'
      /\ call.op = "skip" => j = session.job /\ Settled("original", j)'
  BY <1>2, HandleEffect
<1>5. call' \in Calls /\ call'.op = call.op /\ trouble' \in BOOLEAN
  <2>1. call' \in Calls /\ call'.op = call.op
    BY <1>2, <1>4 DEF SessionTypeOK, Calls, Shown
  <2>2. trouble' \in BOOLEAN
    BY <1>2 DEF SessionTypeOK
  <2>3. QED
    BY <2>1, <2>2
<1>6. SessionTypeOK' /\ PageInv'
  BY <1>1, <1>5 DEF SessionTypeOK, PageInv
<1>7. LedgerInv'
  <2>1. CASE call' = [call EXCEPT !.reply = "lost"]
    <3>1. call'.reply = "lost"
      BY <2>1 DEF SessionTypeOK, Calls
    <3>2. QED
      BY <1>1, <1>3, <3>1, LedgerKept
  <2>2. CASE call' = [call EXCEPT !.reply = "answer", !.job = j,
                                  !.status = jobs'[j].status]
    <3>1. call'.job = j
      BY <2>2 DEF SessionTypeOK, Calls
    <3>2. session.job # NoJob => attempt'[session.job] # 0
      BY <1>3, ForgottenStays DEF LedgerInv, SessionTypeOK, Sessions
    <3>3. ASSUME NEW h \in handed, h.job # NoJob
          PROVE  attempt'[h.job] # 0 /\ Settled(h.origin, h.job)'
      <4>1. h.job \in Jobs
        BY <3>3 DEF SessionTypeOK, Handover
      <4>2. QED
        BY <1>3, <3>3, <4>1, SettledStays, ForgottenStays DEF LedgerInv
    <3>4. /\ call.op = "adopt" => Settled("thinker", session.job)'
          /\ call.op = "skip" => Settled("original", session.job)'
      BY <1>1, <1>4 DEF Settled
    <3>5. QED
      BY <1>1, <1>4, <1>5, <3>1, <3>2, <3>3, <3>4 DEF LedgerInv, Answered
  <2>3. QED
    BY <1>2, <2>1, <2>2
<1>8. QED
  BY <1>3, <1>6, <1>7

(* The request is refused or lost.                                         *)
LEMMA UnansweredPreserves ==
  ASSUME SessionInv, Refuse \/ LoseRequest
  PROVE  SessionInv'
<1> USE DEF SessionInv
<1>1. /\ UNCHANGED <<vars, tab, event, enabled, session, polls, handed>>
      /\ \E reply \in {"refused", "lost"} : call' = [call EXCEPT !.reply = reply]
  BY DEF Refuse, LoseRequest
<1>2. /\ call' \in Calls /\ call'.op = call.op
      /\ call'.reply \in {"refused", "lost"}
  BY <1>1 DEF SessionTypeOK, Calls
<1>3. trouble' \in BOOLEAN
  BY DEF Refuse, LoseRequest, SessionTypeOK
<1>4. IInv'
  BY <1>1, NextPreserves
<1>5. SessionTypeOK' /\ PageInv'
  BY <1>1, <1>2, <1>3 DEF SessionTypeOK, PageInv
<1>6. LedgerInv'
  BY <1>1, <1>2, LedgerKept
<1>7. QED
  BY <1>4, <1>5, <1>6

(* The page receives the reply: it shows what the reply says, or hands     *)
(* over what was decided.                                                  *)
LEMMA ReceivePreserves ==
  ASSUME SessionInv, Receive
  PROVE  SessionInv'
<1> USE DEF SessionInv
<1>1. UNCHANGED vars /\ [Next]_vars /\ IInv'
  BY NextPreserves DEF Receive
<1>2. call.op = "none" \/ call.op \in {"create", "poll", "recover", "adopt",
                                       "retry", "skip"}
  BY DEF SessionTypeOK, Calls, Ops
<1>3. ASSUME UNCHANGED <<tab, event, enabled, handed, trouble>>,
             polls' \in 0..MaxPolls,
             session' \in Sessions,
             session'.mode = session.mode, session'.event = session.event,
             session'.job = NoJob => session'.shown = "none",
             \/ session'.job = session.job
             \/ Answered("create") /\ session'.job = call.job,
             \/ call' = NoCall
             \/ session'.job # NoJob /\ \E op \in {"poll", "recover"} : Goes(op),
             session'.job # NoJob => session.job # NoJob \/ call.op = "create"
      PROVE  SessionInv'
  <2>1. /\ call' \in Calls /\ call'.op \in {"none", "poll", "recover"}
        /\ call'.reply # "answer"
        /\ call'.op # "none" => session'.job # NoJob
    <3>1. CASE call' = NoCall
      BY <3>1, NoneTypes DEF NoCall
    <3>2. ASSUME NEW op \in {"poll", "recover"}, Goes(op), session'.job # NoJob
          PROVE  /\ call' \in Calls /\ call'.op = op
                 /\ call'.reply = "pending"
      BY <3>2, PendingEffect DEF Goes, Ops
    <3>3. QED
      BY <1>3, <3>1, <3>2
  <2>2. SessionTypeOK'
    BY <1>3, <2>1 DEF SessionTypeOK
  <2>3. PageInv'
    BY <1>3, <2>1 DEF PageInv
  <2>4. LedgerInv'
    BY <1>1, <1>3, <2>1, LedgerKept
  <2>5. QED
    BY <1>1, <2>2, <2>3, <2>4
<1>4. ASSUME UNCHANGED <<tab, event, enabled, handed, trouble>>
      PROVE  /\ CreateAnswered => SessionInv'
             /\ CreateFailed => SessionInv'
             /\ PollAnswered => SessionInv'
             /\ PollFailed => SessionInv'
             /\ RecoverAnswered => SessionInv'
             /\ RecoverFailed => SessionInv'
             /\ RetryAnswered => SessionInv'
             /\ PressFailed => SessionInv'
  <2> DEFINE showing == Showing(session, call.status)
  <2>1. /\ showing \in Sessions /\ showing.job = session.job
        /\ showing.mode = session.mode /\ showing.event = session.event
    BY ShowingEffect DEF SessionTypeOK, Calls
  <2> HIDE DEF showing
  <2>2. CASE CreateAnswered
    <3>1. call.job \in Jobs /\ call.job # NoJob
      BY <2>2, NothingAssumption DEF CreateAnswered, LedgerInv
    <3>2. session' = [showing EXCEPT !.job = call.job]
      BY <2>2 DEF CreateAnswered, showing
    <3>3. /\ session' \in Sessions /\ session'.job = call.job
          /\ session'.mode = session.mode /\ session'.event = session.event
      BY <2>1, <3>1, <3>2 DEF Sessions
    <3>4. Goes("poll") /\ polls' = 0 /\ Answered("create")
      BY <2>2 DEF CreateAnswered
    <3>5. QED
      BY <1>3, <1>4, <3>1, <3>3, <3>4, PollsAssumption DEF Answered
  <2>3. CASE CreateFailed
    <3>1. session' = [session EXCEPT !.shown = "none", !.actions = {}]
      BY <2>3 DEF CreateFailed
    <3>2. /\ session' \in Sessions /\ session'.job = session.job
          /\ session'.mode = session.mode /\ session'.event = session.event
          /\ session'.shown = "none"
      BY <3>1 DEF SessionTypeOK, Sessions, Shown
    <3>3. call' = NoCall /\ polls' = 0
      BY <2>3 DEF CreateFailed, Goes
    <3>4. QED
      BY <1>3, <1>4, <3>2, <3>3, PollsAssumption
  <2>4. CASE PollAnswered
    <3>1. session.job # NoJob
      BY <2>4 DEF PollAnswered, Answered, SessionTypeOK
    <3>2. session' = showing
      BY <2>4 DEF PollAnswered, showing
    <3>3. polls' \in 0..MaxPolls
      BY <2>4, PollsAssumption DEF PollAnswered, SessionTypeOK
    <3>4. call' = NoCall \/ \E op \in {"poll", "recover"} : Goes(op)
      BY <2>4 DEF PollAnswered, Goes
    <3>5. QED
      BY <1>3, <1>4, <2>1, <3>1, <3>2, <3>3, <3>4
  <2>5. CASE PollFailed
    <3>1. session.job # NoJob
      BY <2>5 DEF PollFailed, Failed, SessionTypeOK
    <3>2. Goes("recover") /\ polls' = 0 /\ session' = session
      BY <2>5 DEF PollFailed
    <3>3. QED
      BY <1>3, <1>4, <3>1, <3>2, PollsAssumption DEF SessionTypeOK
  <2>6. CASE RecoverAnswered
    <3>1. session.job # NoJob
      BY <2>6 DEF RecoverAnswered, Answered, SessionTypeOK
    <3>2. session' = showing /\ call' = NoCall /\ polls' = polls
      BY <2>6 DEF RecoverAnswered, Goes, showing
    <3>3. QED
      BY <1>3, <1>4, <2>1, <3>1, <3>2 DEF SessionTypeOK
  <2>7. CASE RecoverFailed
    <3>1. session.job # NoJob
      BY <2>7 DEF RecoverFailed, Failed, SessionTypeOK
    <3>2. session' = [session EXCEPT !.unreachable = TRUE, !.actions = {}]
      BY <2>7 DEF RecoverFailed
    <3>3. /\ session' \in Sessions /\ session'.job = session.job
          /\ session'.mode = session.mode /\ session'.event = session.event
      BY <3>2 DEF SessionTypeOK, Sessions
    <3>4. call' = NoCall /\ polls' = polls
      BY <2>7 DEF RecoverFailed, Goes
    <3>5. QED
      BY <1>3, <1>4, <3>1, <3>3, <3>4 DEF SessionTypeOK
  <2>8. CASE RetryAnswered
    <3>1. session.job # NoJob
      BY <2>8 DEF RetryAnswered, Answered, SessionTypeOK
    <3>2. session' = showing /\ Goes("poll") /\ polls' = polls
      BY <2>8 DEF RetryAnswered, showing
    <3>3. QED
      BY <1>3, <1>4, <2>1, <3>1, <3>2 DEF SessionTypeOK
  <2>9. CASE PressFailed
    <3>1. session' = session /\ call' = NoCall /\ polls' = polls
      BY <2>9 DEF PressFailed, Goes
    <3>2. QED
      BY <1>3, <1>4, <3>1 DEF SessionTypeOK, PageInv
  <2>10. QED
    BY <2>2, <2>3, <2>4, <2>5, <2>6, <2>7, <2>8, <2>9
<1>5. ASSUME NEW op \in {"adopt", "skip"},
             NEW origin \in {"thinker", "original"},
             Answered(op), Settled(origin, session.job),
             HandOver(origin, session.job)
      PROVE  SessionInv'
  <2>1. session.job \in Jobs /\ session.job # NoJob
    BY <1>5 DEF Answered, SessionTypeOK, Sessions
  <2>2. /\ FreshPage
        /\ handed' = handed \union {[origin |-> origin, job |-> session.job]}
        /\ attempt[session.job] # 0
    BY <1>5, <2>1 DEF HandOver, LedgerInv
  <2>3. QED
    BY <1>1, <1>5, <2>1, <2>2, FreshKeeps
<1>6. CASE AdoptAnswered
  BY <1>5, <1>6 DEF AdoptAnswered, LedgerInv
<1>7. CASE SkipAnswered
  BY <1>5, <1>7 DEF SkipAnswered, LedgerInv
<1>8. QED
  BY <1>4, <1>6, <1>7 DEF Receive

LEMMA SessionNextPreserves == SessionInv /\ [SessionNext]_sessionVars => SessionInv'
<1> SUFFICES ASSUME SessionInv, [SessionNext]_sessionVars
             PROVE  SessionInv'
  OBVIOUS
<1>1. [Next]_vars /\ IInv'
  BY SessionStep, NextPreserves DEF SessionInv
<1>2. ASSUME UNCHANGED <<tab, event, enabled, session, call, polls, handed>>,
             trouble' \in BOOLEAN
      PROVE  SessionInv'
  <2>1. SessionTypeOK' /\ PageInv'
    BY <1>2 DEF SessionInv, SessionTypeOK, PageInv
  <2>2. LedgerInv'
    BY <1>1, <1>2, LedgerKept
  <2>3. QED
    BY <1>1, <2>1, <2>2 DEF SessionInv
<1>3. CASE RunStep
  BY <1>2, <1>3 DEF RunStep, pageVars, SessionInv, SessionTypeOK
<1>4. CASE GatewayRestart
  <2>1. trouble' \in BOOLEAN
    BY <1>4 DEF GatewayRestart
  <2>2. QED
    BY <1>2, <1>4, <2>1 DEF GatewayRestart
<1>5. CASE UNCHANGED sessionVars
  BY <1>2, <1>5 DEF sessionVars, pageVars, SessionInv, SessionTypeOK
<1>6. QED
  BY <1>3, <1>4, <1>5, UserStepPreserves, AnswerPreserves,
     UnansweredPreserves, ReceivePreserves DEF SessionNext, CallStep

-----------------------------------------------------------------------------
(* The session's invariant, for any number of jobs, events and polls.      *)
THEOREM SessionInvariance == SessionSpec => []SessionInv
  BY SessionInitEstablishes, SessionNextPreserves, PTL DEF SessionSpec

(* The page drives the gateway through its handlers only: every theorem    *)
(* about the Thinker alone holds of it under a page, too.                  *)
THEOREM SessionImplementsThinker == SessionSpec => Spec
<1>1. SessionInit => Init
  BY DEF SessionInit
<1>2. SessionInv /\ [SessionNext]_sessionVars => [Next]_vars
  BY SessionStep
<1>3. QED
  BY <1>1, <1>2, SessionInvariance, PTL DEF SessionSpec, Spec

(* The page's variables keep their types.                                  *)
THEOREM SessionTypeCorrect == SessionSpec => []SessionTypeOK
<1>1. SessionInv => SessionTypeOK
  BY DEF SessionInv
<1>2. QED
  BY <1>1, SessionInvariance, PTL

(* What went on to the simulation is what the gateway materialized or      *)
(* skipped, whatever was lost and restarted on the way.                    *)
THEOREM HandoverAgrees == SessionSpec => []HandedIsDecided
<1>1. SessionInv => HandedIsDecided
  BY DEF SessionInv, LedgerInv, Settled, HandedIsDecided
<1>2. QED
  BY <1>1, SessionInvariance, PTL

(* A Polymarket job and the selected event stay together.                  *)
THEOREM EventStays == SessionSpec => []EventOfSession
<1>1. SessionInv => EventOfSession
  BY DEF SessionInv, PageInv, EventOfSession
<1>2. QED
  BY <1>1, SessionInvariance, PTL

-----------------------------------------------------------------------------
(* What the page shows and what it may press.  Open: the statuses of a job *)
(* that the page polls, as nobody but the page adopts or skips it.         *)

Going == {"created", "running"}
Ends == {"succeeded", "failed"}
Open == Going \union Ends \union {"unknown"}
Presses == {"adopt", "retry", "skip"}

(* What may be shown at rest of a job with a status: ShownIsCurrent.       *)
Agrees(shown, status, lossy) ==
  \/ shown = status
  \/ shown \in Going
  \/ lossy /\ shown = "failed" /\ status # "materialized"
  \/ lossy /\ shown = "succeeded" /\ status \in {"materialized", "skipped", "unknown"}

(* The same with a request under way: while the page polls, it shows a job *)
(* that goes on, and a reply that says it has ended stays true.            *)
View(shown, status, c, lossy) ==
  /\ shown \in Going \union Ends
  /\ status = "unknown" => lossy
  /\ c.op \in {"poll", "recover"} => shown \in Going /\ status \in Open
  /\ c.op \in {"poll", "recover"} /\ c.reply = "answer" =>
       /\ c.status \in Going \union Ends
       /\ c.status \in Ends => status \in {c.status, "unknown"}
  /\ c.op = "none" \/ (c.op \in Presses /\ c.reply # "answer") =>
       Agrees(shown, status, lossy)
  /\ c.op = "adopt" => shown = "succeeded"
  /\ c.op = "retry" => shown = "failed"
  /\ c.op = "skip" => shown \in Ends
  /\ c.op = "retry" /\ c.reply = "answer" => c.status = "created" /\ status \in Open

Created(status, c, lossy) ==
  c.status = "created" /\ status \in Open /\ (status = "unknown" => lossy)

ViewInv ==
  /\ session.job # NoJob => View(session.shown, jobs[session.job].status, call, trouble)
  /\ Answered("create") => Created(jobs[call.job].status, call, trouble)
  /\ call.reply = "refused" => trouble \/ NothingToRead

(* What a run of the gateway does to a status by itself.                   *)
Moves(status, next) ==
  next = status \/ (status \in Going /\ next \in {"running"} \union Ends)

LEMMA TaskMoves ==
  ASSUME IInv, NEW t \in tasks, TaskStep(t), NEW j \in Jobs
  PROVE  Moves(jobs[j].status, jobs'[j].status)
<1> USE DEF IInv, TypeOK
<1>1. /\ t \in Task /\ t.job \in Jobs /\ t.attempt \in Nat
      /\ jobs[t.job].status \in Going
      /\ t.stage = "llm" => jobs[t.job].status = "running"
  BY DEF OneExecutor, Task, Going
<1>2. ASSUME NEW status \in {"running", "succeeded", "failed"}, NEW result \in Nat,
             NEW error \in ErrorCodes \union {NoError},
             jobs' = Transition(t.job, status, result, error)
      PROVE  Moves(jobs[j].status, jobs'[j].status)
  <2>1. status \in Statuses
    BY DEF Statuses
  <2>2. CASE j = t.job
    BY <1>1, <1>2, <2>1, <2>2, TransitionEffect DEF Moves, Ends
  <2>3. CASE j # t.job
    BY <1>1, <1>2, <2>1, <2>3, TransitionEffect DEF Moves
  <2>4. QED
    BY <2>2, <2>3
<1>3. jobs[t.job].result \in Nat
  BY <1>1 DEF Job
<1>4. CASE StartTask(t)
  BY <1>1, <1>2, <1>3, <1>4 DEF StartTask, MarkRunning
<1>5. CASE ContinueTask(t)
  BY <1>5 DEF ContinueTask, Moves
<1>6. CASE FinishTask(t)
  BY <1>1, <1>2, <1>6 DEF FinishTask, MarkSucceeded
<1>7. CASE \E e \in ErrorCodes : FailTask(t, e)
  BY <1>1, <1>2, <1>3, <1>7 DEF FailTask, MarkFailed
<1>8. QED
  BY <1>4, <1>5, <1>6, <1>7 DEF TaskStep

(* No run makes a view untrue, and a restart only with trouble.            *)
LEMMA ViewMoves ==
  ASSUME NEW shown, NEW status, NEW next, NEW c, NEW lossy \in BOOLEAN,
         View(shown, status, c, lossy), Moves(status, next)
  PROVE  View(shown, next, c, lossy)
  BY DEF View, Agrees, Moves, Open, Going, Ends

LEMMA ViewForgotten ==
  ASSUME NEW shown, NEW status, NEW c, NEW lossy \in BOOLEAN,
         View(shown, status, c, lossy)
  PROVE  View(shown, "unknown", c, TRUE)
  BY DEF View, Agrees, Open, Going, Ends

(* A request that is lost, after the gateway has handled it or before.     *)
LEMMA ViewLost ==
  ASSUME NEW shown, NEW status, NEW c, NEW d, NEW lossy \in BOOLEAN,
         View(shown, status, c, lossy),
         c.reply = "pending", d.op = c.op, d.reply \in {"lost", "refused"}
  PROVE  View(shown, status, d, TRUE)
  BY DEF View, Agrees

-----------------------------------------------------------------------------
(* The view, step by step.                                                 *)

LEMMA RunsKeepView ==
  ASSUME SessionInv, ViewInv, RunStep
  PROVE  ViewInv'
<1> USE DEF SessionInv
<1>1. /\ session' = session /\ call' = call /\ trouble' = trouble
      /\ trouble \in BOOLEAN /\ session.job \in Jobs \union {NoJob}
  BY DEF RunStep, pageVars, SessionTypeOK, Sessions
<1>2. ASSUME NEW j \in Jobs PROVE Moves(jobs[j].status, jobs'[j].status)
  BY TaskMoves DEF RunStep
<1>3. session.job # NoJob => View(session.shown, jobs'[session.job].status, call, trouble)
  BY <1>1, <1>2, ViewMoves DEF ViewInv
<1>4. Answered("create") => Created(jobs'[call.job].status, call, trouble)
  <2>1. SUFFICES ASSUME Answered("create")
                 PROVE  Created(jobs'[call.job].status, call, trouble)
    OBVIOUS
  <2>2. Created(jobs[call.job].status, call, trouble)
        /\ Moves(jobs[call.job].status, jobs'[call.job].status)
    BY <1>2, <2>1 DEF LedgerInv, ViewInv
  <2>3. QED
    BY <2>2 DEF Created, Moves, Open, Going, Ends
<1>5. QED
  BY <1>1, <1>3, <1>4 DEF ViewInv, Answered, NothingToRead

LEMMA RestartKeepsView ==
  ASSUME SessionInv, ViewInv, GatewayRestart
  PROVE  ViewInv'
<1> USE DEF SessionInv
<1>1. /\ session' = session /\ call' = call /\ trouble' = TRUE
      /\ trouble \in BOOLEAN /\ session.job \in Jobs \union {NoJob}
      /\ \A j \in Jobs : jobs'[j].status = "unknown"
  BY DEF GatewayRestart, Restart, Unknown, SessionTypeOK, Sessions
<1>2. session.job # NoJob => View(session.shown, "unknown", call, TRUE)
  BY <1>1, ViewForgotten DEF ViewInv
<1>3. Answered("create") => call.job \in Jobs /\ Created("unknown", call, TRUE)
  BY DEF ViewInv, LedgerInv, Created, Open
<1>4. QED
  BY <1>1, <1>2, <1>3 DEF ViewInv, Answered

LEMMA UserKeepsView ==
  ASSUME SessionInv, ViewInv, UserStep
  PROVE  ViewInv'
<1> USE DEF SessionInv
<1>1. jobs' = jobs
  BY DEF UserStep, vars
<1>2. CASE UNCHANGED <<session, call, trouble>>
  BY <1>1, <1>2 DEF ViewInv, Answered, NothingToRead
<1>3. CASE session' = NoSession /\ call' = NoCall
  BY <1>3 DEF ViewInv, Answered, NoSession, NoCall
<1>4. CASE ToggleThinker
  <2>1. call' = call /\ trouble' = trouble /\ call.op = "none"
    BY <1>4 DEF ToggleThinker, Loading
  <2>2. session' = session \/ session' = NoSession
    BY <1>4 DEF ToggleThinker
  <2>3. QED
    BY <1>2, <2>1, <2>2 DEF ViewInv, Answered, NothingToRead, NoSession
<1>5. CASE StartThinker
  <2>1. session'.job = NoJob
    BY <1>5 DEF StartThinker, CanSubmit, SessionTypeOK, Sessions
  <2>2. call'.reply = "pending"
    BY <1>5, PendingEffect DEF StartThinker, Ops
  <2>3. QED
    BY <2>1, <2>2 DEF ViewInv, Answered
<1>6. ASSUME NEW op \in Presses, Press(op),
             op = "adopt" => session.shown = "succeeded",
             op = "retry" => session.shown = "failed",
             op = "skip" => session.shown \in Ends
      PROVE  ViewInv'
  <2>1. call.op = "none" /\ session' = session /\ trouble' = trouble
    BY <1>6 DEF Press, Loading
  <2>2. call'.op = op /\ call'.reply = "pending"
    BY <1>6, PendingEffect DEF Press, Ops, Presses
  <2>3. session.job # NoJob => View(session.shown, jobs[session.job].status, call', trouble)
    BY <1>6, <2>1, <2>2 DEF ViewInv, View, Presses
  <2>4. QED
    BY <1>1, <2>1, <2>2, <2>3 DEF ViewInv, Answered
<1>7. CASE AdoptResult \/ RetryThinker \/ SkipThinker
  BY <1>6, <1>7 DEF AdoptResult, RetryThinker, SkipThinker, Presses, Ends
<1>8. QED
  BY <1>2, <1>3, <1>4, <1>5, <1>7
     DEF UserStep, SwitchTab, SelectEvent, StartDirectly, HandOver, Reload, FreshPage

(* What a handler makes of the held job, as the page sees it.              *)
LEMMA HandleStatus ==
  ASSUME SessionInv, NEW j \in Jobs, Handle(j)
  PROVE  /\ call.op = "create" => jobs'[j].status = "created"
         /\ call.op \in {"poll", "recover"} =>
              jobs' = jobs /\ jobs[j].status # "unknown"
         /\ call.op = "adopt" => jobs'[j].status = "materialized"
         /\ call.op = "retry" => jobs'[j].status = "created"
         /\ call.op = "skip" => jobs'[j].status = "skipped"
         /\ call.op # "create" => j = session.job
         /\ call.op \in {"create", "poll", "recover", "adopt", "retry", "skip"}
<1>0. jobs \in [Jobs -> Job]
  BY DEF SessionInv, IInv, TypeOK
<1> HIDE DEF SessionInv, IInv
<1>1. CASE call.op = "create" /\ CreateJob(j, session.mode)
  BY <1>0, <1>1 DEF CreateJob, Unknown
<1>2. CASE /\ j = session.job /\ call.op \in {"poll", "recover"}
           /\ jobs[j].status # "unknown" /\ UNCHANGED vars
  BY <1>2 DEF vars
<1>3. CASE call.op = "adopt" /\ j = session.job /\ MaterializeJob(j, Fields)
  BY <1>0, <1>3, TransitionEffect DEF MaterializeJob, MarkMaterialized, Statuses, Job
<1>4. CASE call.op = "retry" /\ j = session.job /\ RetryJob(j)
  <2>1. jobs' = Transition(j, "created", None, NoError) /\ MayMove(j, "created")
    BY <1>4 DEF RetryJob, ResetForRetry
  <2>2. jobs'[j].status = "created"
    BY <1>0, <2>1, TransitionEffect DEF Statuses, None
  <2>3. QED
    BY <1>4, <2>2
<1>5. CASE call.op = "skip" /\ j = session.job /\ SkipJob(j)
  BY <1>0, <1>5, TransitionEffect DEF SkipJob, MarkSkipped, Statuses, Job
<1>6. QED
  BY <1>1, <1>2, <1>3, <1>4, <1>5 DEF Handle

(* The view while the reply to a handled request is on its way: it is of   *)
(* the status the handler has left.                                        *)
Handled(op, status, next) ==
  /\ op \in {"poll", "recover"} \union Presses
  /\ op \in {"poll", "recover"} => next = status /\ status # "unknown"
  /\ op = "adopt" => next = "materialized"
  /\ op = "retry" => next = "created"
  /\ op = "skip" => next = "skipped"

LEMMA ViewHandled ==
  ASSUME NEW shown, NEW status, NEW next, NEW c, NEW d, NEW lossy \in BOOLEAN,
         View(shown, status, c, lossy), Handled(c.op, status, next),
         c.reply = "pending", d.op = c.op, d.reply = "answer", d.status = next
  PROVE  View(shown, next, d, lossy)
  BY DEF View, Agrees, Handled, Open, Going, Ends, Presses

LEMMA AnswerKeepsView ==
  ASSUME SessionInv, ViewInv, Answer
  PROVE  ViewInv'
<1> USE DEF SessionInv
<1>1. session' = session /\ call.reply = "pending"
  BY DEF Answer
<1>2. PICK j \in Jobs :
        /\ Handle(j)
        /\ \/ /\ call' = [call EXCEPT !.reply = "answer", !.job = j,
                                      !.status = jobs'[j].status]
              /\ UNCHANGED trouble
           \/ call' = [call EXCEPT !.reply = "lost"] /\ trouble' = TRUE
  BY DEF Answer
<1>3. /\ call'.op = call.op
      /\ \/ /\ call'.reply = "answer" /\ call'.job = j
            /\ call'.status = jobs'[j].status /\ trouble' = trouble
         \/ call'.reply = "lost" /\ trouble' = TRUE
  BY <1>2 DEF SessionTypeOK, Calls
<1>4. trouble \in BOOLEAN
  BY DEF SessionTypeOK
<1>5. CASE call.op = "create"
  <2>1. session.job = NoJob
    BY <1>5 DEF PageInv
  <2>2. jobs'[j].status = "created"
    BY <1>2, <1>5, HandleStatus
  <2>3. Answered("create")' => Created(jobs'[call'.job].status, call', trouble')
    BY <1>3, <2>2 DEF Answered, Created, Open, Going
  <2>4. QED
    BY <1>1, <1>3, <2>1, <2>3 DEF ViewInv
<1>6. CASE call.op # "create"
  <2>1. j = session.job /\ session.job # NoJob
    BY <1>2, <1>6, HandleStatus, NothingAssumption
  <2>2. View(session.shown, jobs[j].status, call, trouble)
    BY <2>1 DEF ViewInv
  <2>3. Handled(call.op, jobs[j].status, jobs'[j].status)
    BY <1>2, <1>6, HandleStatus DEF Handled, Presses
  <2>4. View(session.shown, jobs'[j].status, call', trouble')
    <3> HIDE DEF SessionInv
    <3>1. CASE /\ call'.reply = "answer" /\ call'.status = jobs'[j].status
               /\ trouble' = trouble
      BY <1>1, <1>3, <1>4, <2>2, <2>3, <3>1, ViewHandled
    <3>2. CASE call'.reply = "lost" /\ trouble' = TRUE
      BY <1>1, <1>3, <1>4, <2>2, <2>3, <3>2 DEF View, Agrees, Handled, Open, Going, Ends, Presses
    <3>3. QED
      BY <1>3, <3>1, <3>2
  <2>5. QED
    BY <1>1, <1>3, <1>6, <2>1, <2>4 DEF ViewInv, Answered
<1>7. QED
  BY <1>5, <1>6

(* A status that refuses what was pressed is one the page was not shown.   *)
LEMMA RefusedInTrouble ==
  ASSUME NEW shown, NEW status, NEW c, NEW lossy \in BOOLEAN,
         View(shown, status, c, lossy), c.reply = "pending", Refuses(c.op, status),
         c.op \in {"poll", "recover", "adopt", "retry", "skip"}
  PROVE  lossy
<1>1. CASE c.op \in {"poll", "recover"}
  BY <1>1 DEF View, Refuses
<1>2. CASE c.op = "adopt"
  <2>1. status # "succeeded" /\ shown = "succeeded" /\ Agrees(shown, status, lossy)
    BY <1>2 DEF View, Refuses, Presses
  <2>2. QED
    BY <2>1 DEF Agrees, Going
<1>3. CASE c.op = "retry"
  <2>1. /\ "retry" \notin AvailableActions(status)
        /\ shown = "failed" /\ Agrees(shown, status, lossy)
    BY <1>3 DEF View, Refuses, Presses
  <2>2. QED
    BY <2>1 DEF Agrees, Going, AvailableActions
<1>4. CASE c.op = "skip"
  <2>1. /\ "skip" \notin AvailableActions(status)
        /\ shown \in Ends /\ Agrees(shown, status, lossy)
    BY <1>4 DEF View, Refuses, Presses
  <2>2. QED
    BY <2>1 DEF Agrees, Going, Ends, AvailableActions
<1>5. QED
  BY <1>1, <1>2, <1>3, <1>4

LEMMA UnansweredKeepsView ==
  ASSUME SessionInv, ViewInv, Refuse \/ LoseRequest
  PROVE  ViewInv'
<1> USE DEF SessionInv
<1>1. /\ jobs' = jobs /\ session' = session /\ call.reply = "pending"
      /\ trouble \in BOOLEAN
  BY DEF Refuse, LoseRequest, vars, SessionTypeOK
<1>2. call'.op = call.op /\ call'.reply \in {"lost", "refused"}
  BY DEF Refuse, LoseRequest, SessionTypeOK, Calls
<1>3. CASE NothingToRead
  <2>1. session.job = NoJob
    BY <1>3 DEF NothingToRead
  <2>2. NothingToRead'
    BY <1>1, <1>2, <1>3 DEF NothingToRead
  <2>3. QED
    BY <1>1, <1>2, <2>1, <2>2 DEF ViewInv, Answered
<1>4. ASSUME ~ NothingToRead
      PROVE  trouble' = TRUE
  <2>1. CASE LoseRequest
    BY <2>1 DEF LoseRequest
  <2>2. CASE Refuse
    <3>1. /\ call.op \in {"poll", "recover", "adopt", "retry", "skip"}
          /\ Refuses(call.op, jobs[session.job].status)
          /\ trouble' = trouble
      BY <1>4, <2>2 DEF Refuse, SessionTypeOK, Calls, Ops, Refuses
    <3>2. View(session.shown, jobs[session.job].status, call, trouble)
      BY <3>1 DEF ViewInv, SessionTypeOK
    <3>3. QED
      BY <1>1, <3>1, <3>2, RefusedInTrouble
  <2>3. QED
    BY <2>1, <2>2
<1>5. session.job # NoJob => View(session.shown, jobs[session.job].status, call', TRUE)
  BY <1>1, <1>2, ViewLost DEF ViewInv
<1>6. CASE ~ NothingToRead
  BY <1>1, <1>2, <1>4, <1>5, <1>6 DEF ViewInv, Answered
<1>7. QED
  BY <1>3, <1>6

(* What comes of a reply, for any session and request that follow it.      *)
LEMMA ViewAnswered ==
  ASSUME NEW shown, NEW status, NEW c, NEW d, NEW lossy \in BOOLEAN,
         View(shown, status, c, lossy), c.reply = "answer"
  PROVE  /\ c.op \in {"poll", "recover"} /\ d.op = "none" =>
              View(c.status, status, d, lossy)
         /\ c.op = "poll" /\ c.status \notin Ends
              /\ d.op \in {"poll", "recover"} /\ d.reply = "pending" =>
              View(c.status, status, d, lossy)
         /\ c.op = "retry" /\ d.op = "poll" /\ d.reply = "pending" =>
              View(c.status, status, d, lossy)
  BY DEF View, Agrees, Open, Going, Ends, Presses

LEMMA ViewFailed ==
  ASSUME NEW shown, NEW status, NEW c, NEW d, NEW lossy \in BOOLEAN,
         View(shown, status, c, lossy), c.reply \in {"refused", "lost"}
  PROVE  /\ c.op = "poll" /\ d.op = "recover" /\ d.reply = "pending" =>
              View(shown, status, d, lossy)
         /\ c.op \in {"recover"} \union Presses /\ d.op = "none" =>
              View(shown, status, d, lossy)
  BY DEF View, Agrees, Open, Going, Ends, Presses

LEMMA ViewCreated ==
  ASSUME NEW status, NEW c, NEW d, NEW lossy \in BOOLEAN,
         Created(status, c, lossy), d.op = "poll", d.reply = "pending"
  PROVE  View(c.status, status, d, lossy)
  BY DEF View, Created, Agrees, Open, Going, Ends, Presses

LEMMA ReceiveKeepsView ==
  ASSUME SessionInv, ViewInv, Receive
  PROVE  ViewInv'
<1> USE DEF SessionInv
<1>1. jobs' = jobs /\ trouble \in BOOLEAN
  BY DEF Receive, vars, SessionTypeOK
<1>2. CASE session' = NoSession /\ call' = NoCall
  BY <1>2 DEF ViewInv, Answered, NoSession, NoCall
<1>3. CASE AdoptAnswered \/ SkipAnswered
  BY <1>2, <1>3 DEF AdoptAnswered, SkipAnswered, HandOver, FreshPage
<1>4. ASSUME NEW op \in Ops, Goes(op)
      PROVE  /\ call'.op = op
             /\ call'.reply = IF op = "none" THEN "none" ELSE "pending"
  BY <1>4, PendingEffect DEF Goes, NoCall
<1>5. ASSUME trouble' = trouble,
             call'.reply \in {"none", "pending"},
             session'.job # NoJob =>
               View(session'.shown, jobs[session'.job].status, call', trouble)
      PROVE  ViewInv'
  BY <1>1, <1>5 DEF ViewInv, Answered
<1>6. /\ Showing(session, call.status).job = session.job
      /\ Showing(session, call.status).shown = call.status
  BY DEF Showing, SessionTypeOK, Sessions
<1>7. session.job # NoJob => View(session.shown, jobs[session.job].status, call, trouble)
  BY DEF ViewInv
<1>8. CASE trouble' = trouble /\ CreateAnswered
  <2>1. Answered("create") /\ call'.op = "poll" /\ call'.reply = "pending"
    BY <1>4, <1>8 DEF CreateAnswered, Ops
  <2>2. session'.job = call.job /\ session'.shown = call.status
    BY <1>8 DEF CreateAnswered, Showing, SessionTypeOK, Sessions
  <2>3. Created(jobs[call.job].status, call, trouble)
    BY <2>1 DEF ViewInv
  <2>4. View(call.status, jobs[call.job].status, call', trouble)
    <3> HIDE DEF SessionInv
    <3>1. QED
      BY <1>1, <2>1, <2>3, ViewCreated
  <2>5. QED
    BY <1>5, <1>8, <2>1, <2>2, <2>4
<1>9. CASE trouble' = trouble /\ CreateFailed
  <2>1. session'.job = NoJob
    BY <1>9 DEF CreateFailed, Failed, PageInv, SessionTypeOK, Sessions
  <2>2. call'.reply = "none"
    BY <1>4, <1>9 DEF CreateFailed, Ops
  <2>3. QED
    BY <1>5, <1>9, <2>1, <2>2
<1>10. CASE trouble' = trouble /\ (PollAnswered \/ RecoverAnswered \/ RetryAnswered)
  <2>1. session.job # NoJob /\ call.reply = "answer"
    BY <1>10 DEF PollAnswered, RecoverAnswered, RetryAnswered, Answered, SessionTypeOK
  <2>2. session'.job = session.job /\ session'.shown = call.status
    BY <1>6, <1>10 DEF PollAnswered, RecoverAnswered, RetryAnswered
  <2>3. \/ call.op \in {"poll", "recover"} /\ call'.op = "none" /\ call'.reply = "none"
        \/ /\ call.op = "poll" /\ call.status \notin Ends
           /\ call'.op \in {"poll", "recover"} /\ call'.reply = "pending"
        \/ call.op = "retry" /\ call'.op = "poll" /\ call'.reply = "pending"
    <3>1. CASE PollAnswered
      <4>1. call.op = "poll"
        BY <3>1 DEF PollAnswered, Answered
      <4>2. \/ Goes("none")
            \/ call.status \notin Ends /\ (Goes("poll") \/ Goes("recover"))
        BY <3>1 DEF PollAnswered, Terminal, Ends
      <4>3. QED
        BY <1>4, <4>1, <4>2 DEF Ops
    <3>2. CASE RecoverAnswered
      BY <1>4, <3>2 DEF RecoverAnswered, Answered, Ops
    <3>3. CASE RetryAnswered
      BY <1>4, <3>3 DEF RetryAnswered, Answered, Ops
    <3>4. QED
      BY <1>10, <3>1, <3>2, <3>3
  <2>4. View(session.shown, jobs[session.job].status, call, trouble)
    BY <1>7, <2>1
  <2>5. View(call.status, jobs[session.job].status, call', trouble)
    <3> HIDE DEF SessionInv
    <3>1. QED
      BY <1>1, <2>1, <2>3, <2>4, ViewAnswered
  <2>6. QED
    BY <1>5, <1>10, <2>2, <2>3, <2>5
<1>11. CASE trouble' = trouble /\ (PollFailed \/ RecoverFailed \/ PressFailed)
  <2>1. session.job # NoJob /\ call.reply \in {"refused", "lost"}
    BY <1>11 DEF PollFailed, RecoverFailed, PressFailed, Failed, SessionTypeOK
  <2>2. session'.job = session.job /\ session'.shown = session.shown
    BY <1>11 DEF PollFailed, RecoverFailed, PressFailed, SessionTypeOK, Sessions
  <2>3. \/ call.op = "poll" /\ call'.op = "recover" /\ call'.reply = "pending"
        \/ /\ call.op \in {"recover"} \union Presses
           /\ call'.op = "none" /\ call'.reply = "none"
    BY <1>4, <1>11 DEF PollFailed, RecoverFailed, PressFailed, Failed, Ops, Presses
  <2>4. View(session.shown, jobs[session.job].status, call, trouble)
    BY <1>7, <2>1
  <2>5. View(session.shown, jobs[session.job].status, call', trouble)
    <3> HIDE DEF SessionInv
    <3>1. QED
      BY <1>1, <2>1, <2>3, <2>4, ViewFailed
  <2>6. QED
    BY <1>5, <1>11, <2>2, <2>3, <2>5
<1>12. QED
  BY <1>3, <1>8, <1>9, <1>10, <1>11 DEF Receive

LEMMA ViewStep == SessionInv /\ ViewInv /\ [SessionNext]_sessionVars => ViewInv'
<1> SUFFICES ASSUME SessionInv, ViewInv, [SessionNext]_sessionVars
             PROVE  ViewInv'
  OBVIOUS
<1>1. CASE UNCHANGED sessionVars
  BY <1>1 DEF sessionVars, vars, pageVars, ViewInv, Answered, NothingToRead
<1>2. QED
  BY <1>1, UserKeepsView, AnswerKeepsView, UnansweredKeepsView, ReceiveKeepsView,
     RunsKeepView, RestartKeepsView DEF SessionNext, CallStep

(* The view's invariant, for any number of jobs, events and polls.         *)
THEOREM ViewInvariance == SessionSpec => []ViewInv
<1>1. SessionInit => ViewInv
  <2>1. SessionInit => session.job = NoJob /\ call.op = "none" /\ call.reply = "none"
    BY DEF SessionInit, NoSession, NoCall
  <2>2. QED
    BY <2>1 DEF ViewInv, Answered
<1>2. QED
  BY <1>1, ViewStep, SessionInvariance, PTL DEF SessionSpec

(* What a page shows at rest is current, up to what it stopped polling and *)
(* what was lost, whatever the gateway's runs do meanwhile.                *)
THEOREM ShownStaysCurrent == SessionSpec => []ShownIsCurrent
<1>1. SessionInv /\ ViewInv => ShownIsCurrent
  BY DEF ViewInv, View, Agrees, Going, ShownIsCurrent, Loading
<1>2. QED
  BY <1>1, SessionInvariance, ViewInvariance, PTL

(* The gateway accepts what the page offers for a job, as long as nothing  *)
(* was lost; what it may refuse otherwise is to create one of an upload.   *)
THEOREM OffersAreAccepted == SessionSpec => []OfferedIsAccepted
<1>1. ViewInv => OfferedIsAccepted
  BY DEF ViewInv, OfferedIsAccepted
<1>2. QED
  BY <1>1, ViewInvariance, PTL
====
