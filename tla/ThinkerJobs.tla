---------------------------- MODULE ThinkerJobs ----------------------------
(***************************************************************************)
(* The Thinker of the gateway: the in-memory job store (thinker/jobs.py),  *)
(* the HTTP handlers that drive it (thinker/api.py), and one asyncio task  *)
(* per execution of a job, which walks through the orchestrator            *)
(* (thinker/orchestrator.py) one provider call at a time.                  *)
(*                                                                         *)
(* Everything runs on one event loop, so a step of this specification is   *)
(* the code between two awaits: a whole handler (none of them awaits once  *)
(* its request is parsed), or a task from the reply of one provider to the *)
(* next request it sends.                                                  *)
(***************************************************************************)
EXTENDS Naturals

CONSTANTS
  Jobs,         \* the ids uuid4 may give out
  MaxAttempts,  \* bound on the executions of one job (creation and retries)
  MaxHits       \* search hits the orchestrator keeps (_max_search_results)

ASSUME BoundsAssumption == MaxAttempts \in Nat /\ MaxHits \in Nat

VARIABLES
  jobs,      \* InMemoryThinkerJobStore._jobs, with Unknown for missing ids
  tasks,     \* the _execute_job tasks that have not ended
  attempt,   \* history: executions launched for each job
  payloads   \* history: the payloads POST /materialize has answered with

vars == <<jobs, tasks, attempt, payloads>>

-----------------------------------------------------------------------------
Modes == {"topic_only", "upload", "polymarket"}

Statuses == {"created", "running", "succeeded", "failed", "materialized",
             "skipped"}

(* What _classify_job_error makes of an exception.  The first kind is not  *)
(* retryable, the others are; available actions do not depend on it.  Its  *)
(* fourth kind, unsupported_mode, cannot occur: the request model admits   *)
(* the three Modes only.                                                   *)
ErrorCodes == {"provider_misconfigured", "provider_unavailable",
               "thinker_execution_failed"}

(* A result is abstracted to the attempt whose run returned it.            *)
None == 0
NoError == "none"

Job == [status : Statuses \union {"unknown"}, mode : Modes,
        result : Nat, error : ErrorCodes \union {NoError}]

Unknown == [status |-> "unknown", mode |-> "upload",
            result |-> None, error |-> NoError]

(* Where a task waits: not scheduled yet, or for the reply of a provider.  *)
Stages == {"spawned", "search", "scrape", "llm"}

Task == [job : Jobs, attempt : Nat, stage : Stages, left : Nat]

(* The three parts of a materialized payload; 0 stands for a part the user *)
(* edited, where an attempt stands for that attempt's text.                *)
Fields == {"final_topics", "final_seed_text", "final_simulation_requirement"}
Adopted == 0

-----------------------------------------------------------------------------
(* The store.                                                              *)

AllowedTransitions ==
  [created      |-> {"running", "failed"},
   running      |-> {"succeeded", "failed"},
   succeeded    |-> {"materialized", "skipped"},
   failed       |-> {"created", "skipped"},
   materialized |-> {},
   skipped      |-> {},
   unknown      |-> {}]

MayMove(j, status) == status \in AllowedTransitions[jobs[j].status]

AvailableActions(status) ==
  CASE status = "failed"    -> {"retry", "skip"}
    [] status = "succeeded" -> {"skip"}
    [] OTHER                -> {}

(* _transition: the job with its new status and failure metadata, or the   *)
(* job untouched where the code raises ValueError.                         *)
Transition(j, status, result, error) ==
  IF MayMove(j, status)
    THEN [jobs EXCEPT ![j].status = status,
                      ![j].result = result,
                      ![j].error  = error]
    ELSE jobs

MarkRunning(j) == Transition(j, "running", jobs[j].result, NoError)
(* Faulty variant: the result is not handed to the transition.             *)
MarkSucceededWithoutResult(j, result) ==
  Transition(j, "succeeded", jobs[j].result, NoError)
MarkSucceeded(j, result) == Transition(j, "succeeded", result, NoError)
MarkFailed(j, error) == Transition(j, "failed", jobs[j].result, error)
MarkMaterialized(j) == Transition(j, "materialized", jobs[j].result, NoError)
MarkSkipped(j) == Transition(j, "skipped", jobs[j].result, NoError)
ResetForRetry(j) == Transition(j, "created", None, NoError)

-----------------------------------------------------------------------------
(* The orchestrator: which provider a run waits for next.                  *)

(* Upload and Polymarket gather their evidence without waiting for anyone: *)
(* the first request they send is the one to the LLM.                      *)
FirstStage(mode) == IF mode = "topic_only" THEN "search" ELSE "llm"

At(t, stage, left) == [t EXCEPT !.stage = stage, !.left = left]

(* The stages a run may be in once the provider it waits for has answered. *)
(* A search answers with any number of hits, of which MaxHits are scraped, *)
(* one request after the other.                                            *)
Advance(t) ==
  CASE t.stage = "search" ->
         {At(t, "scrape", h) : h \in 1..MaxHits} \union {At(t, "llm", 0)}
    [] t.stage = "scrape" ->
         IF t.left > 1 THEN {At(t, "scrape", t.left - 1)}
                       ELSE {At(t, "llm", 0)}
    [] OTHER -> {}

Spawn(j, n) == [job |-> j, attempt |-> n, stage |-> "spawned", left |-> 0]

(* The materializer: each part is the user's where one was adopted, and    *)
(* the stored result's where not.                                          *)
Materialized(j, adopted) ==
  [job |-> j,
   parts |-> [f \in Fields |-> IF f \in adopted THEN Adopted
                                                ELSE jobs[j].result]]

-----------------------------------------------------------------------------
Init ==
  /\ jobs = [j \in Jobs |-> Unknown]
  /\ tasks = {}
  /\ attempt = [j \in Jobs |-> 0]
  /\ payloads = {}

(* Faulty variant: the job is created, its task is not.                    *)
LaunchForgotten(j) ==
  /\ attempt' = [attempt EXCEPT ![j] = @ + 1]
  /\ tasks' = tasks

(* asyncio.create_task(_execute_job(...)).                                 *)
Launch(j) ==
  /\ attempt' = [attempt EXCEPT ![j] = @ + 1]
  /\ tasks' = tasks \union {Spawn(j, attempt[j] + 1)}

(* POST /jobs.  A fresh id: uuid4 does not repeat one.                     *)
CreateJob(j, mode) ==
  /\ attempt[j] = 0
  /\ MaxAttempts > 0
  /\ jobs' = [jobs EXCEPT ![j] = [Unknown EXCEPT !.status = "created",
                                                 !.mode = mode]]
  /\ Launch(j)
  /\ UNCHANGED payloads

(* POST /jobs/{id}/retry.                                                  *)
RetryJob(j) ==
  /\ "retry" \in AvailableActions(jobs[j].status)
  /\ MayMove(j, "created")
  /\ attempt[j] < MaxAttempts
  /\ jobs' = ResetForRetry(j)
  /\ Launch(j)
  /\ UNCHANGED payloads

(* POST /jobs/{id}/skip.                                                   *)
SkipJob(j) ==
  /\ "skip" \in AvailableActions(jobs[j].status)
  /\ MayMove(j, "skipped")
  /\ jobs' = MarkSkipped(j)
  /\ UNCHANGED <<tasks, attempt, payloads>>

(* Faulty variant: the payload is answered, the job not marked.            *)
MaterializeJobUnmarked(j, adopted) ==
  /\ jobs[j].status = "succeeded"
  /\ payloads' = payloads \union {Materialized(j, adopted)}
  /\ UNCHANGED <<jobs, tasks, attempt>>

(* POST /materialize.  The payload is computed before the transition, both *)
(* in one step: the handler does not await between them.                   *)
MaterializeJob(j, adopted) ==
  /\ jobs[j].status = "succeeded"
  /\ jobs[j].result # None
  /\ MayMove(j, "materialized")
  /\ payloads' = payloads \union {Materialized(j, adopted)}
  /\ jobs' = MarkMaterialized(j)
  /\ UNCHANGED <<tasks, attempt>>

(* A task runs for the first time: mark_running and the orchestrator up to *)
(* its first request.                                                      *)
StartTask(t) ==
  /\ t.stage = "spawned"
  /\ MayMove(t.job, "running")
  /\ jobs' = MarkRunning(t.job)
  /\ tasks' = (tasks \ {t}) \union {At(t, FirstStage(jobs[t.job].mode), 0)}
  /\ UNCHANGED <<attempt, payloads>>

(* The provider answers and the run sends its next request.                *)
ContinueTask(t) ==
  /\ \E next \in Advance(t) : tasks' = (tasks \ {t}) \union {next}
  /\ UNCHANGED <<jobs, attempt, payloads>>

(* The LLM answers: the run returns and its result is stored.              *)
FinishTask(t) ==
  /\ t.stage = "llm"
  /\ tasks' = tasks \ {t}
  /\ jobs' = MarkSucceeded(t.job, t.attempt)
  /\ UNCHANGED <<attempt, payloads>>

(* Faulty variants: the except clause without its return, so the run goes  *)
(* on to the LLM; and one that retries by itself.                          *)
FailTaskWithoutReturn(t, error) ==
  /\ tasks' = (tasks \ {t}) \union {At(t, "llm", 0)}
  /\ jobs' = MarkFailed(t.job, error)
  /\ UNCHANGED <<attempt, payloads>>

FailTaskRetryingItself(t, error) ==
  /\ tasks' = (tasks \ {t}) \union {At(t, "spawned", 0)}
  /\ jobs' = [jobs EXCEPT ![t.job].status = "created"]
  /\ UNCHANGED <<attempt, payloads>>

(* The except clause: any exception of mark_running, of a provider, or of  *)
(* what the orchestrator does with its answer.  A run that has not sent a  *)
(* request yet cannot have met a transport error.                          *)
FailTask(t, error) ==
  /\ t.stage = "spawned" => error # "provider_unavailable"
  /\ tasks' = tasks \ {t}
  /\ jobs' = MarkFailed(t.job, error)
  /\ UNCHANGED <<attempt, payloads>>

TaskStep(t) ==
  \/ StartTask(t)
  \/ ContinueTask(t)
  \/ FinishTask(t)
  \/ \E e \in ErrorCodes : FailTask(t, e)

(* The gateway process stops and another starts: jobs and tasks are gone.  *)
Restart ==
  /\ jobs' = [j \in Jobs |-> Unknown]
  /\ tasks' = {}
  /\ UNCHANGED <<attempt, payloads>>

Next ==
  \/ \E j \in Jobs, mode \in Modes : CreateJob(j, mode)
  \/ \E j \in Jobs : RetryJob(j) \/ SkipJob(j)
  \/ \E j \in Jobs, adopted \in SUBSET Fields : MaterializeJob(j, adopted)
  \/ \E t \in tasks : TaskStep(t)
  \/ Restart

Spec == Init /\ [][Next]_vars

(* The event loop runs every ready task, and a request to a provider ends: *)
(* the HTTP clients have a 20 s timeout, the LLM client its default one.   *)
Fairness ==
  \A j \in Jobs, n \in 1..MaxAttempts :
    WF_vars(\E t \in tasks : t.job = j /\ t.attempt = n /\ TaskStep(t))

FairSpec == Spec /\ Fairness

-----------------------------------------------------------------------------
TypeOK ==
  /\ jobs \in [Jobs -> Job]
  /\ tasks \subseteq Task
  /\ attempt \in [Jobs -> Nat]
  /\ \A p \in payloads : p.job \in Jobs

(* At most one task works on a job, and one does exactly while the job is  *)
(* created (not scheduled yet) or running: no execution survives the end   *)
(* of its job, no retry starts a second one, none leaves a job behind that *)
(* says it is running (_execute_job, retry_job).                           *)
Live(j) == {t \in tasks : t.job = j}

OneExecutor ==
  /\ \A t, u \in tasks : t.job = u.job => t = u
  /\ \A t \in tasks :
       jobs[t.job].status = IF t.stage = "spawned" THEN "created"
                                                   ELSE "running"
  /\ \A j \in Jobs :
       jobs[j].status \in {"created", "running"} => Live(j) # {}

(* A stored result was returned by the job's latest execution, and a job   *)
(* that can be or was materialized has one: mark_materialized's refusal of *)
(* a job without a result never happens.                                   *)
ResultOfLatestAttempt ==
  \A j \in Jobs :
    /\ jobs[j].result # None =>
         /\ jobs[j].result = attempt[j]
         /\ jobs[j].status \in {"succeeded", "materialized", "skipped"}
    /\ jobs[j].status \in {"succeeded", "materialized"} =>
         jobs[j].result # None

(* A client polling a job sees an error exactly while the job is failed:   *)
(* every way out of failed and every later run clears the metadata.        *)
ErrorOnlyWhileFailed ==
  \A j \in Jobs : jobs[j].error # NoError <=> jobs[j].status = "failed"

(* A job yields at most one payload, whatever the interleaving of adopting *)
(* clients; while the store knows the job, it is materialized exactly when *)
(* it has; and every part the user did not edit is the latest result's.    *)
OnePayload ==
  /\ \A p, q \in payloads : p.job = q.job => p = q
  /\ \A p \in payloads : \A f \in Fields :
       p.parts[f] \in {Adopted, attempt[p.job]}
  /\ \A j \in Jobs : jobs[j].status # "unknown" =>
       (jobs[j].status = "materialized" <=> \E p \in payloads : p.job = j)

(* materialized and skipped are final: no handler and no task that is      *)
(* still in flight changes such a job again, short of losing the process.  *)
FinalStatusIsFinal ==
  [][\A j \in Jobs : jobs[j].status \in {"materialized", "skipped"} =>
                       jobs'[j] \in {jobs[j], Unknown}]_vars

(* Jobs implement the documented state machine.                            *)
phaseBar == [j \in Jobs |-> IF jobs[j].status = "unknown"
                              THEN "absent" ELSE jobs[j].status]

Lifecycle == INSTANCE ThinkerLifecycle WITH phase <- phaseBar

FollowsLifecycle == Lifecycle!Spec

(* Every job that was created or retried is decided sooner or later: it    *)
(* ends in a status a polling client stops at, or with its process.        *)
EveryRunEnds ==
  \A j \in Jobs : jobs[j].status \in {"created", "running"}
                    ~> jobs[j].status \notin {"created", "running"}
=============================================================================
