---------------------------- MODULE ProjectBuild ----------------------------
(***************************************************************************)
(* One project of the MiroFish backend and the builds of its graph: the    *)
(* routes of vendor/MiroFish/backend/app/api/graph.py, the thread that     *)
(* build_graph starts, the project's file (models/project.py) and the task *)
(* manager (models/task.py), with the graph service as its backend.        *)
(*                                                                         *)
(* Requests and threads run beside each other.  Each reads the file at     *)
(* most once, into a Project object of its own, and saves that object as a *)
(* whole; saving truncates the file first and then writes it.  A build's   *)
(* task, graph and job are named by the build.                             *)
(***************************************************************************)
CONSTANTS
  Builds,   \* the builds that may be requested: their task ids
  Resets,   \* requests to reset the project that may be under way at a time
  NoBuild

ASSUME ActorsAssumption ==
  NoBuild \notin Builds \union Resets /\ Builds \intersect Resets = {}

Actors == Builds \union Resets

VARIABLES
  file,       \* project.json
  opened,     \* who has truncated it and has not written it yet
  dirty,      \* those of them after whom someone else has written
  tasks,      \* TaskManager._tasks: the status of each
  at,         \* where each request, and then its thread, is
  mine,       \* the Project object it holds
  job,        \* external: what becomes of the job at the graph service
  disturbed,  \* history: no save has had the file to itself since one that
              \* failed, met another or was cut off by the process' end
  unsaved,    \* history: builds that ended because a save failed
  restarted   \* history: the backend was

vars == <<file, opened, dirty, tasks, at, mine, job, disturbed, unsaved, restarted>>

-----------------------------------------------------------------------------
(* A project as it is before any build, its ontology generated.  The file  *)
(* may also be cut off, or deleted.                                        *)
Blank(status) ==
  [status |-> status, graph |-> NoBuild, task |-> NoBuild, error |-> "none"]

Ready == Blank("ontology_generated")
Torn  == Blank("torn")
Gone  == Blank("gone")

(* get_project raises for a file that is cut off.                          *)
Readable == file \notin {Torn, Gone}

Init ==
  /\ file = Ready
  /\ opened = {} /\ dirty = {}
  /\ tasks = [b \in Builds |-> "none"]
  /\ at = [a \in Actors |-> "idle"]
  /\ mine = [a \in Actors |-> Ready]
  /\ job = [b \in Builds |-> "none"]
  /\ disturbed = FALSE /\ unsaved = {} /\ restarted = FALSE

Goes(a, stage) == at' = [at EXCEPT ![a] = stage]
SetTask(b, status) == tasks' = [tasks EXCEPT ![b] = status]

fileVars == <<file, opened, dirty, disturbed, unsaved, restarted>>

(* Threads of builds, from start to end.                                   *)
Running(b) ==
  at[b] \in {"spawned", "graph", "submit", "wait", "fetch", "completed",
             "report completed", "failed", "report failed"}

-----------------------------------------------------------------------------
(* save_project.  What is being saved is named by the stage.               *)
Saving == {"request", "graph", "completed", "failed", "reset"}

Saved(stage) ==
  CASE stage = "request"   -> "spawned"
    [] stage = "graph"     -> "submit"
    [] stage = "completed" -> "report completed"
    [] stage = "failed"    -> "report failed"
    [] stage = "reset"     -> "idle"

(* Faulty variant: the thread ends where it fails.                         *)
FailUncaught(b) == Goes(b, "ended") /\ UNCHANGED mine
(* Faulty variant: the except clause leaves the project as it is.          *)
FailUnsaved(b) == Goes(b, "report failed") /\ UNCHANGED mine
(* An exception anywhere in build_task.                                    *)
Fail(b) ==
  /\ mine' = [mine EXCEPT ![b].status = "failed", ![b].error = "told"]
  /\ Goes(b, "failed")

OpenFile(a) ==
  /\ at[a] \in Saving /\ a \notin opened
  /\ file # Gone
  /\ file' = Torn
  /\ opened' = opened \union {a}
  /\ dirty' = {}
  /\ disturbed' = (disturbed \/ opened # {})
  /\ UNCHANGED <<tasks, at, mine, job, unsaved, restarted>>

(* What an exception of save_project does.  In a request it ends the       *)
(* request, in the thread it is a failure of the build, and in the except  *)
(* clause of the thread it ends the thread.                                *)
SaveRaises(a) ==
  /\ \/ at[a] = "reset" /\ Goes(a, "idle") /\ UNCHANGED <<mine, unsaved>>
     \/ /\ at[a] \in {"request", "failed"} /\ Goes(a, "ended")
        /\ unsaved' = unsaved \union {a}
        /\ UNCHANGED mine
     \/ at[a] \in {"graph", "completed"} /\ Fail(a) /\ UNCHANGED unsaved
  /\ UNCHANGED <<tasks, job, restarted>>

(* The project was deleted, or the file cannot be opened.                  *)
OpenFails(a) ==
  /\ at[a] \in Saving /\ a \notin opened
  /\ SaveRaises(a)
  /\ UNCHANGED <<file, opened, dirty, disturbed>>

(* The disk is full, or the object cannot be encoded: a request's          *)
(* chunk_size may be any JSON.  The beginning of it may be in the file.    *)
WriteFails(a) ==
  /\ a \in opened
  /\ SaveRaises(a)
  /\ file' \in IF file = Gone THEN {Gone} ELSE {file, Torn}
  /\ opened' = opened \ {a}
  /\ dirty' = opened \ {a}
  /\ disturbed' = TRUE

Writes(a) ==
  /\ a \in opened
  /\ opened' = opened \ {a}
  /\ dirty' = opened \ {a}
  /\ disturbed' = (disturbed /\ (opened # {a} \/ a \in dirty))
  /\ Goes(a, Saved(at[a]))
  /\ UNCHANGED <<tasks, mine, job, unsaved, restarted>>

(* Faulty variant: the file is not truncated when it is opened.            *)
WriteFileOver(a) ==
  /\ file' \in IF file = Gone THEN {Gone} ELSE {mine[a], Torn}
  /\ Writes(a)
(* The whole object, in one piece (it fits the stream's buffer).  Over     *)
(* something that another has written since, it may come out as neither:   *)
(* the longer of the two shows at the end.                                 *)
WriteFile(a) ==
  /\ file' \in IF file = Gone THEN {Gone}
               ELSE IF a \in dirty THEN {mine[a], Torn} ELSE {mine[a]}
  /\ Writes(a)

SaveStep(a) == OpenFile(a) \/ OpenFails(a) \/ WriteFile(a) \/ WriteFails(a)

-----------------------------------------------------------------------------
(* POST /build, of a project with an ontology: the project is read and its *)
(* status looked at,                                                       *)
RequestBuild(b, force) ==
  /\ at[b] = "idle"
  /\ Readable
  /\ file.status = "graph_building" => force
  /\ mine' = [mine EXCEPT ![b] =
       IF force /\ file.status \in {"graph_building", "failed", "graph_completed"}
         THEN Ready ELSE file]
  /\ Goes(b, "checked")
  /\ UNCHANGED <<fileVars, tasks, job>>

(* the text is read and a task created; saving the project comes next, and *)
(* then the start of the thread.                                           *)
AcceptBuild(b) ==
  /\ at[b] = "checked"
  /\ IF file = Gone
       THEN Goes(b, "ended") /\ UNCHANGED <<mine, tasks>>
       ELSE /\ SetTask(b, "pending")
            /\ mine' = [mine EXCEPT ![b].status = "graph_building", ![b].task = b]
            /\ Goes(b, "request")
  /\ UNCHANGED <<fileVars, job>>

(* build_task: a graph gets its name, unless the text cannot be split,     *)
StartBuild(b) ==
  /\ at[b] = "spawned"
  /\ SetTask(b, "processing")
  /\ \/ mine' = [mine EXCEPT ![b].graph = b] /\ Goes(b, "graph")
     \/ Fail(b)
  /\ UNCHANGED <<fileVars, job>>

(* the document is submitted, a request that may fail before or after the  *)
(* graph service has handled it,                                           *)
SubmitJob(b) ==
  /\ at[b] = "submit"
  /\ \/ job' = [job EXCEPT ![b] = "queued"]
        /\ \/ Goes(b, "wait") /\ UNCHANGED mine
           \/ Fail(b)
     \/ UNCHANGED job /\ Fail(b)
  /\ UNCHANGED <<fileVars, tasks>>

(* Faulty variant: any job that has ended will do.                         *)
JobEndSeen(b) ==
  /\ at[b] = "wait"
  /\ job[b] \in {"completed", "failed"}
  /\ Goes(b, "fetch")
  /\ UNCHANGED <<fileVars, tasks, mine, job>>
(* its job polled until it is completed                                    *)
JobCompletionSeen(b) ==
  /\ at[b] = "wait"
  /\ job[b] = "completed"
  /\ Goes(b, "fetch")
  /\ UNCHANGED <<fileVars, tasks, mine, job>>

(* or has failed, is unknown, a poll fails or 600 s are over;              *)
Abandon(b) ==
  /\ at[b] \in {"wait", "fetch"}
  /\ Fail(b)
  /\ UNCHANGED <<fileVars, tasks, job>>

(* Faulty variant: the task is completed before the project.               *)
FetchGraphReporting(b) ==
  /\ at[b] = "fetch"
  /\ mine' = [mine EXCEPT ![b].status = "graph_completed"]
  /\ SetTask(b, "completed")
  /\ Goes(b, "completed")
  /\ UNCHANGED <<fileVars, job>>
(* the graph is fetched, the project completed                             *)
FetchGraph(b) ==
  /\ at[b] = "fetch"
  /\ mine' = [mine EXCEPT ![b].status = "graph_completed"]
  /\ Goes(b, "completed")
  /\ UNCHANGED <<fileVars, tasks, job>>

(* and, once it is saved, the task, or failed.                             *)
Report(b) ==
  /\ \/ at[b] = "report completed" /\ SetTask(b, "completed")
     \/ at[b] = "report failed" /\ SetTask(b, "failed")
  /\ Goes(b, "ended")
  /\ UNCHANGED <<fileVars, mine, job>>

BuildStep(b) ==
  \/ AcceptBuild(b) \/ SaveStep(b)
  \/ StartBuild(b) \/ SubmitJob(b) \/ JobCompletionSeen(b) \/ Abandon(b)
  \/ FetchGraph(b) \/ Report(b)

-----------------------------------------------------------------------------
(* POST /project/<id>/reset: the project is read, and saved.               *)
RequestReset(r) ==
  /\ at[r] = "idle"
  /\ Readable
  /\ mine' = [mine EXCEPT ![r] = Ready]
  /\ Goes(r, "reset")
  /\ UNCHANGED <<fileVars, tasks, job>>

ResetStep(r) == RequestReset(r) \/ SaveStep(r)

(* DELETE /project/<id>.                                                   *)
DeleteProject ==
  /\ file # Gone
  /\ file' = Gone
  /\ UNCHANGED <<opened, dirty, tasks, at, mine, job, disturbed, unsaved, restarted>>

(* The backend's process ends and another starts: threads and tasks are    *)
(* gone, files stay.  The ids of builds are not used again.                *)
Restart ==
  /\ at' = [a \in Actors |-> IF a \in Resets \/ at[a] = "idle" THEN "idle" ELSE "ended"]
  /\ mine' = [a \in Actors |-> Ready]
  /\ tasks' = [b \in Builds |-> "none"]
  /\ opened' = {} /\ dirty' = {}
  /\ disturbed' = (disturbed \/ opened # {})
  /\ restarted' = TRUE
  /\ UNCHANGED <<file, job, unsaved>>

(* External: the graph service decides the job, or loses it with its       *)
(* process.                                                                *)
ServiceStep(b) ==
  /\ job[b] = "queued"
  /\ \E outcome \in {"completed", "failed", "lost"} :
       job' = [job EXCEPT ![b] = outcome]
  /\ UNCHANGED <<fileVars, tasks, at, mine>>

Next ==
  \/ \E b \in Builds :
       \/ \E force \in BOOLEAN : RequestBuild(b, force)
       \/ BuildStep(b)
       \/ ServiceStep(b)
  \/ \E r \in Resets : ResetStep(r)
  \/ DeleteProject
  \/ Restart

Spec == Init /\ [][Next]_vars

(* Threads are scheduled and all their requests have timeouts.  Nothing is *)
(* assumed of the graph service, nor of anyone who sends a request.        *)
FairSpec == Spec /\ \A b \in Builds : WF_vars(BuildStep(b))

-----------------------------------------------------------------------------
Statuses == {"ontology_generated", "graph_building", "graph_completed", "failed"}

Project == [status : Statuses, graph : Builds \union {NoBuild},
            task : Builds \union {NoBuild}, error : {"none", "told"}]

Stages == {"idle", "checked", "request", "spawned", "graph", "submit", "wait",
           "fetch", "completed", "report completed", "failed",
           "report failed", "reset", "ended"}

(* From create_graph on, as long as nothing has failed.                    *)
Built == {"graph", "submit", "wait", "fetch", "completed", "report completed"}

(* Type correctness.  A build that is under way has its own id on the      *)
(* Project object it saves, from create_graph on that of its graph, too.   *)
ProjectTypeOK ==
  /\ file \in Project \union {Torn, Gone}
  /\ opened \subseteq Actors /\ dirty \subseteq opened
  /\ \A a \in opened : at[a] \in Saving
  /\ tasks \in [Builds -> {"none", "pending", "processing", "completed", "failed"}]
  /\ at \in [Actors -> Stages]
  /\ mine \in [Actors -> Project]
  /\ job \in [Builds -> {"none", "queued", "completed", "failed", "lost"}]
  /\ disturbed \in BOOLEAN /\ unsaved \subseteq Builds /\ restarted \in BOOLEAN
  /\ \A b \in Builds : at[b] = "request" \/ Running(b) =>
       /\ mine[b].task = b
       /\ at[b] \in Built => mine[b].graph = b

(* A project that is said to be building its graph has a thread that does, *)
(* unless the backend was restarted or the thread could not save that it   *)
(* had failed: no other failure, no reset, forced or concurrent build      *)
(* leaves it in a state in which further builds are refused for ever.      *)
BuildingIsAlive ==
  file.status = "graph_building" =>
    \/ restarted \/ file.task \in unsaved
    \/ file.task \in Builds /\ Running(file.task)

(* A completed project names the graph of one build, which is built; so is *)
(* that of a completed task.  Builds of the same project may overlap and   *)
(* save over each other, but never a mixture.                              *)
CompletedIsBuilt ==
  /\ file.status = "graph_completed" =>
       /\ file.graph \in Builds /\ file.graph = file.task
       /\ job[file.graph] = "completed"
  /\ \A b \in Builds : tasks[b] = "completed" => job[b] = "completed"

(* The client that polls a task and the one that reads the project agree:  *)
(* once a task is decided, the project it is still the task of says so.    *)
ProjectAgreesWithTask ==
  \A b \in Builds : file.task = b =>
    /\ tasks[b] = "completed" => file.status = "graph_completed"
    /\ tasks[b] = "failed" => file.status = "failed" /\ file.error = "told"

(* A file that cannot be read (and that no project of the list can be read *)
(* for) is being saved, or is what a save left behind that failed, met     *)
(* another or was cut off by the end of the process: the next save that    *)
(* has the file to itself mends it.                                        *)
ReadableAtRest == file = Torn => opened # {} \/ disturbed

(* A task that was created is decided, unless the backend is restarted or  *)
(* saving the project fails in the request or in the except clause, after  *)
(* which it stays as it is for ever.                                       *)
EveryTaskIsDecided ==
  \A b \in Builds :
    tasks[b] \in {"pending", "processing"} ~>
      tasks[b] \in {"completed", "failed", "none"} \/ b \in unsaved

=============================================================================
