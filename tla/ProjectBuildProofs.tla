------------------------- MODULE ProjectBuildProofs -------------------------
(***************************************************************************)
(* Theorems about ProjectBuild, for any number of builds and resets.  The  *)
(* invariant says of each actor what the Project object it holds says at   *)
(* its stage, and of the file what the thread whose task it names has last *)
(* saved: an object is only ever saved by the build it names.              *)
(***************************************************************************)
EXTENDS ProjectBuild, TLAPS

UnderWay == {"request", "spawned", "failed", "report failed"} \union Built

(* What an actor's object says at a stage, and its job.                    *)
InStep(a, stage, object, outcome) ==
  /\ a \in Resets => stage \in {"idle", "reset"}
  /\ a \in Builds => stage # "reset"
  /\ stage = "reset" => object = Ready
  /\ a \in Builds /\ stage \in UnderWay => object.task = a
  /\ stage \in Built => object.graph = a
  /\ stage \in {"request", "spawned", "graph", "submit", "wait", "fetch"} =>
       object.status = "graph_building"
  /\ stage \in {"completed", "report completed"} =>
       object.status = "graph_completed"
  /\ stage \in {"failed", "report failed"} =>
       object.status = "failed" /\ object.error = "told"
  /\ a \in Builds /\ stage \in {"fetch", "completed", "report completed"} =>
       outcome = "completed"
  /\ a \in Builds /\ stage \in {"idle", "checked", "request", "spawned", "graph",
                              "submit"} => outcome = "none"

ObjectsInStep ==
  /\ \A b \in Builds : InStep(b, at[b], mine[b], job[b])
  /\ \A r \in Resets : InStep(r, at[r], mine[r], "none")

(* A thread that has saved the end of its build finds it in the file,      *)
(* unless the file is another's by now.                                    *)
FileInStep ==
  \A b \in Builds : file.task = b =>
    /\ at[b] = "report completed" => file.status = "graph_completed"
    /\ at[b] = "report failed" => file.status = "failed" /\ file.error = "told"

TasksInStep ==
  \A b \in Builds : tasks[b] \in {"completed", "failed"} => at[b] = "ended"

OneSaver == ~ disturbed => dirty = {} /\ \A x, y \in opened : x = y

IInv ==
  /\ ProjectTypeOK /\ ObjectsInStep /\ FileInStep /\ TasksInStep /\ OneSaver
  /\ BuildingIsAlive /\ CompletedIsBuilt /\ ProjectAgreesWithTask
  /\ ReadableAtRest

(* What an actor does to the file when it does not write it to the end: it *)
(* leaves it, or something that cannot be read.                            *)
FileKept(a) ==
  /\ file' \in {file, Torn, Gone}
  /\ opened' = opened \ {a} /\ dirty' \subseteq opened'
  /\ disturbed' \in BOOLEAN /\ restarted' = restarted
  /\ unsaved \subseteq unsaved' /\ unsaved' \subseteq Builds
  /\ OneSaver' /\ ReadableAtRest'

TaskStatuses == {"none", "pending", "processing", "completed", "failed"}
Outcomes == {"none", "queued", "completed", "failed", "lost"}

-----------------------------------------------------------------------------
LEMMA Unwritten ==
  /\ Ready \in Project
  /\ Ready.task = NoBuild /\ Ready.status = "ontology_generated"
  /\ Torn.task = NoBuild /\ Torn.status = "torn"
  /\ Gone.task = NoBuild /\ Gone.status = "gone"
  /\ Torn # Gone /\ Torn \notin Project /\ Gone \notin Project
  /\ NoBuild \notin Builds
  BY ActorsAssumption, SMT
  DEF Ready, Torn, Gone, Blank, Project, Statuses, Actors

LEMMA Initially == Init => IInv
<1> SUFFICES ASSUME Init PROVE IInv
  OBVIOUS
<1>1. ProjectTypeOK
  BY Unwritten
  DEF Init, ProjectTypeOK, Running, Actors, Stages, Built
<1>2. ObjectsInStep
  BY DEF Init, ObjectsInStep, InStep, Actors, Built, UnderWay
<1>3. FileInStep /\ TasksInStep /\ OneSaver
  BY DEF Init, FileInStep, TasksInStep, OneSaver, Actors
<1>4. BuildingIsAlive /\ CompletedIsBuilt /\ ProjectAgreesWithTask
  BY Unwritten
  DEF Init, BuildingIsAlive, CompletedIsBuilt, ProjectAgreesWithTask
<1>5. ReadableAtRest
  BY Unwritten DEF Init, ReadableAtRest
<1> QED
  BY <1>1, <1>2, <1>3, <1>4, <1>5 DEF IInv

LEMMA FileUntouched ==
  ASSUME IInv, NEW a \in Actors, a \notin opened, UNCHANGED fileVars
  PROVE  FileKept(a)
  BY DEF IInv, ProjectTypeOK, OneSaver, ReadableAtRest, FileKept, fileVars

(* An actor goes on to a stage with an object, and the file is left alone, *)
(* or lost.                                                                *)
LEMMA ActorStep ==
  ASSUME IInv,
         NEW a \in Actors, NEW stage \in Stages, NEW object \in Project,
         FileKept(a),
         at' = [at EXCEPT ![a] = stage],
         mine' = [mine EXCEPT ![a] = object],
         tasks' \in [Builds -> TaskStatuses],
         job' \in [Builds -> Outcomes],
         \A b \in Builds : b # a => tasks'[b] = tasks[b] /\ job'[b] = job[b],
         InStep(a, stage, object, IF a \in Builds THEN job'[a] ELSE "none"),
         a \in Builds =>
           /\ stage \notin {"report completed", "report failed"}
           /\ job[a] = "completed" => job'[a] = "completed"
           /\ tasks'[a] \in {"completed", "failed"} => stage = "ended"
           /\ tasks'[a] = "completed" => job'[a] = "completed"
           /\ file.task = a =>
                /\ tasks'[a] = "completed" => file.status = "graph_completed"
                /\ tasks'[a] = "failed" =>
                     file.status = "failed" /\ file.error = "told"
                /\ file.status = "graph_building" /\ Running(a) =>
                     Running(a)' \/ a \in unsaved'
  PROVE  IInv'
<1> USE DEF IInv
<1>0. /\ file' \in {file, Torn, Gone}
      /\ opened' = opened \ {a} /\ dirty' \subseteq opened'
      /\ disturbed' \in BOOLEAN /\ restarted' = restarted
      /\ unsaved \subseteq unsaved' /\ unsaved' \subseteq Builds
      /\ OneSaver' /\ ReadableAtRest'
  BY DEF FileKept
<1>l. file' = file \/ (/\ file'.task \notin Builds
                      /\ file'.status \notin {"graph_building", "graph_completed"})
  BY <1>0, Unwritten
<1>1. /\ at \in [Actors -> Stages] /\ mine \in [Actors -> Project]
      /\ tasks \in [Builds -> TaskStatuses] /\ job \in [Builds -> Outcomes]
      /\ Builds \subseteq Actors /\ Resets \subseteq Actors
      /\ Builds \intersect Resets = {}
  BY ActorsAssumption DEF ProjectTypeOK, Actors, TaskStatuses, Outcomes
<1>2. /\ at'[a] = stage /\ mine'[a] = object
      /\ \A x \in Actors : x # a => at'[x] = at[x] /\ mine'[x] = mine[x]
  BY <1>1
<1>3. \A b \in Builds : job[b] = "completed" => job'[b] = "completed"
  BY <1>1
<1>4. ObjectsInStep'
  <2>1. \A b \in Builds : InStep(b, at'[b], mine'[b], job'[b])
    BY <1>1, <1>2 DEF ObjectsInStep
  <2>2. \A r \in Resets : InStep(r, at'[r], mine'[r], "none")
    BY <1>1, <1>2 DEF ObjectsInStep
  <2> QED
    BY <2>1, <2>2 DEF ObjectsInStep, InStep, UnderWay, Built
<1>5. ProjectTypeOK'
  <2>1. at' \in [Actors -> Stages] /\ mine' \in [Actors -> Project]
    BY <1>1
  <2>2. \A x \in opened' : at'[x] \in Saving
    BY <1>0, <1>1, <1>2 DEF ProjectTypeOK
  <2>3. ASSUME NEW b \in Builds, at'[b] = "request" \/ Running(b)'
        PROVE  mine'[b].task = b /\ (at'[b] \in Built => mine'[b].graph = b)
    BY <1>4, <2>3
    DEF ObjectsInStep, InStep, Running, UnderWay, Built
  <2>4. /\ file' \in Project \union {Torn, Gone} /\ opened' \subseteq Actors
        /\ restarted' \in BOOLEAN
    BY <1>0 DEF ProjectTypeOK
  <2> QED
    BY <1>0, <2>1, <2>2, <2>3, <2>4
    DEF ProjectTypeOK, TaskStatuses, Outcomes, Built
<1>6. FileInStep' /\ TasksInStep'
  BY <1>l, <1>1, <1>2 DEF FileInStep, TasksInStep
<1>7. BuildingIsAlive'
  <2> SUFFICES ASSUME file'.status = "graph_building", ~ restarted',
                      file'.task \notin unsaved'
               PROVE  (file.task \in Builds /\ Running(file.task))'
    BY DEF BuildingIsAlive, Running
  <2>1. file' = file
    BY <1>l
  <2>2. file.task \in Builds /\ Running(file.task)
    BY <1>0, <2>1 DEF BuildingIsAlive
  <2>3. CASE file.task = a
    <3>1. Running(a)'
      BY <2>1, <2>2, <2>3
    <3> QED
      BY <2>1, <2>2, <2>3, <3>1 DEF Running
  <2>4. CASE file.task # a
    <3>1. file.task \in Actors /\ at'[file.task] = at[file.task]
      BY <1>1, <1>2, <2>2, <2>4
    <3> QED
      BY <2>1, <2>2, <3>1 DEF Running
  <2> QED
    BY <2>3, <2>4
<1>8. CompletedIsBuilt'
  <2>1. \A b \in Builds : tasks'[b] = "completed" => job'[b] = "completed"
    BY <1>1, <1>3 DEF CompletedIsBuilt
  <2>2. file'.status = "graph_completed" =>
          /\ file'.graph \in Builds /\ file'.graph = file'.task
          /\ job'[file'.graph] = "completed"
    BY <1>l, <1>3 DEF CompletedIsBuilt
  <2> QED
    BY <2>1, <2>2 DEF CompletedIsBuilt
<1>9. ProjectAgreesWithTask'
  <2> SUFFICES ASSUME NEW b \in Builds, file'.task = b
               PROVE  /\ tasks'[b] = "completed" => file'.status = "graph_completed"
                      /\ tasks'[b] = "failed" =>
                           file'.status = "failed" /\ file'.error = "told"
    BY DEF ProjectAgreesWithTask
  <2>1. file' = file
    BY <1>l
  <2> QED
    BY <2>1 DEF ProjectAgreesWithTask
<1> QED
  BY <1>0, <1>4, <1>5, <1>6, <1>7, <1>8, <1>9

(* The object of a build whose stage failed.                               *)
LEMMA FailEffect ==
  ASSUME IInv, NEW b \in Builds, Fail(b)
  PROVE  \E object \in Project :
           /\ mine' = [mine EXCEPT ![b] = object]
           /\ object.status = "failed" /\ object.error = "told"
           /\ object.task = mine[b].task
           /\ at' = [at EXCEPT ![b] = "failed"]
<1> DEFINE object == [mine[b] EXCEPT !.status = "failed", !.error = "told"]
<1>1. b \in Actors /\ mine \in [Actors -> Project] /\ mine[b] \in Project
  BY DEF IInv, ProjectTypeOK, Actors
<1>2. object \in Project
  BY <1>1 DEF Project, Statuses
<1>3. /\ object.status = "failed" /\ object.error = "told"
      /\ object.task = mine[b].task
  BY <1>1 DEF Project
<1>4. mine' = [mine EXCEPT ![b] = object]
  BY <1>1 DEF Fail, Project
<1>5. at' = [at EXCEPT ![b] = "failed"]
  BY DEF Fail, Goes
<1> QED
  BY <1>2, <1>3, <1>4, <1>5

(* A build that is under way fails, its task not decided yet.              *)
LEMMA FailStep ==
  ASSUME IInv, NEW b \in Builds, Fail(b),
         at[b] \in {"spawned", "graph", "submit", "wait", "fetch", "completed"},
         FileKept(b),
         job' \in [Builds -> Outcomes],
         tasks' \in [Builds -> TaskStatuses],
         \A c \in Builds : c # b => tasks'[c] = tasks[c] /\ job'[c] = job[c],
         tasks'[b] \notin {"completed", "failed"},
         job[b] = "completed" => job'[b] = "completed"
  PROVE  IInv'
<1>1. b \in Actors /\ at \in [Actors -> Stages] /\ b \notin Resets
  BY ActorsAssumption DEF IInv, ProjectTypeOK, Actors
<1>2. mine[b].task = b
  BY DEF IInv, ObjectsInStep, InStep, UnderWay, Built
<1>3. PICK object \in Project :
        /\ mine' = [mine EXCEPT ![b] = object]
        /\ object.status = "failed" /\ object.error = "told"
        /\ object.task = mine[b].task
        /\ at' = [at EXCEPT ![b] = "failed"]
  BY FailEffect
<1>4. InStep(b, "failed", object, job'[b])
  BY <1>1, <1>2, <1>3 DEF InStep, UnderWay, Built
<1>5. Running(b)'
  BY <1>1, <1>3 DEF Running
<1>6. "failed" \in Stages
  BY DEF Stages
<1> QED
  BY <1>1, <1>3, <1>4, <1>5, <1>6, ActorStep

(* What the invariant says of a build that is not saving.                  *)
LEMMA BuildFacts ==
  ASSUME IInv, NEW b \in Builds
  PROVE  /\ b \in Actors /\ b \notin Resets
         /\ at \in [Actors -> Stages] /\ mine \in [Actors -> Project]
         /\ tasks \in [Builds -> TaskStatuses] /\ job \in [Builds -> Outcomes]
         /\ at[b] \notin Saving => b \notin opened
         /\ at[b] # "ended" => tasks[b] \notin {"completed", "failed"}
         /\ InStep(b, at[b], mine[b], job[b])
  BY ActorsAssumption
  DEF IInv, ProjectTypeOK, TasksInStep, ObjectsInStep, Actors, TaskStatuses,
      Outcomes

-----------------------------------------------------------------------------
(* Requests for builds, and the stages of the thread.                      *)

LEMMA ObjectEdits ==
  ASSUME NEW object \in Project, NEW b \in Builds
  PROVE  /\ [object EXCEPT !.status = "graph_building", !.task = b] \in Project
         /\ [object EXCEPT !.graph = b] \in Project
         /\ [object EXCEPT !.status = "graph_completed"] \in Project
  BY DEF Project, Statuses

LEMMA RequestBuildStep ==
  ASSUME IInv, NEW b \in Builds, NEW force \in BOOLEAN, RequestBuild(b, force)
  PROVE  IInv'
<1>1. file \in Project
  BY Unwritten DEF IInv, ProjectTypeOK, RequestBuild, Readable
<1>2. PICK object \in Project : mine' = [mine EXCEPT ![b] = object]
  BY <1>1, Unwritten DEF RequestBuild
<1>3. InStep(b, "checked", object, job[b])
  BY BuildFacts DEF RequestBuild, InStep, UnderWay, Built
<1>4. "checked" \in Stages /\ at[b] = "idle" /\ b \notin opened
  BY BuildFacts DEF Stages, RequestBuild, Saving
<1>5. /\ at' = [at EXCEPT ![b] = "checked"]
      /\ UNCHANGED fileVars /\ tasks' = tasks /\ job' = job
  BY DEF RequestBuild, Goes
<1>6. ~ Running(b)
  BY <1>4 DEF Running
<1> QED
  BY <1>2, <1>3, <1>4, <1>5, <1>6, BuildFacts, FileUntouched, ActorStep

LEMMA AcceptBuildStep ==
  ASSUME IInv, NEW b \in Builds, AcceptBuild(b)
  PROVE  IInv'
<1>1. at[b] = "checked" /\ b \notin opened /\ ~ Running(b)
  BY BuildFacts DEF AcceptBuild, Saving, Running
<1>2. UNCHANGED fileVars /\ job' = job
  BY DEF AcceptBuild
<1>3. {"ended", "request"} \subseteq Stages
  BY DEF Stages
<1>4. CASE file = Gone
  <2>1. at' = [at EXCEPT ![b] = "ended"] /\ mine' = mine /\ tasks' = tasks
    BY <1>4 DEF AcceptBuild, Goes
  <2>2. mine' = [mine EXCEPT ![b] = mine[b]] /\ mine[b] \in Project
    BY <2>1, BuildFacts
  <2>3. InStep(b, "ended", mine[b], job[b])
    BY BuildFacts DEF InStep, UnderWay, Built
  <2> QED
    BY <1>1, <1>2, <1>3, <2>1, <2>2, <2>3, BuildFacts, FileUntouched, ActorStep
<1>5. CASE file # Gone
  <2> DEFINE object == [mine[b] EXCEPT !.status = "graph_building", !.task = b]
  <2>1. /\ at' = [at EXCEPT ![b] = "request"]
        /\ tasks' = [tasks EXCEPT ![b] = "pending"]
    BY <1>5 DEF AcceptBuild, Goes, SetTask
  <2>2. mine[b] \in Project
    BY BuildFacts
  <2>3. object \in Project
    BY <2>2, ObjectEdits
  <2>4. mine' = [mine EXCEPT ![b] = object]
    BY <1>5, <2>2, BuildFacts DEF AcceptBuild, Project
  <2>5. InStep(b, "request", object, job[b])
    <3>1. object.status = "graph_building" /\ object.task = b
      BY <2>2 DEF Project
    <3> QED
      BY <1>1, <3>1, BuildFacts DEF InStep, UnderWay, Built
  <2>6. /\ tasks' \in [Builds -> TaskStatuses] /\ tasks'[b] = "pending"
        /\ \A c \in Builds : c # b => tasks'[c] = tasks[c]
    BY <2>1, BuildFacts DEF TaskStatuses
  <2> HIDE DEF object
  <2> QED
    BY <1>1, <1>2, <1>3, <2>1, <2>3, <2>4, <2>5, <2>6, BuildFacts, FileUntouched, ActorStep
<1> QED
  BY <1>4, <1>5

LEMMA StartBuildStep ==
  ASSUME IInv, NEW b \in Builds, StartBuild(b)
  PROVE  IInv'
<1>1. at[b] = "spawned" /\ b \notin opened
  BY BuildFacts DEF StartBuild, Saving
<1>2. UNCHANGED fileVars /\ job' = job
  BY DEF StartBuild
<1>3. /\ tasks' \in [Builds -> TaskStatuses] /\ tasks'[b] = "processing"
      /\ \A c \in Builds : c # b => tasks'[c] = tasks[c]
  BY BuildFacts DEF StartBuild, SetTask, TaskStatuses
<1>4. CASE Fail(b)
  BY <1>1, <1>2, <1>3, <1>4, BuildFacts, FileUntouched, FailStep
<1>5. CASE mine' = [mine EXCEPT ![b].graph = b] /\ Goes(b, "graph")
  <2> DEFINE object == [mine[b] EXCEPT !.graph = b]
  <2>1. mine[b] \in Project
    BY BuildFacts
  <2>2. object \in Project /\ mine' = [mine EXCEPT ![b] = object]
    BY <1>5, <2>1, ObjectEdits, BuildFacts
  <2>3. InStep(b, "graph", object, job[b])
    <3>1. /\ object.graph = b /\ object.task = mine[b].task
          /\ object.status = mine[b].status
      BY <2>1 DEF Project
    <3> QED
      BY <1>1, <3>1, BuildFacts DEF InStep, UnderWay, Built
  <2>4. at' = [at EXCEPT ![b] = "graph"] /\ "graph" \in Stages
    BY <1>5 DEF Goes, Stages
  <2>5. Running(b)'
    BY <2>4, BuildFacts DEF Running
  <2> HIDE DEF object
  <2> QED
    BY <1>1, <1>2, <1>3, <2>2, <2>3, <2>4, <2>5, BuildFacts, FileUntouched, ActorStep
<1> QED
  BY <1>4, <1>5 DEF StartBuild

LEMMA SubmitJobStep ==
  ASSUME IInv, NEW b \in Builds, SubmitJob(b)
  PROVE  IInv'
<1>1. at[b] = "submit" /\ b \notin opened
  BY BuildFacts DEF SubmitJob, Saving
<1>2. UNCHANGED fileVars /\ tasks' = tasks
  BY DEF SubmitJob
<1>3. job' \in [Builds -> Outcomes] /\ \A c \in Builds : c # b => job'[c] = job[c]
  BY BuildFacts DEF SubmitJob, Outcomes
<1>4. job[b] = "none"
  BY <1>1, BuildFacts DEF InStep
<1>5. CASE Fail(b)
  BY <1>1, <1>2, <1>3, <1>4, <1>5, BuildFacts, FileUntouched, FailStep
<1>6. CASE job' = [job EXCEPT ![b] = "queued"] /\ Goes(b, "wait") /\ UNCHANGED mine
  <2>1. at' = [at EXCEPT ![b] = "wait"] /\ "wait" \in Stages
    BY <1>6 DEF Goes, Stages
  <2>2. mine' = [mine EXCEPT ![b] = mine[b]] /\ mine[b] \in Project
    BY <1>6, BuildFacts
  <2>3. InStep(b, "wait", mine[b], job'[b])
    BY <1>1, BuildFacts DEF InStep, UnderWay, Built
  <2>4. Running(b)'
    BY <2>1, BuildFacts DEF Running
  <2> QED
    BY <1>1, <1>2, <1>3, <1>4, <2>1, <2>2, <2>3, <2>4, BuildFacts, FileUntouched, ActorStep
<1> QED
  BY <1>5, <1>6 DEF SubmitJob

LEMMA JobCompletionSeenStep ==
  ASSUME IInv, NEW b \in Builds, JobCompletionSeen(b)
  PROVE  IInv'
<1>1. at[b] = "wait" /\ b \notin opened
  BY BuildFacts DEF JobCompletionSeen, Saving
<1>2. /\ UNCHANGED fileVars /\ job' = job /\ tasks' = tasks
      /\ at' = [at EXCEPT ![b] = "fetch"] /\ "fetch" \in Stages
  BY DEF JobCompletionSeen, Goes, Stages
<1>3. mine' = [mine EXCEPT ![b] = mine[b]] /\ mine[b] \in Project
  BY BuildFacts DEF JobCompletionSeen
<1>4. InStep(b, "fetch", mine[b], job[b])
  BY <1>1, BuildFacts DEF JobCompletionSeen, InStep, UnderWay, Built
<1>5. Running(b)'
  BY <1>2, BuildFacts DEF Running
<1> QED
  BY <1>1, <1>2, <1>3, <1>4, <1>5, BuildFacts, FileUntouched, ActorStep

LEMMA AbandonStep ==
  ASSUME IInv, NEW b \in Builds, Abandon(b)
  PROVE  IInv'
<1>1. at[b] \in {"wait", "fetch"} /\ b \notin opened /\ Fail(b)
  BY BuildFacts DEF Abandon, Saving
<1>2. UNCHANGED fileVars /\ job' = job /\ tasks' = tasks
  BY DEF Abandon
<1> QED
  BY <1>1, <1>2, BuildFacts, FileUntouched, FailStep

LEMMA FetchGraphStep ==
  ASSUME IInv, NEW b \in Builds, FetchGraph(b)
  PROVE  IInv'
<1> DEFINE object == [mine[b] EXCEPT !.status = "graph_completed"]
<1>1. at[b] = "fetch" /\ b \notin opened
  BY BuildFacts DEF FetchGraph, Saving
<1>2. /\ UNCHANGED fileVars /\ job' = job /\ tasks' = tasks
      /\ at' = [at EXCEPT ![b] = "completed"] /\ "completed" \in Stages
  BY DEF FetchGraph, Goes, Stages
<1>3. mine[b] \in Project
  BY BuildFacts
<1>4. object \in Project /\ mine' = [mine EXCEPT ![b] = object]
  BY <1>3, ObjectEdits, BuildFacts DEF FetchGraph
<1>5. InStep(b, "completed", object, job[b])
  <2>1. /\ object.status = "graph_completed"
        /\ object.task = mine[b].task /\ object.graph = mine[b].graph
    BY <1>3 DEF Project
  <2> QED
    BY <1>1, <2>1, BuildFacts DEF InStep, UnderWay, Built
<1>6. Running(b)'
  BY <1>2, BuildFacts DEF Running
<1> HIDE DEF object
<1> QED
  BY <1>1, <1>2, <1>4, <1>5, <1>6, BuildFacts, FileUntouched, ActorStep

LEMMA ReportStep ==
  ASSUME IInv, NEW b \in Builds, Report(b)
  PROVE  IInv'
<1>1. /\ at[b] \in {"report completed", "report failed"} /\ b \notin opened
  BY BuildFacts DEF Report, Saving
<1>2. /\ UNCHANGED fileVars /\ job' = job
      /\ at' = [at EXCEPT ![b] = "ended"] /\ "ended" \in Stages
  BY DEF Report, Goes, Stages
<1>3. mine' = [mine EXCEPT ![b] = mine[b]] /\ mine[b] \in Project
  BY BuildFacts DEF Report
<1>4. InStep(b, "ended", mine[b], job[b])
  BY BuildFacts DEF InStep, UnderWay, Built
<1>5. /\ tasks' \in [Builds -> TaskStatuses]
      /\ \A c \in Builds : c # b => tasks'[c] = tasks[c]
      /\ tasks'[b] = "completed" => at[b] = "report completed"
      /\ tasks'[b] = "failed" => at[b] = "report failed"
  BY BuildFacts DEF Report, SetTask, TaskStatuses
<1>6. tasks'[b] = "completed" => job'[b] = "completed"
  BY <1>2, <1>5, BuildFacts DEF InStep
<1>7. file.task = b =>
        /\ at[b] = "report completed" => file.status = "graph_completed"
        /\ at[b] = "report failed" =>
             file.status = "failed" /\ file.error = "told"
  BY DEF IInv, FileInStep
<1>8. file.task = b => file.status # "graph_building"
  BY <1>1, <1>7
<1> QED
  BY <1>1, <1>2, <1>3, <1>4, <1>5, <1>6, <1>7, <1>8, BuildFacts, FileUntouched, ActorStep

LEMMA ServiceStepStep ==
  ASSUME IInv, NEW b \in Builds, ServiceStep(b)
  PROVE  IInv'
<1>1. /\ job' \in [Builds -> Outcomes] /\ job[b] = "queued"
      /\ \A c \in Builds : c # b => job'[c] = job[c]
  BY BuildFacts DEF ServiceStep, Outcomes
<1>2. /\ file' = file /\ opened' = opened /\ dirty' = dirty
      /\ UNCHANGED <<disturbed, unsaved, restarted>>
      /\ tasks' = tasks /\ at' = at /\ mine' = mine
  BY DEF ServiceStep, fileVars
<1>3. \A c \in Builds : job[c] \in {"none", "completed"} => job'[c] = job[c]
  BY <1>1
<1> USE DEF IInv
<1>4. ProjectTypeOK'
  BY <1>1, <1>2 DEF ProjectTypeOK, Outcomes, Running, Built
<1>5. ObjectsInStep'
  BY <1>2, <1>3 DEF ObjectsInStep, InStep
<1>6. FileInStep' /\ TasksInStep' /\ OneSaver'
  BY <1>2 DEF FileInStep, TasksInStep, OneSaver
<1>7. CompletedIsBuilt'
  BY <1>2, <1>3 DEF CompletedIsBuilt
<1>8. BuildingIsAlive' /\ ProjectAgreesWithTask' /\ ReadableAtRest'
  BY <1>2
  DEF BuildingIsAlive, Running, ProjectAgreesWithTask, ReadableAtRest
<1> QED
  BY <1>4, <1>5, <1>6, <1>7, <1>8

-----------------------------------------------------------------------------
(* Saves.                                                                  *)

LEMMA TypeParts ==
  ASSUME IInv
  PROVE  /\ file \in Project \union {Torn, Gone}
         /\ opened \subseteq Actors /\ dirty \subseteq opened
         /\ \A x \in opened : at[x] \in Saving
         /\ at \in [Actors -> Stages] /\ mine \in [Actors -> Project]
         /\ disturbed \in BOOLEAN /\ restarted \in BOOLEAN
         /\ unsaved \subseteq Builds
  BY DEF IInv, ProjectTypeOK

(* The project is gone, or nothing can be read in its file: no build and   *)
(* no status is said of it.                                                *)
LEMMA UnwrittenStep ==
  ASSUME IInv, file' \in {Torn, Gone},
         UNCHANGED <<tasks, at, mine, job>>,
         opened' \subseteq Actors, dirty' \subseteq opened',
         \A x \in opened' : at[x] \in Saving,
         disturbed' \in BOOLEAN, UNCHANGED <<unsaved, restarted>>,
         OneSaver', file' = Torn => opened' # {}
  PROVE  IInv'
<1> USE DEF IInv
<1>1. /\ file'.task \notin Builds
      /\ file'.status \notin {"graph_building", "graph_completed"}
  BY Unwritten
<1>2. ProjectTypeOK'
  BY DEF ProjectTypeOK, Running, Built
<1>3. ObjectsInStep' /\ TasksInStep'
  BY DEF ObjectsInStep, InStep, TasksInStep
<1>4. FileInStep' /\ BuildingIsAlive' /\ ProjectAgreesWithTask'
  BY <1>1 DEF FileInStep, BuildingIsAlive, ProjectAgreesWithTask
<1>5. CompletedIsBuilt'
  BY <1>1 DEF CompletedIsBuilt
<1>6. ReadableAtRest'
  BY DEF ReadableAtRest
<1> QED
  BY <1>2, <1>3, <1>4, <1>5, <1>6

LEMMA OpenFileStep ==
  ASSUME IInv, NEW a \in Actors, OpenFile(a)
  PROVE  IInv'
<1>1. /\ file' = Torn /\ UNCHANGED <<tasks, at, mine, job>>
      /\ opened' = opened \union {a} /\ dirty' = {}
      /\ at[a] \in Saving
  BY DEF OpenFile
<1>2. disturbed' \in BOOLEAN /\ UNCHANGED <<unsaved, restarted>>
  BY TypeParts DEF OpenFile
<1>3. OneSaver'
  BY <1>1 DEF OneSaver, OpenFile
<1> QED
  BY <1>1, <1>2, <1>3, TypeParts, UnwrittenStep

LEMMA DeleteProjectStep == IInv /\ DeleteProject => IInv'
<1> SUFFICES ASSUME IInv, DeleteProject PROVE IInv'
  OBVIOUS
<1>1. OneSaver'
  BY DEF DeleteProject, OneSaver, IInv
<1> QED
  BY <1>1, Unwritten, TypeParts, UnwrittenStep DEF DeleteProject

(* Saving raises, and leaves the file or something that cannot be read.    *)
LEMMA SaveRaisesStep ==
  ASSUME IInv, NEW a \in Actors, at[a] \in Saving, SaveRaises(a),
         file' \in {file, Torn, Gone},
         opened' = opened \ {a}, dirty' \subseteq opened',
         disturbed' \in BOOLEAN, OneSaver', ReadableAtRest'
  PROVE  IInv'
<1>1. tasks' = tasks /\ job' = job /\ restarted' = restarted
  BY DEF SaveRaises
<1>2. tasks \in [Builds -> TaskStatuses] /\ job \in [Builds -> Outcomes]
  BY DEF IInv, ProjectTypeOK, TaskStatuses, Outcomes
<1>3. a \in Builds <=> at[a] # "reset"
  BY ActorsAssumption DEF IInv, ObjectsInStep, InStep, Actors, Saving
<1>4. FileKept(a)
  BY <1>1, <1>3, TypeParts DEF SaveRaises, FileKept
<1>5. CASE at[a] = "reset" /\ Goes(a, "idle") /\ UNCHANGED <<mine, unsaved>>
  <2>1. a \in Resets /\ a \notin Builds
    BY <1>3, <1>5 DEF Actors
  <2>2. at' = [at EXCEPT ![a] = "idle"] /\ "idle" \in Stages
    BY <1>5 DEF Goes, Stages
  <2>3. mine' = [mine EXCEPT ![a] = mine[a]] /\ mine[a] \in Project
    BY <1>5, TypeParts
  <2>4. InStep(a, "idle", mine[a], "none")
    BY <2>1 DEF InStep, UnderWay, Built
  <2> QED
    BY <1>1, <1>2, <1>4, <2>1, <2>2, <2>3, <2>4, ActorStep
<1>6. CASE /\ at[a] \in {"request", "failed"} /\ Goes(a, "ended")
           /\ unsaved' = unsaved \union {a}
           /\ UNCHANGED mine
  <2>1. a \in Builds /\ a \notin Resets /\ a \in unsaved'
    BY <1>3, <1>6, ActorsAssumption
  <2>2. at' = [at EXCEPT ![a] = "ended"] /\ "ended" \in Stages
    BY <1>6 DEF Goes, Stages
  <2>3. mine' = [mine EXCEPT ![a] = mine[a]] /\ mine[a] \in Project
    BY <1>6, TypeParts
  <2>4. InStep(a, "ended", mine[a], job[a])
    BY <2>1 DEF InStep, UnderWay, Built
  <2>5. tasks[a] \notin {"completed", "failed"}
    BY <1>6, <2>1, BuildFacts
  <2> QED
    BY <1>1, <1>2, <1>4, <2>1, <2>2, <2>3, <2>4, <2>5, ActorStep
<1>7. CASE at[a] \in {"graph", "completed"} /\ Fail(a)
  <2>1. a \in Builds
    BY <1>3, <1>7
  <2> QED
    BY <1>1, <1>2, <1>4, <1>7, <2>1, BuildFacts, FailStep
<1> QED
  BY <1>5, <1>6, <1>7 DEF SaveRaises

LEMMA OpenFailsStep ==
  ASSUME IInv, NEW a \in Actors, OpenFails(a)
  PROVE  IInv'
<1>1. /\ a \notin opened /\ UNCHANGED <<file, opened, dirty, disturbed>>
      /\ at[a] \in Saving /\ SaveRaises(a)
  BY DEF OpenFails
<1>2. OneSaver' /\ ReadableAtRest'
  BY <1>1 DEF IInv, OneSaver, ReadableAtRest
<1>3. opened' = opened \ {a} /\ dirty' \subseteq opened' /\ disturbed' \in BOOLEAN
  BY <1>1, TypeParts
<1> QED
  BY <1>1, <1>2, <1>3, SaveRaisesStep

LEMMA WriteFailsStep ==
  ASSUME IInv, NEW a \in Actors, WriteFails(a)
  PROVE  IInv'
<1>1. /\ file' \in {file, Torn, Gone}
      /\ opened' = opened \ {a} /\ dirty' = opened \ {a} /\ disturbed' = TRUE
      /\ at[a] \in Saving /\ SaveRaises(a)
  BY TypeParts DEF WriteFails
<1>2. OneSaver' /\ ReadableAtRest'
  BY <1>1 DEF OneSaver, ReadableAtRest
<1> QED
  BY <1>1, <1>2, SaveRaisesStep

LEMMA RequestResetStep ==
  ASSUME IInv, NEW r \in Resets, RequestReset(r)
  PROVE  IInv'
<1>1. r \in Actors /\ r \notin Builds /\ r \notin opened
  BY ActorsAssumption, TypeParts DEF Actors, RequestReset, Saving
<1>2. /\ at' = [at EXCEPT ![r] = "reset"] /\ "reset" \in Stages
      /\ mine' = [mine EXCEPT ![r] = Ready] /\ Ready \in Project
      /\ UNCHANGED fileVars /\ tasks' = tasks /\ job' = job
  BY Unwritten DEF RequestReset, Goes, Stages
<1>3. tasks \in [Builds -> TaskStatuses] /\ job \in [Builds -> Outcomes]
  BY DEF IInv, ProjectTypeOK, TaskStatuses, Outcomes
<1>4. InStep(r, "reset", Ready, "none")
  BY <1>1 DEF InStep, UnderWay, Built
<1> QED
  BY <1>1, <1>2, <1>3, <1>4, FileUntouched, ActorStep

LEMMA WriteFileStep ==
  ASSUME IInv, NEW a \in Actors, WriteFile(a)
  PROVE  IInv'
<1>1. /\ a \in opened /\ at[a] \in Saving
      /\ opened' = opened \ {a} /\ dirty' = opened \ {a}
      /\ tasks' = tasks /\ mine' = mine /\ job' = job
      /\ unsaved' = unsaved /\ restarted' = restarted
      /\ disturbed' = (disturbed /\ (opened # {a} \/ a \in dirty))
      /\ at' = [at EXCEPT ![a] = Saved(at[a])]
  BY TypeParts DEF WriteFile, Writes, Goes
<1>2. /\ file' \in {mine[a], Torn, Gone}
      /\ file' = Torn => a \in dirty
  BY TypeParts, Unwritten DEF WriteFile
<1>3. /\ Saved(at[a]) \in Stages
      /\ at[a] = "request" => Saved(at[a]) = "spawned"
      /\ at[a] = "graph" => Saved(at[a]) = "submit"
      /\ at[a] = "completed" => Saved(at[a]) = "report completed"
      /\ at[a] = "failed" => Saved(at[a]) = "report failed"
      /\ at[a] = "reset" => Saved(at[a]) = "idle"
  BY <1>1 DEF Saved, Saving, Stages
<1>4. /\ at'[a] = Saved(at[a]) /\ at' \in [Actors -> Stages]
      /\ \A x \in Actors : x # a => at'[x] = at[x]
      /\ Builds \subseteq Actors /\ Resets \subseteq Actors
      /\ Builds \intersect Resets = {}
  BY <1>1, <1>3, TypeParts, ActorsAssumption DEF Actors
<1>5. /\ a \in Builds => at[a] # "reset" /\ InStep(a, at[a], mine[a], job[a])
      /\ a \in Resets => at[a] = "reset" /\ mine[a] = Ready
      /\ a \in Builds \/ a \in Resets
  BY <1>1 DEF IInv, ObjectsInStep, InStep, Saving, Actors
<1>6. ObjectsInStep'
  <2>1. a \in Builds => InStep(a, at'[a], mine[a], job[a])
    BY <1>1, <1>3, <1>4, <1>5 DEF InStep, Saving, UnderWay, Built
  <2>2. a \in Resets => InStep(a, at'[a], mine[a], "none")
    BY <1>3, <1>4, <1>5 DEF InStep, UnderWay, Built
  <2> QED
    BY <1>1, <1>4, <2>1, <2>2 DEF IInv, ObjectsInStep
(* What is saved names the build that saves it, or none.                   *)
<1>7. \A b \in Builds : file'.task = b =>
        /\ b = a /\ file' = mine[b]
        /\ at[b] \in {"request", "graph", "completed", "failed"}
  BY <1>1, <1>2, <1>5, Unwritten DEF InStep, Saving, UnderWay, Built
<1>8. FileInStep'
  <2> SUFFICES ASSUME NEW b \in Builds, file'.task = b
               PROVE  /\ at'[b] = "report completed" =>
                           file'.status = "graph_completed"
                      /\ at'[b] = "report failed" =>
                           file'.status = "failed" /\ file'.error = "told"
    BY DEF FileInStep
  <2> QED
    BY <1>1, <1>3, <1>4, <1>5, <1>7 DEF InStep
<1>9. BuildingIsAlive'
  <2> SUFFICES ASSUME file'.status = "graph_building"
               PROVE  file'.task \in Builds /\ Running(file.task)'
    BY DEF BuildingIsAlive, Running
  <2>1. a \in Builds /\ file' = mine[a] /\ file'.task = a
    BY <1>1, <1>2, <1>5, Unwritten DEF InStep, Saving, UnderWay, Built
  <2> QED
    BY <1>1, <1>3, <1>4, <1>7, <2>1 DEF Running
<1>10. CompletedIsBuilt'
  <2>1. ASSUME file'.status = "graph_completed"
        PROVE  /\ file'.graph \in Builds /\ file'.graph = file'.task
               /\ job[file'.graph] = "completed"
    <3>1. a \in Builds /\ file' = mine[a] /\ file'.task = a
      BY <1>1, <1>2, <1>5, <2>1, Unwritten DEF InStep, Saving, UnderWay, Built
    <3>2. at[a] = "completed"
      BY <1>1, <1>5, <2>1, <3>1 DEF InStep, Saving
    <3> QED
      BY <1>5, <3>1, <3>2 DEF InStep, Built
  <2> QED
    BY <1>1, <2>1 DEF IInv, CompletedIsBuilt
<1>11. TasksInStep'
  BY <1>1, <1>4 DEF IInv, TasksInStep, Saving
<1>12. ProjectAgreesWithTask'
  BY <1>1, <1>7 DEF IInv, TasksInStep, ProjectAgreesWithTask
<1>13. OneSaver' /\ ReadableAtRest'
  <2>1. ~ disturbed' => a \notin dirty /\ opened = {a}
    BY <1>1 DEF IInv, OneSaver
  <2>2. OneSaver'
    BY <1>1, <2>1 DEF OneSaver
  <2>3. ReadableAtRest'
    BY <1>1, <1>2, <2>1 DEF ReadableAtRest
  <2> QED
    BY <2>2, <2>3
<1>14. ProjectTypeOK'
  <2>1. \A x \in opened' : at'[x] \in Saving
    BY <1>1, <1>4, TypeParts
  <2>2. ASSUME NEW b \in Builds, at'[b] = "request" \/ Running(b)'
        PROVE  mine'[b].task = b /\ (at'[b] \in Built => mine'[b].graph = b)
    BY <1>6, <2>2 DEF ObjectsInStep, InStep, Running, UnderWay, Built
  <2>3. file' \in Project \union {Torn, Gone} /\ opened' \subseteq Actors
    BY <1>1, <1>2, TypeParts
  <2>4. /\ mine' \in [Actors -> Project] /\ disturbed' \in BOOLEAN
        /\ unsaved' \subseteq Builds /\ restarted' \in BOOLEAN
    BY <1>1, TypeParts
  <2> QED
    BY <1>1, <1>4, <2>1, <2>2, <2>3, <2>4 DEF IInv, ProjectTypeOK, Built
<1> QED
  BY <1>6, <1>8, <1>9, <1>10, <1>11, <1>12, <1>13, <1>14 DEF IInv

LEMMA RestartStep == IInv /\ Restart => IInv'
<1> SUFFICES ASSUME IInv, Restart PROVE IInv'
  OBVIOUS
<1>1. /\ opened' = {} /\ dirty' = {} /\ file' = file /\ job' = job
      /\ restarted' = TRUE /\ unsaved' = unsaved
      /\ disturbed' = (disturbed \/ opened # {})
      /\ mine' = [a \in Actors |-> Ready] /\ tasks' = [b \in Builds |-> "none"]
  BY DEF Restart
<1>2. /\ Builds \subseteq Actors /\ Resets \subseteq Actors
      /\ Builds \intersect Resets = {}
  BY ActorsAssumption DEF Actors
<1>3. /\ at' \in [Actors -> Stages]
      /\ \A b \in Builds : \/ at'[b] = at[b] /\ at[b] = "idle"
                           \/ at'[b] = "ended"
      /\ \A r \in Resets : at'[r] = "idle"
  BY <1>2, TypeParts DEF Restart, Stages
<1>4. disturbed' \in BOOLEAN /\ restarted' \in BOOLEAN /\ unsaved' \subseteq Builds
  BY <1>1, TypeParts
<1>5. ProjectTypeOK'
  BY <1>1, <1>3, <1>4, Unwritten DEF IInv, ProjectTypeOK, Running, Built
<1>6. ObjectsInStep'
  <2>1. \A b \in Builds : InStep(b, at'[b], mine'[b], job'[b])
    BY <1>1, <1>2, <1>3 DEF IInv, ObjectsInStep, InStep, UnderWay, Built
  <2>2. \A r \in Resets : InStep(r, at'[r], mine'[r], "none")
    BY <1>2, <1>3 DEF InStep, UnderWay, Built
  <2> QED
    BY <2>1, <2>2 DEF ObjectsInStep
<1>7. FileInStep' /\ TasksInStep' /\ OneSaver'
  BY <1>1, <1>3 DEF FileInStep, TasksInStep, OneSaver
<1>8. BuildingIsAlive' /\ CompletedIsBuilt'
  BY <1>1 DEF IInv, BuildingIsAlive, CompletedIsBuilt
<1>9. ProjectAgreesWithTask' /\ ReadableAtRest'
  BY <1>1 DEF IInv, ProjectAgreesWithTask, ReadableAtRest
<1> QED
  BY <1>5, <1>6, <1>7, <1>8, <1>9 DEF IInv

-----------------------------------------------------------------------------
LEMMA NextStep == IInv /\ [Next]_vars => IInv'
<1> SUFFICES ASSUME IInv, [Next]_vars PROVE IInv'
  OBVIOUS
<1>1. ASSUME NEW b \in Builds, NEW force \in BOOLEAN, RequestBuild(b, force)
      PROVE  IInv'
  BY <1>1, RequestBuildStep
<1>2. ASSUME NEW b \in Builds, BuildStep(b) PROVE IInv'
  <2>1. b \in Actors
    BY DEF Actors
  <2> QED
    BY <1>2, <2>1, AcceptBuildStep, OpenFileStep, OpenFailsStep, WriteFileStep,
       WriteFailsStep, StartBuildStep, SubmitJobStep, JobCompletionSeenStep, AbandonStep,
       FetchGraphStep, ReportStep
    DEF BuildStep, SaveStep
<1>3. ASSUME NEW b \in Builds, ServiceStep(b) PROVE IInv'
  BY <1>3, ServiceStepStep
<1>4. ASSUME NEW r \in Resets, ResetStep(r) PROVE IInv'
  <2>1. r \in Actors
    BY DEF Actors
  <2> QED
    BY <1>4, <2>1, RequestResetStep, OpenFileStep, OpenFailsStep, WriteFileStep,
       WriteFailsStep
    DEF ResetStep, SaveStep
<1>5. CASE DeleteProject
  BY <1>5, DeleteProjectStep
<1>6. CASE Restart
  BY <1>6, RestartStep
<1>7. CASE UNCHANGED vars
  <2> USE <1>7 DEF vars
  <2>1. ProjectTypeOK'
    BY DEF IInv, ProjectTypeOK, Running, Built
  <2>2. ObjectsInStep' /\ FileInStep' /\ TasksInStep' /\ OneSaver'
    BY DEF IInv, ObjectsInStep, InStep, FileInStep, TasksInStep, OneSaver
  <2>3. BuildingIsAlive' /\ CompletedIsBuilt'
    BY DEF IInv, BuildingIsAlive, CompletedIsBuilt, Running
  <2>4. ProjectAgreesWithTask' /\ ReadableAtRest'
    BY DEF IInv, ProjectAgreesWithTask, ReadableAtRest
  <2> QED
    BY <2>1, <2>2, <2>3, <2>4 DEF IInv
<1> QED
  BY <1>1, <1>2, <1>3, <1>4, <1>5, <1>6, <1>7 DEF Next

(* The invariant holds in every state of every behaviour.                  *)
THEOREM Invariance == Spec => []IInv
  BY Initially, NextStep, PTL DEF Spec

(* Type correctness: in particular, whatever requests interleave, a thread *)
(* saves an object that names its own task and graph.                      *)
THEOREM TypeCorrect == Spec => []ProjectTypeOK
  BY Invariance, PTL DEF IInv

(* A project that says graph_building, and so refuses builds               *)
(* (build_graph), has a thread at work, unless the backend was restarted   *)
(* or the thread could not save that it had failed.                        *)
THEOREM NeverStuck == Spec => []BuildingIsAlive
  BY Invariance, PTL DEF IInv

(* A completed project names one build, whose job is completed: saves of   *)
(* other builds and resets replace the object as a whole (save_project).   *)
THEOREM CompletionIsGenuine == Spec => []CompletedIsBuilt
  BY Invariance, PTL DEF IInv

(* A task and the project that names it agree once the task is decided,    *)
(* since the thread saves the project first (build_task).                  *)
THEOREM Agreement == Spec => []ProjectAgreesWithTask
  BY Invariance, PTL DEF IInv

(* The file can be read whenever nobody is saving it, from a save that had *)
(* it to itself up to one that fails, meets another or is cut off          *)
(* (save_project).                                                         *)
THEOREM Readability == Spec => []ReadableAtRest
  BY Invariance, PTL DEF IInv

=============================================================================
