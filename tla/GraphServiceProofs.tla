------------------------- MODULE GraphServiceProofs -------------------------
(***************************************************************************)
(* Proofs about GraphBuild, for any sets of jobs and graphs and documents  *)
(* of any length, and about GraphService: the build side keeps what is     *)
(* proved of it alone, and snapshots show the past of their graphs.        *)
(***************************************************************************)
EXTENDS GraphService, TLAPS

(* The dispatcher has a command in hand from taking it to the build's end. *)
Busy == stage = "taken" \/ stage \in Executing

(* The commands, in the order of the queue: those before `taken` are       *)
(* decided, the one at `taken` is the dispatcher's as long as it is busy,  *)
(* the others wait.  Nobody enqueues a job twice.                          *)
QueueInOrder ==
  /\ \A a, b \in 1..Len(commands) : commands[a] = commands[b] => a = b
  /\ \A i \in 1..Len(commands) : commands[i] \notin accepting
  /\ \A i \in 1..taken :
       ~ (Busy /\ i = taken) => status[commands[i]] \in Decided
  /\ Busy => /\ taken > 0
             /\ current \in Jobs
             /\ current = commands[taken]
  /\ \A j \in Jobs : status[j] \in Decided => Accepted(j)

(* Episodes e of job j from `first` on are in the graph once if a bulk     *)
(* call has stored them, and not at all if there was no bulk call; those   *)
(* before `first` are there.                                               *)
AddedUpTo(j, first) ==
  \A e \in Chunks :
    /\ e >= first => /\ copies[j][e] <= 1
                     /\ copies[j][e] = 1 => request[j].chunks > 1
    /\ e < first => copies[j][e] > 0

(* Who has the job j that is not running yet, the dispatcher stopped or    *)
(* not, and what makes it running.                                         *)
Waits(j) ==
  \/ j \in accepting
  \/ OnQueue(j)
  \/ stage = "taken" /\ current = j

JobsAreOwned ==
  /\ \A j \in Jobs : status[j] = "queued" <=> Waits(j)
  /\ \A j \in Jobs : status[j] = "running" <=> stage \in Executing /\ current = j

(* The dispatcher stops for a shutdown only, which comes when the requests *)
(* are over.                                                               *)
StopsInOrder ==
  /\ stage = "stopped" => stopping
  /\ stopping => accepting = {}

(* What the graph holds of a job at each stage of its build.               *)
CopiesInStep ==
  /\ \A j \in Jobs : status[j] \in {"unknown", "queued"} =>
       \A e \in Chunks : copies[j][e] = 0
  /\ \A j \in Jobs, e \in Chunks : copies[j][e] > 0 => e <= request[j].chunks
  /\ stage = "indices" => \A e \in Chunks : copies[current][e] = 0
  /\ stage = "bulk" => /\ request[current].chunks > 1
                       /\ \A e \in Chunks : copies[current][e] <= 1
  /\ stage = "sequential" => /\ episode <= request[current].chunks
                             /\ AddedUpTo(current, episode)
  /\ stage = "stored" => /\ episode <= request[current].chunks
                         /\ AddedUpTo(current, episode + 1)
  /\ stage \in {"save", "complete"} =>
       \A e \in 1..request[current].chunks : copies[current][e] > 0

(* The metadata are in place before the job is completed.                  *)
MetadataFirst ==
  stage = "complete" => metadata[request[current].graph] = current

(* The inductive invariant. *)
IInv ==
  /\ TypeOK
  /\ JobsAreOwned
  /\ StopsInOrder
  /\ QueueInOrder
  /\ CopiesInStep
  /\ AtMostTwice
  /\ CompletedIsInGraph
  /\ MetadataFirst
  /\ MetadataOfLatestBuild

-----------------------------------------------------------------------------
LEMMA InitEstablishes == Init => IInv
<1> SUFFICES ASSUME Init PROVE IInv
  OBVIOUS
<1> USE NoJobAssumption, ChunksAssumption DEF Init
<1>1. TypeOK
  <2>1. commands \in Seq(Jobs) /\ taken \in 0..Len(commands)
    OBVIOUS
  <2>2. metadata \in [Graphs -> Jobs \union {NoJob}]
    OBVIOUS
  <2>3. copies \in [Jobs -> [Chunks -> Nat]]
    OBVIOUS
  <2>4. stopping \in BOOLEAN
    OBVIOUS
  <2>5. stage \in Stages /\ status \in [Jobs -> Statuses] /\ accepting \subseteq Jobs
    BY DEF Statuses, Stages
  <2>6. current \in Jobs \union {NoJob} /\ episode \in Nat \ {0}
    OBVIOUS
  <2>7. request \in [Jobs -> Request]
    OBVIOUS
  <2> HIDE DEF Init
  <2>8. QED
    BY <2>1, <2>2, <2>3, <2>4, <2>5, <2>6, <2>7 DEF TypeOK
<1>2. JobsAreOwned /\ StopsInOrder
  BY DEF JobsAreOwned, StopsInOrder, Waits, OnQueue, Executing
<1>3. QueueInOrder
  BY DEF QueueInOrder, Busy, Executing, Decided
<1>4. CopiesInStep /\ AtMostTwice
  BY DEF CopiesInStep, AtMostTwice, Chunks
<1>5. CompletedIsInGraph /\ MetadataFirst /\ MetadataOfLatestBuild
  BY DEF CompletedIsInGraph, MetadataFirst, MetadataOfLatestBuild
<1>6. QED
  BY <1>1, <1>2, <1>3, <1>4, <1>5 DEF IInv

(* What one more copy of an episode, and a new status of a job, change.    *)
LEMMA AddCopyEffect ==
  ASSUME TypeOK, NEW j \in Jobs, NEW e \in Chunks, AddCopy(j, e)
  PROVE  /\ copies' \in [Jobs -> [Chunks -> Nat]]
         /\ copies'[j][e] = copies[j][e] + 1
         /\ \A i \in Jobs, d \in Chunks :
              i # j \/ d # e => copies'[i][d] = copies[i][d]
  BY DEF AddCopy, TypeOK

LEMMA SetStatusEffect ==
  ASSUME TypeOK, NEW j \in Jobs, NEW new \in Statuses, SetStatus(j, new)
  PROVE  /\ status' \in [Jobs -> Statuses]
         /\ status'[j] = new
         /\ \A i \in Jobs \ {j} : status'[i] = status[i]
  BY DEF SetStatus, TypeOK

(* The queue after one more command. *)
LEMMA EnqueueEffect ==
  ASSUME TypeOK, NEW j \in Jobs, Enqueue(j)
  PROVE  /\ commands' \in Seq(Jobs)
         /\ Len(commands') = Len(commands) + 1
         /\ commands'[Len(commands) + 1] = j
         /\ \A i \in 1..Len(commands) : commands'[i] = commands[i]
  BY DEF Enqueue, TypeOK

-----------------------------------------------------------------------------
(* While it is busy, the dispatcher holds a job. *)
LEMMA TypePreserved ==
  ASSUME TypeOK, QueueInOrder, CopiesInStep, [Next]_vars
  PROVE  TypeOK'
<1> USE NoJobAssumption, ChunksAssumption DEF dispatcherVars
<1>c. Busy => current \in Jobs
  BY DEF QueueInOrder
<1>r. \A j \in Jobs : request[j].graph \in Graphs /\ request[j].chunks \in 0..MaxChunks
  BY DEF TypeOK, Request
<1>1. ASSUME NEW j \in Jobs, CreateJob(j)
      PROVE  TypeOK'
  BY <1>1, SetStatusEffect DEF CreateJob, TypeOK, Statuses
<1>2. ASSUME NEW j \in Jobs, Enqueue(j)
      PROVE  TypeOK'
  <2>1. taken \in 0..Len(commands')
    BY <1>2, EnqueueEffect DEF TypeOK
  <2>2. QED
    BY <1>2, <2>1, EnqueueEffect DEF Enqueue, TypeOK
<1>3. CASE TakeCommand
  BY <1>3 DEF TakeCommand, QueueEmpty, TypeOK, Stages
<1>4. CASE StopDispatcher
  BY <1>4 DEF StopDispatcher, TypeOK, Stages
<1>5. CASE StartBuild
  BY <1>5, <1>c, SetStatusEffect
     DEF StartBuild, Busy, TypeOK, Statuses, Stages, Executing
<1>6. CASE IndicesReady
  BY <1>6 DEF IndicesReady, Sequentially, TypeOK, Stages, Executing
<1>7. ASSUME NEW e \in Chunks, BulkStores(e)
      PROVE  TypeOK'
  BY <1>7, <1>c, AddCopyEffect DEF BulkStores, Busy, Executing, TypeOK
<1>8. CASE BulkDone
  BY <1>8 DEF BulkDone, TypeOK, Stages, Executing
<1>9. CASE BulkFails
  BY <1>9 DEF BulkFails, Sequentially, TypeOK, Stages, Executing
<1>10. CASE EpisodeStored
  <2>1. current \in Jobs /\ episode \in Chunks
    BY <1>10, <1>c, <1>r
       DEF EpisodeStored, Busy, Executing, CopiesInStep, TypeOK, Chunks
  <2>2. copies' \in [Jobs -> [Chunks -> Nat]]
    BY <1>10, <2>1, AddCopyEffect DEF EpisodeStored
  <2>3. QED
    BY <1>10, <2>2 DEF EpisodeStored, TypeOK, Stages, Executing
<1>11. CASE EpisodeDone
  BY <1>11 DEF EpisodeDone, TypeOK, Stages, Executing
<1>12. CASE SaveMetadata
  BY <1>12, <1>c DEF SaveMetadata, Busy, TypeOK, Stages, Executing
<1>13. CASE CompleteBuild
  BY <1>13, <1>c, SetStatusEffect
     DEF CompleteBuild, EndBuild, Busy, Executing, Decided, Statuses, TypeOK, Stages
<1>14. CASE FailBuild
  BY <1>14, <1>c, SetStatusEffect
     DEF FailBuild, EndBuild, Busy, Executing, Decided, Statuses, TypeOK, Stages
<1>15. CASE Shutdown
  BY <1>15 DEF Shutdown, TypeOK
<1>16. CASE Restart
  <2>1. commands' \in Seq(Jobs) /\ taken' \in 0..Len(commands')
    BY <1>16 DEF Restart
  <2>2. metadata' \in [Graphs -> Jobs \union {NoJob}]
    BY <1>16 DEF Restart
  <2>3. status' \in [Jobs -> Statuses]
    BY <1>16 DEF Restart, Statuses
  <2>4. stopping' \in BOOLEAN
    BY <1>16 DEF Restart
  <2>5. stage' \in Stages /\ accepting' \subseteq Jobs
    BY <1>16 DEF Restart, Stages
  <2>6. current' \in Jobs \union {NoJob} /\ episode' \in Nat \ {0}
    BY <1>16 DEF Restart
  <2>7. request' \in [Jobs -> Request] /\ copies' \in [Jobs -> [Chunks -> Nat]]
    BY <1>16 DEF Restart, TypeOK
  <2>8. QED
    BY <2>1, <2>2, <2>3, <2>4, <2>5, <2>6, <2>7 DEF TypeOK
<1>17. CASE UNCHANGED vars
  BY <1>17 DEF vars, TypeOK
<1>18. QED
  BY <1>1, <1>2, <1>3, <1>4, <1>5, <1>6, <1>7, <1>8, <1>9, <1>10, <1>11,
     <1>12, <1>13, <1>14, <1>15, <1>16, <1>17 DEF Next, DispatcherStep

-----------------------------------------------------------------------------
(* Who owns a job depends on these variables only, and on whether the      *)
(* dispatcher holds a command or executes one.                             *)
LEMMA SameOwners ==
  ASSUME JobsAreOwned, QueueInOrder,
         UNCHANGED <<status, accepting, commands, taken, current>>,
         stage' = "taken" <=> stage = "taken",
         stage' \in Executing <=> stage \in Executing
  PROVE  JobsAreOwned' /\ QueueInOrder'
  BY DEF JobsAreOwned, Waits, OnQueue, QueueInOrder, Busy, Accepted

LEMMA OwnersPreserved ==
  ASSUME TypeOK, JobsAreOwned, QueueInOrder, [Next]_vars
  PROVE  JobsAreOwned' /\ QueueInOrder'
<1> USE NoJobAssumption DEF dispatcherVars
<1>t. /\ \A i \in 1..Len(commands) : commands[i] \in Jobs
      /\ Len(commands) \in Nat /\ taken \in 0..Len(commands)
  BY DEF TypeOK
<1>c. Busy => current \in Jobs
  BY DEF QueueInOrder
<1>d. /\ "queued" \notin Decided /\ "running" \notin Decided
      /\ "unknown" \notin Decided /\ "lost" \notin Decided
      /\ "completed" \in Decided /\ "failed" \in Decided
      /\ Decided \union {"queued", "running", "unknown", "lost"} = Statuses
  BY DEF Decided, Statuses
<1>e. /\ "waiting" \notin Executing /\ "taken" \notin Executing
      /\ "stopped" \notin Executing
  BY DEF Executing
<1>1. ASSUME NEW j \in Jobs, CreateJob(j)
      PROVE  JobsAreOwned' /\ QueueInOrder'
  <2>1. /\ status[j] = "unknown" /\ status'[j] = "queued"
        /\ \A i \in Jobs \ {j} : status'[i] = status[i]
        /\ accepting' = accepting \union {j}
        /\ UNCHANGED <<commands, taken, stage, current>>
    BY <1>1, <1>d, SetStatusEffect DEF CreateJob
  <2>2. ~ Waits(j) /\ ~ (stage \in Executing /\ current = j)
    BY <2>1 DEF JobsAreOwned
  <2>3. \A i \in 1..Len(commands) : commands[i] # j
    BY <2>1, <2>2, <1>t, <1>d, <1>c DEF QueueInOrder, Waits, OnQueue, Busy
  <2>4. JobsAreOwned'
    BY <2>1, <2>2 DEF JobsAreOwned, Waits, OnQueue
  <2>5. QueueInOrder'
    BY <2>1, <2>3, <1>t, <1>d DEF QueueInOrder, Busy, Accepted
  <2>6. QED
    BY <2>4, <2>5
<1>2. ASSUME NEW j \in Jobs, Enqueue(j)
      PROVE  JobsAreOwned' /\ QueueInOrder'
  <2>1. /\ j \in accepting /\ accepting' = accepting \ {j}
        /\ UNCHANGED <<status, taken, stage, current>>
    BY <1>2 DEF Enqueue
  <2>2. /\ Len(commands') = Len(commands) + 1
        /\ commands'[Len(commands) + 1] = j
        /\ \A i \in 1..Len(commands) : commands'[i] = commands[i]
    BY <1>2, EnqueueEffect
  <2>3. \A i \in Jobs : Waits(i)' <=> Waits(i)
    <3>1. Waits(j) /\ Waits(j)'
      BY <2>1, <2>2, <1>t DEF Waits, OnQueue
    <3>2. ASSUME NEW i \in Jobs, i # j
          PROVE  Waits(i)' <=> Waits(i)
      BY <3>2, <2>1, <2>2, <1>t DEF Waits, OnQueue
    <3>3. QED
      BY <3>1, <3>2
  <2>4. JobsAreOwned'
    BY <2>1, <2>3 DEF JobsAreOwned
  <2>5. QueueInOrder'
    BY <2>1, <2>2, <1>t DEF QueueInOrder, Busy, Accepted
  <2>6. QED
    BY <2>4, <2>5
<1>3. CASE TakeCommand
  <2>1. /\ stage = "waiting" /\ stage' = "taken"
        /\ taken < Len(commands) /\ taken' = taken + 1
        /\ current' = commands[taken + 1]
        /\ UNCHANGED <<status, accepting, commands>>
    BY <1>3, <1>t DEF TakeCommand, QueueEmpty
  <2>2. \A i \in Jobs : Waits(i)' <=> Waits(i)
    BY <2>1, <1>t DEF Waits, OnQueue
  <2>3. JobsAreOwned'
    BY <2>1, <2>2, <1>e DEF JobsAreOwned
  <2>4. QueueInOrder'
    BY <2>1, <1>t, <1>e DEF QueueInOrder, Busy, Accepted
  <2>5. QED
    BY <2>3, <2>4
<1>4. CASE StopDispatcher
  BY <1>4, <1>e, SameOwners DEF StopDispatcher
<1>5. CASE StartBuild
  <2>1. /\ stage = "taken" /\ stage' = "indices" /\ "indices" \in Executing
        /\ current \in Jobs
        /\ UNCHANGED <<accepting, commands, taken, current>>
    BY <1>5, <1>c DEF StartBuild, Busy, Executing
  <2>2. /\ status'[current] = "running"
        /\ \A i \in Jobs \ {current} : status'[i] = status[i]
    BY <1>5, <2>1, <1>d, SetStatusEffect DEF StartBuild
  <2>3. /\ current \notin accepting
        /\ \A i \in (taken + 1)..Len(commands) : commands[i] # current
    BY <2>1, <1>t DEF QueueInOrder, Busy
  <2>4. JobsAreOwned'
    BY <2>1, <2>2, <2>3, <1>e DEF JobsAreOwned, Waits, OnQueue
  <2>5. QueueInOrder'
    BY <2>1, <2>2, <1>t, <1>d, <1>e DEF QueueInOrder, Busy, Accepted
  <2>6. QED
    BY <2>4, <2>5
<1>6. CASE IndicesReady
  BY <1>6, SameOwners DEF IndicesReady, Sequentially, Executing
<1>7. ASSUME NEW e \in Chunks, BulkStores(e)
      PROVE  JobsAreOwned' /\ QueueInOrder'
  BY <1>7, SameOwners DEF BulkStores
<1>8. CASE BulkDone
  BY <1>8, SameOwners DEF BulkDone, Executing
<1>9. CASE BulkFails
  BY <1>9, SameOwners DEF BulkFails, Sequentially, Executing
<1>10. CASE EpisodeStored
  BY <1>10, SameOwners DEF EpisodeStored, Executing
<1>11. CASE EpisodeDone
  BY <1>11, SameOwners DEF EpisodeDone, Executing
<1>12. CASE SaveMetadata
  BY <1>12, SameOwners DEF SaveMetadata, Executing
<1>13. ASSUME NEW out \in Decided, stage \in Executing,
              SetStatus(current, out), EndBuild
       PROVE  JobsAreOwned' /\ QueueInOrder'
  <2>1. /\ current \in Jobs /\ status[current] = "running"
        /\ stage' \notin Executing /\ stage' # "taken"
        /\ UNCHANGED <<accepting, commands, taken>>
    BY <1>13, <1>c, <1>e DEF EndBuild, Busy, JobsAreOwned
  <2>2. /\ status'[current] = out
        /\ \A i \in Jobs \ {current} : status'[i] = status[i]
    BY <1>13, <2>1, <1>d, SetStatusEffect
  <2>3. JobsAreOwned'
    BY <1>13, <2>1, <2>2, <1>d, <1>e DEF JobsAreOwned, Waits, OnQueue
  <2>4. QueueInOrder'
    BY <1>13, <2>1, <2>2, <1>t, <1>d DEF QueueInOrder, Busy, Accepted
  <2>5. QED
    BY <2>3, <2>4
<1>14. CASE CompleteBuild
  BY <1>14, <1>13, <1>d DEF CompleteBuild, Executing
<1>15. CASE FailBuild
  BY <1>15, <1>13, <1>d DEF FailBuild, Executing
<1>16. CASE Shutdown
  BY <1>16, SameOwners DEF Shutdown
<1>17. CASE Restart
  <2>1. /\ \A j \in Jobs : status'[j] \in {"unknown", "lost"}
        /\ accepting' = {} /\ commands' = <<>> /\ taken' = 0
        /\ stage' = "waiting"
    BY <1>17 DEF Restart
  <2>2. JobsAreOwned'
    BY <2>1, <1>e DEF JobsAreOwned, Waits, OnQueue
  <2>3. QueueInOrder'
    BY <2>1, <1>d, <1>e DEF QueueInOrder, Busy, Accepted
  <2>4. QED
    BY <2>2, <2>3
<1>18. CASE UNCHANGED vars
  BY <1>18, SameOwners DEF vars
<1>19. QED
  BY <1>1, <1>2, <1>3, <1>4, <1>5, <1>6, <1>7, <1>8, <1>9, <1>10, <1>11,
     <1>12, <1>14, <1>15, <1>16, <1>17, <1>18 DEF Next, DispatcherStep

-----------------------------------------------------------------------------
(* What the graph holds of a job. *)
LEMMA StopsPreserved ==
  ASSUME StopsInOrder, [Next]_vars
  PROVE  StopsInOrder'
<1>1. CASE UNCHANGED vars
  BY <1>1 DEF vars, StopsInOrder
<1>2. ASSUME NEW j \in Jobs, CreateJob(j) \/ Enqueue(j)
      PROVE  StopsInOrder'
  BY <1>2 DEF CreateJob, Enqueue, dispatcherVars, StopsInOrder
<1>3. CASE DispatcherStep
  BY <1>3 DEF DispatcherStep, TakeCommand, StopDispatcher, StartBuild, IndicesReady,
     Sequentially, BulkStores, BulkDone, BulkFails, EpisodeStored, EpisodeDone,
     SaveMetadata, CompleteBuild, FailBuild, EndBuild, dispatcherVars, StopsInOrder
<1>4. CASE Shutdown \/ Restart
  BY <1>4 DEF Shutdown, Restart, dispatcherVars, StopsInOrder
<1>5. QED
  BY <1>1, <1>2, <1>3, <1>4 DEF Next

LEMMA CopiesPreserved ==
  ASSUME TypeOK, JobsAreOwned, QueueInOrder, CopiesInStep, AtMostTwice,
         [Next]_vars
  PROVE  CopiesInStep' /\ AtMostTwice'
<1> USE ChunksAssumption DEF dispatcherVars
<1>c. Busy => current \in Jobs
  BY DEF QueueInOrder
<1>r. /\ \A j \in Jobs : request[j].chunks \in 0..MaxChunks
      /\ \A j \in Jobs, e \in Chunks : copies[j][e] \in Nat
      /\ episode \in Nat \ {0}
      /\ \A e : e \in Chunks <=> e \in Nat /\ e > 0 /\ e <= MaxChunks
  BY DEF TypeOK, Request, Chunks
<1>q. stage \in Executing => status[current] = "running"
  BY <1>c DEF Busy, JobsAreOwned
(* The steps that neither store an episode nor touch the statuses. *)
<1>u. UNCHANGED <<status, request, copies>> =>
        /\ AtMostTwice'
        /\ \A j \in Jobs : status'[j] \in {"unknown", "queued"} =>
             \A e \in Chunks : copies'[j][e] = 0
        /\ \A j \in Jobs, e \in Chunks :
             copies'[j][e] > 0 => e <= request'[j].chunks
  BY DEF CopiesInStep, AtMostTwice
<1>1. ASSUME NEW j \in Jobs, CreateJob(j)
      PROVE  CopiesInStep' /\ AtMostTwice'
  <2>1. \A i \in Jobs : status'[i] = IF i = j THEN "queued" ELSE status[i]
    BY <1>1, SetStatusEffect DEF CreateJob, Statuses
  <2>2. \A i \in Jobs : status'[i] \in {"unknown", "queued"} =>
          \A e \in Chunks : copies[i][e] = 0
    BY <1>1, <2>1 DEF CreateJob, CopiesInStep
  <2>3. QED
    BY <1>1, <2>2 DEF CreateJob, CopiesInStep, AtMostTwice, AddedUpTo
<1>2. ASSUME NEW j \in Jobs, Enqueue(j)
      PROVE  CopiesInStep' /\ AtMostTwice'
  BY <1>2 DEF Enqueue, CopiesInStep, AtMostTwice, AddedUpTo
<1>3. CASE TakeCommand
  BY <1>3, <1>u DEF TakeCommand, CopiesInStep
<1>4. CASE StopDispatcher
  BY <1>4, <1>u DEF StopDispatcher, CopiesInStep
<1>5. CASE StartBuild
  <2>1. /\ stage = "taken" /\ current \in Jobs
        /\ UNCHANGED <<request, copies, current>> /\ stage' = "indices"
    BY <1>5, <1>c DEF StartBuild, Busy
  <2>2. \A i \in Jobs : status'[i] = IF i = current THEN "running" ELSE status[i]
    BY <1>5, <2>1, SetStatusEffect DEF StartBuild, Statuses
  <2>3. \A e \in Chunks : copies[current][e] = 0
    BY <2>1 DEF JobsAreOwned, Waits, OnQueue, CopiesInStep
  <2>4. QED
    BY <2>1, <2>2, <2>3 DEF CopiesInStep, AtMostTwice
<1>6. CASE IndicesReady
  <2>1. /\ stage = "indices" /\ UNCHANGED <<status, request, copies, current>>
        /\ current \in Jobs /\ \A e \in Chunks : copies[current][e] = 0
    BY <1>6, <1>c DEF IndicesReady, Busy, Executing, CopiesInStep
  <2>2. CASE request[current].chunks > 1 /\ stage' = "bulk"
    BY <2>1, <2>2, <1>u DEF CopiesInStep
  <2>3. CASE request[current].chunks = 0 /\ stage' = "save"
    BY <2>1, <2>3, <1>u DEF CopiesInStep
  <2>4. CASE request[current].chunks = 1 /\ stage' = "sequential" /\ episode' = 1
    BY <2>1, <2>4, <1>u, <1>r DEF CopiesInStep, AddedUpTo
  <2>5. QED
    BY <1>6, <1>r, <2>1, <2>2, <2>3, <2>4 DEF IndicesReady, Sequentially
<1>7. ASSUME NEW e \in Chunks, BulkStores(e)
      PROVE  CopiesInStep' /\ AtMostTwice'
  <2>1. /\ stage = "bulk" /\ UNCHANGED <<status, request, stage, current, episode>>
        /\ current \in Jobs /\ e <= request[current].chunks
        /\ copies[current][e] = 0
    BY <1>7, <1>c DEF BulkStores, Busy, Executing
  <2>2. \A i \in Jobs, d \in Chunks :
          copies'[i][d] = IF i = current /\ d = e THEN 1 ELSE copies[i][d]
    BY <1>7, <2>1, AddCopyEffect DEF BulkStores
  <2>3. CopiesInStep'
    BY <2>1, <2>2, <1>q DEF CopiesInStep, Executing
  <2>4. AtMostTwice'
    BY <2>1, <2>2 DEF AtMostTwice
  <2>5. QED
    BY <2>3, <2>4
<1>8. CASE BulkDone
  BY <1>8, <1>u, <1>r DEF BulkDone, CopiesInStep
<1>9. CASE BulkFails
  <2>1. /\ stage = "bulk" /\ UNCHANGED <<status, request, copies, current>>
        /\ current \in Jobs /\ request[current].chunks > 1
        /\ \A e \in Chunks : copies[current][e] <= 1
        /\ stage' = "sequential" /\ episode' = 1
    BY <1>9, <1>c, <1>r DEF BulkFails, Sequentially, Busy, Executing, CopiesInStep
  <2>2. QED
    BY <2>1, <1>u, <1>r DEF CopiesInStep, AddedUpTo
<1>10. CASE EpisodeStored
  <2>1. /\ stage = "sequential" /\ stage' = "stored"
        /\ UNCHANGED <<status, request, current, episode>>
        /\ current \in Jobs /\ episode <= request[current].chunks
        /\ episode \in Chunks /\ AddedUpTo(current, episode)
    BY <1>10, <1>c, <1>r DEF EpisodeStored, Busy, Executing, CopiesInStep
  <2>2. \A i \in Jobs, d \in Chunks :
          copies'[i][d] = IF i = current /\ d = episode THEN copies[i][d] + 1
                                                       ELSE copies[i][d]
    BY <1>10, <2>1, AddCopyEffect DEF EpisodeStored
  <2>3. AddedUpTo(current, episode + 1)'
    BY <2>1, <2>2, <1>r DEF AddedUpTo
  <2>4. CopiesInStep'
    BY <2>1, <2>2, <2>3, <1>q, <1>r DEF CopiesInStep, Executing
  <2>5. AtMostTwice'
    BY <2>1, <2>2, <1>r DEF AtMostTwice, AddedUpTo
  <2>6. QED
    BY <2>4, <2>5
<1>11. CASE EpisodeDone
  <2>1. /\ stage = "stored" /\ UNCHANGED <<status, request, copies, current>>
        /\ current \in Jobs /\ episode <= request[current].chunks
        /\ AddedUpTo(current, episode + 1)
    BY <1>11, <1>c DEF EpisodeDone, Busy, Executing, CopiesInStep
  <2>2. CASE /\ episode < request[current].chunks
             /\ stage' = "sequential" /\ episode' = episode + 1
    BY <2>1, <2>2, <1>u, <1>r DEF CopiesInStep, AddedUpTo
  <2>3. CASE episode = request[current].chunks /\ stage' = "save"
    BY <2>1, <2>3, <1>u, <1>r DEF CopiesInStep, AddedUpTo
  <2>4. QED
    BY <1>11, <1>r, <2>1, <2>2, <2>3 DEF EpisodeDone
<1>12. CASE SaveMetadata
  BY <1>12, <1>u DEF SaveMetadata, CopiesInStep
<1>13. ASSUME NEW out \in Decided, stage \in Executing,
              SetStatus(current, out), EndBuild
       PROVE  CopiesInStep' /\ AtMostTwice'
  <2>1. /\ current \in Jobs /\ UNCHANGED <<request, copies>>
        /\ stage' \in {"waiting", "stopped"}
    BY <1>13, <1>c DEF EndBuild, Busy
  <2>2. \A i \in Jobs : status'[i] = IF i = current THEN out ELSE status[i]
    BY <1>13, <2>1, SetStatusEffect DEF Statuses
  <2>3. \A i \in Jobs : status'[i] \in {"unknown", "queued"} =>
          \A e \in Chunks : copies[i][e] = 0
    BY <2>2 DEF CopiesInStep, Decided
  <2>4. QED
    BY <2>1, <2>3 DEF CopiesInStep, AtMostTwice
<1>14. CASE CompleteBuild
  BY <1>14, <1>13 DEF CompleteBuild, Executing, Decided
<1>15. CASE FailBuild
  BY <1>15, <1>13 DEF FailBuild, Executing, Decided
<1>16. CASE Shutdown
  BY <1>16 DEF Shutdown, CopiesInStep, AtMostTwice, AddedUpTo
<1>17. CASE Restart
  <2>1. /\ UNCHANGED <<request, copies>> /\ stage' = "waiting"
        /\ \A j \in Jobs : status'[j] = IF status[j] = "unknown" THEN "unknown"
                                                              ELSE "lost"
    BY <1>17 DEF Restart
  <2>2. QED
    BY <2>1 DEF CopiesInStep, AtMostTwice
<1>18. CASE UNCHANGED vars
  BY <1>18 DEF vars, CopiesInStep, AtMostTwice, AddedUpTo
<1>19. QED
  BY <1>1, <1>2, <1>3, <1>4, <1>5, <1>6, <1>7, <1>8, <1>9, <1>10, <1>11,
     <1>12, <1>14, <1>15, <1>16, <1>17, <1>18 DEF Next, DispatcherStep

-----------------------------------------------------------------------------
(* Episodes that are in the graph stay there, and so do documents.         *)
LEMMA CopiesGrow ==
  ASSUME TypeOK, QueueInOrder, CopiesInStep, [Next]_vars
  PROVE  /\ request' = request
         /\ \A j \in Jobs, e \in Chunks : copies[j][e] > 0 => copies'[j][e] > 0
<1>c. Busy => current \in Jobs
  BY DEF QueueInOrder
<1>r. /\ \A j \in Jobs : request[j].chunks \in 0..MaxChunks
      /\ \A j \in Jobs, e \in Chunks : copies[j][e] \in Nat
      /\ episode \in Nat \ {0}
  BY DEF TypeOK, Request
<1>1. CASE \E e \in Chunks : BulkStores(e)
  BY <1>1, <1>c, <1>r, AddCopyEffect DEF BulkStores, Busy, Executing
<1>2. CASE EpisodeStored
  <2>1. current \in Jobs /\ episode \in Chunks
    BY <1>2, <1>c, <1>r, ChunksAssumption
       DEF EpisodeStored, Busy, Executing, CopiesInStep, Chunks
  <2>2. QED
    BY <1>2, <2>1, <1>r, AddCopyEffect DEF EpisodeStored
<1>3. CASE UNCHANGED <<request, copies>>
  BY <1>3
<1>4. QED
  BY <1>1, <1>2, <1>3
     DEF Next, DispatcherStep, CreateJob, Enqueue, TakeCommand, StopDispatcher,
         StartBuild, IndicesReady, BulkDone, BulkFails, EpisodeDone,
         SaveMetadata, CompleteBuild, FailBuild, EndBuild, Shutdown, Restart, vars

(* MetadataOfLatestBuild without its set of later builds. *)
Latest(i) ==
  \A k \in (i + 1)..taken :
    ~ /\ request[commands[k]].graph = request[commands[i]].graph
      /\ status[commands[k]] = "completed"

Described ==
  \A i \in 1..taken :
    status[commands[i]] = "completed" /\ Latest(i) =>
      metadata[request[commands[i]].graph] =
        IF stage = "complete" /\ request[current].graph = request[commands[i]].graph
          THEN current ELSE commands[i]

LEMMA DescribedUnfolds ==
  /\ MetadataOfLatestBuild <=> Described
  /\ MetadataOfLatestBuild' <=> Described'
  BY DEF MetadataOfLatestBuild, Described, Latest

(* What the job store and the metadata store say of a graph. *)
LEMMA RecordsPreserved ==
  ASSUME TypeOK, JobsAreOwned, QueueInOrder, CopiesInStep,
         CompletedIsInGraph, MetadataFirst, Described, [Next]_vars
  PROVE  CompletedIsInGraph' /\ MetadataFirst' /\ Described'
<1> USE NoJobAssumption, ChunksAssumption DEF dispatcherVars
<1>c. Busy => current \in Jobs /\ taken > 0 /\ current = commands[taken]
  BY DEF QueueInOrder
<1>t. /\ \A i \in 1..Len(commands) : commands[i] \in Jobs
      /\ Len(commands) \in Nat /\ taken \in 0..Len(commands)
  BY DEF TypeOK
<1>r. /\ \A j \in Jobs : request[j].graph \in Graphs
      /\ \A j \in Jobs : request[j].chunks \in 0..MaxChunks
      /\ \A j \in Jobs : \A e \in 1..request[j].chunks : e \in Chunks
  BY DEF TypeOK, Request, Chunks
<1>g. /\ request' = request
      /\ \A j \in Jobs, e \in Chunks : copies[j][e] > 0 => copies'[j][e] > 0
  BY CopiesGrow
<1>q. stage \in Executing => status[current] = "running"
  BY <1>c DEF Busy, JobsAreOwned
(* A step that touches neither store, nor the queue: only the dispatcher   *)
(* moves, and not to or from the point between the two stores.             *)
<1>u. ASSUME UNCHANGED <<status, metadata, commands, taken, current>>,
             stage' = "complete" <=> stage = "complete"
      PROVE  CompletedIsInGraph' /\ MetadataFirst' /\ Described'
  <2>1. CompletedIsInGraph'
    BY <1>u, <1>g, <1>r DEF CompletedIsInGraph
  <2>2. MetadataFirst' /\ Described'
    BY <1>u, <1>g DEF MetadataFirst, Described, Latest
  <2>3. QED
    BY <2>1, <2>2
<1>1. ASSUME NEW j \in Jobs, CreateJob(j)
      PROVE  CompletedIsInGraph' /\ MetadataFirst' /\ Described'
  <2>1. /\ \A i \in Jobs : status'[i] = IF i = j THEN "queued" ELSE status[i]
        /\ status[j] = "unknown"
        /\ UNCHANGED <<metadata, commands, taken, stage, current>>
    BY <1>1, SetStatusEffect DEF CreateJob, Statuses
  <2>2. \A i \in Jobs : status'[i] = "completed" <=> status[i] = "completed"
    BY <2>1
  <2>3. CompletedIsInGraph' /\ MetadataFirst'
    BY <2>1, <2>2, <1>g, <1>r DEF CompletedIsInGraph, MetadataFirst
  <2>4. Described'
    BY <2>1, <2>2, <1>g, <1>t DEF Described, Latest
  <2>5. QED
    BY <2>3, <2>4
<1>2. ASSUME NEW j \in Jobs, Enqueue(j)
      PROVE  CompletedIsInGraph' /\ MetadataFirst' /\ Described'
  <2>1. /\ \A i \in 1..taken : commands'[i] = commands[i]
        /\ UNCHANGED <<status, metadata, taken, stage, current>>
    BY <1>2, <1>t, EnqueueEffect DEF Enqueue
  <2>2. CompletedIsInGraph' /\ MetadataFirst'
    BY <2>1, <1>g, <1>r DEF CompletedIsInGraph, MetadataFirst
  <2>3. Described'
    BY <2>1, <1>g, <1>t DEF Described, Latest
  <2>4. QED
    BY <2>2, <2>3
<1>3. CASE TakeCommand
  <2>1. /\ stage = "waiting" /\ stage' = "taken"
        /\ taken < Len(commands) /\ taken' = taken + 1
        /\ UNCHANGED <<status, metadata, commands>>
    BY <1>3, <1>t DEF TakeCommand, QueueEmpty
  <2>2. status[commands[taken + 1]] = "queued"
    BY <2>1, <1>t DEF JobsAreOwned, Waits, OnQueue
  <2>3. CompletedIsInGraph' /\ MetadataFirst'
    BY <2>1, <1>g, <1>r DEF CompletedIsInGraph, MetadataFirst
  <2>4. Described'
    BY <2>1, <2>2, <1>g, <1>t DEF Described, Latest
  <2>5. QED
    BY <2>3, <2>4
<1>4. CASE StopDispatcher
  BY <1>4, <1>u DEF StopDispatcher
<1>5. CASE StartBuild
  <2>1. /\ stage = "taken" /\ stage' = "indices" /\ current \in Jobs
        /\ status[current] = "queued"
        /\ UNCHANGED <<metadata, commands, taken, current>>
    BY <1>5, <1>c DEF StartBuild, Busy, JobsAreOwned, Waits, OnQueue
  <2>2. \A i \in Jobs : status'[i] = IF i = current THEN "running" ELSE status[i]
    BY <1>5, <2>1, SetStatusEffect DEF StartBuild, Statuses
  <2>3. \A i \in Jobs : status'[i] = "completed" <=> status[i] = "completed"
    BY <2>1, <2>2
  <2>4. CompletedIsInGraph' /\ MetadataFirst'
    BY <2>1, <2>3, <1>g, <1>r DEF CompletedIsInGraph, MetadataFirst
  <2>5. Described'
    BY <2>1, <2>3, <1>g, <1>t DEF Described, Latest
  <2>6. QED
    BY <2>4, <2>5
<1>6. CASE IndicesReady
  BY <1>6, <1>u DEF IndicesReady, Sequentially
<1>7. CASE \E e \in Chunks : BulkStores(e)
  BY <1>7, <1>u DEF BulkStores
<1>8. CASE BulkDone \/ BulkFails
  BY <1>8, <1>u DEF BulkDone, BulkFails, Sequentially
<1>9. CASE EpisodeStored \/ EpisodeDone
  BY <1>9, <1>u DEF EpisodeStored, EpisodeDone
<1>10. CASE SaveMetadata
  <2>1. /\ stage = "save" /\ stage' = "complete" /\ current \in Jobs
        /\ metadata' = [metadata EXCEPT ![request[current].graph] = current]
        /\ UNCHANGED <<status, commands, taken, current>>
    BY <1>10, <1>c DEF SaveMetadata, Busy, Executing
  <2>2. \A g \in Graphs : metadata'[g] = IF g = request[current].graph
                                          THEN current ELSE metadata[g]
    BY <2>1 DEF TypeOK
  <2>3. CompletedIsInGraph'
    BY <2>1, <2>2, <1>g, <1>r DEF CompletedIsInGraph
  <2>4. MetadataFirst'
    BY <2>1, <2>2, <1>g, <1>r DEF MetadataFirst
  <2>5. Described'
    BY <2>1, <2>2, <1>g, <1>r, <1>t DEF Described, Latest
  <2>6. QED
    BY <2>3, <2>4, <2>5
<1>11. CASE CompleteBuild
  <2>1. /\ stage = "complete" /\ stage' # "complete" /\ current \in Jobs
        /\ taken > 0 /\ commands[taken] = current
        /\ UNCHANGED <<metadata, commands, taken>>
    BY <1>11, <1>c DEF CompleteBuild, EndBuild, Busy, Executing
  <2>2. \A i \in Jobs : status'[i] = IF i = current THEN "completed" ELSE status[i]
    BY <1>11, <2>1, SetStatusEffect DEF CompleteBuild, Statuses, Decided
  <2>3. /\ \A e \in 1..request[current].chunks : copies'[current][e] > 0
        /\ metadata[request[current].graph] = current
    BY <2>1, <1>g, <1>r DEF CopiesInStep, MetadataFirst
  <2>4. CompletedIsInGraph' /\ MetadataFirst'
    BY <2>1, <2>2, <2>3, <1>g, <1>r DEF CompletedIsInGraph, MetadataFirst
  <2>5. ASSUME NEW i \in 1..taken, status'[commands[i]] = "completed", Latest(i)'
        PROVE  metadata[request[commands[i]].graph] = commands[i]
    <3>1. CASE i = taken
      BY <3>1, <2>1, <2>3
    <3>2. CASE i # taken
      <4>1. /\ commands[i] # current /\ taken \in (i + 1)..taken
            /\ status[commands[i]] = "completed"
        BY <3>2, <2>1, <2>2, <2>5, <1>t DEF QueueInOrder
      <4>2. request[current].graph # request[commands[i]].graph
        BY <4>1, <2>1, <2>2, <2>5, <1>g DEF Latest
      <4>3. Latest(i)
        BY <2>1, <2>2, <2>5, <4>2, <1>g, <1>t DEF Latest
      <4>4. QED
        BY <4>1, <4>2, <4>3 DEF Described
    <3>3. QED
      BY <3>1, <3>2
  <2>6. Described'
    BY <2>1, <2>5, <1>g DEF Described
  <2>7. QED
    BY <2>4, <2>6
<1>12. CASE FailBuild
  <2>1. /\ stage # "complete" /\ stage' # "complete" /\ current \in Jobs
        /\ status[current] = "running"
        /\ UNCHANGED <<metadata, commands, taken>>
    BY <1>12, <1>c, <1>q DEF FailBuild, EndBuild, Busy, Executing
  <2>2. \A i \in Jobs : status'[i] = IF i = current THEN "failed" ELSE status[i]
    BY <1>12, <2>1, SetStatusEffect DEF FailBuild, Statuses, Decided
  <2>3. \A i \in Jobs : status'[i] = "completed" <=> status[i] = "completed"
    BY <2>1, <2>2
  <2>4. CompletedIsInGraph' /\ MetadataFirst'
    BY <2>1, <2>3, <1>g, <1>r DEF CompletedIsInGraph, MetadataFirst
  <2>5. Described'
    BY <2>1, <2>3, <1>g, <1>t DEF Described, Latest
  <2>6. QED
    BY <2>4, <2>5
<1>13. CASE Shutdown
  BY <1>13, <1>u DEF Shutdown
<1>14. CASE Restart
  <2>1. /\ \A j \in Jobs : status'[j] \in {"unknown", "lost"}
        /\ taken' = 0 /\ stage' = "waiting"
    BY <1>14 DEF Restart
  <2>2. QED
    BY <2>1 DEF CompletedIsInGraph, MetadataFirst, Described
<1>15. CASE UNCHANGED vars
  BY <1>15, <1>u DEF vars
<1>16. QED
  BY <1>1, <1>2, <1>3, <1>4, <1>5, <1>6, <1>7, <1>8, <1>9, <1>10, <1>11,
     <1>12, <1>13, <1>14, <1>15 DEF Next, DispatcherStep

-----------------------------------------------------------------------------
LEMMA StepPreserves == IInv /\ [Next]_vars => IInv'
<1> SUFFICES ASSUME IInv, [Next]_vars
             PROVE  IInv'
  OBVIOUS
<1> USE DEF IInv
<1>1. TypeOK'
  BY TypePreserved
<1>2. JobsAreOwned' /\ QueueInOrder' /\ StopsInOrder'
  BY OwnersPreserved, StopsPreserved
<1>3. CopiesInStep' /\ AtMostTwice'
  BY CopiesPreserved
<1>4. CompletedIsInGraph' /\ MetadataFirst' /\ MetadataOfLatestBuild'
  BY RecordsPreserved, DescribedUnfolds
<1>5. QED
  BY <1>1, <1>2, <1>3, <1>4

THEOREM Invariance == Spec => []IInv
BY InitEstablishes, StepPreserves, PTL DEF Spec

(* The stores, the queue and the dispatcher hold values of their types. *)
THEOREM TypeCorrect == Spec => []TypeOK
<1>1. IInv => TypeOK
  BY DEF IInv
<1>2. QED
  BY <1>1, Invariance, PTL

(* A queued job is always on its way to the dispatcher, or left on the     *)
(* queue by a shutdown; a running one is what the dispatcher executes.     *)
THEOREM NoneForgotten == Spec => []NoJobForgotten
<1>1. IInv => NoJobForgotten
  BY DEF IInv, JobsAreOwned, StopsInOrder, NoJobForgotten, Waits, Attended, LeftBehind
<1>2. QED
  BY <1>1, Invariance, PTL

(* A completed job's document is in the graph, with none of its episodes   *)
(* missing.                                                                *)
THEOREM CompletionMeansStored == Spec => []CompletedIsInGraph
<1>1. IInv => CompletedIsInGraph
  BY DEF IInv
<1>2. QED
  BY <1>1, Invariance, PTL

(* The fallback stores an episode twice at most. *)
THEOREM CopiesBounded == Spec => []AtMostTwice
<1>1. IInv => AtMostTwice
  BY DEF IInv
<1>2. QED
  BY <1>1, Invariance, PTL

(* The metadata of a graph are those of its latest completed build. *)
THEOREM MetadataCurrent == Spec => []MetadataOfLatestBuild
<1>1. IInv => MetadataOfLatestBuild
  BY DEF IInv
<1>2. QED
  BY <1>1, Invariance, PTL

-----------------------------------------------------------------------------
(* A status changes where a job is created, begun, decided or forgotten.   *)
LEMMA DecidedStep ==
  ASSUME IInv, [Next]_vars, NEW j \in Jobs, status[j] \in Decided
  PROVE  status'[j] \in {status[j], "lost"}
<1> USE DEF IInv
<1>d. Decided = {"completed", "failed"}
  BY DEF Decided
<1>c. Busy => current \in Jobs
  BY DEF QueueInOrder
<1>1. ASSUME NEW i \in Jobs, CreateJob(i)
      PROVE  status'[j] = status[j]
  BY <1>1, <1>d, SetStatusEffect DEF CreateJob, Statuses
<1>2. CASE StartBuild
  <2>1. current \in Jobs /\ status[current] = "queued"
    BY <1>2, <1>c DEF StartBuild, Busy, JobsAreOwned, Waits, OnQueue
  <2>2. QED
    BY <1>2, <1>d, <2>1, SetStatusEffect DEF StartBuild, Statuses
<1>3. CASE CompleteBuild \/ FailBuild
  <2>1. current \in Jobs /\ status[current] = "running"
    BY <1>3, <1>c DEF CompleteBuild, FailBuild, Executing, Busy, JobsAreOwned
  <2>2. QED
    BY <1>3, <1>d, <2>1, SetStatusEffect DEF CompleteBuild, FailBuild, Statuses
<1>4. CASE Restart
  BY <1>4, <1>d DEF Restart
<1>5. CASE UNCHANGED status
  BY <1>5
<1>6. QED
  BY <1>1, <1>2, <1>3, <1>4, <1>5
     DEF Next, DispatcherStep, Enqueue, TakeCommand, StopDispatcher, IndicesReady,
         BulkStores, BulkDone, BulkFails, EpisodeStored, EpisodeDone,
         SaveMetadata, Shutdown, vars

(* No job is reopened: the store would let a command executed twice do it. *)
THEOREM Finality == Spec => DecidedIsFinal
<1>1. IInv /\ [Next]_vars =>
        [\A j \in Jobs : status[j] \in Decided =>
                           status'[j] \in {status[j], "lost"}]_vars
  BY DecidedStep
<1>2. QED
  BY <1>1, Invariance, PTL DEF Spec, DecidedIsFinal

-----------------------------------------------------------------------------
(* The refinement: each step is one of SerialBuilds, or changes nothing    *)
(* that SerialBuilds sees.                                                 *)

LEMMA BarValues ==
  /\ \A j \in Jobs : /\ outcomeBar[j] = IF ~ Accepted(j) THEN "none"
                          ELSE IF status[j] \in Decided THEN status[j]
                          ELSE "pending"
                     /\ sizeBar[j] = IF Accepted(j) THEN request[j].chunks ELSE 0
                     /\ writtenBar[j] = {e \in Chunks : copies[j][e] > 0}
  /\ \A j \in Jobs : /\ outcomeBar'[j] = IF ~ Accepted(j)' THEN "none"
                          ELSE IF status'[j] \in Decided THEN status'[j]
                          ELSE "pending"
                     /\ sizeBar'[j] = IF Accepted(j)' THEN request'[j].chunks ELSE 0
                     /\ writtenBar'[j] = {e \in Chunks : copies'[j][e] > 0}
  BY DEF outcomeBar, sizeBar, writtenBar

(* When the dispatcher is busy, it is the turn of its job. *)
LEMMA TurnOfCurrent ==
  ASSUME IInv, Busy
  PROVE  /\ current \in Jobs /\ Accepted(current)
         /\ status[current] \in {"queued", "running"}
         /\ outcomeBar[current] = "pending"
         /\ Promise!Turn(current)
<1> USE DEF IInv
<1>t. /\ \A i \in 1..Len(commands) : commands[i] \in Jobs
      /\ Len(commands) \in Nat /\ taken \in 0..Len(commands)
  BY DEF TypeOK
<1>1. /\ current \in Jobs /\ taken \in 1..Len(commands)
      /\ commands[taken] = current
  BY <1>t DEF QueueInOrder
<1>2. status[current] \in {"queued", "running"}
  BY <1>1 DEF JobsAreOwned, Waits, OnQueue, Busy
<1>3. Accepted(current)
  BY <1>1 DEF Accepted
<1>4. outcomeBar[current] = "pending"
  BY <1>1, <1>2, <1>3, BarValues DEF Decided
<1>5. \A k \in 1..(taken - 1) : outcomeBar[commands[k]] # "pending"
  <2>1. ASSUME NEW k \in 1..(taken - 1)
        PROVE  outcomeBar[commands[k]] # "pending"
    <3>1. /\ commands[k] \in Jobs /\ Accepted(commands[k])
          /\ status[commands[k]] \in Decided
      BY <1>t DEF QueueInOrder, Accepted
    <3>2. QED
      BY <3>1, BarValues DEF Decided
  <2>2. QED
    BY <2>1
<1>6. QED
  BY <1>1, <1>2, <1>3, <1>4, <1>5 DEF Promise!Turn

(* Only the statuses change, and only from undecided to undecided, or for  *)
(* a job that is not accepted: nothing to see.                             *)
LEMMA Unseen ==
  ASSUME UNCHANGED <<commands, request, copies>>,
         \A j \in Jobs : Accepted(j) =>
           \/ status'[j] = status[j]
           \/ status[j] \notin Decided /\ status'[j] \notin Decided
  PROVE  UNCHANGED Promise!vars
<1>1. \A j \in Jobs : Accepted(j)' <=> Accepted(j)
  BY DEF Accepted
<1>2. outcomeBar' = outcomeBar /\ sizeBar' = sizeBar /\ writtenBar' = writtenBar
  BY <1>1 DEF outcomeBar, sizeBar, writtenBar
<1>3. QED
  BY <1>2 DEF Promise!vars

(* One more copy of an episode of the current job.                         *)
LEMMA StoreSeen ==
  ASSUME IInv, Busy, NEW e \in Chunks, e <= request[current].chunks,
         UNCHANGED <<commands, request, status>>, AddCopy(current, e)
  PROVE  Promise!Write(current, e) /\ e \in 1..sizeBar[current]
<1> USE DEF IInv
<1>c. current \in Jobs /\ Accepted(current) /\ Promise!Turn(current)
  BY TurnOfCurrent
<1>1. e \in 1..sizeBar[current]
  BY <1>c, BarValues, ChunksAssumption DEF Chunks, TypeOK, Request
<1>2. \A j \in Jobs : Accepted(j)' <=> Accepted(j)
  BY DEF Accepted
<1>3. outcomeBar' = outcomeBar /\ sizeBar' = sizeBar
  BY <1>2 DEF outcomeBar, sizeBar
<1>4. ASSUME NEW j \in Jobs
      PROVE  writtenBar'[j] = IF j = current THEN writtenBar[j] \union {e}
                                             ELSE writtenBar[j]
  <2>1. \A d \in Chunks : copies'[j][d] > 0 <=>
          copies[j][d] > 0 \/ (j = current /\ d = e)
    BY <1>c, AddCopyEffect DEF TypeOK
  <2>2. QED
    BY <2>1, BarValues
<1>5. writtenBar' = [writtenBar EXCEPT ![current] = writtenBar[current] \union {e}]
  BY <1>c, <1>4 DEF writtenBar
<1>6. QED
  BY <1>c, <1>1, <1>3, <1>5 DEF Promise!Write

(* The current job is decided. *)
LEMMA DecisionSeen ==
  ASSUME IInv, Busy, NEW out \in Decided, SetStatus(current, out),
         UNCHANGED <<commands, request, copies>>
  PROVE  /\ outcomeBar' = [outcomeBar EXCEPT ![current] = out]
         /\ UNCHANGED <<commands, sizeBar, writtenBar>>
<1> USE DEF IInv
<1>c. current \in Jobs /\ Accepted(current)
  BY TurnOfCurrent
<1>1. \A j \in Jobs : status'[j] = IF j = current THEN out ELSE status[j]
  BY <1>c, SetStatusEffect DEF Statuses
<1>2. \A j \in Jobs : Accepted(j)' <=> Accepted(j)
  BY DEF Accepted
<1>3. \A j \in Jobs : outcomeBar'[j] = IF j = current THEN out ELSE outcomeBar[j]
  BY <1>c, <1>1, <1>2, BarValues
<1>4. outcomeBar' = [outcomeBar EXCEPT ![current] = out]
  BY <1>c, <1>3 DEF outcomeBar
<1>5. UNCHANGED <<sizeBar, writtenBar>>
  BY <1>2 DEF sizeBar, writtenBar
<1>6. QED
  BY <1>4, <1>5

LEMMA RefinementStep ==
  ASSUME IInv, [Next]_vars
  PROVE  [Promise!Next]_(Promise!vars)
<1> USE DEF IInv
<1>c. Busy => current \in Jobs
  BY DEF QueueInOrder
<1>r. \A j \in Jobs : request[j].chunks \in 0..MaxChunks
  BY DEF TypeOK, Request
<1>1. ASSUME NEW j \in Jobs, CreateJob(j)
      PROVE  UNCHANGED Promise!vars
  <2>1. /\ status[j] = "unknown" /\ status'[j] = "queued"
        /\ \A i \in Jobs \ {j} : status'[i] = status[i]
    BY <1>1, SetStatusEffect DEF CreateJob, Statuses
  <2>2. QED
    BY <1>1, <2>1, Unseen DEF CreateJob, Decided
<1>2. ASSUME NEW j \in Jobs, Enqueue(j)
      PROVE  Promise!Accept(j, request[j].chunks)
  <2>1. /\ j \in accepting /\ status[j] = "queued" /\ ~ Accepted(j)
        /\ UNCHANGED <<status, request, copies>>
    BY <1>2 DEF Enqueue, JobsAreOwned, Waits, OnQueue, QueueInOrder, Accepted
  <2>2. \A i \in Jobs : Accepted(i)' <=> i = j \/ Accepted(i)
    <3>1. /\ Len(commands) \in Nat /\ Len(commands') = Len(commands) + 1
          /\ commands'[Len(commands) + 1] = j
          /\ \A k \in 1..Len(commands) : commands'[k] = commands[k]
      BY <1>2, EnqueueEffect DEF TypeOK
    <3>2. Accepted(j)'
      BY <3>1 DEF Accepted
    <3>3. \A i \in Jobs : Accepted(i) => Accepted(i)'
      BY <3>1 DEF Accepted
    <3>4. \A i \in Jobs : Accepted(i)' => i = j \/ Accepted(i)
      BY <3>1 DEF Accepted
    <3>5. QED
      BY <3>2, <3>3, <3>4
  <2>3. outcomeBar[j] = "none" /\ writtenBar[j] = {}
    BY <2>1, BarValues DEF CopiesInStep
  <2>4. /\ \A i \in Jobs : outcomeBar'[i] = IF i = j THEN "pending" ELSE outcomeBar[i]
        /\ \A i \in Jobs : sizeBar'[i] = IF i = j THEN request[j].chunks ELSE sizeBar[i]
    BY <2>1, <2>2, BarValues DEF Decided
  <2>5. /\ outcomeBar' = [outcomeBar EXCEPT ![j] = "pending"]
        /\ sizeBar' = [sizeBar EXCEPT ![j] = request[j].chunks]
        /\ writtenBar' = writtenBar
    BY <2>1, <2>4 DEF outcomeBar, sizeBar, writtenBar
  <2>6. QED
    BY <1>2, <2>3, <2>5 DEF Enqueue, Promise!Accept
<1>3. CASE StartBuild
  <2>1. current \in Jobs /\ status[current] = "queued"
    BY <1>3, <1>c DEF StartBuild, Busy, JobsAreOwned, Waits, OnQueue
  <2>2. /\ status'[current] = "running"
        /\ \A i \in Jobs \ {current} : status'[i] = status[i]
    BY <1>3, <2>1, SetStatusEffect DEF StartBuild, Statuses
  <2>3. QED
    BY <1>3, <2>1, <2>2, Unseen DEF StartBuild, Decided
<1>4. ASSUME NEW e \in Chunks, BulkStores(e)
      PROVE  \E j \in Jobs : \E d \in 1..sizeBar[j] : Promise!Write(j, d)
  BY <1>4, <1>c, StoreSeen DEF BulkStores, Busy, Executing
<1>5. CASE EpisodeStored
  <2>1. /\ Busy /\ current \in Jobs /\ episode \in Chunks
        /\ episode <= request[current].chunks
    BY <1>5, <1>c, <1>r, ChunksAssumption
       DEF EpisodeStored, Busy, Executing, CopiesInStep, TypeOK, Chunks
  <2>2. Promise!Write(current, episode) /\ episode \in 1..sizeBar[current]
    BY <1>5, <2>1, StoreSeen DEF EpisodeStored
  <2>3. QED
    BY <2>1, <2>2 DEF Promise!Next
<1>6. CASE CompleteBuild
  <2>1. Busy /\ stage = "complete" /\ current \in Jobs
    BY <1>6, <1>c DEF CompleteBuild, Busy, Executing
  <2>2. Promise!Turn(current) /\ sizeBar[current] = request[current].chunks
    BY <2>1, TurnOfCurrent, BarValues
  <2>3. \A e \in Chunks : copies[current][e] > 0 <=> e <= request[current].chunks
    BY <2>1, <1>r, ChunksAssumption DEF CopiesInStep, Chunks
  <2>4. {e \in Chunks : e <= request[current].chunks} = 1..request[current].chunks
    BY <2>1, <1>r, ChunksAssumption DEF Chunks
  <2>5. writtenBar[current] = 1..sizeBar[current]
    BY <2>1, <2>2, <2>3, <2>4, BarValues
  <2>6. /\ outcomeBar' = [outcomeBar EXCEPT ![current] = "completed"]
        /\ UNCHANGED <<commands, sizeBar, writtenBar>>
    BY <1>6, <2>1, DecisionSeen DEF CompleteBuild, EndBuild, Decided
  <2>7. Promise!Complete(current)
    BY <2>2, <2>5, <2>6 DEF Promise!Complete
  <2>8. QED
    BY <2>1, <2>7 DEF Promise!Next
<1>7. CASE FailBuild
  <2>1. Busy /\ current \in Jobs /\ Promise!Turn(current)
    BY <1>7, TurnOfCurrent DEF FailBuild, Busy, Executing
  <2>2. /\ outcomeBar' = [outcomeBar EXCEPT ![current] = "failed"]
        /\ UNCHANGED <<commands, sizeBar, writtenBar>>
    BY <1>7, <2>1, DecisionSeen DEF FailBuild, EndBuild, Decided
  <2>3. Promise!Fail(current)
    BY <2>1, <2>2 DEF Promise!Fail
  <2>4. QED
    BY <2>1, <2>3 DEF Promise!Next
<1>8. CASE Restart
  <2>1. commands' = <<>> /\ UNCHANGED <<request, copies>>
    BY <1>8 DEF Restart
  <2>2. \A j \in Jobs : ~ Accepted(j)'
    BY <2>1 DEF Accepted
  <2>3. /\ outcomeBar' = [j \in Jobs |-> "none"]
        /\ sizeBar' = [j \in Jobs |-> 0]
        /\ writtenBar' = writtenBar
    BY <2>1, <2>2 DEF outcomeBar, sizeBar, writtenBar
  <2>4. QED
    BY <2>1, <2>3 DEF Promise!Next, Promise!Restart
<1>9. CASE UNCHANGED <<commands, status, request, copies>>
  BY <1>9, Unseen
<1>10. QED
  <2>1. ASSUME NEW j \in Jobs, Enqueue(j)
        PROVE  Promise!Next
    BY <1>2, <1>r, <2>1 DEF Promise!Next
  <2>2. ASSUME NEW e \in Chunks, BulkStores(e)
        PROVE  Promise!Next
    BY <1>4, <2>2 DEF Promise!Next
  <2>3. QED
    BY <1>1, <2>1, <1>3, <2>2, <1>5, <1>6, <1>7, <1>8, <1>9
       DEF Next, DispatcherStep, TakeCommand, StopDispatcher, IndicesReady,
           BulkDone, BulkFails, EpisodeDone, SaveMetadata, Shutdown, vars

(* Builds are carried out one at a time, in the order of the queue; nobody *)
(* else writes to the graph; what completes is written in full.            *)
THEOREM Serial == Spec => BuildsAreSerial
<1>1. Init => Promise!Init
  <2> SUFFICES ASSUME Init PROVE Promise!Init
    OBVIOUS
  <2>1. commands = <<>>
    BY DEF Init
  <2>2. \A j \in Jobs : ~ Accepted(j)
    BY <2>1 DEF Accepted
  <2>3. \A j \in Jobs : \A e \in Chunks : ~ (copies[j][e] > 0)
    BY DEF Init
  <2>4. QED
    BY <2>2, <2>3 DEF Init, Promise!Init, outcomeBar, sizeBar, writtenBar
<1>2. IInv /\ [Next]_vars => [Promise!Next]_(Promise!vars)
  BY RefinementStep
<1>3. QED
  BY <1>1, <1>2, Invariance, PTL DEF Spec, BuildsAreSerial, Promise!Spec


-----------------------------------------------------------------------------
(* To the build side, a request for a snapshot is a stuttering step: every *)
(* theorem about Spec holds of the whole service.                          *)
LEMMA ServiceStep == [ServiceNext]_serviceVars => [Next]_vars
<1> SUFFICES ASSUME [ServiceNext]_serviceVars
             PROVE  [Next]_vars
  OBVIOUS
<1>1. CASE BuildStep
  BY <1>1 DEF BuildStep, Next
<1>2. CASE SnapshotStep
  BY <1>2 DEF SnapshotStep
<1>3. CASE ServiceRestart
  BY <1>3 DEF ServiceRestart, Next
<1>4. CASE UNCHANGED serviceVars
  BY <1>4 DEF serviceVars
<1>5. QED
  BY <1>1, <1>2, <1>3, <1>4 DEF ServiceNext

(* The service does what the build side alone does. *)
THEOREM ServiceImplementsBuild == ServiceSpec => Spec
BY ServiceStep, PTL DEF ServiceSpec, ServiceInit, Spec

THEOREM ServiceBuildInvariance == ServiceSpec => []IInv
BY ServiceImplementsBuild, Invariance, PTL

(* Builds stay serial when snapshots are read beside them. *)
THEOREM ServiceSerial == ServiceSpec => BuildsAreSerial
BY ServiceImplementsBuild, Serial, PTL

-----------------------------------------------------------------------------
(* What the graph store holds, it keeps. *)
LEMMA ContentsGrow ==
  ASSUME IInv, [ServiceNext]_serviceVars, NEW g \in Graphs
  PROVE  Contents(g) \subseteq Contents(g)'
<1>1. /\ request' = request
      /\ \A j \in Jobs, e \in Chunks : copies[j][e] > 0 => copies'[j][e] > 0
  BY ServiceStep, CopiesGrow DEF IInv
<1>2. QED
  BY <1>1 DEF Contents

(* A refresh that has its nodes took them from the graph. *)
NodesArePast ==
  \A r \in Readers, g \in Graphs :
    readers[r].at = "edges" /\ readers[r].graph = g =>
      readers[r].nodes \subseteq Contents(g)

SInv == ServiceTypeOK /\ NodesArePast /\ SnapshotIsPast

LEMMA ServiceInitEstablishes == ServiceInit => SInv
<1> SUFFICES ASSUME ServiceInit PROVE SInv
  OBVIOUS
<1>1. NoSnapshot \in SnapshotType
  BY DEF NoSnapshot, SnapshotType
<1>2. ServiceTypeOK
  <2>1. Idle \in ReaderType
    BY DEF ReaderType
  <2> HIDE DEF Idle, NoSnapshot
  <2>2. QED
    BY <1>1, <2>1 DEF ServiceInit, SnapshotInit, ServiceTypeOK
<1>3. NodesArePast
  BY DEF ServiceInit, SnapshotInit, NodesArePast, Idle
<1>4. SnapshotIsPast
  BY DEF ServiceInit, SnapshotInit, SnapshotIsPast, NoSnapshot
<1>5. QED
  BY <1>2, <1>3, <1>4 DEF SInv

LEMMA ReaderShape ==
  ASSUME NEW x \in ReaderType
  PROVE  /\ x.at \in {"idle", "nodes", "edges"}
         /\ x.at \in {"nodes", "edges"} => x.graph \in Graphs
         /\ x.at = "edges" => x.nodes \subseteq Episodes
<1>1. CASE x = Idle
  BY <1>1 DEF Idle
<1>2. CASE x \in [at : {"nodes"}, graph : Graphs]
  BY <1>2
<1>3. CASE x \in [at : {"edges"}, graph : Graphs, nodes : SUBSET Episodes]
  BY <1>3
<1>4. QED
  BY <1>1, <1>2, <1>3 DEF ReaderType

LEMMA ServiceInvariantStep ==
  ASSUME IInv, IInv', SInv, [ServiceNext]_serviceVars
  PROVE  SInv'
<1> USE DEF SInv, ServiceTypeOK
<1>g. \A g \in Graphs : Contents(g) \subseteq Contents(g)'
  BY ContentsGrow
<1>e. \A g \in Graphs : Contents(g) \subseteq Episodes
  BY DEF Contents, Episodes
<1>s. /\ \A r \in Readers : readers[r] \in ReaderType
      /\ \A r \in Readers : readers[r].at \in {"nodes", "edges"} =>
           readers[r].graph \in Graphs
      /\ \A r \in Readers : readers[r].at = "edges" =>
           readers[r].nodes \subseteq Episodes
      /\ \A r \in Readers : readers[r].at \in {"idle", "nodes", "edges"}
  <2>1. \A r \in Readers : readers[r] \in ReaderType
    OBVIOUS
  <2> HIDE DEF SInv, ServiceTypeOK
  <2>2. QED
    BY <2>1, ReaderShape
<1>p. /\ \A r \in Readers, g \in Graphs :
           readers[r].at = "edges" /\ readers[r].graph = g =>
             readers[r].nodes \subseteq Contents(g)'
      /\ \A g \in Graphs : snapshots[g].nodes \subseteq snapshots[g].edges
      /\ \A g \in Graphs : snapshots[g].edges \subseteq Contents(g)'
  BY <1>g, <1>s DEF NodesArePast, SnapshotIsPast
<1>i. Idle \in ReaderType /\ Idle.at = "idle"
  BY DEF Idle, ReaderType
<1>n. /\ NoSnapshot \in SnapshotType /\ ~ NoSnapshot.held
      /\ NoSnapshot.nodes = {} /\ NoSnapshot.edges = {}
  BY DEF NoSnapshot, SnapshotType
<1>1. CASE UNCHANGED <<snapshots, readers>>
  BY <1>1, <1>p DEF NodesArePast, SnapshotIsPast
<1>2. CASE ServiceRestart
  <2>1. /\ snapshots' = [g \in Graphs |-> NoSnapshot]
        /\ readers' = [r \in Readers |-> Idle]
    BY <1>2 DEF ServiceRestart
  <2>2. ServiceTypeOK'
    BY <2>1, <1>i, <1>n
  <2>3. NodesArePast' /\ SnapshotIsPast'
    BY <2>1, <1>i, <1>n DEF NodesArePast, SnapshotIsPast
  <2>4. QED
    BY <2>2, <2>3
<1>3. ASSUME NEW r \in Readers, NEW g \in Graphs, StartRefresh(r, g)
      PROVE  SInv'
  <2> DEFINE new == [at |-> "nodes", graph |-> g]
  <2>1. new \in ReaderType /\ new.at = "nodes"
    BY DEF ReaderType
  <2>2. readers' = [readers EXCEPT ![r] = new] /\ UNCHANGED snapshots
    BY <1>3 DEF StartRefresh
  <2> HIDE DEF new
  <2>3. ServiceTypeOK'
    BY <2>1, <2>2
  <2>4. NodesArePast' /\ SnapshotIsPast'
    BY <2>1, <2>2, <1>p DEF NodesArePast, SnapshotIsPast
  <2>5. QED
    BY <2>3, <2>4
<1>4. ASSUME NEW r \in Readers, NodesReply(r, Contents(readers[r].graph))
      PROVE  SInv'
  <2> DEFINE g == readers[r].graph
             new == [at |-> "edges", graph |-> g, nodes |-> Contents(g)]
  <2>1. /\ readers[r].at = "nodes" /\ g \in Graphs
        /\ readers' = [readers EXCEPT ![r] = new] /\ UNCHANGED snapshots
    BY <1>4, <1>s DEF NodesReply
  <2>2. new \in ReaderType /\ new.at = "edges" /\ new.graph = g /\ new.nodes = Contents(g)
    BY <2>1, <1>e DEF ReaderType
  <2> HIDE DEF new, g
  <2>3. ServiceTypeOK'
    BY <2>1, <2>2
  <2>4. NodesArePast'
    BY <2>1, <2>2, <1>p, <1>g DEF NodesArePast
  <2>5. SnapshotIsPast'
    BY <2>1, <1>p DEF SnapshotIsPast
  <2>6. QED
    BY <2>3, <2>4, <2>5
<1>5. ASSUME NEW r \in Readers, EdgesReply(r, Contents(readers[r].graph))
      PROVE  SInv'
  <2> DEFINE g == readers[r].graph
             new == [held |-> TRUE, nodes |-> readers[r].nodes,
                     edges |-> Contents(g), failed |-> FALSE]
  <2>1. /\ readers[r].at = "edges" /\ g \in Graphs
        /\ readers[r].nodes \subseteq Contents(g) /\ readers[r].nodes \subseteq Episodes
        /\ readers' = [readers EXCEPT ![r] = Idle]
        /\ snapshots' = [snapshots EXCEPT ![g] = new]
    BY <1>5, <1>s DEF EdgesReply, SaveSnapshot, NodesArePast
  <2>2. new \in SnapshotType
    BY <2>1, <1>e DEF SnapshotType
  <2>3. new.held /\ new.nodes = readers[r].nodes /\ new.edges = Contents(g)
    OBVIOUS
  <2> HIDE DEF new, g
  <2>4. ServiceTypeOK'
    BY <2>1, <2>2, <2>3, <1>i
  <2>5. NodesArePast'
    BY <2>1, <1>p, <1>i DEF NodesArePast
  <2>6. SnapshotIsPast'
    BY <2>1, <2>3, <1>p, <1>g DEF SnapshotIsPast
  <2>7. QED
    BY <2>4, <2>5, <2>6
<1>6. ASSUME NEW r \in Readers, RefreshFails(r)
      PROVE  SInv'
  <2> DEFINE g == readers[r].graph
  <2>1. /\ g \in Graphs /\ readers' = [readers EXCEPT ![r] = Idle]
        /\ snapshots' = IF snapshots[g].held
                          THEN [snapshots EXCEPT ![g].failed = TRUE]
                          ELSE snapshots
    BY <1>6, <1>s DEF RefreshFails, MarkRefreshFailed
  <2> HIDE DEF g
  <2>2. /\ snapshots' \in [Graphs -> SnapshotType]
        /\ \A h \in Graphs : /\ snapshots'[h].held = snapshots[h].held
                             /\ snapshots'[h].nodes = snapshots[h].nodes
                             /\ snapshots'[h].edges = snapshots[h].edges
        /\ \A h \in Graphs : ~ snapshots[h].held => snapshots'[h] = snapshots[h]
    BY <2>1 DEF SnapshotType
  <2>3. ServiceTypeOK'
    BY <2>1, <2>2, <1>i
  <2>4. NodesArePast'
    BY <2>1, <1>p, <1>i DEF NodesArePast
  <2>5. SnapshotIsPast'
    BY <2>2, <1>p DEF SnapshotIsPast
  <2>6. QED
    BY <2>3, <2>4, <2>5
<1>7. QED
  BY <1>1, <1>2, <1>3, <1>4, <1>5, <1>6
     DEF ServiceNext, BuildStep, SnapshotStep, serviceVars

THEOREM ServiceInvariance == ServiceSpec => []SInv
<1>1. IInv /\ IInv' /\ SInv /\ [ServiceNext]_serviceVars => SInv'
  BY ServiceInvariantStep
<1>2. QED
  BY <1>1, ServiceInitEstablishes, ServiceBuildInvariance, PTL DEF ServiceSpec

(* The snapshot store and the requests hold values of their types. *)
THEOREM ServiceTypeCorrect == ServiceSpec => []ServiceTypeOK
<1>1. SInv => ServiceTypeOK
  BY DEF SInv
<1>2. QED
  BY <1>1, ServiceInvariance, PTL

(* A snapshot shows what the graph has held, its nodes no later than its    *)
(* edges, whatever a build writes meanwhile.                                *)
THEOREM SnapshotsShowThePast == ServiceSpec => []SnapshotIsPast
<1>1. SInv => SnapshotIsPast
  BY DEF SInv
<1>2. QED
  BY <1>1, ServiceInvariance, PTL

-----------------------------------------------------------------------------
(* What one step may do to a snapshot, short of a restart.                  *)
LEMMA SnapshotStepEffect ==
  ASSUME SInv, [ServiceNext]_serviceVars, ~ ServiceRestart, NEW g \in Graphs
  PROVE  \/ snapshots'[g] = snapshots[g]
         \/ snapshots[g].held /\ snapshots'[g] = [snapshots[g] EXCEPT !.failed = TRUE]
         \/ /\ snapshots'[g].held /\ ~ snapshots'[g].failed
            /\ snapshots'[g].edges = Contents(g)
<1>s. snapshots \in [Graphs -> SnapshotType]
  BY DEF SInv, ServiceTypeOK
<1>1. CASE BuildStep \/ UNCHANGED serviceVars
  BY <1>1 DEF BuildStep, serviceVars
<1>2. ASSUME NEW r \in Readers, EdgesReply(r, Contents(readers[r].graph))
      PROVE  \/ snapshots'[g] = snapshots[g]
             \/ /\ snapshots'[g].held /\ ~ snapshots'[g].failed
                /\ snapshots'[g].edges = Contents(g)
  <2>1. CASE readers[r].graph = g
    BY <1>2, <1>s, <2>1 DEF EdgesReply, SaveSnapshot
  <2>2. CASE readers[r].graph # g
    BY <1>2, <1>s, <2>2 DEF EdgesReply, SaveSnapshot
  <2>3. QED
    BY <2>1, <2>2
<1>3. ASSUME NEW r \in Readers, RefreshFails(r)
      PROVE  \/ snapshots'[g] = snapshots[g]
             \/ snapshots[g].held /\ snapshots'[g] = [snapshots[g] EXCEPT !.failed = TRUE]
  BY <1>3, <1>s DEF RefreshFails, MarkRefreshFailed
<1>4. CASE SnapshotStep
  BY <1>2, <1>3, <1>4 DEF SnapshotStep, StartRefresh, NodesReply
<1>5. QED
  BY <1>1, <1>4 DEF ServiceNext

(* A graph that has a snapshot keeps one, and a failing refresh keeps its   *)
(* payload.                                                                 *)
THEOREM SnapshotsAreKept == ServiceSpec => LastSuccessKept
<1>1. ASSUME SInv, [ServiceNext]_serviceVars, ~ ServiceRestart,
             NEW g \in Graphs, snapshots[g].held
      PROVE  /\ snapshots'[g].held
             /\ snapshots'[g].failed =>
                  snapshots'[g] = [snapshots[g] EXCEPT !.failed = TRUE]
  <2>1. snapshots[g] \in SnapshotType
    BY <1>1 DEF SInv, ServiceTypeOK
  <2>2. /\ [snapshots[g] EXCEPT !.failed = TRUE].held = snapshots[g].held
        /\ snapshots[g].failed =>
             snapshots[g] = [snapshots[g] EXCEPT !.failed = TRUE]
    BY <2>1 DEF SnapshotType
  <2>3. QED
    BY <1>1, <2>2, SnapshotStepEffect
<1>2. SInv /\ [ServiceNext]_serviceVars =>
        [ServiceRestart \/ \A g \in Graphs : snapshots[g].held =>
           /\ snapshots'[g].held
           /\ snapshots'[g].failed =>
                snapshots'[g] = [snapshots[g] EXCEPT !.failed = TRUE]]_serviceVars
  BY <1>1
<1>3. QED
  BY <1>2, ServiceInvariance, PTL DEF ServiceSpec, LastSuccessKept

(* The edges of a snapshot only grow, whichever refresh ends last.          *)
THEOREM EdgesOnlyGrow == ServiceSpec => EdgesNeverRegress
<1>1. ASSUME SInv, [ServiceNext]_serviceVars, ~ ServiceRestart, NEW g \in Graphs
      PROVE  snapshots[g].edges \subseteq snapshots'[g].edges
  <2>1. /\ snapshots[g] \in SnapshotType
        /\ snapshots[g].edges \subseteq Contents(g)
    BY <1>1 DEF SInv, ServiceTypeOK, SnapshotIsPast
  <2>2. [snapshots[g] EXCEPT !.failed = TRUE].edges = snapshots[g].edges
    BY <2>1 DEF SnapshotType
  <2>3. QED
    BY <1>1, <2>1, <2>2, SnapshotStepEffect
<1>2. SInv /\ [ServiceNext]_serviceVars =>
        [ServiceRestart \/ \A g \in Graphs :
           snapshots[g].edges \subseteq snapshots'[g].edges]_serviceVars
  BY <1>1
<1>3. QED
  BY <1>2, ServiceInvariance, PTL DEF ServiceSpec, EdgesNeverRegress
=============================================================================
