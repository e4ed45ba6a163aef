----------------------------- MODULE GraphBuild -----------------------------
(***************************************************************************)
(* The build side of the graph service: the route that accepts a document  *)
(* (graph_service/api/graphs.py), the job and metadata stores it shares    *)
(* with the rest (graph_service/storage), and the one dispatcher thread    *)
(* that carries the builds out (graph_service/workers/build_worker.py).    *)
(*                                                                         *)
(* Request handlers run on threads of their own beside the dispatcher.     *)
(* The stores lock each call, so a step of this specification is one call  *)
(* to a store, to the queue, or the part of a build between two replies    *)
(* of Graphiti.  Graphiti and FalkorDB are external: a call may store what *)
(* it was given and still fail, or run into its timeout.                   *)
(***************************************************************************)
EXTENDS Naturals, Sequences

CONSTANTS
  Jobs,      \* the ids uuid4 may give out
  Graphs,    \* graph ids of the requests
  MaxChunks, \* bound on the episodes of one document
  NoJob      \* stands for no job

ASSUME ChunksAssumption == MaxChunks \in Nat
ASSUME NoJobAssumption == NoJob \notin Jobs

VARIABLES
  status,    \* InMemoryGraphJobStore._jobs: the status of each job
  request,   \* graph and number of episodes of each build request
  accepting, \* jobs whose handler is between create_job and enqueue
  commands,  \* the commands put on the queue since the process started
  taken,     \* how many of them the dispatcher has taken off the queue
  stage,     \* where the dispatcher is
  current,   \* the job it executes
  episode,   \* the episode it adds, when it adds them one by one
  metadata,  \* InMemoryGraphMetadataStore._metadata: the job it describes
  stopping,  \* BuildWorker._shutdown_event
  copies     \* the graph store: how often each episode of a job is in it

vars == <<status, request, accepting, commands, taken, stage, current,
          episode, metadata, stopping, copies>>
dispatcherVars == <<taken, stage, current, episode>>

-----------------------------------------------------------------------------
Decided == {"completed", "failed"}

(* No job of the program is ever degraded: mark_degraded has no caller.    *)
(* The last two are not in the code: an id that was not given out yet, and *)
(* a job that a process before this one has known.                         *)
Statuses == {"queued", "running"} \union Decided \union {"unknown", "lost"}

(* Waiting for the queue; holding a command whose job is not running yet;  *)
(* waiting for Graphiti's reply on the indices, the bulk of episodes or    *)
(* one episode (stored: the reply is still out, the episode is in the      *)
(* graph); about to store the metadata, or to complete the job; ended.     *)
Executing == {"indices", "bulk", "sequential", "stored", "save", "complete"}
Stages == {"waiting", "taken", "stopped"} \union Executing

Chunks == 1..MaxChunks
Request == [graph : Graphs, chunks : 0..MaxChunks]

QueueEmpty == taken = Len(commands)

SetStatus(j, new) == status' = [status EXCEPT ![j] = new]

AddCopy(j, e) == copies' = [copies EXCEPT ![j][e] = @ + 1]

-----------------------------------------------------------------------------
Init ==
  /\ status = [j \in Jobs |-> "unknown"]
  /\ request \in [Jobs -> Request]
  /\ copies = [j \in Jobs |-> [e \in Chunks |-> 0]]
  /\ accepting = {} /\ commands = <<>> /\ taken = 0
  /\ stage = "waiting" /\ current = NoJob /\ episode = 1
  /\ metadata = [g \in Graphs |-> NoJob]
  /\ stopping = FALSE

-----------------------------------------------------------------------------
(* POST /graphs/{graph_id}/build, on a thread of its own: first the job,   *)
CreateJob(j) ==
  /\ ~ stopping
  /\ status[j] = "unknown"
  /\ SetStatus(j, "queued")
  /\ accepting' = accepting \union {j}
  /\ UNCHANGED <<request, commands, metadata, stopping, copies, dispatcherVars>>

(* Faulty variant: the queue hands out the latest command first.           *)
EnqueueInFront(j) ==
  /\ j \in accepting
  /\ accepting' = accepting \ {j}
  /\ commands' = SubSeq(commands, 1, taken) \o <<j>>
                   \o SubSeq(commands, taken + 1, Len(commands))
  /\ UNCHANGED <<status, request, metadata, stopping, copies, dispatcherVars>>
(* then the command that makes the dispatcher see it.                      *)
Enqueue(j) ==
  /\ j \in accepting
  /\ accepting' = accepting \ {j}
  /\ commands' = Append(commands, j)
  /\ UNCHANGED <<status, request, metadata, stopping, copies, dispatcherVars>>

-----------------------------------------------------------------------------
(* The dispatcher.  It looks at the shutdown event only between two        *)
(* commands, so it may take one more after the event was set.              *)
TakeCommand ==
  /\ stage = "waiting"
  /\ ~ QueueEmpty
  /\ taken' = taken + 1
  /\ current' = commands[taken + 1]
  /\ stage' = "taken"
  /\ UNCHANGED <<status, request, accepting, commands, episode, metadata,
                 stopping, copies>>

StopDispatcher ==
  /\ stage = "waiting"
  /\ stopping
  /\ stage' = "stopped"
  /\ UNCHANGED <<status, request, accepting, commands, taken, current,
                 episode, metadata, stopping, copies>>

StartBuild ==
  /\ stage = "taken"
  /\ SetStatus(current, "running")
  /\ stage' = "indices"
  /\ UNCHANGED <<request, accepting, commands, taken, current, episode,
                 metadata, stopping, copies>>

(* Adding episodes one by one begins with the first; there may be none.    *)
Sequentially(j) ==
  /\ episode' = 1
  /\ stage' = IF request[j].chunks = 0 THEN "save" ELSE "sequential"

(* The reply to build_indices_and_constraints, the one call of a build     *)
(* that has no timeout.                                                    *)
IndicesReady ==
  /\ stage = "indices"
  /\ IF request[current].chunks <= 1
       THEN Sequentially(current)
       ELSE stage' = "bulk" /\ UNCHANGED episode
  /\ UNCHANGED <<status, request, accepting, commands, taken, current,
                 metadata, stopping, copies>>

(* External: add_episode_bulk stores its episodes, in no order we rely on. *)
BulkStores(e) ==
  /\ stage = "bulk"
  /\ e <= request[current].chunks
  /\ copies[current][e] = 0
  /\ AddCopy(current, e)
  /\ UNCHANGED <<status, request, accepting, commands, metadata, stopping,
                 dispatcherVars>>

(* Faulty variant: a bulk call that runs out of time passes for done.      *)
BulkDoneTooSoon ==
  /\ stage = "bulk"
  /\ stage' = "save"
  /\ UNCHANGED <<status, request, accepting, commands, taken, current,
                 episode, metadata, stopping, copies>>
BulkDone ==
  /\ stage = "bulk"
  /\ \A e \in 1..request[current].chunks : copies[current][e] = 1
  /\ stage' = "save"
  /\ UNCHANGED <<status, request, accepting, commands, taken, current,
                 episode, metadata, stopping, copies>>

(* An error or the timeout of the bulk call, whatever it has stored.       *)
BulkFails ==
  /\ stage = "bulk"
  /\ Sequentially(current)
  /\ UNCHANGED <<status, request, accepting, commands, taken, current,
                 metadata, stopping, copies>>

(* External: add_episode stores the episode, before or without a reply.    *)
EpisodeStored ==
  /\ stage = "sequential"
  /\ AddCopy(current, episode)
  /\ stage' = "stored"
  /\ UNCHANGED <<status, request, accepting, commands, taken, current,
                 episode, metadata, stopping>>

EpisodeDone ==
  /\ stage = "stored"
  /\ IF episode < request[current].chunks
       THEN stage' = "sequential" /\ episode' = episode + 1
       ELSE stage' = "save" /\ UNCHANGED episode
  /\ UNCHANGED <<status, request, accepting, commands, taken, current,
                 metadata, stopping, copies>>

(* Faulty variant: the store keeps the metadata it has.                    *)
SaveMetadataOnce ==
  /\ stage = "save"
  /\ metadata' = [metadata EXCEPT ![request[current].graph] =
                    IF @ = NoJob THEN current ELSE @]
  /\ stage' = "complete"
  /\ UNCHANGED <<status, request, accepting, commands, taken, current,
                 episode, stopping, copies>>
SaveMetadata ==
  /\ stage = "save"
  /\ metadata' = [metadata EXCEPT ![request[current].graph] = current]
  /\ stage' = "complete"
  /\ UNCHANGED <<status, request, accepting, commands, taken, current,
                 episode, stopping, copies>>

(* The end of _execute and the loop's look at the shutdown event.          *)
EndBuild ==
  /\ current' = NoJob
  /\ stage' = IF stopping THEN "stopped" ELSE "waiting"
  /\ UNCHANGED <<request, accepting, commands, taken, episode, metadata,
                 stopping, copies>>

CompleteBuild ==
  /\ stage = "complete"
  /\ SetStatus(current, "completed")
  /\ EndBuild

(* Faulty variant: an episode that fails is tried again.                   *)
FailBuildRetrying ==
  /\ stage \in {"indices", "sequential", "stored"}
  /\ IF stage = "stored" /\ copies[current][episode] < 3
       THEN /\ stage' = "sequential"
            /\ UNCHANGED <<status, request, accepting, commands, taken,
                           current, episode, metadata, stopping, copies>>
       ELSE SetStatus(current, "failed") /\ EndBuild
(* Faulty variant: the exception ends the thread.                          *)
FailBuildUncaught ==
  /\ stage \in {"indices", "sequential", "stored"}
  /\ stage' = "stopped"
  /\ UNCHANGED <<status, request, accepting, commands, taken, current,
                 episode, metadata, stopping, copies>>
(* Any exception of the build before its metadata is stored, other than    *)
(* one of the bulk call: an ontology or a document that cannot be used, an *)
(* error of Graphiti, or the timeout of one episode.                       *)
FailBuild ==
  /\ stage \in {"indices", "sequential", "stored"}
  /\ SetStatus(current, "failed")
  /\ EndBuild

-----------------------------------------------------------------------------
(* The lifespan's end: requests are over, the dispatcher is told to stop.  *)
Shutdown ==
  /\ ~ stopping
  /\ accepting = {}
  /\ stopping' = TRUE
  /\ UNCHANGED <<status, request, accepting, commands, metadata, copies,
                 dispatcherVars>>

(* The process ends, after a shutdown or in a crash, and another starts.   *)
(* The stores and the queue were its memory; the graph store lives on.     *)
Restart ==
  /\ status' = [j \in Jobs |-> IF status[j] = "unknown" THEN "unknown"
                                                        ELSE "lost"]
  /\ accepting' = {} /\ commands' = <<>> /\ taken' = 0
  /\ stage' = "waiting" /\ current' = NoJob /\ episode' = 1
  /\ metadata' = [g \in Graphs |-> NoJob]
  /\ stopping' = FALSE
  /\ UNCHANGED <<request, copies>>

DispatcherStep ==
  \/ TakeCommand \/ StopDispatcher \/ StartBuild \/ IndicesReady
  \/ \E e \in Chunks : BulkStores(e)
  \/ BulkDone \/ BulkFails \/ EpisodeStored \/ EpisodeDone
  \/ SaveMetadata \/ CompleteBuild \/ FailBuild

Next ==
  \/ \E j \in Jobs : CreateJob(j) \/ Enqueue(j)
  \/ DispatcherStep
  \/ Shutdown
  \/ Restart

Spec == Init /\ [][Next]_vars

(* Threads are scheduled, and a call with a timeout ends.  Nothing is      *)
(* assumed of the one that has none, the creation of the indices.          *)
Fairness ==
  /\ \A j \in Jobs : WF_vars(Enqueue(j))
  /\ WF_vars(stage # "indices" /\ DispatcherStep)

FairSpec == Spec /\ Fairness

-----------------------------------------------------------------------------
(* Type correctness: every store, the queue and the dispatcher hold values *)
(* the code can give them.                                                 *)
TypeOK ==
  /\ status \in [Jobs -> Statuses]
  /\ request \in [Jobs -> Request]
  /\ accepting \subseteq Jobs
  /\ commands \in Seq(Jobs)
  /\ taken \in 0..Len(commands)
  /\ stage \in Stages
  /\ current \in Jobs \union {NoJob}
  /\ episode \in Nat \ {0}
  /\ metadata \in [Graphs -> Jobs \union {NoJob}]
  /\ stopping \in BOOLEAN
  /\ copies \in [Jobs -> [Chunks -> Nat]]

OnQueue(j) == \E i \in (taken + 1)..Len(commands) : commands[i] = j

(* The dispatcher goes on, and the queued job j is on its way to it: with  *)
(* its handler, on the queue, or in the dispatcher's hand.                 *)
Attended(j) ==
  /\ stage # "stopped"
  /\ j \in accepting \/ OnQueue(j) \/ (stage = "taken" /\ current = j)

(* A shutdown has stopped the dispatcher with the job's command on the     *)
(* queue: nobody will finish it.                                           *)
LeftBehind(j) == stopping /\ stage = "stopped" /\ OnQueue(j)

(* A job that a client sees queued is on its way to the dispatcher, one it *)
(* sees running is the one the dispatcher executes, and the other way      *)
(* round: no interleaving of handlers and dispatcher and no failure of a   *)
(* build leaves a job that nobody will finish.  A shutdown does, but only  *)
(* jobs whose command is on the queue.                                     *)
NoJobForgotten ==
  /\ \A j \in Jobs : status[j] = "queued" <=> Attended(j) \/ LeftBehind(j)
  /\ \A j \in Jobs : status[j] = "running" <=> stage \in Executing /\ current = j

(* A job is completed only when each episode of its document is in the     *)
(* graph, whichever way they were added; before the job, its metadata were *)
(* stored.                                                                 *)
CompletedIsInGraph ==
  \A j \in Jobs : status[j] = "completed" =>
    /\ \A e \in 1..request[j].chunks : copies[j][e] > 0
    /\ metadata[request[j].graph] # NoJob

(* What the fallback costs: an episode is in the graph at most twice, and  *)
(* twice only if the document had several, so that a bulk call came first. *)
AtMostTwice ==
  \A j \in Jobs, e \in Chunks :
    /\ copies[j][e] <= 2
    /\ copies[j][e] = 2 => request[j].chunks > 1

(* The metadata of a graph are those of the build that completed on it     *)
(* last, or of the one that is about to.                                   *)
MetadataOfLatestBuild ==
  \A i \in 1..taken :
    LET j == commands[i]
        g == request[j].graph
        later == {k \in (i + 1)..taken : /\ request[commands[k]].graph = g
                                         /\ status[commands[k]] = "completed"}
    IN  status[j] = "completed" /\ later = {} =>
          metadata[g] = IF stage = "complete" /\ request[current].graph = g
                          THEN current ELSE j

(* A decided job stays as it is for as long as the process lives: the      *)
(* store would accept any status after any other.                          *)
DecidedIsFinal ==
  [][\A j \in Jobs : status[j] \in Decided =>
       status'[j] \in {status[j], "lost"}]_vars

(* Builds are serial, in the order of the queue, and what they write is    *)
(* what SerialBuilds allows.                                               *)
Accepted(j) == \E i \in 1..Len(commands) : commands[i] = j

outcomeBar == [j \in Jobs |->
  IF ~ Accepted(j) THEN "none"
  ELSE IF status[j] \in Decided THEN status[j] ELSE "pending"]
sizeBar == [j \in Jobs |-> IF Accepted(j) THEN request[j].chunks ELSE 0]
writtenBar == [j \in Jobs |-> {e \in Chunks : copies[j][e] > 0}]

Promise == INSTANCE SerialBuilds WITH
  log <- commands, size <- sizeBar, outcome <- outcomeBar, written <- writtenBar

BuildsAreSerial == Promise!Spec

(* Every job that was created is decided in the end, unless the service is *)
(* shut down or restarted.  The one way to be stuck is the call without a  *)
(* timeout: the dispatcher waits there for ever, and all jobs with it.     *)
EveryBuildIsDecided ==
  \/ <>[](stage = "indices")
  \/ \A j \in Jobs :
       status[j] = "queued" ~>
         status[j] \in Decided \union {"lost"} \/ stopping
=============================================================================
