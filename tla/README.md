# TLA+ models of MiroMem

MiroMem joins two vendored systems, the MiroFish simulator and the EverMemOS
memory service, with code of its own: a *Thinker* that turns a question into
topics and a seed text, a *graph service* that builds knowledge graphs with
Graphiti, agent memories, a graph in MongoDB, and a gateway. This directory
holds models of the parts whose correctness depends on the order of things,
the TLC runs that check them on small instances, and TLAPS proofs that hold for
all values of the constants.

Paths below are relative to the repository (`src/` in `PROJECT.json`).

    tlc -config MCThinkerJobs.cfg MCThinkerJobs.tla      a run
    tlapm ThinkerSessionProofs.tla                       a proof

`PROJECT.json` lists components, runs, the faulty variant that each checked
property catches, the source lines each definition stands for, the hazards of
the code and the theorems.

## 1. Inventory

| Component | State | Operations | Talks to | Status |
|---|---|---|---|---|
| Thinker jobs (`thinker/`) | dict of jobs, one asyncio task per execution | create, get, retry, skip, materialize; run | LLM, search, scraping; the page | modelled |
| Thinker session (`Home.vue`, `utils/thinker.js`) | reactive state of one page | type, start, poll, adopt, retry, skip, hand over | Thinker over HTTP | modelled but for the scenario tab |
| Graph service, builds (`graph_service/`) | job, metadata stores; queue; dispatcher thread | build request, dispatch, fallback, shutdown | Graphiti and FalkorDB | modelled |
| Graph service, snapshots | snapshot store | get, refresh | FalkorDB | modelled |
| Graph service, patches of Graphiti (`core/providers.py`) | functions of other modules, three flags | patch, instrument, construct a driver | Graphiti, asyncio | modelled |
| Graph service, queries and conversions | none | read, search, chunk, compile, repair, serialize | FalkorDB, LLM | modelled as functions, but for trivial reads |
| Thinker providers, files, requests | none | parse, accept, read, cut | third parties | parsing and evidence modelled; HTTP itself left out |
| MiroFish graph-build client (`backend/app/api/graph.py`, `services/graph_builder.py`) | project files, task dict, one thread per build | build, poll, reset, delete | graph service | modelled, with the graph service as backend |
| Agent memory (`simulation/`) | the provider's identity; profiles in EverMemOS | store, retrieve, get context, hooks, update profile | EverMemOS | modelled |
| Knowledge graph (`graph/`) | three MongoDB collections | insert, cascade, ingest, traverse, chunk | MongoDB, LLM | modelled |
| Bridge (`bridge/`) | none | Zep-shaped client, conversions | EverMemOS | modelled but for requests passed on unchanged |
| Evolution (`evolution/`) | MongoDB collections | mark, query, rank, inject, validate | MongoDB, LLM | modelled but for the LLM's prompts |
| Gateway (`gateway/app.py`) | none | mount, proxy | all | not modelled |
| EverMemOS (`vendor/EverMemOS`) | memories | store, fetch, search | the bridge | what it accepts of a profile is in `ProfileSync`; else not modelled |
| MiroFish simulation and reports, other pages | subprocesses, files | | | vendored, not modelled |

What makes each of them correct, and what is hard about it:

* **Thinker jobs.** One event loop, so the code between two awaits is atomic,
  but a job is looked at by a task that waits for providers for minutes while
  requests retry, skip or materialize it. A job must have exactly one executor
  while it is created or running, show the result of its latest attempt, be
  decided once, and yield one payload; a documented state machine says which
  statuses follow which.
* **Session.** A browser that sees the job through requests which may be lost on
  the way there or back, a poll that times out while the job goes on, a gateway
  that forgets everything when it restarts, tabs that share one job. What
  goes on to the simulation must be what the gateway decided.
* **Builds.** Handlers enqueue, a thread executes; Graphiti calls time out
  without being undone; the bulk call has a sequential fallback; the process
  may be shut down. Every job must be decided, a completed one be in the graph
  entirely, builds must not overlap.
* **Snapshots.** Nodes and edges are read by two queries while the dispatcher
  writes, two requests may refresh at a time, a refresh may fail half way. A
  snapshot must be of a past state and never lose to a failure.
* **Patches.** Replacements of process-wide names by two threads without a lock.
* **Build client.** A project object kept by a thread across minutes and saved
  whole; a client timeout shorter than the service's; a transport error that
  fails a build still running; deletion, reset and other builds meanwhile.
  What the file says must be what some build did, agree with the task, and not
  shut out further builds.
* **Agent memory.** A provider lends its identity to a context of another agent
  for three awaits; the hooks must reach every agent whatever fails; a profile
  is stored if EverMemOS accepts what the client posts, which a batch does not
  report. What is asked is asked in the right name, nobody's summary is skipped,
  and a created profile persists.
* **Knowledge graph.** A cascade of three deletes beside inserts and an ingestion
  of two steps, any of which fails; traversals must find what is near and no
  more, chunkers must advance and lose nothing.
* **Conversions.** Functions with many corner cases: names that collide with
  reserved ones, aliases of fields in what an LLM answers, lists cut twice, keys
  that overwrite each other. What goes in must come out, or go for a reason.

Known and not modelled: leaving the Home page by a link while an adoption or a
skip is under way (`Home.vue:1229`), where the unmounted component still
navigates; and the scenario tab, which shares the loading flag (`Home.vue:1264`).

## 2. Modules

    ThinkerLifecycle  <-refines-  ThinkerJobs  <-extends-  ThinkerSession
    SerialBuilds      <-refines-  GraphBuild  --\
                                                 >-extends-  GraphService
                                  GraphSnapshot -/
    RuntimePatches
    ProjectBuild
    AgentMemory  <-refines, extends-  SimulationMemory
    ProfileSync
    KnowledgeGraph
    GraphTraversal, EntityExtraction,
    DocumentText <-- ThinkerRequests,      \
    OntologyCompiler, PayloadShapes,        >-extended by-  Conversions
    GraphQueries, Evolution, Bridge        /
    Selection: what a list comprehension keeps, used by several of these

Each has an `MC` module for TLC where it is a system of its own. A `...Proofs`
module holds the proofs of a system and of what it extends: those of
`ThinkerJobs` stand in `ThinkerSessionProofs`, those of `GraphBuild` and
`GraphSnapshot` in `GraphServiceProofs`, those of `AgentMemory` in
`SimulationMemoryProofs`, those of `Conversions` in `ConversionsProofs` and, of texts,
`TextProofs`. A definition whose comment begins with *Faulty variant* is a
mistake the code might have had; no specification uses it. It is there to show
that a property notices.

### ThinkerLifecycle, ThinkerJobs

`ThinkerLifecycle` is the state machine of the design document
(`docs/superpowers/specs/2026-03-24-thinker-orchestrator-design.md`), per job.
`ThinkerJobs` is the code: `jobs` is `InMemoryThinkerJobStore._jobs`, `Transition`
is `_transition` with its table, and the actions are the handlers of
`thinker/api.py`, each in one step because none awaits after its request is
parsed: `CreateJob`, `RetryJob`, `SkipJob`, `Materialize` (with what the user
edits of each field). `tasks` are the `_execute_job` tasks. A task is a step from
the reply of one provider to the next request: search, up to `MaxHits` pages,
the LLM; it succeeds, fails or finds that the store refuses its transition.
`Restart` empties the memory. What a result says is abstracted to the attempt
that produced it, and an error to the code `_classify_job_error` gives it.
`attempt` and `payloads` are history variables.

### ThinkerSession

EXTENDS `ThinkerJobs`: the page's `session`, the selected event, the tab and
`call`, the request the page awaits. A request is sent by a step of the user or
of the polling loop, handled in one step of the gateway (`Answer`, `Refuse`), and
its reply received in another (`Receive`); either half may be lost
(`LoseRequest`, `GatewayRestart`). The gateway may also refuse to create a job for
an upload (`NothingToRead`): the page offers Start for any file, and only the gateway
sees whether it can be read and says anything. `trouble` is history: a reply or the gateway's
memory was lost. `handed` is what the Process page was given. Simplified: a
request is not handled after its client gave it up; leaving the page and
reloading it are one action.

### SerialBuilds, GraphBuild

`SerialBuilds` promises: builds are decided one after the other in the order
they were accepted, only the one in turn writes, and a completed one has written
all of its document. `GraphBuild` has the build route in the two steps another
thread can see (`CreateJob`, `Enqueue`), and the dispatcher as its stages from
`TakeCommand` to `SaveMetadata`, `CompleteBuild` and `FailBuild`. Graphiti is
external: `BulkStores` and `EpisodeStored` may happen before a call fails or runs
into its timeout. `copies` counts how often an episode got into the graph, as
nothing makes repeating one harmless. The queue keeps what was taken from it
(`commands` with `taken`), so that its order can be spoken of. `Shutdown` is the
end of the lifespan, `Restart` a new process on the same FalkorDB.

### GraphSnapshot, GraphService

`GraphSnapshot` is the snapshot store and one refresh per request, in three
steps (nodes, edges, failure) as in `SnapshotWorker.refresh_snapshot`.
`GraphService` puts it beside the builds: what a query finds is what `GraphBuild`
has written (`Contents`).

### RuntimePatches

Two threads run `build_graph_driver`; a step is one read or one assignment of a
name both share. A function is the sequence of wrappers around it. The
dispatcher instruments Graphiti before its first driver. Of the eleven functions
it wraps only `add_nodes_and_edges_bulk` matters to anyone else.

### ProjectBuild

One project from its ontology on, as MiroFish's backend sees it. `file` is
`project.json`; `opened` and `dirty` are the two halves of `save_project`, which
truncates and then writes: whoever reads in between finds `Torn`, and so does
everybody after a write over somebody else's (the file is taken to fit the
stream's buffer, so that a write is one piece). `mine` is the `Project` object
of each request, which the thread of the build inherits and saves whole after
every stage; `at` is the stage, of the request and then of the thread
(`AcceptBuild`, `StartBuild`, `SubmitJob`, `JobCompletionSeen` or `Abandon`,
`FetchGraph`, `Report`), and any of them may `Fail` into the except clause. `tasks`
is the task manager, `job` what becomes of the job at the graph service, which is
external here: it may be decided, or lost with the service. A submission may be
handled and its answer lost. Deleting a project is one step; the ids of builds
and graphs are new each time. Saving may fail: before the file is open (`OpenFails`) or
after it was truncated (`WriteFails`), on a full disk or with a `chunk_size` that no
encoding has, as the route takes it unchecked (`api/graph.py:340`). What follows
depends on who saves (`SaveRaises`): a request ends, a thread fails, and in its except
clause ends. `disturbed`, `unsaved` and `restarted` are history: a save that failed, met
another or was cut off and that no undisturbed one has followed; the builds that
ended because a save failed; a restart of the backend.

### AgentMemory, SimulationMemory

`AgentMemory` is one `AgentMemoryProvider` and the coroutines that share it:
`provider` is its `_agent_id`, `_sim_id` and `_group_id`, `contexts` the calls of
`get_agent_context`, each three awaits long (`StartContext`, `NextRead`,
`EndContext`, `ContextFails`), `request` the last thing asked or stored in its
name (`Request`, and `Thought`, which takes the names as arguments and swaps
nothing). A context is `shared` if it overlapped with another, `abandoned` if it
failed and left another identity behind. `SimulationMemory` adds the hooks: `hook`
says where `on_round_start`, `on_round_end` or `on_simulation_end` is in its loop
over the agents, `written` what became of each memory. It implements
`AgentMemory`, since hooks use the client directly and are stuttering steps of it.

### ProfileSync

`memories` is what EverMemOS keeps, `calls` the calls of `ProfileSync`, request by
request: `push_profile`, the two batches (`sync_to_evermemos`, `sync_from_evermemos`)
and `update_profile`, which reads first. EverMemOS is the vendored one:
`StoreMemory` is the body the client posts, `Required` and `Accepts` what the handler
of `POST /memories` wants (`request_converter.py:378`), `MemoryTypes` the types a read
may ask for. A request may also stay without an answer, handled or not.

### KnowledgeGraph

`entities`, `edges` and `facts` are the three collections. `delete_entity` is three
steps (`DeleteEntity`, `CascadeEdges`, `CascadeFacts`) between which others run
and at which it may fail, an ingestion two after the extraction
(`StoreEntities`, `StoreLinks`), failing with any part stored. `blind` is history:
what was stored when an end of it did not exist, which no route checks.

### Conversions and the functions

`Conversions` makes one call of one function per behaviour; `MCConversions` holds
the inputs. Each function stands in a module with the statement of what it
promises, written without looking at how it works:

* `GraphTraversal`: `get_neighbors`, `find_path`, `get_subgraph` and `search` with
  their queues, against nearness defined by walks.
* `DocumentText`: the two chunkers, character by character, and the cutting of
  evidence to its budget; `ThinkerRequests`: which job requests are accepted (400 for
  what cannot be read, 422 for what lacks a required field or says nothing), what
  is read of an upload, of a market event and of search hits.
* `OntologyCompiler`: `compile_ontology`. `PayloadShapes`: how an LLM's answer is
  made to fit a schema, field by field with the aliases it takes, and which
  attribute values FalkorDB can hold.
* `GraphQueries`: entities with their related edges and nodes, search, snapshots.
* `EntityExtraction`: entities found again under a similar name, and their edges.
* `Evolution`: marking, querying, ranking, injecting, summarising and validating
  memories, as lists with repetitions: a memory may be marked twice and a tag given
  twice. A simulation that is not registered has no summary. Scores are whole
  numbers, the decay halves instead of `exp`.
* `Bridge`: what is posted of messages, sessions, users and named items, what is read
  of an answer that has content and metadata, and `merge_profiles`. Nothing is assumed
  of what EverMemOS keeps or in which order it answers.

## 3. Runs

| Run | Instance | States | Shows |
|---|---|---|---|
| `thinker` | 2 jobs, 2 attempts, 2 hits, fair | 14,641 | one executor, result of the latest attempt, one payload; implements `ThinkerLifecycle`; every run ends |
| `session` | 2 jobs, 2 events, 2 attempts, 1 poll | 510,584 | what is handed over was decided by the gateway; what is shown is current; nothing offered for a job is refused unless something was lost, and without a job only an upload is; a job stays with its event |
| `session_live` | 1 job, 1 event, 2 polls, fair | 13,104 | the page does not stay busy |
| `graph_build` | 2 jobs, 2 graphs, 2 chunks, fair | 47,476 | only a shutdown leaves a job that nobody will finish, and only on the queue; completed means stored, at most two copies, metadata of the latest build, implements `SerialBuilds`; every build is decided, unless it hangs in the creation of indices |
| `graph_service` | 2 jobs, 1 graph, 2 chunks, 2 readers | 784,728 | snapshots show the past, the last success is kept, edges never regress |
| `runtime_patches` | 2 threads | 213,222 | no driver before the patches, wrappers do not pile up, asyncio intact unless constructions overlap |
| `runtime_patches_loop` | 2 threads | | *violation*, finding 1 |
| `project_build` | 2 builds, 1 reset, fair | 159,248 | `graph_building` means a thread is at work, completed means built, project and task agree, the file is readable unless a save failed, overlapped or was cut off; every task is decided unless saving fails where nothing can report it |
| `simulation_memory` | 2 agents, 2 simulations, 2 contexts, 2 rounds | 888,763 | the identity is kept, a context is of one agent, everyone is summarised |
| `profile_sync` | 2 agents, 2 calls | | *violation*, finding 2 |
| `knowledge_graph` | 2 ids, 2 deletions, 1 ingestion | 338,532 | an edge or fact outlives its entity for one of two reasons only |
| `conversions` | 95,777 calls | 191,554 | each function keeps its promise on each input |

Type invariants, and finality of decided jobs, are proved (section 5) and follow
from what the runs check; they are not checked again.

**Bounds.** `MaxAttempts` 2: a retry is where a stale task could meet a new one;
a third attempt meets nothing else. `MaxHits` 2: none, one or several pages; the
page does not see pages, so `session` takes 0. Two jobs in `session`: the one held
and the one before it. `MaxPolls` 1 or 2: polling that gives up after a poll or
goes on after one. `MaxChunks` 2: with one chunk there is no bulk call, with two
there is, partly stored or not. Two jobs on two graphs: one waits while the other
is executed, or follows it, on the same or another graph. Two readers: one
overtakes the other. The two threads of `RuntimePatches` are the two the service
has. Two builds of a project and a reset are three that may save at a time: one
that truncates, one that writes, one that comes after. Two contexts: one may
start, end or fail inside the other; a third would overlap with what is shared
already. `MaxRounds` 2: a round after another. `MaxStored` 2
and `MaxLinks` 2 in `KnowledgeGraph`: an edge in each direction, a loop, an edge
and a fact; two ids are all that one edge can miss, and a third would only be
present or absent as one of them. The inputs of `conversions` are all
graphs of a few nodes, all texts of a few characters, all lists of a few
elements; each definition in `MCConversions` names its set.
Everything else is unbounded in the code and finite by itself in the models.
Job ids, events, readers, entities and calls that are interchangeable are
symmetry sets in safety runs only, never in runs with liveness properties.

**Fairness.** ThinkerJobs: weak fairness of each task's steps, as providers have
timeouts and the loop is not starved. ThinkerSession: only of the request under
way, which Axios ends after 300 s; nothing is assumed of tasks or users.
GraphBuild: a handler that has created a job goes on to enqueue it, and the
dispatcher takes its steps, except where it waits for
`build_indices_and_constraints`, the one call without a timeout. ProjectBuild: the
steps of each request and thread, as every request to the graph service ends
after 30 s and waiting for the job after 600 s. Nothing is ever assumed of
shutdowns, restarts, or of Graphiti's stores.

**Deadlock** is checked in every run but four whose systems really come to an end:
a simulation whose hooks are done, profile calls that have all returned, a graph
whose two deletions have both failed and which is full, and a function that has
answered.

## 4. Findings

Where a document, comment or message says something else than the code does.

1. `_disable_falkor_auto_index_task` is to prevent an index task "during init" of a
   driver (`core/providers.py:278`). Of two overlapping constructions the second may
   save the replacement of the first and leave it installed for good:
   `asyncio.get_running_loop` then raises in the whole process. (Or the first
   restores the original too early and the second driver starts its task after
   all; `SafeUnlessOverlapping` says that an overlap is the only way to either.)
   Run `runtime_patches_loop`.
2. "Profiles created in MiroFish are persisted as Profile memories"
   (`simulation/profile_sync.py:5`). The client posts `user_id`, `content`, `memory_type`
   and `metadata` (`memory_client.py:38`); the vendored EverMemOS answers 400 to a
   message without `sender`, `message_id` and `create_time` (`request_converter.py:378`,
   `docs/api_docs/memory_api.md:49`). The batch logs that and goes on, so
   `sync_to_evermemos` ends well and nothing is kept. Run `profile_sync`.

Finding 2 reaches further than profiles, and what follows from it was seen in the code
without a run. Every store of the bridge has that body: the hooks' memories,
`memory.add` and the provider's observations are refused alike. Reading fails, too. `GET
/memories` refuses the types the client names (`"Profile"`; the enumeration has
`"profile"`), and answers other requests with `{status, message, result}`
(`memory_api.md:157`), limited and the newest first (`fetch_mem_service.py:601`): `memory.get`,
`pull_profile` and `from_evermemos` take it for a list of memories and raise. So the
races of `update_profile`, which reads, merges and stores, cannot occur with this
EverMemOS, and `Bridge` and `SimulationMemory` claim nothing of what is kept: the one is
about what is sent and how an answer is read, the other about whom the hooks ask for.

Seen while modelling, without a run:

* The page answers an attempt to switch off a locked Polymarket session with "skip
  the task first" (`Home.vue:1101`). When polling gave up on a job that is created
  or running, it offers no skip, and only a reload gets out.
* The migration design (`2026-03-24-graphiti-migration-design.md:434`) has a
  completed build generate a snapshot; the code serves, as not stale, whatever was
  read while it was being built (`api/graphs.py:62`).
* `patch_falkor_property_serialization` patches Graphiti's save paths once; the
  instrumentation of the other thread may read one of them before and write it
  after (`build_worker.py:253`), and the flag says it is patched.
* `reset_project` resets a project, and answers that it has (`api/graph.py:114`);
  the thread of a build under way saves the object it held before, status, task
  and graph included.
* The Thinker design (line 223) lets a user skip a job in any state before
  materialization; the code offers skip for failed and succeeded jobs only.
* `get_agent_context` takes a simulation, but none of its three reads names one: it
  changes nothing in what is read. Without a `try`, a read that fails leaves the
  other agent's identity behind (`agent_memory_provider.py:156`).
* `update_agent_profile` stores the merge with the profile of the provider's own
  agent for the agent it is given (`agent_memory_provider.py:234`).
* `_chunk_text` with a `chunk_size` of 0 never ends (`graph_rag.py:22`). Duplicate
  entities are found within a chunk only (`entity_extractor.py:90`).
* `rank_memories` subtracts an aware time from what MongoDB returns, which is naive
  unless the client is told otherwise (`agent_evolution.py:125`): with any history an
  injection raises. `Subtractable` is this case.
* `validate_predictions` looks for the foresight of `user_id = sim_id`
  (`foresight_validator.py:56`), while the hooks store it under the agent's id; without
  outcomes every prediction is judged "low".
* `memory.add` does not send the messages' uuids. A caller's second attempt after a failure,
  of `memory.add` as of `mark_cross_sim_available`, repeats what the first has stored.
* A project file whose save failed, met another or was cut off stays unreadable until a
  save has it to itself; but `get_project` raises for it, so that only a thread already
  under way may save it, and `list_projects` fails as a whole (`models/project.py:193`,
  `:198`).

## 5. Proofs

All theorems are about the specifications the runs check, for every value of the
constants. The assumptions are those the modules state: the bounds are natural
numbers (`BoundsAssumption`, `ChunksAssumption`, `PollsAssumption`), the model values
that stand for "none" are no job and no event (`NoJobAssumption`,
`NothingAssumption`), the dispatcher is one of the threads
(`DispatcherAssumption`), builds and resets are different actors (`ActorsAssumption`), the provider's own
agent and simulation are among the agents and simulations (`HomeIsKnown`), and the
agents a simulation goes through are a list that is not empty (`AgentsInOrder`).
`CallsAreSound`
says of the calls of `Conversions` what their callers see to. Lists are lists and texts are
lists of characters; sizes, overlaps, scores, importances and weights are whole numbers
(any, negative ones included), and there is room for some evidence in a request. A graph
gives each of its edges once, a depth is a number of hops (0 or more), nodes read from a
graph have ids of their own, no more posts are answered than there are messages, a session
has its four fields, and a request's event is not JSON that cannot be parsed where the whole
body is JSON.
What an LLM answers is any JSON value whose fields are JSON values (`IsJsonObject`), and
`FieldsApart` says of *Graphiti's* models, not of the answers, that no two fields share an
alias and no entity's field goes by a name of the type. `Most` memories are a natural
number (`MostIsANumber`), and no reserved name begins as the prefix does
(`ReservedAssumption`: were there one, `entity_` in front of a name could make it reserved).

* **ThinkerSessionProofs**, the jobs. The inductive invariant is the conjunction of the safety
  properties and `Launched`: a live task is its job's latest execution, and an id
  that the store knows, or that has yielded a payload, was launched before.
  Without it `ResultOfLatestAttempt` is not inductive (a task might store the
  result of an earlier attempt), nor `OnePayload` (after a restart an id might be
  given out again). `TransitionEffect` says once what the table does to the store.
  Proved: `TypeCorrect`, `SingleExecutor`, `ResultProvenance`, `NoStaleError`,
  `PayloadUniqueness`, `Finality`, and `Refinement` of the documented state machine.
* **ThinkerSessionProofs**, the page. A step of the page's system is a step of `ThinkerJobs` or
  leaves it alone (`SessionImplementsThinker`), so its invariant holds here too.
  With it, `SessionTypeCorrect`, `HandoverAgrees` and `EventStays`: a handed-over
  job was decided when its reply was sent, and decided is final. `ViewInv` says what the
  page's view may still lack, request by request: while it polls, it shows a job that
  goes on; what a reply says of a job that waits for the user or is decided stays true
  until the reply is received, unless the gateway forgets the job; and what is pressed agrees with what is shown. A task
  may move its job only while the job goes on (`TaskMoves`). From it, `ShownStaysCurrent` and
  `OffersAreAccepted`.
* **GraphServiceProofs**, the builds. The invariant adds three parts to the checked ones:
  `QueueInOrder` (what was taken is decided, but for the job in hand),
  `CopiesInStep` (how many copies each stage of the dispatcher may have left of
  which episode, from which `AtMostTwice` and `CompletedIsInGraph` follow) and
  `MetadataFirst`. Proved: types, `NoneForgotten`, `CompletionMeansStored`,
  `CopiesBounded`, `MetadataCurrent`, `Finality`, and `Serial`, the refinement of
  `SerialBuilds`.
* **GraphServiceProofs**, the service. The composed service implements `GraphBuild` with restarts
  (`ServiceImplementsBuild`), hence `ServiceSerial`. Since the graph only grows
  and nodes are read before edges, `SnapshotsShowThePast`, `SnapshotsAreKept` and
  `EdgesOnlyGrow` follow whichever refresh ends last.
* **RuntimePatchesProofs.** `PatchesInStep`: a set flag means a finished patch, and no
  step takes a patch's layer off a function it has patched, because the two
  patches touch different functions and the instrumentation only one that no
  patch counts on (`Disjoint`, `LayersStay`). `LoopInStep`: without an overlap there
  is one construction at a time, and what it saved is the original. Proved for
  any number of threads: `TypeCorrect`, `DriversPatchedFirst`, `LoopKept`. With two
  threads, as the service has (`TwoThreads`), also `WrappersBounded`: `DepthInv` says that
  an original has no more layers of its patch than threads are through with it, what
  a thread holds was read before it got through, and Graphiti's own name is
  instrumented once. With three threads the last would wrap what the second has wrapped
  around the first's, so the assumption is needed.
* **ProjectBuildProofs.** `InStep` says what the object an actor holds says at each
  stage, and of its job: the object of a build names that build from
  `AcceptBuild` on, so what the file says of a build was saved by its own thread.
  `FileInStep` and `TasksInStep` add that a thread about to report finds its end in
  the file if the file still names it, and that only an ended thread has a decided
  task. `OneSaver` says that undisturbed saves come one at a time, each over a file that
  nobody else has written since it was opened, so that `Readability` follows from it. `ActorStep` covers every step that leaves the file alone. Proved:
  `TypeCorrect`, `NeverStuck`, `CompletionIsGenuine`, `Agreement`, `Readability`.

* **SimulationMemoryProofs.** `AgentInv` adds to the checked properties what makes
  them inductive: while no context was left behind or shared, at most one is in
  flight, it saved the home identity, and all it read is of the agent it
  was asked for. Proved for any number of contexts, agents and simulations:
  `AgentIdentity`, `AgentContexts`; `SimulationImplementsAgent`, so
  `SimulationIdentity`, both properties of the whole simulation. `HookInv` says for
  each point of a hook's loop which agents it has been past: `Summarised`, for any
  list of agents and any number of rounds.
* **KnowledgeGraphProofs.** `DanglingIsExplained` is inductive with the types alone;
  the work is in showing that each step of a cascade hands its explanation on to the
  next (`CascadingLasts`, `CascadingFactsLasts`): `Dangling`, for any ids and any number
  of deletions and ingestions.

* **ConversionsProofs.** A behaviour is one call, so the invariant is about what a function
  answers for *any* arguments: an induction along the loop of the function. The
  library's induction theorems take the induction hypothesis as an operator, which
  the provers cannot instantiate; `SetInduction` takes the set of the numbers for which
  it holds. A fold is a run over the prefixes of a list (`PrefixRuns`), a comprehension is
  `Selection!Those`, whose order and members are described once.
  `ExtractionCloses`, `ReadsAreConsistent` and `MemoriesLast` follow from what each
  loop has made of a prefix. For `TraversalFindsTheNearest`, `Frontier` says of a queue
  that its distances ascend by at most one from head to tail, that what is visited or
  queued was reached at its least distance, and that all that is near and not yet
  visited lies behind the queue; `get_neighbors` and `find_path` share it, the one with a
  depth, the other with a path per entry. That `Passes` are enough follows from
  `Meets`: an edge enters the queue at most once from each end, so that passes and
  what is queued never exceed what was met.

  For `EvolutionHandsOnTheBest`, a sorted list is a rearrangement in descending order:
  `Preceding` gives every place its rank, which is injective on finitely many places,
  hence onto. `LinesAreBest` follows how often each memory occurs from the collection
  through both choices to the lines, `TagsCounted` carries each tag of a memory to its place
  among the sorted ones, so that a summary counts what was marked, and `TotalIs` bounds a sum of scores. For
  `SchemasAreMet`, `Taken` says what the first k fields of a model have taken from an
  item: the fields before k are settled, aliases of the others untouched, and every value
  is still there under one name; so a second normalisation finds nothing to do
  (`FieldsApart` is what this rests on). Safe names differ unless one
  name is another with `entity_` in front of it.

* **TextProofs.** For `TextsAreKept`, `StripIs` and `InkConcat` say that stripping cuts
  blanks only and that the ink of a concatenation is that of its parts. `Gathered` says of the evidence
  that each text so far is in it whole, or as much of its beginning as the budget had left
  then, blanks aside (`Filled`). Which episodes hold a
  character is arithmetic of quotients (`HowManyIs`, `EpisodesFound`). GraphRAG's chunker
  is a recursion on the rest of a text: `PiecesGrow` builds from the end backwards a
  function that obeys the recursion, so the recursive definition denotes it (`ChunksRun`,
  `ChunksAre`). `ExtractTextIs`, `EventIs` and `HeardIs` follow what a request says from
  its pages, outcomes and markets to the text a job is given.

Every invariant and every action property of the passing runs is proved. Only
model-checked: the liveness under fairness (`EveryRunEnds`, `FlowEnds`,
`EveryBuildIsDecided`, `EveryTaskIsDecided`), which the proof system does not reach.

## 6. Not modelled, and why

The HTTP requests of the Thinker's providers to third parties and the reading of an
LLM's answer: what they may do to a job (answer, fail, time out) is in `ThinkerJobs`.
Routes that answer a stored job, the health of a service, or a request passed on
unchanged. A `BaseException` raised inside a build would end the dispatcher thread;
that is left out. `mark_degraded` exists and is never called; the routes `POST /graphs`
and `/episodes` of the design do not exist. Of the build client, the Zep backend is left
out, and `build_graph_async`, which no route calls. `update_entity` changes attributes
`KnowledgeGraph` does not have. Similarity of names, relevance, and what an LLM says
are inputs of the models. The exponential decay over real numbers is a decay over whole
ones. Letters of documents are a handful of characters. MiroFish's simulation, its
reports and EverMemOS are vendored.

## 7. Plan

Done: all of the project's own components that keep state and its functions, each with
its proofs. What is left, in this order:

1. The session's scenario tab, and leaving the page by a link.
2. The hooks and the provider on the vendored EverMemOS, as `ProfileSync` is, and
   what a caller makes of their failures.
3. After the project's own code: MiroFish's `simulation_ipc` and the batching
   thread of `zep_graph_memory_updater`.
