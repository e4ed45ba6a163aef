--------------------------- MODULE GraphSnapshot ---------------------------
(***************************************************************************)
(* The snapshots of the graph service: the store that keeps the last       *)
(* successful one of each graph (graph_service/storage/snapshot_store.py)  *)
(* and the refresh that GET /graphs/{graph_id}/snapshot runs when there is *)
(* none (graph_service/api/graphs.py, workers/snapshot_worker.py).         *)
(*                                                                         *)
(* Requests are coroutines of one event loop; each may be suspended where  *)
(* a refresh awaits FalkorDB, while others run and the dispatcher thread   *)
(* writes to the graph.  What the graph holds is a parameter of the        *)
(* actions: a set of episodes, whose nodes and edges appear together.      *)
(***************************************************************************)
EXTENDS Naturals

CONSTANTS
  Graphs,
  Readers    \* requests for a snapshot that may be under way at a time

VARIABLES
  snapshots, \* InMemorySnapshotStore._snapshots
  readers    \* where each request is

(* failed stands for a refresh_error: the public payload is then stale.    *)
NoSnapshot == [held |-> FALSE, nodes |-> {}, edges |-> {}, failed |-> FALSE]

Idle == [at |-> "idle"]
Refreshing(g) == \E r \in Readers : readers[r].at # "idle" /\ readers[r].graph = g

SnapshotInit ==
  /\ snapshots = [g \in Graphs |-> NoSnapshot]
  /\ readers = [r \in Readers |-> Idle]

(* get_graph_snapshot: a snapshot that is held is the answer, whatever its *)
(* age, and nothing changes; without one the request refreshes.            *)
StartRefresh(r, g) ==
  /\ readers[r] = Idle
  /\ ~ snapshots[g].held
  /\ readers' = [readers EXCEPT ![r] = [at |-> "nodes", graph |-> g]]
  /\ UNCHANGED snapshots

(* The reply to EntityNode.get_by_group_ids, with the nodes of contents.   *)
NodesReply(r, contents) ==
  /\ readers[r].at = "nodes"
  /\ readers' = [readers EXCEPT ![r] =
       [at |-> "edges", graph |-> @.graph, nodes |-> contents]]
  /\ UNCHANGED snapshots

SaveSnapshot(g, nodes, edges) ==
  snapshots' = [snapshots EXCEPT ![g] =
    [held |-> TRUE, nodes |-> nodes, edges |-> edges, failed |-> FALSE]]

(* Faulty variant: the edges are asked for together with the nodes.        *)
EdgesReplyEarly(r, contents) ==
  /\ readers[r].at = "edges"
  /\ SaveSnapshot(readers[r].graph, readers[r].nodes, readers[r].nodes)
  /\ readers' = [readers EXCEPT ![r] = Idle]
(* Faulty variant: the nodes are asked for after the edges.                *)
EdgesReplyFirst(r, contents) ==
  /\ readers[r].at = "edges"
  /\ SaveSnapshot(readers[r].graph, contents, readers[r].nodes)
  /\ readers' = [readers EXCEPT ![r] = Idle]
(* The reply to EntityEdge.get_by_group_ids: the snapshot is serialized,   *)
(* stored and answered before anything else runs.                          *)
EdgesReply(r, contents) ==
  /\ readers[r].at = "edges"
  /\ SaveSnapshot(readers[r].graph, readers[r].nodes, contents)
  /\ readers' = [readers EXCEPT ![r] = Idle]

(* Faulty variant: a failed refresh forgets what it could not refresh.     *)
MarkRefreshFailedForgetting(g) ==
  snapshots' = [snapshots EXCEPT ![g] = NoSnapshot]
(* The snapshot another request has stored meanwhile is kept, and marked.  *)
MarkRefreshFailed(g) ==
  snapshots' = IF snapshots[g].held
                 THEN [snapshots EXCEPT ![g].failed = TRUE]
                 ELSE snapshots

(* Either query fails: a snapshot held meanwhile is answered, stale, or    *)
(* the request ends with status 503.                                       *)
RefreshFails(r) ==
  /\ readers[r].at # "idle"
  /\ MarkRefreshFailed(readers[r].graph)
  /\ readers' = [readers EXCEPT ![r] = Idle]
=============================================================================
