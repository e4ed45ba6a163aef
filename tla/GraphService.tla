---------------------------- MODULE GraphService ----------------------------
(***************************************************************************)
(* The graph service as one process (graph_service/app.py): builds and     *)
(* snapshots meet in the graph store, and nowhere else.  The dispatcher    *)
(* writes episodes there while refreshes read it; neither tells the other. *)
(***************************************************************************)
EXTENDS GraphBuild

CONSTANT Readers
VARIABLES snapshots, readers

INSTANCE GraphSnapshot

serviceVars == <<vars, snapshots, readers>>

(* What FalkorDB holds of a graph: the episodes stored, each a pair of the *)
(* job and its place in the document.                                      *)
Contents(g) ==
  {x \in Jobs \X Chunks : request[x[1]].graph = g /\ copies[x[1]][x[2]] > 0}

ServiceInit == Init /\ SnapshotInit

BuildStep ==
  /\ (\E j \in Jobs : CreateJob(j) \/ Enqueue(j)) \/ DispatcherStep \/ Shutdown
  /\ UNCHANGED <<snapshots, readers>>

SnapshotStep ==
  /\ \E r \in Readers :
       \/ \E g \in Graphs : StartRefresh(r, g)
       \/ NodesReply(r, Contents(readers[r].graph))
       \/ EdgesReply(r, Contents(readers[r].graph))
       \/ RefreshFails(r)
  /\ UNCHANGED vars

(* The snapshots are memory of the process, like the jobs.                 *)
ServiceRestart ==
  /\ Restart
  /\ snapshots' = [g \in Graphs |-> NoSnapshot]
  /\ readers' = [r \in Readers |-> Idle]

ServiceNext == BuildStep \/ SnapshotStep \/ ServiceRestart

ServiceSpec == ServiceInit /\ [][ServiceNext]_serviceVars

-----------------------------------------------------------------------------
Episodes == Jobs \X Chunks

SnapshotType ==
  [held : BOOLEAN, nodes : SUBSET Episodes, edges : SUBSET Episodes,
   failed : BOOLEAN]

ReaderType ==
  {Idle} \union [at : {"nodes"}, graph : Graphs]
         \union [at : {"edges"}, graph : Graphs, nodes : SUBSET Episodes]

(* Type correctness of what this module adds to GraphBuild; no snapshot is *)
(* stale that is not held.                                                 *)
ServiceTypeOK ==
  /\ snapshots \in [Graphs -> SnapshotType]
  /\ \A g \in Graphs : ~ snapshots[g].held => snapshots[g] = NoSnapshot
  /\ readers \in [Readers -> ReaderType]

(* A snapshot shows the past of its graph: its nodes were there when its   *)
(* edges were read, and what it shows is still there, also while a build   *)
(* is writing and several refreshes are under way.  (The edges may be of   *)
(* episodes whose nodes were not there yet.)                               *)
SnapshotIsPast ==
  \A g \in Graphs :
    /\ snapshots[g].nodes \subseteq snapshots[g].edges
    /\ snapshots[g].edges \subseteq Contents(g)

(* The last successful snapshot is kept: as long as the process lives a    *)
(* graph that has one keeps one, and a step that leaves it stale leaves    *)
(* its payload alone.                                                      *)
LastSuccessKept ==
  [][ServiceRestart \/ \A g \in Graphs : snapshots[g].held =>
       /\ snapshots'[g].held
       /\ snapshots'[g].failed =>
            snapshots'[g] = [snapshots[g] EXCEPT !.failed = TRUE]]_serviceVars

(* Two refreshes may overlap and the earlier end last: its edges, though   *)
(* not its nodes, are still the more recent ones.                          *)
EdgesNeverRegress ==
  [][ServiceRestart \/ \A g \in Graphs :
       snapshots[g].edges \subseteq snapshots'[g].edges]_serviceVars

=============================================================================
