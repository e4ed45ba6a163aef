----------------------------- MODULE GraphQueries -----------------------------
(***************************************************************************)
(* The reads of the graph service (graph_service/domain/query_service.py,  *)
(* graph_service/domain/snapshot_serializer.py): what they make of the     *)
(* nodes and the edges that Graphiti answers with, two answers that need   *)
(* not agree.                                                              *)
(***************************************************************************)
EXTENDS Naturals, FiniteSets, Selection

Uuids(nodes) == {nodes[i].uuid : i \in DOMAIN nodes}

CustomLabels(labels) == labels \ {"Entity", "Node"}

(* Faulty variant: of an edge that comes in, the far end is the target.    *)
RelatedTarget(edge, uuid) ==
  IF edge.source = uuid THEN [direction |-> "outgoing", other |-> edge.target]
  ELSE [direction |-> "incoming", other |-> edge.target]

(* An edge from a node to itself goes out.                                 *)
Related(edge, uuid) ==
  IF edge.source = uuid THEN [direction |-> "outgoing", other |-> edge.target]
  ELSE [direction |-> "incoming", other |-> edge.source]

(* _serialize_entity: all its edges, and of the nodes at their other ends  *)
(* those that were read.                                                   *)
SerializeEntity(uuid, nodes, edges) ==
  LET touching == Those(edges, {x \in ToSet(edges) : uuid \in {x.source, x.target}})
      related == [i \in DOMAIN touching |-> Related(touching[i], uuid)]
  IN  [uuid |-> uuid, edges |-> related,
       nodes |-> {related[i].other : i \in DOMAIN related} \intersect Uuids(nodes)]

(* list_entities: the nodes that have a label of the ontology, of the type *)
(* that was asked for, if any.                                             *)
ListEntities(nodes, edges, type) ==
  LET shown == Those(nodes, {n \in ToSet(nodes) :
                 /\ CustomLabels(n.labels) # {}
                 /\ type = "any" \/ type \in CustomLabels(n.labels)})
  IN  [entities |-> [i \in DOMAIN shown |-> SerializeEntity(shown[i].uuid, nodes, edges)],
       types |-> UNION {CustomLabels(shown[i].labels) : i \in DOMAIN shown},
       total |-> Len(nodes)]

(* get_entity_detail: none for a node that is not there.                   *)
EntityDetail(uuid, nodes, edges) ==
  IF uuid \in Uuids(nodes) THEN <<SerializeEntity(uuid, nodes, edges)>> ELSE <<>>

(* _dedupe_strings: "" is left out.                                        *)
DedupeStrings(values) ==
  FoldLeft(LAMBDA kept, v : IF v = "" \/ v \in ToSet(kept) THEN kept ELSE Append(kept, v),
           <<>>, values)

(* serialize_edge: an end that is not among the nodes has no name.         *)
NameOf(uuid, nodes) == IF uuid \in Uuids(nodes) THEN uuid ELSE ""

SerializeEdges(nodes, edges) ==
  [i \in DOMAIN edges |->
     [source |-> edges[i].source, target |-> edges[i].target, fact |-> edges[i].fact,
      sourceName |-> NameOf(edges[i].source, nodes), targetName |-> NameOf(edges[i].target, nodes)]]

(* The payload of a snapshot, and of a search with its facts on top.       *)
SerializeSnapshot(nodes, edges) ==
  [nodes |-> Uuids(nodes), edges |-> SerializeEdges(nodes, edges),
   nodeCount |-> Len(nodes), edgeCount |-> Len(edges)]

Search(nodes, edges) ==
  [snapshot |-> SerializeSnapshot(nodes, edges),
   facts |-> DedupeStrings([i \in DOMAIN edges |-> edges[i].fact])]

-----------------------------------------------------------------------------
(* The entities that are listed agree with one another and with the detail *)
(* of each: two that are shown name one another or neither does, as often  *)
(* as edges join them and in opposite directions, an edge to a node that   *)
(* was not read stays without it, and a type filters, it never hides an    *)
(* edge of what it shows.                                                  *)
ListIsMutual(nodes, edges, type, answer) ==
  LET es == answer.entities
      ways(e, direction, other) ==
        Cardinality({k \in DOMAIN e.edges :
          e.edges[k].direction = direction /\ e.edges[k].other = other})
  IN  /\ \A i, j \in DOMAIN es :
           /\ es[j].uuid \in es[i].nodes <=> es[i].uuid \in es[j].nodes
           /\ i # j => ways(es[i], "outgoing", es[j].uuid) = ways(es[j], "incoming", es[i].uuid)
      /\ \A i \in DOMAIN es :
           /\ <<es[i]>> = EntityDetail(es[i].uuid, nodes, edges)
           /\ Len(es[i].edges) = Cardinality({k \in DOMAIN edges :
                                   es[i].uuid \in {edges[k].source, edges[k].target}})
      /\ type # "any" => answer.types = {} \/ type \in answer.types
      /\ Len(es) =< answer.total

(* A search answers with every fact once, in the order of its edges, and   *)
(* names the ends of an edge exactly when it also answers with the node.   *)
SearchIsOnce(nodes, edges, answer) ==
  /\ IsInjective(answer.facts)
  /\ ToSet(answer.facts) = {edges[i].fact : i \in DOMAIN edges} \ {""}
  /\ \A i \in DOMAIN answer.snapshot.edges : LET x == answer.snapshot.edges[i] IN
       /\ x.sourceName # "" <=> x.source \in answer.snapshot.nodes
       /\ x.targetName # "" <=> x.target \in answer.snapshot.nodes
=============================================================================
