--------------------------- MODULE KnowledgeGraph ---------------------------
(***************************************************************************)
(* The knowledge graph in MongoDB (graph/graph_store.py, and the ingestion *)
(* of graph/graph_rag.py): three collections without transactions.  Each   *)
(* request of the API is a coroutine of its own; every await lets others   *)
(* in, and every operation may fail and end the request where it stands.   *)
(***************************************************************************)
EXTENDS Naturals, FiniteSets

CONSTANTS Ids, NoId, Deletes, Ingests, MaxLinks, MaxStored
ASSUME NoIdIsNone == NoId \notin Ids

VARIABLES entities, edges, facts, deletes, ingests, blind

vars == <<entities, edges, facts, deletes, ingests, blind>>

(* An edge and a fact join two ids; nothing checks that they exist.        *)
Pairs == Ids \X Ids

(* Faulty variant: only the edges that start at the entity.                *)
TouchingSource(e) == {x \in Pairs : x[1] = e}

Touching(e) == {x \in Pairs : x[1] = e \/ x[2] = e}

Exists(x) == {x[1], x[2]} \subseteq entities

Idle == [at |-> "idle", entity |-> NoId]
NoIngest == [at |-> "idle", found |-> {}, links |-> {}]

(* The ids an ingestion has drawn and not stored: nobody else knows them.  *)
Unknown == UNION {ingests[i].found : i \in {j \in Ingests : ingests[j].at = "entities"}}

Init ==
  /\ entities = {} /\ edges = {} /\ facts = {} /\ blind = {}
  /\ deletes = [d \in Deletes |-> Idle]
  /\ ingests = [i \in Ingests |-> NoIngest]

(* The unique index refuses an id that is there.                           *)
AddEntity(e) ==
  /\ e \notin entities \union Unknown
  /\ entities' = entities \union {e}
  /\ UNCHANGED <<edges, facts, deletes, ingests, blind>>

(* blind: the edges and facts of which an end was missing when they were   *)
(* stored, by a client that did not look or looked too early.              *)
StoreEdges(xs) ==
  /\ edges' = edges \union xs
  /\ blind' = blind \union {<<"edge", x>> : x \in {y \in xs \ edges : ~ Exists(y)}}

(* Bound of the model: clients add while fewer than MaxStored are there.   *)
RoomForMore == Cardinality(edges) + Cardinality(facts) < MaxStored

(* A second edge between two ids, with an id of its own, is not told apart *)
(* from the first.                                                         *)
AddEdge(x) ==
  /\ RoomForMore /\ x \notin edges /\ {x[1], x[2]} \intersect Unknown = {}
  /\ StoreEdges({x})
  /\ UNCHANGED <<entities, facts, deletes, ingests>>

DeleteEdge(x) ==
  /\ x \in edges
  /\ edges' = edges \ {x}
  /\ blind' = blind \ {<<"edge", x>>}
  /\ UNCHANGED <<entities, facts, deletes, ingests>>

(* Nothing deletes a fact but the end of its subject.                      *)
AddFact(x) ==
  /\ RoomForMore /\ x \notin facts /\ {x[1], x[2]} \intersect Unknown = {}
  /\ facts' = facts \union {x}
  /\ blind' = IF x[1] \in entities THEN blind ELSE blind \union {<<"fact", x>>}
  /\ UNCHANGED <<entities, edges, deletes, ingests>>

-----------------------------------------------------------------------------
(* delete_entity: the entity, then its edges, then the facts about it.  A  *)
(* request that finds no entity (404) does nothing more.                   *)
DeleteEntity(d, e) ==
  /\ deletes[d].at = "idle"
  /\ e \in entities
  /\ entities' = entities \ {e}
  /\ deletes' = [deletes EXCEPT ![d] = [at |-> "edges", entity |-> e]]
  /\ UNCHANGED <<edges, facts, ingests, blind>>

CascadeEdges(d) ==
  /\ deletes[d].at = "edges"
  /\ edges' = edges \ Touching(deletes[d].entity)
  /\ blind' = blind \ {<<"edge", x>> : x \in Touching(deletes[d].entity)}
  /\ deletes' = [deletes EXCEPT ![d].at = "facts"]
  /\ UNCHANGED <<entities, facts, ingests>>

(* Facts of which the entity is the object stay.                           *)
CascadeFacts(d) ==
  /\ deletes[d].at = "facts"
  /\ LET about == {x \in Pairs : x[1] = deletes[d].entity}
     IN  /\ facts' = facts \ about
         /\ blind' = blind \ {<<"fact", x>> : x \in about}
  /\ deletes' = [deletes EXCEPT ![d] = Idle]
  /\ UNCHANGED <<entities, edges, ingests>>

(* The request ends with an error; to repeat it finds no entity.           *)
CascadeFails(d) ==
  /\ deletes[d].at \in {"edges", "facts"}
  /\ deletes' = [deletes EXCEPT ![d].at = IF @ = "edges" THEN "left edges" ELSE "left facts"]
  /\ UNCHANGED <<entities, edges, facts, ingests, blind>>

-----------------------------------------------------------------------------
(* build_from_documents, for each chunk: the model is asked, the entities  *)
(* it names get new ids and are stored, then its edges between them.       *)
Fresh(e) ==
  /\ e \notin entities \union Unknown
  /\ Touching(e) \intersect (edges \union facts) = {}
  /\ \A d \in Deletes : deletes[d].entity # e
  /\ \A i \in Ingests : e \notin ingests[i].found

Extract(i) ==
  /\ ingests[i].at = "idle"
  /\ \E found \in SUBSET {e \in Ids : Fresh(e)} : \E links \in SUBSET (found \X found) :
       /\ Cardinality(links) =< MaxLinks
       /\ ingests' = [ingests EXCEPT
            ![i] = [at |-> "entities", found |-> found, links |-> links]]
  /\ UNCHANGED <<entities, edges, facts, deletes, blind>>

StoreEntities(i) ==
  /\ ingests[i].at = "entities"
  /\ entities' = entities \union ingests[i].found
  /\ ingests' = [ingests EXCEPT ![i].at = "edges"]
  /\ UNCHANGED <<edges, facts, deletes, blind>>

(* To the next chunk, or the end: an entity that was deleted in between    *)
(* leaves its edges behind.                                                *)
StoreLinks(i) ==
  /\ ingests[i].at = "edges"
  /\ StoreEdges(ingests[i].links)
  /\ ingests' = [ingests EXCEPT ![i] = NoIngest]
  /\ UNCHANGED <<entities, facts, deletes>>

(* insert_many stops at the document it fails at, or loses its reply: the  *)
(* documents before it stay, and the ingestion ends there.                 *)
IngestFails(i) ==
  /\ \/ /\ ingests[i].at = "entities"
        /\ \E part \in SUBSET ingests[i].found : entities' = entities \union part
        /\ UNCHANGED <<edges, blind>>
     \/ /\ ingests[i].at = "edges"
        /\ \E part \in SUBSET ingests[i].links : StoreEdges(part)
        /\ UNCHANGED entities
  /\ ingests' = [ingests EXCEPT ![i] = NoIngest]
  /\ UNCHANGED <<facts, deletes>>

Next ==
  \/ \E e \in Ids : AddEntity(e)
  \/ \E x \in Pairs : AddEdge(x) \/ DeleteEdge(x) \/ AddFact(x)
  \/ \E d \in Deletes :
       (\E e \in Ids : DeleteEntity(d, e)) \/ CascadeEdges(d) \/ CascadeFacts(d) \/ CascadeFails(d)
  \/ \E i \in Ingests : Extract(i) \/ StoreEntities(i) \/ StoreLinks(i) \/ IngestFails(i)

Spec == Init /\ [][Next]_vars

-----------------------------------------------------------------------------
(* An edge without one of its ends, and a fact without its subject, has    *)
(* one of two reasons: it was stored that way, or the deletion of that     *)
(* very entity has yet to reach it, or failed before it did.  However      *)
(* requests interleave, no finished deletion leaves an edge or a fact      *)
(* behind that was sound when it was stored.                               *)
Cascading(e, stages) == \E d \in Deletes : deletes[d].entity = e /\ deletes[d].at \in stages

DanglingIsExplained ==
  /\ \A x \in edges : \A e \in {x[1], x[2]} \ entities :
       <<"edge", x>> \in blind \/ Cascading(e, {"edges", "left edges"})
  /\ \A x \in facts : x[1] \notin entities =>
       \/ <<"fact", x>> \in blind
       \/ Cascading(x[1], {"edges", "facts", "left edges", "left facts"})
=============================================================================
