------------------------- MODULE KnowledgeGraphProofs -------------------------
(***************************************************************************)
(* Proofs about KnowledgeGraph, for any number of ids, deletions and       *)
(* ingestions: an edge or a fact dangles for a reason.                     *)
(***************************************************************************)
EXTENDS KnowledgeGraph, TLAPS

DeleteStages == {"idle", "edges", "facts", "left edges", "left facts"}
IngestStages == {"idle", "entities", "edges"}

(* The links of an ingestion are between ids.                              *)
GraphTypeOK ==
  /\ entities \subseteq Ids
  /\ edges \subseteq Pairs
  /\ facts \subseteq Pairs
  /\ deletes \in [Deletes -> [at : DeleteStages, entity : Ids \union {NoId}]]
  /\ ingests \in [Ingests -> [at : IngestStages, found : SUBSET Ids, links : SUBSET Pairs]]

EdgesExplained ==
  \A x \in edges : \A e \in {x[1], x[2]} \ entities :
    <<"edge", x>> \in blind \/ Cascading(e, {"edges", "left edges"})

FactsExplained ==
  \A x \in facts : x[1] \notin entities =>
    \/ <<"fact", x>> \in blind
    \/ Cascading(x[1], {"edges", "facts", "left edges", "left facts"})

GraphInv == GraphTypeOK /\ EdgesExplained /\ FactsExplained

-----------------------------------------------------------------------------
(* The variables keep their types. *)
LEMMA GraphTyped == ASSUME GraphTypeOK, [Next]_vars PROVE GraphTypeOK'
<1> USE DEF GraphTypeOK
<1>1. ASSUME NEW e \in Ids, AddEntity(e) PROVE GraphTypeOK'
  BY <1>1 DEF AddEntity
<1>2. ASSUME NEW x \in Pairs, AddEdge(x) PROVE GraphTypeOK'
  BY <1>2 DEF AddEdge, StoreEdges
<1>3. ASSUME NEW x \in Pairs, DeleteEdge(x) PROVE GraphTypeOK'
  BY <1>3 DEF DeleteEdge
<1>4. ASSUME NEW x \in Pairs, AddFact(x) PROVE GraphTypeOK'
  BY <1>4 DEF AddFact
<1>5. ASSUME NEW d \in Deletes, NEW e \in Ids, DeleteEntity(d, e) PROVE GraphTypeOK'
  <2>1. [at |-> "edges", entity |-> e] \in [at : DeleteStages, entity : Ids \union {NoId}]
    BY DEF DeleteStages
  <2>2. QED
    BY <1>5, <2>1 DEF DeleteEntity
<1>6. ASSUME NEW d \in Deletes, CascadeEdges(d) PROVE GraphTypeOK'
  BY <1>6 DEF CascadeEdges, DeleteStages
<1>7. ASSUME NEW d \in Deletes, CascadeFacts(d) PROVE GraphTypeOK'
  <2>1. Idle \in [at : DeleteStages, entity : Ids \union {NoId}]
    BY DEF DeleteStages, Idle
  <2>2. QED
    BY <1>7, <2>1 DEF CascadeFacts
<1>8. ASSUME NEW d \in Deletes, CascadeFails(d) PROVE GraphTypeOK'
  BY <1>8 DEF CascadeFails, DeleteStages
<1>9. ASSUME NEW i \in Ingests, Extract(i) PROVE GraphTypeOK'
  <2>1. PICK found \in SUBSET Ids, links \in SUBSET (Ids \X Ids) :
          ingests' = [ingests EXCEPT ![i] = [at |-> "entities", found |-> found, links |-> links]]
    BY <1>9 DEF Extract
  <2>2. [at |-> "entities", found |-> found, links |-> links]
          \in [at : IngestStages, found : SUBSET Ids, links : SUBSET Pairs]
    BY DEF IngestStages, Pairs
  <2>3. QED
    BY <1>9, <2>1, <2>2 DEF Extract
<1>10. NoIngest \in [at : IngestStages, found : SUBSET Ids, links : SUBSET Pairs]
  BY DEF NoIngest, IngestStages
<1>11. ASSUME NEW i \in Ingests, StoreEntities(i) PROVE GraphTypeOK'
  BY <1>11 DEF StoreEntities, IngestStages
<1>12. ASSUME NEW i \in Ingests, StoreLinks(i) PROVE GraphTypeOK'
  BY <1>10, <1>12 DEF StoreLinks, StoreEdges
<1>13. ASSUME NEW i \in Ingests, IngestFails(i) PROVE GraphTypeOK'
  BY <1>10, <1>13 DEF IngestFails, StoreEdges
<1>14. CASE UNCHANGED vars
  BY <1>14 DEF vars
<1>15. QED
  BY <1>1, <1>2, <1>3, <1>4, <1>5, <1>6, <1>7, <1>8, <1>9, <1>11, <1>12, <1>13, <1>14 DEF Next

-----------------------------------------------------------------------------
(* An explanation holds on while its entity's deletion goes no further, or *)
(* fails.                                                                  *)
LEMMA CascadingLasts ==
  ASSUME GraphTypeOK, NEW e, NEW d, Cascading(e, {"edges", "left edges"}),
         \A c \in Deletes : c # d => deletes'[c] = deletes[c],
         d \in Deletes /\ deletes[d].at \in {"edges", "left edges"} =>
           /\ deletes'[d].at \in {"edges", "left edges"}
           /\ deletes'[d].entity = deletes[d].entity
  PROVE  Cascading(e, {"edges", "left edges"})'
BY DEF Cascading

(* So does that of a fact.                                                 *)
LEMMA CascadingFactsLasts ==
  ASSUME GraphTypeOK, NEW e, NEW d,
         Cascading(e, {"edges", "facts", "left edges", "left facts"}),
         \A c \in Deletes : c # d => deletes'[c] = deletes[c],
         d \in Deletes /\ deletes[d].at # "idle" =>
           /\ deletes'[d].at \in {"edges", "facts", "left edges", "left facts"}
           /\ deletes'[d].entity = deletes[d].entity
  PROVE  Cascading(e, {"edges", "facts", "left edges", "left facts"})'
BY DEF Cascading

(* While no deletion moves and no entity goes, it is enough to look at     *)
(* what is stored.                                                         *)
LEMMA StoringExplains ==
  ASSUME GraphInv, UNCHANGED deletes, entities \subseteq entities',
         \A x \in edges' : \/ x \in edges /\ (<<"edge", x>> \in blind => <<"edge", x>> \in blind')
                           \/ <<"edge", x>> \in blind' \/ {x[1], x[2]} \subseteq entities',
         \A x \in facts' : \/ x \in facts /\ (<<"fact", x>> \in blind => <<"fact", x>> \in blind')
                           \/ <<"fact", x>> \in blind' \/ x[1] \in entities'
  PROVE  EdgesExplained' /\ FactsExplained'
<1>1. EdgesExplained'
  BY DEF GraphInv, EdgesExplained, Cascading
<1>2. FactsExplained'
  BY DEF GraphInv, FactsExplained, Cascading
<1>3. QED
  BY <1>1, <1>2

(* What a client or an ingestion stores is sound, or blind.                *)
LEMMA StoredEdgesExplained ==
  ASSUME GraphInv, NEW xs, StoreEdges(xs), UNCHANGED <<entities, facts, deletes>>
  PROVE  EdgesExplained' /\ FactsExplained'
<1>1. \A x \in edges' : \/ x \in edges /\ (<<"edge", x>> \in blind => <<"edge", x>> \in blind')
                        \/ <<"edge", x>> \in blind' \/ {x[1], x[2]} \subseteq entities'
  BY DEF StoreEdges, Exists
<1>2. blind \subseteq blind'
  BY DEF StoreEdges
<1>3. QED
  BY <1>1, <1>2, StoringExplains

-----------------------------------------------------------------------------
(* A deletion explains what its entity leaves dangling. *)
LEMMA DeleteEntityExplains ==
  ASSUME GraphInv, NEW d \in Deletes, NEW e \in Ids, DeleteEntity(d, e)
  PROVE  EdgesExplained' /\ FactsExplained'
<1>1. /\ deletes'[d].at = "edges" /\ deletes'[d].entity = e
      /\ \A c \in Deletes : c # d => deletes'[c] = deletes[c]
      /\ deletes[d].at = "idle"
      /\ entities' = entities \ {e} /\ edges' = edges /\ facts' = facts /\ blind' = blind
  BY DEF DeleteEntity, GraphInv, GraphTypeOK
<1>2. EdgesExplained'
  <2> SUFFICES ASSUME NEW x \in edges, NEW f \in {x[1], x[2]}, f \notin entities'
               PROVE  <<"edge", x>> \in blind \/ Cascading(f, {"edges", "left edges"})'
    BY <1>1 DEF EdgesExplained
  <2>1. CASE f = e
    BY <1>1, <2>1 DEF Cascading
  <2>2. CASE f # e
    <3>1. <<"edge", x>> \in blind \/ Cascading(f, {"edges", "left edges"})
      BY <1>1, <2>2 DEF GraphInv, EdgesExplained
    <3>2. QED
      BY <1>1, <3>1, CascadingLasts DEF GraphInv
  <2>3. QED
    BY <2>1, <2>2
<1>3. FactsExplained'
  <2> SUFFICES ASSUME NEW x \in facts, x[1] \notin entities'
               PROVE  \/ <<"fact", x>> \in blind
                      \/ Cascading(x[1], {"edges", "facts", "left edges", "left facts"})'
    BY <1>1 DEF FactsExplained
  <2>1. CASE x[1] = e
    BY <1>1, <2>1 DEF Cascading
  <2>2. CASE x[1] # e
    <3>1. \/ <<"fact", x>> \in blind
          \/ Cascading(x[1], {"edges", "facts", "left edges", "left facts"})
      BY <1>1, <2>2 DEF GraphInv, FactsExplained
    <3>2. QED
      BY <1>1, <3>1 DEF Cascading
  <2>3. QED
    BY <2>1, <2>2
<1>4. QED
  BY <1>2, <1>3

(* Once its edges are gone, an entity needs no explanation for them. *)
LEMMA CascadeEdgesExplains ==
  ASSUME GraphInv, NEW d \in Deletes, CascadeEdges(d)
  PROVE  EdgesExplained' /\ FactsExplained'
<1> DEFINE e == deletes[d].entity
<1>1. /\ deletes[d].at = "edges" /\ deletes'[d].at = "facts" /\ deletes'[d].entity = e
      /\ \A c \in Deletes : c # d => deletes'[c] = deletes[c]
      /\ entities' = entities /\ facts' = facts
      /\ edges' = edges \ Touching(e)
      /\ blind' = blind \ {<<"edge", x>> : x \in Touching(e)}
  BY DEF CascadeEdges, GraphInv, GraphTypeOK
<1>2. EdgesExplained'
  <2> SUFFICES ASSUME NEW x \in edges', NEW f \in {x[1], x[2]}, f \notin entities
               PROVE  <<"edge", x>> \in blind' \/ Cascading(f, {"edges", "left edges"})'
    BY <1>1 DEF EdgesExplained
  <2>1. x \in edges /\ x \notin Touching(e) /\ f # e
    BY <1>1 DEF GraphInv, GraphTypeOK, Touching
  <2>2. <<"edge", x>> \in blind \/ Cascading(f, {"edges", "left edges"})
    BY <2>1 DEF GraphInv, EdgesExplained
  <2>3. QED
    BY <1>1, <2>1, <2>2 DEF Cascading
<1>3. FactsExplained'
  <2> SUFFICES ASSUME NEW x \in facts, x[1] \notin entities
               PROVE  \/ <<"fact", x>> \in blind'
                      \/ Cascading(x[1], {"edges", "facts", "left edges", "left facts"})'
    BY <1>1 DEF FactsExplained
  <2>1. \/ <<"fact", x>> \in blind
        \/ Cascading(x[1], {"edges", "facts", "left edges", "left facts"})
    BY DEF GraphInv, FactsExplained
  <2>2. QED
    BY <1>1, <2>1, CascadingFactsLasts DEF GraphInv
<1>4. QED
  BY <1>2, <1>3

(* The end of a deletion takes the facts with it that it explained. *)
LEMMA CascadeFactsExplains ==
  ASSUME GraphInv, NEW d \in Deletes, CascadeFacts(d)
  PROVE  EdgesExplained' /\ FactsExplained'
<1> DEFINE e == deletes[d].entity
           about == {x \in Pairs : x[1] = e}
<1>1. /\ deletes[d].at = "facts"
      /\ \A c \in Deletes : c # d => deletes'[c] = deletes[c]
      /\ entities' = entities /\ edges' = edges
      /\ facts' = facts \ about
      /\ blind' = blind \ {<<"fact", x>> : x \in about}
  BY DEF CascadeFacts, GraphInv, GraphTypeOK
<1>2. EdgesExplained'
  <2> SUFFICES ASSUME NEW x \in edges, NEW f \in {x[1], x[2]}, f \notin entities
               PROVE  <<"edge", x>> \in blind' \/ Cascading(f, {"edges", "left edges"})'
    BY <1>1 DEF EdgesExplained
  <2>1. <<"edge", x>> \in blind \/ Cascading(f, {"edges", "left edges"})
    BY DEF GraphInv, EdgesExplained
  <2>2. QED
    BY <1>1, <2>1 DEF Cascading
<1>3. FactsExplained'
  <2> SUFFICES ASSUME NEW x \in facts', x[1] \notin entities
               PROVE  \/ <<"fact", x>> \in blind'
                      \/ Cascading(x[1], {"edges", "facts", "left edges", "left facts"})'
    BY <1>1 DEF FactsExplained
  <2>1. x \in facts /\ x \notin about /\ x[1] # e
    BY <1>1 DEF GraphInv, GraphTypeOK
  <2>2. \/ <<"fact", x>> \in blind
        \/ Cascading(x[1], {"edges", "facts", "left edges", "left facts"})
    BY <2>1 DEF GraphInv, FactsExplained
  <2>3. QED
    BY <1>1, <2>1, <2>2 DEF Cascading
<1>4. QED
  BY <1>2, <1>3

(* A failed deletion explains what it left for ever. *)
LEMMA CascadeFailsExplains ==
  ASSUME GraphInv, NEW d \in Deletes, CascadeFails(d)
  PROVE  EdgesExplained' /\ FactsExplained'
<1>1. /\ deletes[d].at \in {"edges", "facts"}
      /\ deletes'[d].at = IF deletes[d].at = "edges" THEN "left edges" ELSE "left facts"
      /\ deletes'[d].entity = deletes[d].entity
      /\ \A c \in Deletes : c # d => deletes'[c] = deletes[c]
      /\ UNCHANGED <<entities, edges, facts, blind>>
  BY DEF CascadeFails, GraphInv, GraphTypeOK
<1>2. EdgesExplained'
  BY <1>1, CascadingLasts DEF GraphInv, EdgesExplained
<1>3. FactsExplained'
  BY <1>1, CascadingFactsLasts DEF GraphInv, FactsExplained
<1>4. QED
  BY <1>2, <1>3

-----------------------------------------------------------------------------
LEMMA GraphInit == Init => GraphInv
<1> SUFFICES ASSUME Init PROVE GraphInv
  OBVIOUS
<1>1. Idle \in [at : DeleteStages, entity : Ids \union {NoId}]
  BY DEF DeleteStages, Idle
<1>2. NoIngest \in [at : IngestStages, found : SUBSET Ids, links : SUBSET Pairs]
  BY DEF NoIngest, IngestStages
<1>3. QED
  BY <1>1, <1>2 DEF Init, GraphInv, GraphTypeOK, EdgesExplained, FactsExplained

LEMMA GraphStep == GraphInv /\ [Next]_vars => GraphInv'
<1> SUFFICES ASSUME GraphInv, [Next]_vars PROVE EdgesExplained' /\ FactsExplained'
  BY GraphTyped DEF GraphInv
<1>1. ASSUME NEW e \in Ids, AddEntity(e) PROVE EdgesExplained' /\ FactsExplained'
  BY <1>1, StoringExplains DEF AddEntity
<1>2. ASSUME NEW x \in Pairs, AddEdge(x) PROVE EdgesExplained' /\ FactsExplained'
  BY <1>2, StoredEdgesExplained DEF AddEdge
<1>3. ASSUME NEW x \in Pairs, DeleteEdge(x) PROVE EdgesExplained' /\ FactsExplained'
  BY <1>3, StoringExplains DEF DeleteEdge
<1>4. ASSUME NEW x \in Pairs, AddFact(x) PROVE EdgesExplained' /\ FactsExplained'
  BY <1>4, StoringExplains DEF AddFact
<1>5. ASSUME NEW i \in Ingests, Extract(i) PROVE EdgesExplained' /\ FactsExplained'
  BY <1>5, StoringExplains DEF Extract
<1>6. ASSUME NEW i \in Ingests, StoreEntities(i) PROVE EdgesExplained' /\ FactsExplained'
  BY <1>6, StoringExplains DEF StoreEntities
<1>7. ASSUME NEW i \in Ingests, StoreLinks(i) PROVE EdgesExplained' /\ FactsExplained'
  BY <1>7, StoredEdgesExplained DEF StoreLinks
<1>8. ASSUME NEW i \in Ingests, IngestFails(i) PROVE EdgesExplained' /\ FactsExplained'
  <2>1. CASE \E part \in SUBSET ingests[i].found : entities' = entities \union part /\ UNCHANGED <<edges, blind>>
    BY <1>8, <2>1, StoringExplains DEF IngestFails
  <2>2. CASE \E part \in SUBSET ingests[i].links : StoreEdges(part) /\ UNCHANGED entities
    BY <1>8, <2>2, StoredEdgesExplained DEF IngestFails
  <2>3. QED
    BY <1>8, <2>1, <2>2 DEF IngestFails
<1>9. CASE UNCHANGED vars
  BY <1>9, StoringExplains DEF vars
<1>10. QED
  BY <1>1, <1>2, <1>3, <1>4, <1>5, <1>6, <1>7, <1>8, <1>9,
     DeleteEntityExplains, CascadeEdgesExplains, CascadeFactsExplains, CascadeFailsExplains
     DEF Next

(* However requests interleave and fail, whatever dangles in the knowledge *)
(* graph was stored dangling, or is on the way of a deletion that has not  *)
(* reached it or failed before it did.                                     *)
THEOREM Dangling == Spec => []DanglingIsExplained
<1>1. GraphInv => DanglingIsExplained
  BY DEF GraphInv, EdgesExplained, FactsExplained, DanglingIsExplained
<1>2. QED
  BY <1>1, GraphInit, GraphStep, PTL DEF Spec
=============================================================================
