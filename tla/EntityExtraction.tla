--------------------------- MODULE EntityExtraction ---------------------------
(***************************************************************************)
(* What entity_extractor.py (graph/) makes of the model's answer for one   *)
(* chunk: entities, each under the first name it was met by, and edges     *)
(* between them.  A name is in lower case; Similar(n, k) says that the     *)
(* ratio of n to the known name k reaches the threshold.                   *)
(***************************************************************************)
EXTENDS Naturals, Selection

CONSTANTS Similar(_, _)

(* The known names that a name stands for, in the order they were met.     *)
Alike(name, known) == Those(known, {k \in ToSet(known) : Similar(name, k)})

(* Faulty variant: only a name that is known.                              *)
FindExact(name, known) == IF name \in ToSet(known) THEN <<name>> ELSE <<>>

(* _find_similar; <<>> is None.                                            *)
FindSimilar(name, known) ==
  IF name \in ToSet(known) THEN <<name>>
  ELSE IF Alike(name, known) # <<>> THEN <<Alike(name, known)[1]>> ELSE <<>>

(* A blank name is no entity, a similar one no other.                      *)
Entities(names) ==
  FoldLeft(LAMBDA known, n :
             IF n = "" \/ FindSimilar(n, known) # <<>> THEN known ELSE Append(known, n),
           <<>>, names)

(* An edge of which either end is no entity is dropped.                    *)
Edges(links, known) ==
  LET found == Those(links, {x \in ToSet(links) :
                 FindSimilar(x[1], known) # <<>> /\ FindSimilar(x[2], known) # <<>>})
  IN  [i \in DOMAIN found |->
         <<FindSimilar(found[i][1], known)[1], FindSimilar(found[i][2], known)[1]>>]

(* extract: nothing at all of an answer that is not JSON.                  *)
Extracted(reply) ==
  IF reply.json = "broken" THEN [entities |-> <<>>, edges |-> <<>>]
  ELSE [entities |-> Entities(reply.names), edges |-> Edges(reply.links, Entities(reply.names))]

-----------------------------------------------------------------------------
(* Every name the model gave is an entity or like one that was met before, *)
(* no entity is like an earlier one, and every edge joins entities, its    *)
(* own by name where they are known by it, in the direction it was given.  *)
ExtractionIsClosed(reply, answer) ==
  LET known == answer.entities
      standsFor(n, e) == n = e \/ (n \notin ToSet(known) /\ Similar(n, e))
  IN  /\ \A i, j \in DOMAIN known :
           i < j => known[i] # known[j] /\ ~ Similar(known[j], known[i])
      /\ reply.json = "sound" =>
           \A n \in ToSet(reply.names) \ {""} :
             n \in ToSet(known) \/ \E e \in ToSet(known) : Similar(n, e)
      /\ \A i \in DOMAIN answer.edges :
           /\ ToSet(answer.edges[i]) \subseteq ToSet(known)
           /\ \E x \in ToSet(reply.links) :
                standsFor(x[1], answer.edges[i][1]) /\ standsFor(x[2], answer.edges[i][2])
      /\ reply.json = "sound" =>
           \A x \in ToSet(reply.links) :
             ToSet(x) \subseteq ToSet(known) => x \in ToSet(answer.edges)
=============================================================================
