---------------------------- MODULE GraphTraversal ----------------------------
(***************************************************************************)
(* Reading the knowledge graph (graph/graph_store.py, graph/graph_rag.py)  *)
(* while nobody writes: a graph is the set of its entities and the         *)
(* sequence of its edges, in the order the store yields them.              *)
(***************************************************************************)
EXTENDS Naturals, SequencesExt, FiniteSetsExt, Selection

EdgesOf(g, e) == Those(g.edges, {x \in ToSet(g.edges) : e \in {x.source, x.target}})

OtherEnd(x, e) == IF x.source = e THEN x.target ELSE x.source

(* The neighbours along those edges that have not been visited yet.        *)
Ahead(es, e, visited) ==
  LET ends == [i \in DOMAIN es |-> OtherEnd(es[i], e)]
  IN  Those(ends, ToSet(ends) \ visited)

(* Faulty variant: what was met last is explored first.                    *)
EnqueueFirst(queue, xs) == xs \o queue

Enqueue(queue, xs) == queue \o xs

(* A search is over after that many passes of its loop: each id is expanded*)
(* once, and an edge puts at most its two ends into the queue.             *)
Passes(g) == 1 + 2 * Len(g.edges)

(* One pass of get_neighbors: an id counts as visited when it leaves the   *)
(* queue, so it may wait there several times, and a second time is passed  *)
(* over.                                                                   *)
WalkOn(g, depth, w) ==
  LET at == Head(w.queue)
      seen == w.visited \union {at.id}
      es == IF at.d < depth THEN EdgesOf(g, at.id) ELSE <<>>
      next == Ahead(es, at.id, seen)
  IN  IF at.id \in w.visited THEN [w EXCEPT !.queue = Tail(@)]
      ELSE [queue |-> Enqueue(Tail(w.queue), [i \in DOMAIN next |-> [id |-> next[i], d |-> at.d + 1]]),
            visited |-> seen, edges |-> w.edges \o es]

Walk(g, e, depth) ==
  LET after[n \in 0 .. Passes(g)] ==
        IF n = 0 THEN [queue |-> <<[id |-> e, d |-> 0]>>, visited |-> {}, edges |-> <<>>]
        ELSE LET w == after[n-1] IN IF w.queue = <<>> THEN w ELSE WalkOn(g, depth, w)
  IN  after[Passes(g)]

(* The ids that are no entity's are left out, their edges are not.         *)
Neighbors(g, e, depth) ==
  LET w == Walk(g, e, depth)
  IN  [entities |-> w.visited \intersect g.entities, edges |-> w.edges]

(* One pass of find_path, with the path to each id in the queue.           *)
SeekOn(g, target, maxDepth, s) ==
  LET path == Head(s.queue)
      at == Last(path)
      seen == s.visited \union {at}
      next == Ahead(EdgesOf(g, at), at, seen)
  IN  IF at = target THEN [s EXCEPT !.found = path]
      ELSE IF Len(path) > maxDepth \/ at \in s.visited THEN [s EXCEPT !.queue = Tail(@)]
      ELSE [queue |-> Enqueue(Tail(s.queue), [i \in DOMAIN next |-> Append(path, next[i])]),
            visited |-> seen, found |-> <<>>]

(* <<>> is None.                                                           *)
FindPath(g, source, target, maxDepth) ==
  LET after[n \in 0 .. Passes(g)] ==
        IF n = 0 THEN [queue |-> <<<<source>>>>, visited |-> {}, found |-> <<>>]
        ELSE LET s == after[n-1]
             IN  IF s.queue = <<>> \/ s.found # <<>> THEN s ELSE SeekOn(g, target, maxDepth, s)
  IN  after[Passes(g)].found

(* get_subgraph: the union around the seeds, each edge once.               *)
Subgraph(g, seeds, depth) ==
  [entities |-> UNION {Neighbors(g, seeds[i], depth).entities : i \in DOMAIN seeds},
   edges |-> UNION {ToSet(Neighbors(g, seeds[i], depth).edges) : i \in DOMAIN seeds}]

FirstOf(s, k) == SubSeq(s, 1, Min({k, Len(s)}))

(* search: the hits of the vector search, or, when it fails or finds none, *)
(* the entities that match by name, of which the store gives topK; to      *)
(* MongoDB a limit of 0 is none.                                           *)
Searched(g, hits, matches, topK) ==
  LET named == IF topK = 0 THEN matches ELSE FirstOf(matches, topK)
      seeds == IF hits # <<>> THEN hits ELSE named
  IN  Subgraph(g, FirstOf(seeds, topK), 1)

-----------------------------------------------------------------------------
(* The reference: the ids within k hops, by definition.                    *)
Near(g, e, k) ==
  LET near[n \in 0..k] ==
        IF n = 0 THEN {e}
        ELSE near[n-1] \union {OtherEnd(p[1], p[2]) : p \in
               {q \in ToSet(g.edges) \X near[n-1] : q[2] \in {q[1].source, q[1].target}}}
  IN  near[k]

IsWalk(g, path) ==
  \A i \in 1 .. Len(path) - 1 :
    \E x \in ToSet(g.edges) : {x.source, x.target} = {path[i], path[i+1]}

(* What get_neighbors answers with is what is near, no less and no more:   *)
(* the entities within depth hops that exist, the edges at the ids within  *)
(* depth - 1, and an edge twice only between two ids that were expanded.   *)
NeighborsAreNear(g, e, depth, answer) ==
  LET expanded == IF depth = 0 THEN {} ELSE Near(g, e, depth - 1)
      at(x) == {x.source, x.target} \intersect expanded
      times(x) == Cardinality({i \in DOMAIN answer.edges : answer.edges[i] = x})
  IN  /\ answer.entities = Near(g, e, depth) \intersect g.entities
      /\ \A x \in ToSet(g.edges) : times(x) = Cardinality(at(x))

(* find_path answers with a walk of least length, or with none when there  *)
(* is none within maxDepth hops.                                           *)
PathIsShortest(g, source, target, maxDepth, path) ==
  IF target \notin Near(g, source, maxDepth) THEN path = <<>>
  ELSE /\ path # <<>> /\ path[1] = source /\ Last(path) = target /\ IsWalk(g, path)
       /\ Len(path) = 1 \/ target \notin Near(g, source, Len(path) - 2)

(* search answers with at most topK seeds and what surrounds them.         *)
SearchIsSurrounded(g, hits, matches, topK, answer) ==
  LET seeds == IF hits # <<>> THEN hits ELSE matches
  IN  /\ \A i \in DOMAIN seeds : i =< topK => Near(g, seeds[i], 1) \intersect g.entities \subseteq answer.entities
      /\ answer.entities \subseteq
           UNION {Near(g, seeds[i], 1) : i \in DOMAIN FirstOf(seeds, topK)}
=============================================================================
