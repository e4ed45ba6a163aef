----------------------------- MODULE Conversions -----------------------------
(***************************************************************************)
(* The functions of MiroMem that compute an answer and change nothing,     *)
(* each called once, on any of the inputs that Calls holds.                *)
(***************************************************************************)
EXTENDS GraphTraversal, ThinkerRequests, OntologyCompiler, PayloadShapes,
        GraphQueries, EntityExtraction, Evolution, Bridge

CONSTANT Calls

IsList(s) == s \in Seq(ToSet(s))
GivesOnce(s) == IsList(s) /\ \A i, j \in DOMAIN s : s[i] = s[j] => i = j
IsDict(d) == d = [k \in DOMAIN d |-> d[k]]

(* In Graphiti's models no two fields go by the same names, and no field of*)
(* an extracted entity goes by those of its type.                          *)
FieldsApart(model) ==
  /\ IsList(model.fields)
  /\ \A f, g \in ToSet(model.fields) :
       f # g => ToSet(AliasCandidates(f)) \intersect ToSet(AliasCandidates(g)) = {}
  /\ model.entity => \A f \in ToSet(model.fields) :
       f \notin ToSet(TypeNames) /\ (TypeId \in ToSet(AliasCandidates(f)) => f = TypeId)

IsJsonValue(v) ==
  /\ v = [kind |-> v.kind, items |-> v.items]
  /\ IsList(v.items) /\ \A x \in ToSet(v.items) : IsDict(x)

IsJsonObject(v) ==
  v = [kind |-> "dict", values |-> v.values] /\ IsDict(v.values)
  /\ \A k \in DOMAIN v.values : IsJsonValue(v.values[k])

(* A text is the list of its characters.                                   *)
IsTexts(ts) == IsList(ts) /\ \A t \in ToSet(ts) : IsList(t)

IsRequest(r) ==
  LET e == r.event
  IN  /\ r.body = "json" => e.json # "broken"
      /\ IsList(r.seed) /\ IsList(r.files) /\ \A f \in ToSet(r.files) : IsTexts(f.pages)
      /\ IsTexts(<<e.title, e.question, e.name, e.description, e.subtitle>> \o e.outcomes)
      /\ IsList(e.outcomes) /\ IsList(e.markets)
      /\ \A m \in ToSet(e.markets) : IsTexts(<<m.question, m.title>> \o m.outcomes) /\ IsList(m.outcomes)

(* What the callers of these functions pass, of which the proofs use that  *)
(* lists are lists, texts texts and sizes whole numbers, that there is     *)
(* room for some evidence, that a graph gives each edge once and is walked *)
(* a number of hops, fields that are apart, values JSON has, attributes    *)
(* that are plain, pairs of names between which an answer sees an edge,    *)
(* nodes that Graphiti gives once each, scores that are numbers, and that  *)
(* no more posts are answered than there are messages.                     *)
ASSUME CallsAreSound == \A c \in Calls :
  /\ c.op \in {"neighbors", "path", "search graph"} => GivesOnce(c.graph.edges)
  /\ c.op \in {"neighbors", "path"} => c.depth \in Nat
  /\ c.op = "search graph" => IsList(c.hits) /\ IsList(c.matches) /\ c.topK \in Nat
  /\ c.op \in {"rag chunks", "episodes"} => IsList(c.text) /\ c.size \in Int
  /\ c.op = "episodes" => c.overlap \in Int
  /\ c.op = "upload" => IsTexts(c.files) /\ IsList(c.seed) /\ c.budget \in Nat
  /\ c.op = "topic" => IsList(c.hits) /\ c.most \in Nat
  /\ c.op = "hits" => IsList(c.results)
  /\ c.op = "request" => IsRequest(c.request) /\ c.budget \in Nat \ {0}
  /\ c.op = "ontology" =>
       IsList(c.definitions) /\ \A d \in ToSet(c.definitions) :
         IsList(d.attributes) /\ IsList(d.between) /\ \A a \in ToSet(d.attributes) : IsList(a.name)
  /\ c.op = "shape" =>
       /\ IsList(c.field) /\ c.field # <<>> /\ FieldsApart(c.model)
       /\ c.payload.kind = "list" => IsJsonValue(c.payload)
       /\ c.payload.kind = "dict" => IsJsonObject(c.payload)
  /\ c.op = "attribute" => (c.value.kind = "plain" => c.value.flat)
  /\ c.op = "extract" =>
       /\ IsList(c.reply.names) /\ IsList(c.reply.links)
       /\ \A x \in ToSet(c.reply.links) : x = <<x[1], x[2]>>
  /\ c.op \in {"list", "search"} =>
       /\ IsList(c.nodes) /\ IsList(c.edges)
       /\ \A i, j \in DOMAIN c.nodes : c.nodes[i].uuid = c.nodes[j].uuid => i = j
       /\ "" \notin Uuids(c.nodes)
  /\ c.op \in {"inject", "summary"} =>
       /\ IsList(c.col)
       /\ \A m \in ToSet(c.col) : m.importance \in Int /\ m.age \in Int /\ IsList(m.topics)
  /\ c.op = "inject" =>
       /\ c.k \in Nat /\ \A m \in ToSet(c.col) : c.relevance[m.id] \in Int
       /\ \A f \in {"relevance", "decay", "importance"} : c.weights[f] \in Int
  /\ c.op = "validate" =>
       IsList(c.predictions) /\ \A p \in ToSet(c.predictions) : p.score \in Int
  /\ c.op = "messages" => IsList(c.messages) /\ c.answered \in 0..Len(c.messages)
  /\ c.op = "session" =>
       /\ c.session = [session |-> c.session.session, user |-> c.session.user,
                       created |-> c.session.created, metadata |-> c.session.metadata]
       /\ IsDict(c.session.metadata)
  /\ c.op = "profiles" => IsList(c.profiles)

VARIABLES call, answer

Init == call \in Calls /\ answer = <<>>

Answer(op, a) == call.op = op /\ answer = <<>> /\ answer' = <<a>> /\ UNCHANGED call

Traverse ==
  \/ Answer("neighbors", Neighbors(call.graph, call.from, call.depth))
  \/ Answer("path", FindPath(call.graph, call.from, call.to, call.depth))
  \/ Answer("search graph", Searched(call.graph, call.hits, call.matches, call.topK))

Cut ==
  \/ Answer("rag chunks", RagChunks(call.text, call.size))
  \/ Answer("episodes", EpisodeChunks(call.text, call.size, call.overlap))

Evidence ==
  \/ Answer("upload", UploadEvidence(call.files, call.seed, call.budget))
  \/ Answer("topic", TopicEvidence(call.hits, call.most))
  \/ Answer("hits", SearchHits(call.results))
  \/ Answer("request", ParseJobCreateRequest(call.request))

Compile ==
  \/ Answer("ontology", CompileOntology(call.definitions))
  \/ Answer("shape", NormalizePayloadShape(call.payload, call.field, call.model, call.ids))
  \/ Answer("attribute", MakeFalkorValueSafe(call.value))

Read ==
  \/ Answer("list", ListEntities(call.nodes, call.edges, call.type))
  \/ Answer("search", Search(call.nodes, call.edges))

Extract == Answer("extract", Extracted(call.reply))

Evolve ==
  \/ Answer("inject", Inject(call.col, call.agent, call.relevance, call.weights, call.k))
  \/ Answer("summary", SimulationSummary(call.col, call.registered, call.sim))
  \/ Answer("validate", ValidatePredictions(call.predictions, call.outcomes))

Remember ==
  \/ Answer("messages", Add(call.user, call.messages, call.answered))
  \/ Answer("message", FromHit(MessagePayload(call.message)))
  \/ Answer("named", <<EntityPayload(call.item), EdgePayload(call.item), FactPayload(call.item)>>)
  \/ Answer("session", GetSession(call.session.session, SessionMeta(call.session)))
  \/ Answer("profiles", UserMetadata(call.profiles))
  \/ Answer("merge", MergeProfiles(call.fresh, call.evolved))

Next == Traverse \/ Cut \/ Evidence \/ Compile \/ Read \/ Extract \/ Evolve \/ Remember

Spec == Init /\ [][Next]_<<call, answer>>

-----------------------------------------------------------------------------
Answered(op) == call.op = op /\ answer # <<>>

(* get_neighbors, find_path and search of the graph explore breadth first: *)
(* all that is near and nothing else, and no walk but a shortest.          *)
TraversalIsBreadthFirst ==
  /\ Answered("neighbors") => NeighborsAreNear(call.graph, call.from, call.depth, answer[1])
  /\ Answered("path") => PathIsShortest(call.graph, call.from, call.to, call.depth, answer[1])
  /\ Answered("search graph") =>
       SearchIsSurrounded(call.graph, call.hits, call.matches, call.topK, answer[1])

(* Neither chunker loses a character that is no blank, or runs over a size *)
(* it was given.  The evidence of an upload fills its budget and no more;  *)
(* a request that can be read and lacks nothing is heard if it says        *)
(* anything, and its job has no blank piece of evidence.                   *)
TextIsKept ==
  /\ Answered("rag chunks") => RagChunksCover(call.text, call.size, answer[1])
  /\ Answered("episodes") => EpisodesCover(call.text, call.size, call.overlap, answer[1])
  /\ Answered("upload") =>
       EvidenceWithinBudget(call.files, call.seed, call.budget, answer[1])
  /\ Answered("topic") => Len(answer[1].evidence) =< answer[1].references
  /\ Answered("hits") => \A i \in DOMAIN answer[1] : answer[1][i].title # <<>>
  /\ Answered("request") => RequestIsHeard(call.request, call.budget, answer[1])

(* What is handed to Graphiti has the schema that was declared:            *)
(* compile_ontology loses nothing that an ontology declares, and what an   *)
(* LLM answers keeps its items and their fields however they are named.    *)
SchemaIsMet ==
  /\ Answered("ontology") => OntologyIsKept(call.definitions, answer[1])
  /\ Answered("shape") => ShapeIsMet(call.payload, call.field, call.model, call.ids, answer[1])
  /\ Answered("attribute") => AttributeIsMet(answer[1])

(* What the graph service shows of a graph is consistent, whatever parts   *)
(* of the graph Graphiti answered with.                                    *)
ReadsAgree ==
  /\ Answered("list") => ListIsMutual(call.nodes, call.edges, call.type, answer[1])
  /\ Answered("search") => SearchIsOnce(call.nodes, call.edges, answer[1])

(* An extraction joins only what it extracts.                              *)
ExtractionClosed == Answered("extract") => ExtractionIsClosed(call.reply, answer[1])

(* What one simulation hands to the next is the best it has, summed up as  *)
(* it was marked, and judged by what came true.                            *)
EvolutionIsFair ==
  /\ Answered("inject") =>
       InjectionIsBest(call.col, call.agent, call.relevance, call.weights, call.k, answer[1])
  /\ Answered("summary") =>
       SummariesAgree(call.col, call.registered, call.agent, call.sim, answer[1])
  /\ Answered("validate") => FeedbackIsEarned(call.predictions, call.outcomes, answer[1])

(* What MiroFish hands to the bridge in Zep's terms is in what the bridge  *)
(* sends and reads: messages in order and by whom they were said, a        *)
(* session under its name, names unless an attribute has the same key, and *)
(* profiles with what an agent has learned.                                *)
MemoriesSurvive ==
  /\ Answered("messages") => MessagesSurvive(call.user, call.messages, call.answered, answer[1])
  /\ Answered("message") => answer[1] = FromMessage(call.message)
  /\ Answered("named") => NamesSurvive(call.item, answer[1])
  /\ Answered("session") => SessionSurvives(call.session, answer[1])
  /\ Answered("profiles") => LastWins(call.profiles, answer[1])
  /\ Answered("merge") => ProfilesMerge(call.fresh, call.evolved, answer[1])
=============================================================================
