---------------------------- MODULE MCConversions ----------------------------
(***************************************************************************)
(* Conversions on small inputs of every kind: graphs of four ids, texts of *)
(* up to six characters, two definitions of an ontology, three nodes of a  *)
(* graph, three names of an extraction, and five memories.                 *)
(***************************************************************************)
EXTENDS Conversions

UpTo(set, n) == UNION {[1..k -> set] : k \in 0..n}

-----------------------------------------------------------------------------
Ids == 1..4
Arcs == {<<1, 2>>, <<2, 3>>, <<3, 4>>, <<4, 1>>, <<3, 1>>, <<2, 2>>, <<2, 1>>}
Edge(p) == [source |-> p[1], target |-> p[2]]

(* Also with an id that is no entity's: an edge may outlive its end.       *)
SomeGraphs ==
  {[entities |-> es, edges |-> SetToSeq({Edge(p) : p \in ps})] :
     es \in {Ids, {1, 2, 4}}, ps \in SUBSET Arcs}

TraversalCalls ==
  [op : {"neighbors"}, graph : SomeGraphs, from : Ids, depth : 0..3]
  \union [op : {"path"}, graph : {g \in SomeGraphs : g.entities = Ids},
          from : Ids, to : Ids, depth : 0..3]
  \union [op : {"search graph"}, graph : SomeGraphs, hits : {<<>>, <<2>>, <<1, 3>>, <<3, 3, 1>>},
          matches : {<<>>, <<4, 1>>}, topK : 0..2]

-----------------------------------------------------------------------------
Words6 == UpTo({"a", " "}, 6)

ChunkCalls ==
  [op : {"rag chunks"}, text : UpTo({"a", ".", " ", "\n"}, 5), size : 0..4]
  \union [op : {"episodes"}, text : Words6, size : -1..4, overlap : -1..4]

Files == {<<>>, <<" ">>, <<"a">>, <<"a", "a", " ">>, <<"a", " ", " ", "a">>, <<"a", "a", " ", "a">>}
Parts == {<<>>, <<" ">>, <<" ", "a">>}

EvidenceCalls ==
  [op : {"upload"}, files : UpTo(Files, 3), seed : {<<>>, <<"a", " ", "a">>}, budget : 1..5]
  \union [op : {"topic"}, hits : UpTo([1..3 -> {<<>>, <<"a">>}], 2), most : 1..2]
  \union [op : {"hits"}, results : UpTo([url : {<<>>, <<"a">>}, link : {<<>>, <<"b">>}, title : {<<>>, <<" ">>},
                                         name : {<<>>, <<"n">>}, snippet : {<<>>}, description : {<<"d">>}], 2)]

(* Events of two markets, and files of up to two pages.                    *)
Event(json, title, question, outcomes, markets) ==
  [json |-> json, title |-> title, question |-> question, name |-> <<>>, description |-> <<" ">>,
   subtitle |-> <<>>, outcomes |-> outcomes, markets |-> markets]

Markets == [question : {<<>>, <<"q">>}, title : {<<" ">>}, outcomes : {<<>>, <<<<"y">>, <<" ">>>>}]
NoEvent == Event("none", <<>>, <<>>, <<>>, <<>>)
Events ==
  {[NoEvent EXCEPT !.json = j] : j \in {"none", "empty", "no object", "broken"}}
  \union {Event("object", t, q, o, m) : t \in Parts, q \in {<<>>, <<"q">>},
                                      o \in {<<>>, <<<<" ">>>>, <<<<"y">>, <<"n">>>>},
                                      m \in UpTo(Markets, 2)}

Uploads ==
  [suffix : {".txt", ".exe"}, sound : {TRUE}, named : {TRUE}, pages : {<<<<" ">>>>, <<<<"a", " ">>>>}]
  \union [suffix : {".pdf"}, sound : BOOLEAN, named : {TRUE}, pages : UpTo({<<" ">>, <<"a">>}, 2)]

MaybeNamed == [suffix : {".md"}, sound : {TRUE}, named : BOOLEAN, pages : {<<>>, <<<<"a">>>>}]

Request(body, mode, seed, files, event) ==
  [body |-> body, mode |-> mode, direction |-> TRUE, seed |-> seed, files |-> files, event |-> event]

RequestCalls ==
  [op : {"request"}, budget : {1, 3},
   request : {Request(b, m, s, f, e) :
                b \in {"form", "json", "broken"}, m \in {"topic_only", "upload", "else"},
                s \in Parts, f \in UpTo(Uploads, 2), e \in {NoEvent}}
             \union {Request("form", m, <<" ", "a">>, f, [NoEvent EXCEPT !.json = "broken"]) :
                        m \in {"topic_only", "upload"}, f \in UpTo(Uploads, 2)}
             \union {[Request(b, m, s, f, NoEvent) EXCEPT !.direction = d] :
                        b \in {"form", "json"}, m \in {"topic_only", "upload"},
                        s \in Parts, f \in UpTo(MaybeNamed, 2), d \in BOOLEAN}
             \union {Request(b, "polymarket", <<>>, <<>>, e) :
                        b \in {"form"}, e \in Events}
             \union {Request(b, "polymarket", <<>>, <<>>, e) :
                        b \in {"json"}, e \in {x \in Events : x.json # "broken"}}]

-----------------------------------------------------------------------------
MCLower == [w \in {"uuid", "UUID", "role", "entity_"} |-> IF w = "UUID" THEN "uuid" ELSE w]
MCReserved == {<<"uuid">>}

Attribute(name, type) == [name |-> name, type |-> type]
Attributes ==
  {<<>>, <<Attribute(<<"role">>, "text")>>, <<Attribute(<<"UUID">>, "int")>>,
   <<Attribute(<<"uuid">>, "int"), Attribute(<<"role">>, "date")>>,
   <<Attribute(<<"uuid">>, "int"), Attribute(<<"entity_", "uuid">>, "bool")>>,
   <<Attribute(<<"role">>, "int"), Attribute(<<"role">>, "bool")>>}

Definitions ==
  [name : {"knows", "owns"}, attributes : Attributes,
   between : UpTo({<<"person", "person">>, <<"person", "Entity">>}, 2)]

OntologyCalls == [op : {"ontology"}, definitions : UpTo(Definitions, 2)]

Extracted2 == <<"extracted", "entities">>
EntityModel == [fields |-> <<<<"name">>, TypeId>>, entity |-> TRUE]
EdgeModel ==
  [fields |-> <<<<"source", "entity", "name">>, <<"target", "entity", "name">>>>, entity |-> FALSE]

(* A value of its own for each name, so that none can stand for another.   *)
Item(names, type) ==
  [n \in names |-> IF n \in ToSet(TypeNames) THEN type ELSE ToString(n)]

EntityItems ==
  {Item(ns \union ts, type) :
     ns \in SUBSET {<<"name">>, <<"entity", "name">>, <<"camel", "entity", "name">>, <<"text">>},
     ts \in SUBSET {<<"type">>, <<"entity", "type">>, <<"camel", "entity", "type", "id">>},
     type \in {"", "person", "company", "else"}}
EdgeItems ==
  {Item(ns, "") : ns \in SUBSET {<<"source">>, <<"target">>, <<"target", "name">>,
                                 <<"flat", "source", "entity", "name">>, <<"fact">>}}

Nothing(kind) == [kind |-> kind, items |-> <<>>]
ListOf(items) == [kind |-> "list", items |-> items]
ListNames == {Extracted2, <<"entities">>, <<"camel", "extracted", "entities">>, <<"data">>, <<"found">>}
Dict(values) == [kind |-> "dict", values |-> values]

(* Each item under each name, and every combination of what is listed.     *)
PayloadsOf(items) ==
  UNION {{ListOf(<<i>>), Dict([n \in {Extracted2} |-> ListOf(<<i>>)]),
          Dict([n \in {<<"found">>} |-> ListOf(<<i>>)])} : i \in items}
  \union {Nothing("null"), Nothing("text")}

Shapes(i) ==
  UNION {{Dict(f) : f \in [ns -> {ListOf(<<i>>), ListOf(<<i, i>>), Nothing("null"), Nothing("text")}]} :
         ns \in {ms \in SUBSET ListNames : Cardinality(ms) < 4}}

TypeNumbers == {[n \in {} |-> "0"], [n \in {"person", "organization"} |-> n]}

SchemaCalls ==
  [op : {"shape"}, payload : PayloadsOf(EntityItems) \union Shapes(Item({<<"entity", "name">>}, "")),
   field : {Extracted2}, model : {EntityModel}, ids : TypeNumbers]
  \union [op : {"shape"}, payload : PayloadsOf(EdgeItems), field : {<<"edges">>}, model : {EdgeModel},
          ids : TypeNumbers]
  \union [op : {"attribute"}, 
          value : {v \in [kind : {"plain", "list", "tuple", "dict", "other"}, flat : BOOLEAN] :
                     v.kind = "plain" => v.flat}]

-----------------------------------------------------------------------------
Labels == {{"Entity"}, {"Entity", "Person"}, {"Node", "Org"}}
Nodes == UNION {{[i \in 1..Len(us) |-> [uuid |-> us[i], labels |-> f[i]]] :
                   f \in [1..Len(us) -> Labels]} :
                us \in {<<>>, <<"u">>, <<"u", "v">>, <<"w", "u">>, <<"u", "v", "w">>}}

Link(s, t, f) == [source |-> s, target |-> t, fact |-> f]
Links == {Link("u", "v", "f"), Link("v", "u", "f"), Link("v", "w", "g"),
          Link("w", "w", ""), Link("w", "u", "f"), Link("u", "v", "g")}
EdgeLists == {SetToSeq(es) : es \in SUBSET Links}

ReadCalls ==
  [op : {"list"}, nodes : Nodes, edges : EdgeLists, type : {"any", "Person"}]
  \union [op : {"search"}, nodes : Nodes, edges : EdgeLists]

-----------------------------------------------------------------------------
Names == {"", "ann", "anne", "hanna", "bob"}

(* Neither symmetric nor transitive.                                       *)
MCSimilar(n, k) ==
  n = k \/ <<n, k>> \in {<<"ann", "anne">>, <<"anne", "ann">>, <<"anne", "hanna">>}

ExtractionCalls ==
  [op : {"extract"},
   reply : [json : {"sound"}, names : UpTo(Names, 3), links : UpTo(Names \X Names, 1)]
           \union [json : {"sound"}, names : UpTo(Names, 2),
                   links : [1..2 -> {"ann", "hanna", "bob"} \X {"anne", "bob"}]]
           \union [json : {"broken"}, names : {<<>>}, links : {<<>>}]]

-----------------------------------------------------------------------------
Relevance == [i \in 1..5 |-> IF i \in {2, 4} THEN 4 ELSE 0]
Weights == [relevance |-> 5, decay |-> 3, importance |-> 2]

Memory(i, importance, age, zone, agent) ==
  [id |-> i, agent |-> agent, sim |-> IF i = 3 THEN "s2" ELSE "s1",
   topics |-> IF i = 1 THEN <<"t", "t">> ELSE <<"t", "u">>,
   importance |-> importance, age |-> age, zone |-> zone]

Marks(n, zone) ==
  {[i \in 1..n |-> Memory(i, f[i][1], f[i][2], zone, "agent")] :
     f \in [1..n -> {1, 4, 6} \X {0, 1}]}

(* Once more by a repeated call, and for another agent.                    *)
Memories ==
  UNION {Marks(n, "UTC") : n \in 0..4} \union UNION {Marks(n, "none") : n \in 1..2}
  \union {Mark(col, col, 1) : col \in Marks(3, "UTC")}
  \union {Mark(<<Memory(5, 6, 0, "UTC", "other")>>, col, 2) : col \in Marks(2, "UTC")}

(* More than a summary shows, some of them marked twice.                   *)
Twelve == [i \in 1..12 |-> Memory(4 + i \div 2, (i * 5) % 7, 0, "UTC", "agent")]

EvolutionCalls ==
  [op : {"inject"}, col : Memories, agent : {"agent"}, relevance : {Relevance},
   weights : {Weights}, k : 1..2]
  \union [op : {"summary"}, col : {m \in Memories : Len(m) < 4}, agent : {"agent", "other"},
          registered : {{"s1"}, {"s1", "s2"}}, sim : {"s1", "s2"}]
  \union [op : {"summary"}, col : {Twelve}, agent : {"agent"}, registered : {{"s1"}}, sim : {"s1"}]
  \union [op : {"validate"}, predictions : UpTo([content : {"text", "none"}, score : {0, 6, 7, 10}], 3),
          outcomes : 0..1]

-----------------------------------------------------------------------------
(* Every choice of some of the keys, each with the same value throughout.  *)
Some(dict) == {[k \in ks |-> dict[k]] : ks \in SUBSET DOMAIN dict}

Metadata == Some([role |-> "system", zep_uuid |-> "u0", created_at |-> "then", user_id |-> "x", topic |-> "t"])

ChatMessages ==
  UNION {Some([role |-> "human", role_type |-> "ai", content |-> c]) : c \in {"hello", "bye"}}
  \union {[metadata |-> m, content |-> "hello"] : m \in Metadata}

MemoryCalls ==
  UNION {[op : {"messages"}, user : {"session"}, messages : {ms}, answered : 0..Len(ms)] :
           ms \in UpTo(ChatMessages, 2)}
  \union [op : {"message"},
          message : [uuid : {"u1"}, role : {"human"}, content : {"hello"}, created : {"t1"}, metadata : Metadata]]
  \union [op : {"named"},
          item : [name : {"ann"}, description : {"", "a person"}, type : {"Person"}, source : {"ann"},
                  target : {"bob"}, relation : {"knows"}, fact : {"ann knows bob"}, uuid : {"u1"}, rating : {"high"},
                  attributes : Some([entity_name |-> "anne", relation |-> "likes", zep_uuid |-> "u2", age |-> "7"])]]
  \union [op : {"session"},
          session : [session : {"s1"}, user : {"u"}, created : {"t1"}, metadata : Metadata]]
  \union [op : {"profiles"}, profiles : UpTo(Some([a |-> 1, b |-> 2]) \union Some([a |-> 3, c |-> 4]), 3)]
  \union [op : {"merge"},
          fresh : Some([name |-> "ann", personality |-> "shy", id |-> "a1"]),
          evolved : Some([name |-> "anne", personality |-> "bold", interests |-> "go", id |-> "m1", agent_id |-> "a1",
                          scars |-> "two"])]

-----------------------------------------------------------------------------
MCCalls ==
  TraversalCalls \union ChunkCalls \union EvidenceCalls \union RequestCalls
  \union OntologyCalls \union SchemaCalls \union ReadCalls \union ExtractionCalls
  \union EvolutionCalls \union MemoryCalls
=============================================================================
