--------------------------- MODULE OntologyCompiler ---------------------------
(***************************************************************************)
(* From an ontology in JSON to Graphiti's schema                           *)
(* (graph_service/domain/schema_compiler.py).  A name is a sequence of its *)
(* parts: the prefix "entity_", if it has it, and a word.                  *)
(***************************************************************************)
EXTENDS Naturals, SequencesExt, FiniteSets

CONSTANTS Lower, Reserved

(* No field of Graphiti's begins with the prefix.                          *)
ASSUME ReservedAssumption == \A r \in Reserved : r # <<>> /\ r[1] # Lower["entity_"]

LowerCase(name) == [i \in DOMAIN name |-> Lower[name[i]]]

(* Faulty variant: a reserved name is recognised in lower case only.       *)
SafeNameAsIs(name) == IF name \in Reserved THEN <<"entity_">> \o name ELSE name

SafeName(name) == IF LowerCase(name) \in Reserved THEN <<"entity_">> \o name ELSE name

(* What has no type of its own is a string.                                *)
TypeMap ==
  [bool |-> "bool", boolean |-> "bool", float |-> "float", int |-> "int",
   integer |-> "int", number |-> "float", string |-> "str", text |-> "str"]

ResolveType(t) == IF t \in DOMAIN TypeMap THEN TypeMap[t] ELSE "str"

(* dict: a key keeps the value it was given last.                          *)
LastWith(s, Test(_)) == s[SelectLastInSeq(s, Test)]

BuildModel(attributes) ==
  [f \in {SafeName(attributes[i].name) : i \in DOMAIN attributes} |->
     ResolveType(LastWith(attributes, LAMBDA a : SafeName(a.name) = f).type)]

CompileModels(definitions) ==
  [n \in {definitions[i].name : i \in DOMAIN definitions} |->
     BuildModel(LastWith(definitions, LAMBDA d : d.name = n).attributes)]

(* The names allowed between two types, each once, in the order of their   *)
(* definitions.                                                            *)
AllowedBetween(definitions, signature) ==
  FoldLeft(LAMBDA names, d :
             IF signature \in ToSet(d.between) /\ d.name \notin ToSet(names)
             THEN Append(names, d.name) ELSE names,
           <<>>, definitions)

EdgeTypeMap(definitions) ==
  [s \in UNION {ToSet(definitions[i].between) : i \in DOMAIN definitions} |->
     AllowedBetween(definitions, s)]

CompileOntology(definitions) ==
  [types |-> CompileModels(definitions), allowed |-> EdgeTypeMap(definitions)]

-----------------------------------------------------------------------------
(* What an ontology declares is in the schema and nothing else: no field   *)
(* has a name that Graphiti keeps for itself, every attribute of a type's  *)
(* last definition has a field, one of its own unless two names come to    *)
(* the same, and a type is allowed between two others exactly when one of  *)
(* its definitions says so, once, and has a model.                         *)
OntologyIsKept(definitions, compiled) ==
  /\ \A n \in DOMAIN compiled.types :
       LET d == LastWith(definitions, LAMBDA x : x.name = n)
           names == {d.attributes[i].name : i \in DOMAIN d.attributes}
           fields == DOMAIN compiled.types[n]
       IN  /\ \A f \in fields : LowerCase(f) \notin Reserved
           /\ \A a \in names : a \in fields \/ <<"entity_">> \o a \in fields
           /\ \/ Cardinality(fields) = Cardinality(names)
              \/ \E a \in names : <<"entity_">> \o a \in names
  /\ \A s \in DOMAIN compiled.allowed :
       /\ IsInjective(compiled.allowed[s])
       /\ ToSet(compiled.allowed[s]) \subseteq DOMAIN compiled.types
  /\ \A i \in DOMAIN definitions : \A s \in ToSet(definitions[i].between) :
       definitions[i].name \in ToSet(compiled.allowed[s])
  /\ \A s \in DOMAIN compiled.allowed : \A n \in ToSet(compiled.allowed[s]) :
       \E i \in DOMAIN definitions :
         definitions[i].name = n /\ s \in ToSet(definitions[i].between)
=============================================================================
