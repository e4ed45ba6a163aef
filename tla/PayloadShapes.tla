---------------------------- MODULE PayloadShapes ----------------------------
(***************************************************************************)
(* What an LLM answers, brought into the shape that Graphiti asked for,    *)
(* and attributes into what FalkorDB stores                                *)
(* (graph_service/core/providers.py).  A name is the sequence of its       *)
(* words; written together or in camel case it has the style in front,     *)
(* which a name of one word has not.  A payload is a function from the     *)
(* names it has.                                                           *)
(***************************************************************************)
EXTENDS Naturals, SequencesExt, FiniteSets, Selection

Spelled(style, words) == IF Len(words) < 2 THEN words ELSE <<style>> \o words
Spellings(words) == <<words, Spelled("flat", words), Spelled("camel", words)>>

CommonLists ==
  <<<<"items">>, <<"results">>, <<"data">>, <<"entities">>, <<"edges">>, <<"summaries">>>>

(* The names under which the one field of a model may come.                *)
ListCandidates(field) ==
  Spellings(field)
  \o (IF field[1] = "extracted" THEN <<Tail(field), Spelled("camel", Tail(field))>> ELSE <<>>)
  \o CommonLists

OwnCandidates(field) ==
  CASE field = <<"name">> -> <<<<"entity", "name">>, <<"node", "name">>, <<"text">>, <<"entity">>>>
    [] field = <<"source", "entity", "name">> -> <<<<"source", "name">>, <<"source">>>>
    [] field = <<"target", "entity", "name">> -> <<<<"target", "name">>, <<"target">>>>
    [] OTHER -> <<>>

AliasCandidates(field) == Spellings(field) \o OwnCandidates(field)

-----------------------------------------------------------------------------
(* _normalize_model_dict: a field that is missing takes the value of the   *)
(* first of its aliases that is there.                                     *)
TakeAlias(item, field) ==
  LET there == Those(AliasCandidates(field), DOMAIN item)
  IN  IF field \in DOMAIN item \/ there = <<>> THEN item
      ELSE [k \in (DOMAIN item \ {there[1]}) \union {field} |->
              IF k = field THEN item[there[1]] ELSE item[k]]

TypeId == <<"entity", "type", "id">>
TypeNames == <<<<"type">>, <<"entity", "type">>, <<"entity", "type", "name">>>>

(* The type's own number, or that of the type it is another word for, or 0 *)
FallbackEntityTypeId(type, ids) ==
  CASE type \in {"person", "human", "individual"} /\ "person" \in DOMAIN ids -> ids["person"]
    [] type \in {"organization", "org", "company"} /\ "organization" \in DOMAIN ids ->
         ids["organization"]
    [] OTHER -> "0"

EntityTypeId(type, ids) ==
  IF type \in DOMAIN ids THEN ids[type] ELSE FallbackEntityTypeId(type, ids)

(* _normalize_extracted_entity takes the names of the type off the entity, *)
(* up to the first that says something.                                    *)
NormalizeExtractedEntity(item, ids) ==
  LET saying == SelectInSeq(TypeNames, LAMBDA n : n \in DOMAIN item /\ item[n] # "")
      taken == SubSeq(TypeNames, 1, IF saying = 0 THEN Len(TypeNames) ELSE saying)
      id == IF saying = 0 THEN "0" ELSE EntityTypeId(item[TypeNames[saying]], ids)
  IN  IF TypeId \in DOMAIN item THEN item
      ELSE [k \in (DOMAIN item \ ToSet(taken)) \union {TypeId} |-> IF k = TypeId THEN id ELSE item[k]]

NormalizeModelDict(item, model, ids) ==
  LET renamed == FoldLeft(TakeAlias, item, model.fields)
  IN  IF model.entity THEN NormalizeExtractedEntity(renamed, ids) ELSE renamed

NormalizeFieldValue(value, model, ids) ==
  IF value.kind # "list" THEN value
  ELSE [value EXCEPT !.items = [i \in DOMAIN value.items |->
                                  NormalizeModelDict(value.items[i], model, ids)]]

(* _normalize_payload_shape: the field itself, a bare list, the first of   *)
(* the candidates that is not null, the only list there is; or as it is.   *)
(* JSON that is neither an object nor a list raises.  So for a model of    *)
(* one field; the answer for another is left alone.                        *)
NormalizePayloadShape(payload, field, model, ids) ==
  LET Values == payload.values
      Only(v) == [kind |-> "dict", values |-> [k \in {field} |-> NormalizeFieldValue(v, model, ids)]]
      given == Those(ListCandidates(field), {c \in DOMAIN Values : Values[c].kind # "null"})
      lists == {k \in DOMAIN Values : Values[k].kind = "list"}
  IN  CASE payload.kind \notin {"list", "dict"} -> [kind |-> "raised"]
        [] payload.kind = "list" -> Only(payload)
        [] payload.kind = "dict" /\ field \in DOMAIN Values ->
             [payload EXCEPT !.values[field] = NormalizeFieldValue(@, model, ids)]
        [] payload.kind = "dict" /\ field \notin DOMAIN Values /\ given # <<>> -> Only(Values[given[1]])
        [] payload.kind = "dict" /\ field \notin DOMAIN Values /\ given = <<>>
             /\ (\E k \in lists : lists = {k}) ->
             Only(Values[CHOOSE k \in lists : TRUE])
        [] OTHER -> payload

-----------------------------------------------------------------------------
(* _make_falkor_value_safe: a list of plain values stays a list, a tuple   *)
(* becomes one, all else that is not plain becomes text.                   *)
MakeFalkorValueSafe(v) ==
  CASE v.kind = "plain" -> v
    [] v.kind \in {"list", "tuple"} /\ v.flat -> [kind |-> "list", flat |-> TRUE]
    [] OTHER -> [kind |-> "plain", flat |-> TRUE]

-----------------------------------------------------------------------------
(* An item has every field that it had under any name, an entity a type,   *)
(* and nothing is lost but what named the type.                            *)
ItemIsMet(item, model, got) ==
  /\ \A f \in ToSet(model.fields) :
       ToSet(AliasCandidates(f)) \intersect DOMAIN item # {} => f \in DOMAIN got
  /\ model.entity => TypeId \in DOMAIN got
  /\ \A k \in DOMAIN item \ ToSet(TypeNames) : \E n \in DOMAIN got : got[n] = item[k]

(* Wherever the LLM puts the one list it answers with, Graphiti gets it    *)
(* under the name it asked for, item by item; and to normalise again       *)
(* changes nothing.                                                        *)
ShapeIsMet(payload, field, model, ids, shaped) ==
  LET Met(items) ==
        LET got == shaped.values[field].items
        IN  /\ field \in DOMAIN shaped.values
            /\ Len(got) = Len(items)
            /\ \A i \in DOMAIN got : ItemIsMet(items[i], model, got[i])
      IsOnlyList(k) == /\ payload.values[k].kind = "list"
                       /\ \A j \in DOMAIN payload.values \ {k} : payload.values[j].kind = "null"
                       /\ field \in DOMAIN payload.values => k = field
  IN  /\ NormalizePayloadShape(shaped, field, model, ids) = shaped
      /\ payload.kind = "list" => Met(payload.items)
      /\ payload.kind = "dict" =>
           \A k \in DOMAIN payload.values : IsOnlyList(k) => Met(payload.values[k].items)

(* What FalkorDB is given it can store, and to make it safe again changes  *)
(* nothing.                                                                *)
AttributeIsMet(safe) ==
  /\ safe.kind \in {"plain", "list"} /\ safe.flat
  /\ MakeFalkorValueSafe(safe) = safe
=============================================================================
