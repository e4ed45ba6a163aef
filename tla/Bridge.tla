-------------------------------- MODULE Bridge --------------------------------
(***************************************************************************)
(* The bridge between Zep's interface, which MiroFish is written against,  *)
(* and the memories of EverMemOS (bridge/models.py, zep_adapter.py,        *)
(* memory_client.py).  Metadata, a message and a stored item are functions *)
(* from the keys they have.  EverMemOS is whoever answers: what is         *)
(* modelled is what it is sent, and what is read in an answer it may give. *)
(***************************************************************************)
EXTENDS Naturals, Selection

None == <<>>
Get(dict, key, default) == IF key \in DOMAIN dict THEN dict[key] ELSE default

(* In a dict display what comes last wins.                                 *)
Then(first, last) ==
  [k \in DOMAIN first \union DOMAIN last |-> IF k \in DOMAIN last THEN last[k] ELSE first[k]]

(* Faulty variant: the metadata may say another role than the message.     *)
StoreMemoryLoosely(user, content, role, group, metadata) ==
  [user |-> user, group |-> group, content |-> content,
   metadata |-> Then([role |-> role], metadata)]

(* What EverMemClient posts; a group that is empty is not sent.            *)
StoreMemory(user, content, role, group, metadata) ==
  [user |-> user, group |-> group, content |-> content,
   metadata |-> Then(metadata, [role |-> role])]

(* memory.add: what is posted of a message.  The uuid that a ZepMessage is *)
(* given is not sent.                                                      *)
Stored(user, m) ==
  StoreMemory(user, Get(m, "content", ""), Get(m, "role", Get(m, "role_type", "human")),
              Get(m, "group_id", ""), Get(m, "metadata", None))

(* One post after the other; the first that is not answered ends it.       *)
Add(user, messages, answered) ==
  LET posts == IF answered < Len(messages) THEN answered + 1 ELSE answered
  IN  [i \in 1..posts |-> Stored(user, messages[i])]

(* memory.get: how a memory is read that has a content and metadata.       *)
Retrieved(item) ==
  [uuid |-> Get(item.metadata, "zep_uuid", ""), role |-> Get(item.metadata, "role", "ai"),
   content |-> item.content]

-----------------------------------------------------------------------------
(* ZepMessage.to_evermemos_payload, and back from a hit of a search.       *)
MessagePayload(m) ==
  [content |-> m.content,
   metadata |-> Then(m.metadata, [role |-> m.role, zep_uuid |-> m.uuid, created_at |-> m.created])]

FromHit(hit) ==
  [uuid |-> Get(hit.metadata, "zep_uuid", "new"), role |-> Get(hit.metadata, "role", "ai"),
   content |-> hit.content, created |-> Get(hit.metadata, "created_at", "now")]

EntityPayload(e) ==
  [content |-> IF e.description = "" THEN e.name ELSE e.description,
   metadata |-> Then([entity_name |-> e.name, entity_type |-> e.type], e.attributes)]

EdgePayload(e) ==
  [content |-> <<e.source, e.relation, e.target>>,
   metadata |-> Then([source_entity |-> e.source, target_entity |-> e.target,
                      relation |-> e.relation], e.attributes)]

FactPayload(f) ==
  [content |-> f.fact, metadata |-> Then([zep_uuid |-> f.uuid, rating |-> f.rating], f.attributes)]

SessionKeys == {"session_id", "user_id", "created_at"}

SessionMeta(s) ==
  Then([session_id |-> s.session, user_id |-> s.user, created_at |-> s.created], s.metadata)

SessionFrom(data) ==
  [session |-> Get(data, "session_id", ""), user |-> Get(data, "user_id", ""),
   created |-> Get(data, "created_at", "now"),
   metadata |-> [k \in DOMAIN data \ SessionKeys |-> data[k]]]

(* get_session, of the data it is answered, names the session itself.      *)
GetSession(session, data) == SessionFrom(Then(data, [session_id |-> session]))

(* user.get: of what the profiles say of a key, the last.                  *)
UserMetadata(profiles) ==
  LET Keys == UNION {DOMAIN profiles[i] : i \in DOMAIN profiles}
      LastSaying(k) == CHOOSE i \in DOMAIN profiles :
        k \in DOMAIN profiles[i] /\ \A j \in i+1 .. Len(profiles) : k \notin DOMAIN profiles[j]
  IN  [k \in Keys |-> profiles[LastSaying(k)][k]]

(* merge_profiles (simulation/profile_sync.py): a fresh profile, what its  *)
(* agent has learned since over it, and what else only the stored one has. *)
LearnedFields == {"personality", "interests", "political_leaning", "social_style"}
IdKeys == {"agent_id", "id", "_id"}

MergeProfiles(fresh, evolved) ==
  LET taken == (DOMAIN evolved \intersect LearnedFields) \union (DOMAIN evolved \ (DOMAIN fresh \union IdKeys))
  IN  Then(fresh, [k \in taken |-> evolved[k]])

-----------------------------------------------------------------------------
(* Until a post fails every message is posted once and in its place, for   *)
(* the session alone and said by whom it was said, whatever its metadata   *)
(* claims; nothing that follows the failure is.  Read back as memory.get   *)
(* reads it, each is the message again, but for the uuid.                  *)
MessagesSurvive(user, messages, answered, posts) ==
  /\ Len(posts) = IF answered < Len(messages) THEN answered + 1 ELSE answered
  /\ \A i \in DOMAIN posts :
       LET m == messages[i]
           got == Retrieved(posts[i])
       IN  /\ posts[i].user = user
           /\ got.content = Get(m, "content", "")
           /\ got.role = Get(m, "role", Get(m, "role_type", "human"))
           /\ got.uuid = Get(Get(m, "metadata", None), "zep_uuid", "")

(* A message of Zep, whatever its metadata says.                           *)
FromMessage(m) ==
  [uuid |-> m.uuid, role |-> m.role, content |-> m.content, created |-> m.created]

(* A session keeps its name, and all the rest unless its metadata uses one *)
(* of the session's own keys.                                              *)
SessionSurvives(s, got) ==
  /\ got.session = s.session
  /\ DOMAIN got.metadata = DOMAIN s.metadata \ SessionKeys
  /\ SessionKeys \intersect DOMAIN s.metadata = {} => got = s

(* What names an entity, a relation or a fact survives unless an attribute *)
(* has the same name, which wins; no attribute is lost.                    *)
NamesSurvive(item, payloads) ==
  LET Kept(metadata, key, value) == metadata[key] # value => key \in DOMAIN item.attributes
  IN  /\ Kept(payloads[1].metadata, "entity_name", item.name)
      /\ Kept(payloads[2].metadata, "relation", item.relation)
      /\ Kept(payloads[3].metadata, "zep_uuid", item.uuid)
      /\ \A i \in DOMAIN payloads : \A k \in DOMAIN item.attributes :
           payloads[i].metadata[k] = item.attributes[k]

(* Of the memories user.get is answered, what one says of a key a later    *)
(* one repeats or replaces.                                                *)
LastWins(profiles, metadata) ==
  \A k \in DOMAIN metadata : \E i \in DOMAIN profiles :
    /\ k \in DOMAIN profiles[i] /\ metadata[k] = profiles[i][k]
    /\ \A j \in DOMAIN profiles : k \in DOMAIN profiles[j] => j =< i

(* Merged, a profile keeps what is its own and what was learned: the names *)
(* of the store do not get in, and to merge once more, in either place,    *)
(* changes nothing.                                                        *)
ProfilesMerge(fresh, evolved, merged) ==
  /\ \A k \in DOMAIN fresh \ LearnedFields : merged[k] = fresh[k]
  /\ \A k \in DOMAIN evolved \intersect LearnedFields : merged[k] = evolved[k]
  /\ DOMAIN merged \intersect IdKeys \subseteq DOMAIN fresh
  /\ MergeProfiles(fresh, merged) = merged /\ MergeProfiles(merged, evolved) = merged
=============================================================================
