----------------------------- MODULE ProfileSync -----------------------------
(***************************************************************************)
(* Agent profiles in EverMemOS: simulation/profile_sync.py, the profile    *)
(* update of the memory provider, the client of the bridge through which   *)
(* both send their requests, and of the EverMemOS under vendor/ the two    *)
(* handlers that answer them.  A call sends one request after the other;   *)
(* calls interleave on the event loop, and a request may get no answer.    *)
(***************************************************************************)
EXTENDS Naturals, Sequences, FiniteSets

(* An agent is named by a text that is not empty; Texts holds the empty    *)
(* one.                                                                    *)
CONSTANTS Agents, Calls, Texts

VARIABLES memories, calls

(* A generated profile, of the fields only those that content is taken     *)
(* from: it may have a bio, it may have a name.                            *)
Profiles == UNION {[fs -> Texts] : fs \in SUBSET {"bio", "name"}}

Nothing == <<>>

(* profile.get("bio", profile.get("name", agent_id)).                      *)
Content(agent, profile) ==
  IF "bio" \in DOMAIN profile THEN profile["bio"]
  ELSE IF "name" \in DOMAIN profile THEN profile["name"] ELSE agent

(* The body of POST /memories.                                             *)
StoreMemory(agent, profile) ==
  [user_id |-> agent, content |-> Content(agent, profile),
   memory_type |-> "Profile", metadata |-> profile]

-----------------------------------------------------------------------------
(* EverMemOS refuses a message in which one of these is missing or empty.  *)
Required == {"sender", "message_id", "create_time", "content"}

Accepts(message) == \A f \in Required : f \in DOMAIN message /\ message[f] # ""

(* It keeps what it accepts as a message of its sender, and nothing else.  *)
Memorize(message) ==
  IF Accepts(message)
    THEN memories \union {[user_id |-> message["sender"], content |-> message["content"]]}
    ELSE memories

(* The values of MemoryType.  A GET with another is refused, as that of    *)
(* pull_profile and get_profile is; what the others are answered with is a *)
(* wrapper that neither could read.                                        *)
MemoryTypes ==
  {"profile", "episodic_memory", "foresight", "event_log", "base_memory", "preference",
   "core", "entity", "relation", "behavior_history", "group_profile"}

PullRaises(memory_type) == memory_type \notin MemoryTypes

-----------------------------------------------------------------------------
(* A call: what it is, where it is, the agents it still has to push or     *)
(* pull and those it has done, and whether a request of it got no answer.  *)
Idle == [at |-> "idle"]

Busy(kind, at, todo, profile) ==
  [kind |-> kind, at |-> at, todo |-> todo, done |-> {}, profile |-> profile, lost |-> FALSE]

Init == memories = {} /\ calls = [w \in Calls |-> Idle]

Begin(w, call) ==
  /\ calls[w] = Idle
  /\ calls' = [calls EXCEPT ![w] = call]
  /\ UNCHANGED memories

PushProfile(w, a, profile) == Begin(w, Busy("push", "pushing", <<a>>, profile))

(* push_profiles_batch (sync_to_evermemos): one push after the other.      *)
PushBatch(w, batch, profile) == Begin(w, Busy("push batch", "pushing", batch, profile))

(* pull_profiles_batch (sync_from_evermemos): a stub for what fails.       *)
PullBatch(w, batch) == Begin(w, Busy("pull batch", "pulling", batch, Nothing))

(* update_profile, and update_agent_profile of the provider: read first.   *)
UpdateProfile(w, a, updates) == Begin(w, Busy("update", "pulling", <<a>>, updates))

(* After one request of a call: its next, or its end.                      *)
GoesOn(call, lost) ==
  [call EXCEPT
     !.at = IF Len(call.todo) = 1 THEN "ended" ELSE @,
     !.todo = Tail(@), !.done = @ \union {Head(call.todo)}, !.lost = @ \/ lost]

Raises(call, lost) == [call EXCEPT !.at = "raised", !.lost = @ \/ lost]

(* A batch goes on whatever becomes of a request; another call raises.     *)
Fails(call, lost) ==
  IF call.kind \in {"push batch", "pull batch"} THEN GoesOn(call, lost) ELSE Raises(call, lost)

Message(call) == StoreMemory(Head(call.todo), call.profile)

PushAnswered(w) ==
  /\ calls[w].at = "pushing"
  /\ memories' = Memorize(Message(calls[w]))
  /\ calls' = [calls EXCEPT
       ![w] = IF Accepts(Message(@)) THEN GoesOn(@, FALSE) ELSE Fails(@, FALSE)]

(* No answer: the request was not handled, or only the answer was lost.    *)
PushUnanswered(w) ==
  /\ calls[w].at = "pushing"
  /\ memories' \in {memories, Memorize(Message(calls[w]))}
  /\ calls' = [calls EXCEPT ![w] = Fails(@, TRUE)]

(* The GET gets no answer or one that raises: an update never pushes.      *)
PullFails(w, lost) ==
  /\ calls[w].at = "pulling" /\ (lost \/ PullRaises("Profile"))
  /\ calls' = [calls EXCEPT ![w] = Fails(@, lost)]
  /\ UNCHANGED memories

(* The dict of profiles has a key for every agent.                         *)
Batches ==
  {batch \in [1 .. Cardinality(Agents) -> Agents] :
     \A i, j \in DOMAIN batch : batch[i] = batch[j] => i = j}

Next ==
  \E w \in Calls :
    \/ \E batch \in Batches :
         PullBatch(w, batch) \/ \E profile \in Profiles : PushBatch(w, batch, profile)
    \/ \E a \in Agents, profile \in Profiles :
         PushProfile(w, a, profile) \/ UpdateProfile(w, a, profile)
    \/ PushAnswered(w) \/ PushUnanswered(w) \/ \E lost \in BOOLEAN : PullFails(w, lost)

Spec == Init /\ [][Next]_<<memories, calls>>

-----------------------------------------------------------------------------
(* "Profiles created in MiroFish are persisted as Profile memories"        *)
(* (profile_sync.py, line 5): when sync_to_evermemos has ended and         *)
(* EverMemOS answered all of its requests, it keeps something of every     *)
(* agent whose profile gave a text to store.                               *)
CreatedProfilesPersist ==
  \A w \in Calls :
    calls[w] # Idle /\ calls[w].at = "ended" /\ calls[w].kind = "push batch" /\ ~ calls[w].lost =>
      \A a \in calls[w].done :
        Content(a, calls[w].profile) # "" => \E m \in memories : m.user_id = a
=============================================================================
