----------------------------- MODULE AgentMemory -----------------------------
(***************************************************************************)
(* The memory provider of one simulation agent                             *)
(* (simulation/agent_memory_provider.py), shared by the coroutines of the  *)
(* agent.  get_agent_context can ask for another agent: it changes the     *)
(* identity of the provider, awaits three replies, and puts it back, if it *)
(* gets that far.                                                          *)
(***************************************************************************)
CONSTANTS Agents, Home, HomeSim, Sims, Contexts, None
ASSUME HomeIsKnown == Home \in Agents /\ HomeSim \in Sims
ASSUME NoneIsNone == None \notin Agents /\ None \notin Sims

VARIABLES provider, contexts, request

agentVars == <<provider, contexts, request>>

HomeIdentity == [agent |-> Home, sim |-> HomeSim, group |-> HomeSim]

NoContext ==
  [at |-> "idle", asked |-> Home, saved |-> HomeIdentity, reads |-> {},
   shared |-> "no"]

Waiting == {"profile", "episodic", "foresight"}
InFlight == {c \in Contexts : contexts[c].at \in Waiting}

(* The identity has been left to chance: two contexts at once, or one that *)
(* failed and left its own behind.                                         *)
Mishap == \E c \in Contexts : contexts[c].shared = "yes" \/ contexts[c].at = "abandoned"

Calm == InFlight = {} /\ ~ Mishap

AgentInit ==
  /\ provider = HomeIdentity
  /\ contexts = [c \in Contexts |-> NoContext]
  /\ request = [user |-> Home, group |-> HomeSim, during |-> "calm"]

Or(given, own) == IF given = None THEN own ELSE given

(* Faulty variant: only both of them together are taken.                   *)
SwappedTogether(a, s) ==
  IF None \in {a, s} THEN provider ELSE [agent |-> a, sim |-> s, group |-> s]

Swapped(a, s) ==
  [agent |-> Or(a, provider.agent), sim |-> Or(s, provider.sim),
   group |-> Or(s, provider.group)]

(* The arguments that are given replace the provider's own, and the first  *)
(* of the three requests is sent, in the name of the provider as it is.    *)
StartContext(c, a, s) ==
  /\ contexts[c].at = "idle"
  /\ provider' = Swapped(a, s)
  /\ contexts' = [d \in Contexts |->
       IF d = c
       THEN [at |-> "profile", asked |-> Or(a, provider.agent), saved |-> provider,
             reads |-> {Swapped(a, s).agent},
             shared |-> IF InFlight = {} THEN "no" ELSE "yes"]
       ELSE IF d \in InFlight THEN [contexts[d] EXCEPT !.shared = "yes"]
       ELSE contexts[d]]
  /\ UNCHANGED request

(* A reply, and the next request: episodic memories, then foresight.       *)
NextRead(c) ==
  /\ contexts[c].at \in {"profile", "episodic"}
  /\ contexts' = [contexts EXCEPT
       ![c] = [contexts[c] EXCEPT
                 !.at = IF contexts[c].at = "profile" THEN "episodic" ELSE "foresight",
                 !.reads = contexts[c].reads \union {provider.agent}]]
  /\ UNCHANGED <<provider, request>>

(* Faulty variant: the agent is put back, the simulation is not.           *)
EndContextHalf(c) ==
  /\ contexts[c].at = "foresight"
  /\ provider' = [provider EXCEPT !.agent = contexts[c].saved.agent]
  /\ contexts' = [contexts EXCEPT ![c].at = "done"]
  /\ UNCHANGED request

EndContext(c) ==
  /\ contexts[c].at = "foresight"
  /\ provider' = [agent |-> contexts[c].saved.agent, sim |-> contexts[c].saved.sim,
                  group |-> contexts[c].saved.sim]
  /\ contexts' = [contexts EXCEPT ![c].at = "done"]
  /\ UNCHANGED request

(* Nothing restores the identity when a request fails or the coroutine is  *)
(* cancelled.                                                              *)
ContextFails(c) ==
  /\ contexts[c].at \in Waiting
  /\ contexts' = [contexts EXCEPT
       ![c].at = IF provider = contexts[c].saved THEN "failed" ELSE "abandoned"]
  /\ UNCHANGED <<provider, request>>

(* recall, get_all, build_context, observe and record_action: one request  *)
(* in the name of the provider as it is.                                   *)
Request ==
  /\ request' = [user |-> provider.agent, group |-> provider.group,
                 during |-> IF Calm THEN "calm" ELSE "swapped"]
  /\ UNCHANGED <<provider, contexts>>

(* record_agent_thought: what is given is used, without a swap.            *)
Thought(a, s) ==
  /\ request' = [user |-> Or(a, provider.agent), group |-> Or(s, provider.sim),
                 during |-> IF Calm /\ a = None /\ s = None THEN "calm" ELSE "swapped"]
  /\ UNCHANGED <<provider, contexts>>

ProviderStep ==
  \/ \E c \in Contexts :
       \/ \E a \in Agents \union {None}, s \in Sims \union {None} : StartContext(c, a, s)
       \/ NextRead(c) \/ EndContext(c) \/ ContextFails(c)
  \/ Request
  \/ \E a \in Agents \union {None}, s \in Sims \union {None} : Thought(a, s)

AgentSpec == AgentInit /\ [][ProviderStep]_agentVars

-----------------------------------------------------------------------------
(* The provider stays scoped to its agent and simulation as its class      *)
(* promises, and its group to its simulation, except while a context of    *)
(* another agent is being read and after two of them have overlapped or    *)
(* one has failed; and nothing is asked or stored in another name while    *)
(* the provider is calm.                                                   *)
IdentityKept ==
  /\ provider.group = provider.sim
  /\ Calm => provider = HomeIdentity
  /\ request.during = "calm" => request.user = Home /\ request.group = HomeSim

(* A context that overlapped with no other is of the one agent that was    *)
(* asked for, all three parts of it, whatever failed before it.            *)
ContextOfOneAgent ==
  \A c \in Contexts :
    contexts[c].at = "done" /\ contexts[c].shared = "no"
      => contexts[c].reads = {contexts[c].asked}
=============================================================================
