------------------------ MODULE SimulationMemoryProofs ------------------------
(***************************************************************************)
(* Proofs about AgentMemory and SimulationMemory, for any number of        *)
(* agents, simulations, contexts and rounds: where the identity of a       *)
(* provider is left to chance and where it is not, that the hooks around   *)
(* it change nothing of that, and that they forget nobody.                 *)
(***************************************************************************)
EXTENDS SimulationMemory, Integers, TLAPS

Identities == [agent : Agents, sim : Sims, group : Sims]
ContextStages == {"idle", "done", "failed", "abandoned"} \union Waiting

ContextType ==
  [at : ContextStages, asked : Agents, saved : Identities, reads : SUBSET Agents,
   shared : {"yes", "no"}]

AgentTypeOK == provider \in Identities /\ contexts \in [Contexts -> ContextType]

(* The group is that of the simulation, also in what is put back.          *)
Grouped ==
  /\ provider.group = provider.sim
  /\ \A c \in Contexts : contexts[c].saved.group = contexts[c].saved.sim

(* A context that has not begun has not been disturbed.                    *)
Untouched == \A c \in Contexts : contexts[c].at = "idle" => contexts[c].shared = "no"

(* Two contexts on their way know of each other.                           *)
SharedKnown == \A c, d \in InFlight : c # d => contexts[c].shared = "yes"

(* One that is alone reads as the agent it is about, and as no other.      *)
AloneIsOwn ==
  /\ \A c \in InFlight : contexts[c].shared = "no" =>
       provider.agent = contexts[c].asked /\ contexts[c].reads = {contexts[c].asked}
  /\ ContextOfOneAgent

(* Unless something went wrong, what will be put back is the identity that *)
(* the provider was made with.                                             *)
HomeIsSaved == ~ Mishap => \A c \in InFlight : contexts[c].saved = HomeIdentity

HomeWhenCalm == Calm => provider = HomeIdentity

CalmRequest == request.during = "calm" => request.user = Home /\ request.group = HomeSim

Unchanging == AgentTypeOK /\ Grouped /\ Untouched
Identity == SharedKnown /\ AloneIsOwn /\ HomeIsSaved /\ HomeWhenCalm

AgentInv == Unchanging /\ Identity /\ CalmRequest

-----------------------------------------------------------------------------
(* What is given is of the type of what it replaces. *)
LEMMA OrTyped ==
  /\ \A a \in Agents \union {None}, b \in Agents : Or(a, b) \in Agents
  /\ \A s \in Sims \union {None}, t \in Sims : Or(s, t) \in Sims
BY DEF Or

LEMMA HomeTyped == HomeIdentity \in Identities
BY HomeIsKnown DEF HomeIdentity, Identities

(* What the start of a context changes. *)
LEMMA StartEffect ==
  ASSUME AgentInv, NEW c \in Contexts, NEW a \in Agents \union {None}, NEW s \in Sims \union {None},
         StartContext(c, a, s)
  PROVE  /\ contexts[c].at = "idle"
         /\ contexts'[c] = [at |-> "profile", asked |-> Or(a, provider.agent), saved |-> provider,
                            reads |-> {Or(a, provider.agent)},
                            shared |-> IF InFlight = {} THEN "no" ELSE "yes"]
         /\ provider' = [agent |-> Or(a, provider.agent), sim |-> Or(s, provider.sim),
                         group |-> Or(s, provider.group)]
         /\ \A d \in Contexts \ {c} :
              contexts'[d] = IF d \in InFlight THEN [contexts[d] EXCEPT !.shared = "yes"] ELSE contexts[d]
         /\ InFlight' = InFlight \union {c}
         /\ contexts' \in [Contexts -> ContextType]
         /\ provider' \in Identities
<1>1. /\ contexts[c].at = "idle"
      /\ contexts'[c] = [at |-> "profile", asked |-> Or(a, provider.agent), saved |-> provider,
                         reads |-> {Or(a, provider.agent)},
                         shared |-> IF InFlight = {} THEN "no" ELSE "yes"]
      /\ provider' = [agent |-> Or(a, provider.agent), sim |-> Or(s, provider.sim),
                      group |-> Or(s, provider.group)]
      /\ DOMAIN contexts' = Contexts
      /\ \A d \in Contexts \ {c} :
           contexts'[d] = IF d \in InFlight THEN [contexts[d] EXCEPT !.shared = "yes"] ELSE contexts[d]
  BY DEF StartContext, Swapped
<1>2. provider' \in Identities /\ Or(a, provider.agent) \in Agents
  BY <1>1, OrTyped DEF AgentInv, Unchanging, AgentTypeOK, Identities
<1>3. contexts'[c] \in ContextType
  BY <1>1, <1>2 DEF ContextType, ContextStages, Waiting, AgentInv, Unchanging, AgentTypeOK
<1>4. \A d \in Contexts \ {c} : contexts'[d] \in ContextType /\ contexts'[d].at = contexts[d].at
  BY <1>1 DEF ContextType, AgentInv, Unchanging, AgentTypeOK
<1>5. contexts' \in [Contexts -> ContextType]
  <2>1. contexts' = [d \in Contexts |-> contexts'[d]]
    BY DEF StartContext
  <2>2. QED
    BY <1>3, <1>4, <2>1
<1>6. InFlight' = InFlight \union {c}
  BY <1>1, <1>4 DEF InFlight, Waiting
<1>7. QED
  BY <1>1, <1>2, <1>5, <1>6

-----------------------------------------------------------------------------
(* The start of a context: with nothing in flight it is alone and has the  *)
(* provider as it was; else all of them are marked.                        *)
LEMMA StartKeeps ==
  ASSUME AgentInv, NEW c \in Contexts, NEW a \in Agents \union {None}, NEW s \in Sims \union {None},
         StartContext(c, a, s)
  PROVE  AgentInv'
<1> DEFINE alone == IF InFlight = {} THEN "no" ELSE "yes"
<1>1. /\ contexts[c].at = "idle"
      /\ contexts'[c] = [at |-> "profile", asked |-> Or(a, provider.agent), saved |-> provider,
                         reads |-> {Or(a, provider.agent)}, shared |-> alone]
      /\ provider' = [agent |-> Or(a, provider.agent), sim |-> Or(s, provider.sim),
                      group |-> Or(s, provider.group)]
      /\ \A d \in Contexts \ {c} :
           contexts'[d] = IF d \in InFlight THEN [contexts[d] EXCEPT !.shared = "yes"] ELSE contexts[d]
      /\ InFlight' = InFlight \union {c}
      /\ contexts' \in [Contexts -> ContextType]
      /\ provider' \in Identities
  BY StartEffect
<1>2. \A d \in Contexts \ {c} :
        /\ contexts'[d].at = contexts[d].at
        /\ contexts'[d].asked = contexts[d].asked
        /\ contexts'[d].saved = contexts[d].saved
        /\ contexts'[d].reads = contexts[d].reads
        /\ contexts'[d].shared = IF d \in InFlight THEN "yes" ELSE contexts[d].shared
  BY <1>1 DEF ContextType, AgentInv, Unchanging, AgentTypeOK
<1>3. /\ contexts'[c].at = "profile" /\ contexts'[c].asked = provider'.agent
      /\ contexts'[c].saved = provider /\ contexts'[c].reads = {provider'.agent}
      /\ contexts'[c].shared = alone
  BY <1>1
<1>4. c \notin InFlight /\ InFlight \subseteq Contexts
  BY <1>1 DEF InFlight, Waiting
<1>5. Unchanging'
  <2>1. provider'.group = provider'.sim
    BY <1>1 DEF AgentInv, Unchanging, Grouped
  <2>2. \A d \in Contexts : contexts'[d].saved.group = contexts'[d].saved.sim
    BY <1>2, <1>3 DEF AgentInv, Unchanging, Grouped
  <2>3. \A d \in Contexts : contexts'[d].at = "idle" => contexts'[d].shared = "no"
    BY <1>2, <1>3 DEF AgentInv, Unchanging, Untouched, InFlight, Waiting
  <2>4. QED
    BY <1>1, <2>1, <2>2, <2>3 DEF Unchanging, AgentTypeOK, Grouped, Untouched
<1>6. SharedKnown'
  <2> SUFFICES ASSUME NEW d \in InFlight', NEW e \in InFlight', d # e
               PROVE  contexts'[d].shared = "yes"
    BY DEF SharedKnown
  <2>1. InFlight # {}
    BY <1>1
  <2>2. QED
    BY <1>1, <1>2, <1>3, <1>4, <2>1
<1>7. AloneIsOwn'
  <2>1. ASSUME NEW d \in InFlight', contexts'[d].shared = "no"
        PROVE  provider'.agent = contexts'[d].asked /\ contexts'[d].reads = {contexts'[d].asked}
    <3>1. d = c
      BY <1>1, <1>2, <1>4, <2>1
    <3>2. QED
      BY <1>3, <3>1
  <2>2. ContextOfOneAgent'
    BY <1>2, <1>3 DEF AgentInv, Identity, AloneIsOwn, ContextOfOneAgent, InFlight, Waiting
  <2>3. QED
    BY <2>1, <2>2 DEF AloneIsOwn
<1>8. HomeIsSaved'
  <2> SUFFICES ASSUME ~ Mishap' PROVE \A d \in InFlight' : contexts'[d].saved = HomeIdentity
    BY DEF HomeIsSaved
  <2>1. InFlight = {}
    BY <1>3 DEF Mishap
  <2>2. ~ Mishap
    <3>1. contexts[c].shared # "yes" /\ contexts[c].at # "abandoned"
      BY <1>1 DEF AgentInv, Unchanging, Untouched
    <3>2. \A d \in Contexts \ {c} : contexts[d].shared # "yes" /\ contexts[d].at # "abandoned"
      BY <1>2, <2>1 DEF Mishap
    <3>3. QED
      BY <3>1, <3>2 DEF Mishap
  <2>3. provider = HomeIdentity
    BY <2>1, <2>2 DEF Calm, AgentInv, Identity, HomeWhenCalm
  <2>4. QED
    BY <1>1, <1>3, <2>1, <2>3
<1>9. HomeWhenCalm'
  BY <1>1 DEF HomeWhenCalm, Calm
<1>10. CalmRequest'
  BY DEF StartContext, AgentInv, CalmRequest
<1>11. QED
  BY <1>5, <1>6, <1>7, <1>8, <1>9, <1>10 DEF AgentInv, Identity

(* A reply adds the agent that the provider has at that moment. *)
LEMMA ReadKeeps ==
  ASSUME AgentInv, NEW c \in Contexts, NextRead(c)
  PROVE  AgentInv'
<1> DEFINE stage == IF contexts[c].at = "profile" THEN "episodic" ELSE "foresight"
           read == [contexts[c] EXCEPT !.at = stage, !.reads = @ \union {provider.agent}]
<1>1. /\ provider' = provider /\ request' = request /\ contexts[c].at \in Waiting
      /\ contexts' = [contexts EXCEPT ![c] = read]
  BY DEF NextRead, Waiting
<1>2. /\ contexts[c] \in ContextType /\ provider.agent \in Agents
      /\ contexts \in [Contexts -> ContextType]
  BY DEF AgentInv, Unchanging, AgentTypeOK, Identities
<1>3. stage \in Waiting
  BY DEF Waiting
<1> HIDE DEF stage
<1>4. /\ read.at = stage /\ read.reads = contexts[c].reads \union {provider.agent}
      /\ read.asked = contexts[c].asked /\ read.saved = contexts[c].saved
      /\ read.shared = contexts[c].shared
      /\ read \in ContextType
  BY <1>2, <1>3 DEF ContextType, ContextStages
<1> HIDE DEF read
<1>5. /\ provider' = provider /\ request' = request
      /\ contexts[c].at \in Waiting /\ contexts'[c].at \in Waiting
      /\ contexts'[c].reads = contexts[c].reads \union {provider.agent}
      /\ \A d \in Contexts \ {c} : contexts'[d] = contexts[d]
      /\ contexts' \in [Contexts -> ContextType]
  BY <1>1, <1>2, <1>3, <1>4
<1>6. \A d \in Contexts : /\ contexts'[d].shared = contexts[d].shared
                          /\ contexts'[d].saved = contexts[d].saved
                          /\ contexts'[d].asked = contexts[d].asked
                          /\ contexts'[d].at = contexts[d].at \/ d = c
  BY <1>1, <1>2, <1>4
<1>7. InFlight' = InFlight
  BY <1>5 DEF InFlight
<1>8. Mishap' <=> Mishap
  BY <1>5, <1>6 DEF Mishap, Waiting
<1>9. Unchanging'
  BY <1>5, <1>6 DEF AgentInv, Unchanging, AgentTypeOK, Grouped, Untouched, Waiting
<1>10. AloneIsOwn'
  <2>1. ASSUME NEW d \in InFlight', contexts'[d].shared = "no"
        PROVE  provider'.agent = contexts'[d].asked /\ contexts'[d].reads = {contexts'[d].asked}
    <3>1. provider.agent = contexts[d].asked /\ contexts[d].reads = {contexts[d].asked}
      BY <1>6, <1>7, <2>1 DEF AgentInv, Identity, AloneIsOwn, InFlight
    <3>2. contexts'[d].reads = contexts[d].reads \/ contexts'[d].reads = contexts[d].reads \union {provider.agent}
      BY <1>5, <1>7 DEF InFlight
    <3>3. QED
      BY <1>5, <1>6, <3>1, <3>2 DEF InFlight
  <2>2. ContextOfOneAgent'
    BY <1>5 DEF AgentInv, Identity, AloneIsOwn, ContextOfOneAgent, Waiting
  <2>3. QED
    BY <2>1, <2>2 DEF AloneIsOwn
<1>11. SharedKnown' /\ HomeIsSaved' /\ HomeWhenCalm' /\ CalmRequest'
  BY <1>5, <1>6, <1>7, <1>8
     DEF AgentInv, Identity, SharedKnown, HomeIsSaved, HomeWhenCalm, CalmRequest, Calm, InFlight
<1>12. QED
  BY <1>9, <1>10, <1>11 DEF AgentInv, Identity

-----------------------------------------------------------------------------
(* A context that leaves, at its end or by a failure, disturbs no other    *)
(* that is alone: there is none.                                           *)
LEMMA LeavingKeeps ==
  ASSUME AgentInv, NEW c \in Contexts, contexts[c].at \in Waiting,
         NEW stage \in {"done", "failed", "abandoned"},
         contexts' = [contexts EXCEPT ![c].at = stage],
         provider' \in Identities, provider'.group = provider'.sim, UNCHANGED request,
         stage # "abandoned" /\ ~ Mishap => provider' = contexts[c].saved
  PROVE  AgentInv'
<1>1. /\ contexts'[c] = [contexts[c] EXCEPT !.at = stage]
      /\ \A d \in Contexts \ {c} : contexts'[d] = contexts[d]
      /\ contexts' \in [Contexts -> ContextType]
  BY DEF AgentInv, Unchanging, AgentTypeOK, ContextType, ContextStages
<1>2. \A d \in Contexts : /\ contexts'[d].shared = contexts[d].shared
                          /\ contexts'[d].saved = contexts[d].saved
                          /\ contexts'[d].asked = contexts[d].asked
                          /\ contexts'[d].reads = contexts[d].reads
                          /\ contexts'[d].at = contexts[d].at \/ d = c
  BY <1>1 DEF ContextType, AgentInv, Unchanging, AgentTypeOK
<1>3. InFlight' = InFlight \ {c} /\ c \in InFlight
  BY <1>1 DEF InFlight, Waiting, ContextType, AgentInv, Unchanging, AgentTypeOK
<1>4. ~ Mishap' => ~ Mishap /\ stage # "abandoned"
  BY <1>1, <1>2 DEF Mishap, Waiting, ContextType, AgentInv, Unchanging, AgentTypeOK
<1>5. Unchanging'
  BY <1>1, <1>2 DEF AgentInv, Unchanging, AgentTypeOK, Grouped, Untouched, ContextType
<1>6. SharedKnown'
  BY <1>2, <1>3 DEF AgentInv, Identity, SharedKnown, InFlight
<1>7. AloneIsOwn'
  <2>1. \A d \in InFlight' : contexts'[d].shared = "yes"
    BY <1>2, <1>3 DEF AgentInv, Identity, SharedKnown, InFlight
  <2>2. ContextOfOneAgent'
    BY <1>1, <1>2, <1>3 DEF AgentInv, Identity, AloneIsOwn, ContextOfOneAgent
  <2>3. QED
    BY <2>1, <2>2 DEF AloneIsOwn
<1>8. HomeIsSaved'
  BY <1>2, <1>3, <1>4 DEF AgentInv, Identity, HomeIsSaved, InFlight
<1>9. HomeWhenCalm'
  BY <1>3, <1>4 DEF AgentInv, Identity, HomeIsSaved, HomeWhenCalm, Calm
<1>10. QED
  BY <1>5, <1>6, <1>7, <1>8, <1>9 DEF AgentInv, Identity, CalmRequest

LEMMA EndKeeps ==
  ASSUME AgentInv, NEW c \in Contexts, EndContext(c)
  PROVE  AgentInv'
<1>1. contexts[c].saved \in Identities /\ contexts[c].saved.group = contexts[c].saved.sim
  BY DEF AgentInv, Unchanging, AgentTypeOK, Grouped, ContextType
<1>2. provider' = contexts[c].saved
  BY <1>1 DEF EndContext, Identities
<1>3. QED
  BY <1>1, <1>2, LeavingKeeps DEF EndContext, Waiting

LEMMA FailKeeps ==
  ASSUME AgentInv, NEW c \in Contexts, ContextFails(c)
  PROVE  AgentInv'
<1> DEFINE stage == IF provider = contexts[c].saved THEN "failed" ELSE "abandoned"
<1>1. stage \in {"done", "failed", "abandoned"} /\ (stage # "abandoned" => provider = contexts[c].saved)
  OBVIOUS
<1>2. contexts' = [contexts EXCEPT ![c].at = stage] /\ UNCHANGED <<provider, request>>
  BY DEF ContextFails
<1>3. provider \in Identities /\ provider.group = provider.sim /\ contexts[c].at \in Waiting
  BY DEF AgentInv, Unchanging, AgentTypeOK, Grouped, ContextFails
<1> HIDE DEF stage
<1>4. QED
  BY <1>1, <1>2, <1>3, LeavingKeeps

-----------------------------------------------------------------------------
LEMMA AgentInitEstablishes == AgentInit => AgentInv
<1> SUFFICES ASSUME AgentInit PROVE AgentInv
  OBVIOUS
<1>1. NoContext \in ContextType
  BY HomeIsKnown, HomeTyped DEF NoContext, ContextType, ContextStages
<1>2. InFlight = {}
  BY DEF AgentInit, InFlight, Waiting, NoContext
<1>3. AgentTypeOK
  BY <1>1, HomeTyped DEF AgentInit, AgentTypeOK
<1>4. Grouped /\ Untouched
  BY DEF AgentInit, Grouped, Untouched, NoContext, HomeIdentity
<1>5. Identity
  BY <1>2 DEF AgentInit, Identity, SharedKnown, AloneIsOwn, ContextOfOneAgent, HomeIsSaved,
              HomeWhenCalm, NoContext
<1>6. QED
  BY <1>3, <1>4, <1>5 DEF AgentInv, Unchanging, CalmRequest, AgentInit

(* A request in the provider's own name is in the name of home when calm. *)
LEMMA RequestKeeps ==
  ASSUME AgentInv, UNCHANGED <<provider, contexts>>,
         request'.during = "calm" =>
           Calm /\ request'.user = provider.agent
                /\ (request'.group = provider.group \/ request'.group = provider.sim)
  PROVE  AgentInv'
<1>1. Unchanging' /\ Identity'
  BY DEF AgentInv, Unchanging, Identity, AgentTypeOK, Grouped, Untouched, SharedKnown, AloneIsOwn,
         ContextOfOneAgent, HomeIsSaved, HomeWhenCalm, Mishap, Calm, InFlight
<1>2. CalmRequest'
  BY DEF CalmRequest, AgentInv, Identity, HomeWhenCalm, HomeIdentity
<1>3. QED
  BY <1>1, <1>2 DEF AgentInv

LEMMA AgentStep == AgentInv /\ [ProviderStep]_agentVars => AgentInv'
<1> SUFFICES ASSUME AgentInv, [ProviderStep]_agentVars PROVE AgentInv'
  OBVIOUS
<1>1. CASE Request
  BY <1>1, RequestKeeps DEF Request
<1>2. ASSUME NEW a \in Agents \union {None}, NEW s \in Sims \union {None}, Thought(a, s)
      PROVE  AgentInv'
  BY <1>2, RequestKeeps DEF Thought, Or
<1>3. CASE UNCHANGED agentVars
  <2>1. UNCHANGED <<provider, contexts, request>>
    BY <1>3 DEF agentVars
  <2>2. Unchanging' /\ Identity' /\ CalmRequest'
    BY <2>1 DEF AgentInv, Unchanging, Identity, AgentTypeOK, Grouped, Untouched, SharedKnown, AloneIsOwn,
           ContextOfOneAgent, HomeIsSaved, HomeWhenCalm, Mishap, Calm, InFlight, CalmRequest
  <2>3. QED
    BY <2>2 DEF AgentInv
<1>4. QED
  BY <1>1, <1>2, <1>3, StartKeeps, ReadKeeps, EndKeeps, FailKeeps DEF ProviderStep

LEMMA AgentInvSuffices == AgentInv => IdentityKept /\ ContextOfOneAgent
BY DEF AgentInv, Unchanging, Identity, Grouped, AloneIsOwn, HomeWhenCalm, CalmRequest, IdentityKept

-----------------------------------------------------------------------------
(* While no context is being read, none has overlapped with another and    *)
(* none has failed half way, the provider is the one it was made as, and   *)
(* so is what it asks and stores.                                          *)
THEOREM AgentIdentity == AgentSpec => []IdentityKept
BY AgentInitEstablishes, AgentStep, AgentInvSuffices, PTL DEF AgentSpec

(* A context that overlapped with no other is of one agent, whatever       *)
(* happened to the provider before it.                                     *)
THEOREM AgentContexts == AgentSpec => []ContextOfOneAgent
BY AgentInitEstablishes, AgentStep, AgentInvSuffices, PTL DEF AgentSpec

(* The hooks of a simulation leave the provider to its agent: a run of the *)
(* simulation is one of the provider.                                      *)
THEOREM SimulationImplementsAgent == Spec => AgentSpec
<1>1. Init => AgentInit
  BY DEF Init
<1>2. [Next]_vars => [ProviderStep]_agentVars
  BY DEF Next, vars, agentVars
<1>3. QED
  BY <1>1, <1>2, PTL DEF Spec, AgentSpec

(* So both hold of a simulation. *)
THEOREM SimulationIdentity == Spec => [](IdentityKept /\ ContextOfOneAgent)
BY SimulationImplementsAgent, AgentInitEstablishes, AgentStep, AgentInvSuffices, PTL DEF AgentSpec
-----------------------------------------------------------------------------
HookStages == {"idle", "start", "acting", "round_end", "episodic", "foresight", "ended"}
Outcomes == {"none", "stored", "refused"}

HookType == [at : HookStages, round : 0..MaxRounds, next : Nat, given : SUBSET Agents]

HookTypeOK ==
  /\ hook \in HookType
  /\ hook.at \in {"start", "round_end"} \union AtEnd => hook.next \in 1..Len(AgentList)
  /\ hook.at # "idle" => hook.round > 0
  /\ written \in [Slots -> Outcomes]

(* The rounds that are over.                                               *)
Past == IF hook.at \in {"start", "acting", "round_end"} THEN hook.round - 1 ELSE hook.round

(* Nothing is written ahead of its time.                                   *)
WrittenInTime ==
  \A a \in Agents, r \in 0..MaxRounds :
    /\ written[<<"mem_cell", a, r>>] # "none" =>
         r \in 1 .. (IF hook.at = "round_end" THEN hook.round ELSE Past)
    /\ \A k \in AtEnd : written[<<k, a, r>>] # "none" =>
         r = hook.round /\ hook.at \in AtEnd \union {"ended"}

(* What a hook has passed is written, and what it has passed of this round *)
(* and of the end.                                                         *)
PastWritten ==
  \A i \in DOMAIN AgentList, r \in 1..MaxRounds :
    r =< Past => written[<<"mem_cell", AgentList[i], r>>] # "none"

RoundWritten ==
  hook.at = "round_end" =>
    \A i \in 1 .. hook.next - 1 : written[<<"mem_cell", AgentList[i], hook.round>>] # "none"

EndWritten ==
  /\ hook.at \in AtEnd \union {"ended"} =>
       \A k \in AtEnd, i \in DOMAIN AgentList :
         i < hook.next => written[<<k, AgentList[i], hook.round>>] # "none"
  /\ hook.at = "foresight" =>
       written[<<"episodic", AgentList[hook.next], hook.round>>] # "none"
  /\ hook.at = "ended" => hook.next = Len(AgentList) + 1

HookInv == HookTypeOK /\ WrittenInTime /\ PastWritten /\ RoundWritten /\ EndWritten

-----------------------------------------------------------------------------
LEMMA AgentListed ==
  /\ Len(AgentList) \in Nat \ {0} /\ DOMAIN AgentList = 1..Len(AgentList)
  /\ \A i \in 1..Len(AgentList) : AgentList[i] \in Agents
BY AgentsInOrder

(* A hook that goes on keeps its round. *)
LEMMA HookGoesOn ==
  ASSUME hook \in HookType, NEW stage \in HookStages, NEW n \in Nat, NEW g \in SUBSET Agents,
         hook' = [hook EXCEPT !.at = stage, !.next = n, !.given = g]
  PROVE  /\ hook'.at = stage /\ hook'.next = n /\ hook'.round = hook.round
         /\ hook' \in HookType
BY DEF HookType

LEMMA HookKeepsAgents ==
  ASSUME hook \in HookType, NEW stage \in HookStages, NEW n \in Nat,
         hook' = [hook EXCEPT !.at = stage, !.next = n]
  PROVE  /\ hook'.at = stage /\ hook'.next = n /\ hook'.round = hook.round
         /\ hook' \in HookType
BY DEF HookType

(* What a hook stores goes into the slot of its agent and round. *)
LEMMA StoreEffect ==
  ASSUME HookTypeOK, hook.next \in 1..Len(AgentList),
         NEW kind \in {"mem_cell"} \union AtEnd, Store(kind)
  PROVE  /\ <<kind, AgentList[hook.next], hook.round>> \in Slots
         /\ written' \in [Slots -> Outcomes]
         /\ written'[<<kind, AgentList[hook.next], hook.round>>] # "none"
         /\ \A x \in Slots : x # <<kind, AgentList[hook.next], hook.round>> => written'[x] = written[x]
<1>1. <<kind, AgentList[hook.next], hook.round>> \in Slots
  BY AgentListed DEF Slots, HookTypeOK, HookType
<1>2. PICK outcome \in {"stored", "refused"} :
        written' = [written EXCEPT ![<<kind, AgentList[hook.next], hook.round>>] = outcome]
  BY DEF Store, Agent
<1>3. QED
  BY <1>1, <1>2 DEF HookTypeOK, Outcomes

LEMMA SlotOf ==
  ASSUME NEW k \in {"mem_cell"} \union AtEnd, NEW a \in Agents, NEW r \in 0..MaxRounds
  PROVE  <<k, a, r>> \in Slots
BY DEF Slots

LEMMA ListedSlot ==
  ASSUME NEW k \in {"mem_cell"} \union AtEnd, NEW i \in DOMAIN AgentList, NEW r \in 1..MaxRounds
  PROVE  <<k, AgentList[i], r>> \in Slots
<1>1. AgentList[i] \in Agents /\ r \in 0..MaxRounds
  BY AgentListed, RoundsBound
<1>2. QED
  BY <1>1, SlotOf

(* A step of the hooks that stores nothing. *)
LEMMA HookMovesOn ==
  ASSUME HookInv, UNCHANGED written, StartRound \/ AgentRecalls \/ EndRound \/ EndSimulation
  PROVE  HookInv'
<1> USE AgentListed, RoundsBound
<1> DEFINE Moves == \/ hook.at = "idle" /\ hook'.at = "start" /\ hook'.round = hook.round + 1
                    \/ hook.at = "start" /\ hook'.at = "start" /\ hook'.round = hook.round
                    \/ hook.at = "start" /\ hook'.at = "acting" /\ hook'.round = hook.round
                    \/ hook.at = "acting" /\ hook'.at = "round_end" /\ hook'.round = hook.round
                    \/ hook.at = "idle" /\ hook'.at = "episodic" /\ hook'.round = hook.round
           Moved == /\ hook' \in HookType
                    /\ hook'.at \in {"start", "round_end", "episodic"} => hook'.next \in 1..Len(AgentList)
                    /\ hook'.at \in {"round_end", "episodic"} => hook'.next = 1
                    /\ hook'.round > 0
                    /\ Moves
<1>1. hook \in HookType /\ hook.round \in Nat /\ hook.round =< MaxRounds
  BY DEF HookInv, HookTypeOK, HookType
<1>2. ASSUME StartRound PROVE Moved
  <2>1. /\ hook.at = "idle" /\ hook.round < MaxRounds
        /\ hook' = [at |-> "start", round |-> hook.round + 1, next |-> 1, given |-> {}]
    BY <1>2 DEF StartRound
  <2>2. hook' \in HookType
    BY <1>1, <2>1 DEF HookType, HookStages
  <2>3. QED
    BY <1>1, <2>1, <2>2 DEF AtEnd
<1>3. ASSUME AgentRecalls PROVE Moved
  <2>1. hook.next \in 1..Len(AgentList) /\ Agent \in Agents /\ hook.at = "start" /\ hook.round > 0
    BY <1>3 DEF HookInv, HookTypeOK, HookType, AgentRecalls, Agent
  <2> DEFINE stage == IF IsLast THEN "acting" ELSE "start"
  <2>2. hook' = [hook EXCEPT !.at = stage, !.next = hook.next + 1, !.given = hook.given \union {Agent}]
    BY <1>3 DEF AgentRecalls
  <2>3. stage = "acting" \/ (stage = "start" /\ hook.next + 1 \in 1..Len(AgentList))
    <3>1. CASE hook.next = Len(AgentList)
      BY <3>1 DEF IsLast
    <3>2. CASE hook.next # Len(AgentList)
      <4>1. hook.next + 1 \in 1..Len(AgentList)
        BY <2>1, <3>2
      <4>2. stage = "start"
        BY <3>2 DEF IsLast
      <4>3. QED
        BY <4>1, <4>2
    <3>3. QED
      BY <3>1, <3>2
  <2>4. stage \in HookStages /\ hook.next + 1 \in Nat /\ hook.given \union {Agent} \in SUBSET Agents
    BY <1>1, <2>1 DEF HookStages, HookType
  <2> HIDE DEF stage
  <2>5. /\ hook'.at = stage /\ hook'.next = hook.next + 1 /\ hook'.round = hook.round
        /\ hook' \in HookType
    BY <1>1, <2>2, <2>4, HookGoesOn
  <2>6. QED
    BY <2>1, <2>3, <2>5 DEF AtEnd
<1>4. ASSUME EndRound PROVE Moved
  <2>1. hook.at = "acting" /\ hook.round > 0 /\ hook' = [hook EXCEPT !.at = "round_end", !.next = 1]
    BY <1>4 DEF EndRound, HookInv, HookTypeOK, HookType
  <2>2. "round_end" \in HookStages /\ 1 \in Nat /\ 1 \in 1..Len(AgentList)
    BY DEF HookStages
  <2>3. /\ hook'.at = "round_end" /\ hook'.next = 1 /\ hook'.round = hook.round /\ hook' \in HookType
    BY <1>1, <2>1, <2>2, HookKeepsAgents
  <2>4. QED
    BY <2>1, <2>2, <2>3
<1>5. ASSUME EndSimulation PROVE Moved
  <2>1. hook.at = "idle" /\ hook.round > 0 /\ hook' = [hook EXCEPT !.at = "episodic", !.next = 1]
    BY <1>5 DEF EndSimulation
  <2>2. "episodic" \in HookStages /\ 1 \in Nat /\ 1 \in 1..Len(AgentList)
    BY DEF HookStages
  <2>3. /\ hook'.at = "episodic" /\ hook'.next = 1 /\ hook'.round = hook.round /\ hook' \in HookType
    BY <1>1, <2>1, <2>2, HookKeepsAgents
  <2>4. QED
    BY <2>1, <2>2, <2>3
<1>6. Moved
  BY <1>2, <1>3, <1>4, <1>5
<1>7. HookTypeOK'
  BY <1>6 DEF HookInv, HookTypeOK, AtEnd
<1>8. Moves
  BY <1>6
<1>9. hook'.at \in {"round_end", "episodic"} => hook'.next = 1
  BY <1>6
<1> HIDE DEF Moved
<1>10. hook.round + 1 - 1 = hook.round /\ hook.round - 1 \in Int /\ hook.round - 1 =< hook.round
  BY <1>1
<1>11. Past' = Past /\ Past \in Int /\ Past =< hook'.round
  <2>1. CASE hook.at = "idle" /\ hook'.at = "start" /\ hook'.round = hook.round + 1
    BY <1>1, <1>10, <2>1 DEF Past
  <2>2. CASE hook.at = "idle" /\ hook'.at = "episodic" /\ hook'.round = hook.round
    BY <1>1, <2>2 DEF Past
  <2>3. CASE hook.at \in {"start", "acting"} /\ hook'.at \in {"start", "acting", "round_end"}
             /\ hook'.round = hook.round
    BY <1>1, <1>10, <2>3 DEF Past
  <2>4. QED
    BY <1>8, <2>1, <2>2, <2>3
<1>12. WrittenInTime'
  <2> SUFFICES ASSUME NEW a \in Agents, NEW r \in 0..MaxRounds
               PROVE  /\ written'[<<"mem_cell", a, r>>] # "none" =>
                           r \in 1 .. (IF hook'.at = "round_end" THEN hook'.round ELSE Past')
                      /\ \A k \in AtEnd : written'[<<k, a, r>>] = "none"
    BY DEF WrittenInTime
  <2>1. written[<<"mem_cell", a, r>>] # "none" => r \in 1..Past
    BY <1>8 DEF HookInv, WrittenInTime
  <2>2. \A k \in AtEnd : written[<<k, a, r>>] = "none"
    BY <1>8 DEF HookInv, WrittenInTime, AtEnd
  <2>3. r \in 1..Past => r \in 1..Past' /\ r \in 1..hook'.round
    BY <1>11, <1>1, <1>8
  <2>4. QED
    BY <2>1, <2>2, <2>3
<1>13. PastWritten'
  BY <1>11 DEF HookInv, PastWritten
<1>14. RoundWritten' /\ EndWritten'
  BY <1>8, <1>9 DEF RoundWritten, EndWritten, AtEnd
<1>15. QED
  BY <1>7, <1>12, <1>13, <1>14 DEF HookInv

(* One agent's part of a round. *)
LEMMA RoundMovesOn ==
  ASSUME HookInv, EndRoundOf
  PROVE  HookInv'
<1> USE AgentListed, RoundsBound
<1> DEFINE here == <<"mem_cell", AgentList[hook.next], hook.round>>
<1>1. /\ hook.at = "round_end" /\ hook.next \in 1..Len(AgentList) /\ hook.round \in 1..MaxRounds
      /\ hook'.round = hook.round /\ hook'.next = hook.next + 1
      /\ hook'.at = IF hook.next = Len(AgentList) THEN "idle" ELSE "round_end"
      /\ hook' \in HookType
  <2> DEFINE stage == IF hook.next = Len(AgentList) THEN "idle" ELSE "round_end"
  <2>1. /\ hook \in HookType /\ hook.at = "round_end" /\ hook.next \in 1..Len(AgentList)
        /\ hook.round > 0 /\ hook.round \in 0..MaxRounds
    BY DEF HookInv, HookTypeOK, HookType, EndRoundOf, AtEnd
  <2>2. hook' = [hook EXCEPT !.at = stage, !.next = hook.next + 1]
    BY DEF EndRoundOf, IsLast
  <2>3. stage \in HookStages /\ hook.next + 1 \in Nat /\ hook.round \in 1..MaxRounds
    BY <2>1 DEF HookStages
  <2> HIDE DEF stage
  <2>4. /\ hook'.at = stage /\ hook'.next = hook.next + 1 /\ hook'.round = hook.round
        /\ hook' \in HookType
    BY <2>1, <2>2, <2>3, HookKeepsAgents
  <2>5. QED
    BY <2>1, <2>3, <2>4 DEF stage
<1>2. /\ here \in Slots /\ written' \in [Slots -> Outcomes] /\ written'[here] # "none"
      /\ \A x \in Slots : x # here => written'[x] = written[x]
  BY <1>1, StoreEffect DEF EndRoundOf, HookInv
<1>3. HookTypeOK'
  BY <1>1, <1>2 DEF HookTypeOK, HookType, AtEnd
<1>4. \A x \in Slots : written[x] # "none" => written'[x] # "none"
  BY <1>2
<1>5. /\ Past = hook.round - 1
      /\ Past' = IF hook.next = Len(AgentList) THEN hook.round ELSE hook.round - 1
  BY <1>1 DEF Past
<1>6. WrittenInTime'
  <2> SUFFICES ASSUME NEW a \in Agents, NEW r \in 0..MaxRounds
               PROVE  /\ written'[<<"mem_cell", a, r>>] # "none" => r \in 1..hook.round
                      /\ \A k \in AtEnd : written'[<<k, a, r>>] = "none"
    BY <1>1, <1>5 DEF WrittenInTime
  <2>1. written'[<<"mem_cell", a, r>>] # "none" => r \in 1..hook.round
    BY <1>1, <1>2, SlotOf DEF HookInv, WrittenInTime
  <2>2. ASSUME NEW k \in AtEnd PROVE written'[<<k, a, r>>] = "none"
    <3>1. <<k, a, r>> # here /\ <<k, a, r>> \in Slots
      BY SlotOf DEF AtEnd
    <3>2. written[<<k, a, r>>] = "none"
      BY <1>1 DEF HookInv, WrittenInTime, AtEnd
    <3>3. QED
      BY <1>2, <3>1, <3>2
  <2>3. QED
    BY <2>1, <2>2
<1>7. \A i \in 1..hook.next : written'[<<"mem_cell", AgentList[i], hook.round>>] # "none"
  <2> SUFFICES ASSUME NEW i \in 1..hook.next
               PROVE  written'[<<"mem_cell", AgentList[i], hook.round>>] # "none"
    OBVIOUS
  <2>1. CASE i = hook.next
    BY <1>2, <2>1
  <2>2. CASE i # hook.next
    <3>1. written[<<"mem_cell", AgentList[i], hook.round>>] # "none"
      BY <1>1, <2>2 DEF HookInv, RoundWritten
    <3>2. <<"mem_cell", AgentList[i], hook.round>> \in Slots
      BY <1>1, SlotOf
    <3>3. QED
      BY <1>4, <3>1, <3>2
  <2>3. QED
    BY <2>1, <2>2
<1>8. PastWritten'
  <2> SUFFICES ASSUME NEW i \in DOMAIN AgentList, NEW r \in 1..MaxRounds, r =< Past'
               PROVE  written'[<<"mem_cell", AgentList[i], r>>] # "none"
    BY DEF PastWritten
  <2>1. CASE r = hook.round
    BY <1>1, <1>5, <1>7, <2>1
  <2>2. CASE r # hook.round
    <3>1. written[<<"mem_cell", AgentList[i], r>>] # "none"
      BY <1>1, <1>5, <2>2 DEF HookInv, PastWritten
    <3>2. <<"mem_cell", AgentList[i], r>> \in Slots
      BY ListedSlot
    <3>3. QED
      BY <1>4, <3>1, <3>2
  <2>3. QED
    BY <2>1, <2>2
<1>9. RoundWritten' /\ EndWritten'
  BY <1>1, <1>7 DEF RoundWritten, EndWritten, AtEnd
<1>10. QED
  BY <1>3, <1>6, <1>8, <1>9 DEF HookInv

-----------------------------------------------------------------------------
(* What is stored at the end: what was written stays, what is new belongs  *)
(* to the end.                                                             *)
LEMMA EndStores ==
  ASSUME HookInv, NEW kind \in AtEnd, hook.at = kind, Store(kind),
         hook'.at \in AtEnd \union {"ended"}, hook'.round = hook.round
  PROVE  /\ \A x \in Slots : written[x] # "none" => written'[x] # "none"
         /\ written'[<<kind, AgentList[hook.next], hook.round>>] # "none"
         /\ written' \in [Slots -> Outcomes]
         /\ WrittenInTime' /\ PastWritten'
<1> USE AgentListed, RoundsBound
<1> DEFINE here == <<kind, AgentList[hook.next], hook.round>>
<1>1. /\ hook.next \in 1..Len(AgentList) /\ hook.round \in 1..MaxRounds
      /\ Past = hook.round /\ Past' = hook.round
  BY DEF HookInv, HookTypeOK, HookType, AtEnd, Past
<1>2. /\ here \in Slots /\ written' \in [Slots -> Outcomes] /\ written'[here] # "none"
      /\ \A x \in Slots : x # here => written'[x] = written[x]
  BY <1>1, StoreEffect DEF HookInv
<1>3. \A x \in Slots : written[x] # "none" => written'[x] # "none"
  BY <1>2
<1>4. WrittenInTime'
  <2> SUFFICES ASSUME NEW a \in Agents, NEW r \in 0..MaxRounds
               PROVE  /\ written'[<<"mem_cell", a, r>>] # "none" => r \in 1..hook.round
                      /\ \A k \in AtEnd : written'[<<k, a, r>>] # "none" => r = hook.round
    BY <1>1 DEF WrittenInTime, AtEnd
  <2>1. written'[<<"mem_cell", a, r>>] = written[<<"mem_cell", a, r>>]
    <3>1. <<"mem_cell", a, r>> # here /\ <<"mem_cell", a, r>> \in Slots
      BY SlotOf DEF AtEnd
    <3>2. QED
      BY <1>2, <3>1
  <2>2. written[<<"mem_cell", a, r>>] # "none" => r \in 1..hook.round
    BY <1>1 DEF HookInv, WrittenInTime, AtEnd
  <2>3. ASSUME NEW k \in AtEnd, r # hook.round PROVE written'[<<k, a, r>>] = "none"
    <3>1. <<k, a, r>> # here /\ <<k, a, r>> \in Slots
      BY <2>3, SlotOf
    <3>2. written[<<k, a, r>>] = "none"
      BY <2>3 DEF HookInv, WrittenInTime
    <3>3. QED
      BY <1>2, <3>1, <3>2
  <2>4. QED
    BY <2>1, <2>2, <2>3
<1>5. PastWritten'
  <2> SUFFICES ASSUME NEW i \in DOMAIN AgentList, NEW r \in 1..MaxRounds, r =< Past'
               PROVE  written'[<<"mem_cell", AgentList[i], r>>] # "none"
    BY DEF PastWritten
  <2>1. written[<<"mem_cell", AgentList[i], r>>] # "none"
    BY <1>1 DEF HookInv, PastWritten
  <2>2. <<"mem_cell", AgentList[i], r>> \in Slots
    BY ListedSlot
  <2>3. QED
    BY <1>3, <2>1, <2>2
<1>6. QED
  BY <1>2, <1>3, <1>4, <1>5

LEMMA EpisodesMoveOn ==
  ASSUME HookInv, SummariseEpisodes
  PROVE  HookInv'
<1> USE AgentListed, RoundsBound
<1>1. /\ hook.at = "episodic" /\ hook'.at = "foresight" /\ hook'.next = hook.next
      /\ hook'.round = hook.round /\ hook.next \in 1..Len(AgentList) /\ hook.round \in 1..MaxRounds
      /\ hook' \in HookType
  <2>1. /\ hook \in HookType /\ hook.at = "episodic" /\ hook.next \in 1..Len(AgentList)
        /\ hook.round \in 1..MaxRounds
    BY DEF HookInv, HookTypeOK, HookType, SummariseEpisodes, AtEnd
  <2>2. hook' = [hook EXCEPT !.at = "foresight"]
    BY DEF SummariseEpisodes
  <2>3. QED
    BY <2>1, <2>2 DEF HookType, HookStages
<1>2. /\ \A x \in Slots : written[x] # "none" => written'[x] # "none"
      /\ written'[<<"episodic", AgentList[hook.next], hook.round>>] # "none"
      /\ written' \in [Slots -> Outcomes]
      /\ WrittenInTime' /\ PastWritten'
  BY <1>1, EndStores DEF SummariseEpisodes, AtEnd
<1>3. HookTypeOK'
  BY <1>1, <1>2 DEF HookTypeOK, HookType
<1>4. ASSUME NEW k \in AtEnd, NEW i \in DOMAIN AgentList, i < hook.next
      PROVE  written'[<<k, AgentList[i], hook.round>>] # "none"
  <2>1. written[<<k, AgentList[i], hook.round>>] # "none"
    BY <1>1, <1>4 DEF HookInv, EndWritten, AtEnd
  <2>2. <<k, AgentList[i], hook.round>> \in Slots
    BY <1>1, ListedSlot
  <2>3. QED
    BY <1>2, <2>1, <2>2
<1>5. RoundWritten' /\ EndWritten'
  BY <1>1, <1>2, <1>4 DEF RoundWritten, EndWritten, AtEnd
<1>6. QED
  BY <1>2, <1>3, <1>5 DEF HookInv

LEMMA ForesightMovesOn ==
  ASSUME HookInv, Foresee
  PROVE  HookInv'
<1> USE AgentListed, RoundsBound
<1>1. /\ hook.at = "foresight" /\ hook.next \in 1..Len(AgentList) /\ hook.round \in 1..MaxRounds
      /\ hook'.round = hook.round /\ hook'.next = hook.next + 1
      /\ hook'.at = IF hook.next = Len(AgentList) THEN "ended" ELSE "episodic"
      /\ hook' \in HookType
  <2> DEFINE stage == IF hook.next = Len(AgentList) THEN "ended" ELSE "episodic"
  <2>1. /\ hook \in HookType /\ hook.at = "foresight" /\ hook.next \in 1..Len(AgentList)
        /\ hook.round > 0 /\ hook.round \in 0..MaxRounds
    BY DEF HookInv, HookTypeOK, HookType, Foresee, AtEnd
  <2>2. hook' = [hook EXCEPT !.at = stage, !.next = hook.next + 1]
    BY DEF Foresee, IsLast
  <2>3. stage \in HookStages /\ hook.next + 1 \in Nat /\ hook.round \in 1..MaxRounds
    BY <2>1 DEF HookStages
  <2> HIDE DEF stage
  <2>4. /\ hook'.at = stage /\ hook'.next = hook.next + 1 /\ hook'.round = hook.round
        /\ hook' \in HookType
    BY <2>1, <2>2, <2>3, HookKeepsAgents
  <2>5. QED
    BY <2>1, <2>3, <2>4 DEF stage
<1>2. /\ \A x \in Slots : written[x] # "none" => written'[x] # "none"
      /\ written'[<<"foresight", AgentList[hook.next], hook.round>>] # "none"
      /\ written' \in [Slots -> Outcomes]
      /\ WrittenInTime' /\ PastWritten'
  BY <1>1, EndStores DEF Foresee, AtEnd
<1>3. HookTypeOK'
  BY <1>1, <1>2 DEF HookTypeOK, HookType, AtEnd
<1>4. ASSUME NEW k \in AtEnd, NEW i \in DOMAIN AgentList, i < hook.next + 1
      PROVE  written'[<<k, AgentList[i], hook.round>>] # "none"
  <2>1. <<k, AgentList[i], hook.round>> \in Slots
    BY <1>1, ListedSlot
  <2>2. CASE i < hook.next \/ k = "episodic"
    <3>1. written[<<k, AgentList[i], hook.round>>] # "none"
      BY <1>1, <1>4, <2>2 DEF HookInv, EndWritten, AtEnd
    <3>2. QED
      BY <1>2, <2>1, <3>1
  <2>3. CASE i = hook.next /\ k = "foresight"
    BY <1>2, <2>3
  <2>4. QED
    BY <1>1, <1>4, <2>2, <2>3 DEF AtEnd
<1>5. RoundWritten' /\ EndWritten'
  BY <1>1, <1>4 DEF RoundWritten, EndWritten, AtEnd
<1>6. QED
  BY <1>2, <1>3, <1>5 DEF HookInv

-----------------------------------------------------------------------------
LEMMA HookInitEstablishes == HookInit => HookInv
<1> SUFFICES ASSUME HookInit PROVE HookInv
  OBVIOUS
<1>1. HookTypeOK
  BY RoundsBound DEF HookInit, HookTypeOK, HookType, HookStages, Outcomes, AtEnd
<1>2. \A x \in Slots : written[x] = "none"
  BY DEF HookInit
<1>3. WrittenInTime
  BY <1>2, SlotOf DEF WrittenInTime
<1>4. PastWritten /\ RoundWritten /\ EndWritten
  BY RoundsBound DEF HookInit, PastWritten, RoundWritten, EndWritten, Past, AtEnd
<1>5. QED
  BY <1>1, <1>3, <1>4 DEF HookInv

LEMMA HooksStep == HookInv /\ [Next]_vars => HookInv'
<1> SUFFICES ASSUME HookInv, [Next]_vars PROVE HookInv'
  OBVIOUS
<1>1. CASE HookStep
  BY <1>1, HookMovesOn, RoundMovesOn, EpisodesMoveOn, ForesightMovesOn
     DEF HookStep, StartRound, AgentRecalls, EndRound, EndSimulation
<1>2. CASE UNCHANGED hookVars
  BY <1>2 DEF hookVars, HookInv, HookTypeOK, HookType, WrittenInTime, PastWritten, RoundWritten, EndWritten, Past
<1>3. QED
  BY <1>1, <1>2 DEF Next, vars, hookVars

LEMMA HookInvSuffices == HookInv => EveryoneSummarised
<1> SUFFICES ASSUME HookInv, NEW k \in {"mem_cell"} \union AtEnd, NEW a \in Members, NEW r \in 0..MaxRounds
             PROVE  LET due == \/ k = "mem_cell" /\ r \in 1..Past
                               \/ k \in AtEnd /\ hook.at = "ended" /\ r = hook.round
                    IN  /\ due => written[<<k, a, r>>] # "none"
                        /\ ~ due /\ hook.at \notin {"round_end"} \union AtEnd
                             => written[<<k, a, r>>] = "none"
  BY DEF EveryoneSummarised, Past
<1>1. PICK i \in DOMAIN AgentList : a = AgentList[i]
  BY DEF Members
<1>2. i \in 1..Len(AgentList) /\ a \in Agents
  BY <1>1, AgentListed
<1>3. CASE k = "mem_cell"
  <2>1. r \in 1..Past => written[<<k, a, r>>] # "none"
    BY <1>1, <1>3, RoundsBound DEF HookInv, PastWritten, Past, HookTypeOK, HookType
  <2>2. written[<<k, a, r>>] # "none" => r \in 1..(IF hook.at = "round_end" THEN hook.round ELSE Past)
    BY <1>2, <1>3 DEF HookInv, WrittenInTime
  <2>3. QED
    BY <1>3, <2>1, <2>2 DEF AtEnd
<1>4. CASE k \in AtEnd
  <2>1. hook.at = "ended" => written[<<k, a, hook.round>>] # "none"
    BY <1>1, <1>2, <1>4, AgentListed DEF HookInv, EndWritten
  <2>2. written[<<k, a, r>>] # "none" => r = hook.round /\ hook.at \in AtEnd \union {"ended"}
    BY <1>2, <1>4 DEF HookInv, WrittenInTime
  <2>3. QED
    BY <1>4, <2>1, <2>2 DEF AtEnd
<1>5. QED
  BY <1>3, <1>4

(* No round and no agent is left out, whatever request fails: what is due  *)
(* has been written, and nothing before its time.                          *)
THEOREM Summarised == Spec => []EveryoneSummarised
<1>1. Init => HookInv
  BY HookInitEstablishes DEF Init
<1>2. QED
  BY <1>1, HooksStep, HookInvSuffices, PTL DEF Spec
=============================================================================
