-------------------------- MODULE SimulationMemory --------------------------
(***************************************************************************)
(* What one simulation leaves in EverMemOS: the lifecycle hooks            *)
(* (simulation/memory_hooks.py) around the rounds, and the provider of an  *)
(* agent that acts in them.  The caller of the hooks is the simulation     *)
(* runner: it calls them one after the other and ends the simulation when  *)
(* the coroutines of the agents are done.                                  *)
(***************************************************************************)
EXTENDS AgentMemory, Naturals, Sequences

CONSTANTS AgentList, MaxRounds
ASSUME RoundsBound == MaxRounds \in Nat
ASSUME AgentsInOrder == AgentList \in Seq(Agents) /\ AgentList # <<>>

VARIABLES hook, written

hookVars == <<hook, written>>

Members == {AgentList[i] : i \in DOMAIN AgentList}
AtEnd == {"episodic", "foresight"}

(* One memory of a kind: of a round, or of the end, when the round is the  *)
(* number of all of them.                                                  *)
Slots == ({"mem_cell"} \union AtEnd) \X Agents \X (0..MaxRounds)

(* "stored" also when its reply is lost: no hook tells that from a refusal.*)
HookInit ==
  /\ hook = [at |-> "idle", round |-> 0, next |-> 1, given |-> {}]
  /\ written = [x \in Slots |-> "none"]

Agent == AgentList[hook.next]
IsLast == hook.next = Len(AgentList)

(* on_round_start, which the caller gives the number of the round.         *)
StartRound ==
  /\ hook.at = "idle" /\ hook.round < MaxRounds
  /\ hook' = [at |-> "start", round |-> hook.round + 1, next |-> 1, given |-> {}]
  /\ UNCHANGED written

(* The memories of one agent, or none if they cannot be had: the runner is *)
(* given an entry for every agent.                                         *)
AgentRecalls ==
  /\ hook.at = "start"
  /\ hook' = [hook EXCEPT !.at = IF IsLast THEN "acting" ELSE "start",
                          !.next = @ + 1, !.given = @ \union {Agent}]
  /\ UNCHANGED written

(* on_round_end, once for every agent of the list; the runner has awaited  *)
(* what its agents did.                                                    *)
EndRound ==
  /\ hook.at = "acting" /\ InFlight = {}
  /\ hook' = [hook EXCEPT !.at = "round_end", !.next = 1]
  /\ UNCHANGED written

(* The request is sent, and the hook goes on whatever becomes of it.       *)
Store(kind) ==
  \E outcome \in {"stored", "refused"} :
    written' = [written EXCEPT ![<<kind, Agent, hook.round>>] = outcome]

EndRoundOf ==
  /\ hook.at = "round_end"
  /\ Store("mem_cell")
  /\ hook' = [hook EXCEPT !.at = IF IsLast THEN "idle" ELSE "round_end", !.next = @ + 1]

(* on_simulation_end.                                                      *)
EndSimulation ==
  /\ hook.at = "idle" /\ hook.round > 0
  /\ hook' = [hook EXCEPT !.at = "episodic", !.next = 1]
  /\ UNCHANGED written

(* Faulty variant: one handler around both memories of an agent.           *)
SummariseEpisodesOrSkip ==
  /\ hook.at = "episodic"
  /\ Store("episodic")
  /\ hook' = IF written'[<<"episodic", Agent, hook.round>>] = "stored"
             THEN [hook EXCEPT !.at = "foresight"]
             ELSE [hook EXCEPT !.at = IF IsLast THEN "ended" ELSE "episodic",
                               !.next = @ + 1]

SummariseEpisodes ==
  /\ hook.at = "episodic"
  /\ Store("episodic")
  /\ hook' = [hook EXCEPT !.at = "foresight"]

Foresee ==
  /\ hook.at = "foresight"
  /\ Store("foresight")
  /\ hook' = [hook EXCEPT !.at = IF IsLast THEN "ended" ELSE "episodic", !.next = @ + 1]

HookStep ==
  \/ StartRound \/ AgentRecalls \/ EndRound \/ EndRoundOf
  \/ EndSimulation \/ SummariseEpisodes \/ Foresee

Init == AgentInit /\ HookInit

(* on_agent_action is the provider's record_action, swallowed failures     *)
(* apart: Request.  Agents act while a round is on.                        *)
Next ==
  \/ HookStep /\ UNCHANGED agentVars
  \/ hook.at = "acting" /\ ProviderStep /\ UNCHANGED hookVars

vars == <<provider, contexts, request, hook, written>>

Spec == Init /\ [][Next]_vars

-----------------------------------------------------------------------------
(* No failure of one request keeps a hook from the next: every round has   *)
(* been summed up for every agent when the next one starts, every agent's  *)
(* end when the simulation has ended, each of them once and with its own   *)
(* outcome, and nothing was written ahead of its time.                     *)
EveryoneSummarised ==
  \A k \in {"mem_cell"} \union AtEnd, a \in Members, r \in 0..MaxRounds :
    LET due == \/ k = "mem_cell" /\ r \in 1 .. (IF hook.at \in {"start", "acting", "round_end"}
                                                THEN hook.round - 1 ELSE hook.round)
               \/ k \in AtEnd /\ hook.at = "ended" /\ r = hook.round
    IN  /\ due => written[<<k, a, r>>] # "none"
        /\ ~ due /\ hook.at \notin {"round_end"} \union AtEnd
             => written[<<k, a, r>>] = "none"
=============================================================================
