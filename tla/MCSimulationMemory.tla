------------------------- MODULE MCSimulationMemory -------------------------
(***************************************************************************)
(* SimulationMemory on a small instance: two rounds of two agents, and     *)
(* two contexts read through the provider of the first.                    *)
(***************************************************************************)
EXTENDS SimulationMemory

MCAgents == {"a1", "a2"}
MCAgentList == <<"a1", "a2">>
=============================================================================
