SPECIFICATION Spec
CONSTANTS
  Agents <- MCAgents
  AgentList <- MCAgentList
  Home = "a1"
  HomeSim = s1
  Sims = {s1, s2}
  Contexts = {c1, c2}
  None = None
  MaxRounds = 2
INVARIANTS
  IdentityKept
  ContextOfOneAgent
  EveryoneSummarised
CHECK_DEADLOCK FALSE
