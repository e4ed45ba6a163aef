--------------------------- MODULE MCProfileSync ---------------------------
(***************************************************************************)
(* ProfileSync on a small instance: two calls, which are interchangeable,  *)
(* on the profiles of two agents, whose bio or name says something or not. *)
(***************************************************************************)
EXTENDS ProfileSync, TLC

MCAgents == {"a1", "a2"}
MCTexts == {"", "text"}
CallSymmetry == Permutations(Calls)
=============================================================================
