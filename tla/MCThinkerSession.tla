-------------------------- MODULE MCThinkerSession --------------------------
(***************************************************************************)
(* ThinkerSession on a small instance; job ids and events are each         *)
(* interchangeable.                                                        *)
(***************************************************************************)
EXTENDS ThinkerSession, TLC

SessionSymmetry == Permutations(Jobs) \union Permutations(Events)
=============================================================================
