---------------------------- MODULE MCGraphBuild ----------------------------
(***************************************************************************)
(* GraphBuild on a small instance.  The run has a liveness property, so    *)
(* the jobs are told apart although nothing but the queue orders them.     *)
(***************************************************************************)
EXTENDS GraphBuild
=============================================================================
