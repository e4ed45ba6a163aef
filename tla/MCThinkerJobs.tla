--------------------------- MODULE MCThinkerJobs ---------------------------
(* ThinkerJobs on a small instance: two jobs, told apart as the run has a   *)
(* liveness property.                                                       *)
EXTENDS ThinkerJobs
=============================================================================
