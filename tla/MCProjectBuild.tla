--------------------------- MODULE MCProjectBuild ---------------------------
(* ProjectBuild on a small instance; builds are told apart, as the run has  *)
(* a liveness property.                                                     *)
EXTENDS ProjectBuild
=============================================================================
