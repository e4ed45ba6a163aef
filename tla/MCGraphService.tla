--------------------------- MODULE MCGraphService ---------------------------
(***************************************************************************)
(* GraphService on a small instance: two requests for the snapshot of one  *)
(* graph, which are interchangeable.                                       *)
(***************************************************************************)
EXTENDS GraphService, TLC

ReaderSymmetry == Permutations(Readers)
=============================================================================
