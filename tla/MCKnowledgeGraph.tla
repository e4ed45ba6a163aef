-------------------------- MODULE MCKnowledgeGraph --------------------------
(***************************************************************************)
(* KnowledgeGraph on a small instance: two ids, two deletions and one      *)
(* ingestion at a time.                                                    *)
(***************************************************************************)
EXTENDS KnowledgeGraph, TLC

CONSTANTS e1, e2, d1, d2

Symmetric == Permutations({e1, e2}) \union Permutations({d1, d2})
=============================================================================
