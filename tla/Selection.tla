------------------------------ MODULE Selection ------------------------------
(***************************************************************************)
(* What a list comprehension with an "if" makes of a list.                 *)
(***************************************************************************)
EXTENDS SequencesExt

(* The members of s that are in the set, in the order of s.                *)
Those(s, set) ==
  FoldLeft(LAMBDA kept, x : IF x \in set THEN Append(kept, x) ELSE kept, <<>>, s)
=============================================================================
