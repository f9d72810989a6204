------------------------------- MODULE Lists -------------------------------
(***************************************************************************)
(* What a Swift loop over a list, with a condition, takes from it.  It is  *)
(* SelectSeq with the positions in place of a test: the provers can expand *)
(* it.                                                                     *)
(***************************************************************************)
EXTENDS Sequences, SequencesExt

\* The elements of the list at the positions in S, in their order.
Keep(list, S) ==
    FlattenSeq([i \in DOMAIN list |-> IF i \in S THEN <<list[i]>> ELSE <<>>])
=============================================================================
