------------------------------ MODULE Selecting ------------------------------
(***************************************************************************)
(* A loop that appends what passes a test to a new slice.                  *)
(***************************************************************************)
EXTENDS Sequences, SequencesExt

\* The elements of s that are in S, in the order of s.
Only(s, S) == FoldLeft(LAMBDA kept, x : IF x \in S THEN Append(kept, x) ELSE kept, <<>>, s)
=============================================================================
