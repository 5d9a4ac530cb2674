------------------------------- MODULE Queues -------------------------------
(* The stack's lists and message ports hold a node at most once: a node that is  *)
(* linked twice destroys the list.                                               *)
EXTENDS Integers, Sequences, SequencesExt

Distinct(s) == \A i, j \in 1 .. Len(s) : s[i] = s[j] => i = j
=============================================================================
