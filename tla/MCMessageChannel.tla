--------------------------- MODULE MCMessageChannel ---------------------------
(* Three messages, one of two events, for a queue of two. *)
EXTENDS MessageChannel, TLC

OneTwoOne == <<1, 2, 1>>

\* Callers of recv are interchangeable.
Symmetry == Permutations(Callers)
=============================================================================
