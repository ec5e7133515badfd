----------------------------- MODULE MCDialogue -----------------------------
(* Neither turns nor users are told apart by anything Dialogue does.       *)
EXTENDS Dialogue, TLC

Symmetry == Permutations(Turn) \cup Permutations(User)
=============================================================================
