------------------------------ MODULE MCRules -------------------------------
(* A clock at UTC, one behind it and one that does not tell. *)
EXTENDS Rules

MCZone == {0, -3, Naive}
=============================================================================
