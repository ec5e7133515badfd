-------------------------- MODULE MCStreamSession --------------------------
(* StreamSession on a small instance.                                      *)
EXTENDS StreamSession, TLC

Symmetry == Permutations(Conn) \cup Permutations(Sid)
=============================================================================
