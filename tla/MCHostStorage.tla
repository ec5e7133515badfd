--------------------------- MODULE MCHostStorage ---------------------------
(* Keys are (source, external_id) pairs; requests are told apart by nothing. *)
EXTENDS HostStorage, TLC

MCKey == {<<"s1", "e">>, <<"s2", "e">>}
MCSourceOf(k) == k[1]

Symmetry == Permutations(Request)
=============================================================================
