----------------------------- MODULE MCSessions -----------------------------
(***************************************************************************)
(* Sessions for TLC: two sessions competing for "/a", with one sequential  *)
(* node next to it.  TTLs that are missing, valid and too long.            *)
(***************************************************************************)
EXTENDS Sessions

MCBase == {"a", ""}
MCInputPath == {<< <<"a", 0>> >>}
MCTTLInput == {-1, 1, 3}

=============================================================================
