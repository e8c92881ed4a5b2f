---------------------------- MODULE MCKeepalive ----------------------------
(***************************************************************************)
(* Keepalive for TLC: one client of the SDK next to others, two sessions,  *)
(* and ticks of 10 s.                                                      *)
(***************************************************************************)
EXTENDS Keepalive

MCBase == {"a", ""}
MCInputPath == {<< <<"a", 0>> >>}
MCTTLInput == {-1}

=============================================================================
