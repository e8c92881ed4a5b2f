----------------------------- MODULE MCWatches -----------------------------
(***************************************************************************)
(* Store and Watches for TLC: "/", "/a", "/a/a" and the sequential nodes   *)
(* that may be created next to them; two consumers watch "/a".             *)
(***************************************************************************)
EXTENDS Watches, TLC

MCBase == {"a", ""}
MCInputPath == {Root, << <<"a", 0>> >>, << <<"a", 0>>, <<"a", 0>> >>}
MCWatchPath == {<< <<"a", 0>> >>}
Symmetry == Permutations(Watcher)

=============================================================================
