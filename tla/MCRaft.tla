------------------------------- MODULE MCRaft -------------------------------
(***************************************************************************)
(* Raft for TLC: the constants are given in the configurations.            *)
(***************************************************************************)
EXTENDS Raft, TLC

\* Servers that may all start elections are interchangeable.
ServerSymmetry == Permutations(Server)

=============================================================================
