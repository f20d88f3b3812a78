---------------------------- MODULE MCCredentials ----------------------------
(* Credentials for TLC. *)
EXTENDS Credentials, TLC

Symmetry == Permutations(Nodes) \cup Permutations(Requests) \cup Permutations(Keys)
=============================================================================
