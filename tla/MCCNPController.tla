--------------------------- MODULE MCCNPController ---------------------------
(* CNPController for TLC. *)
EXTENDS CNPController, TLC

Symmetry == Permutations(Policies) \cup Permutations(Namespaces) \cup Permutations(Specs)
=============================================================================
