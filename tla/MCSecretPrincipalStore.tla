----------------------- MODULE MCSecretPrincipalStore -----------------------
(* SecretPrincipalStore for TLC: clients, names and keys are interchangeable. *)
EXTENDS SecretPrincipalStore, TLC

Symmetry == Permutations(Clients) \cup Permutations(Names) \cup Permutations(Keys)
=============================================================================
