---------------------------- MODULE MCKubeconfig ----------------------------
(* Kubeconfig on small instances.                                          *)
EXTENDS Kubeconfig, TLC

Symmetry == Permutations(Processes) \cup Permutations(Principals) \cup Permutations(Names)
=============================================================================
