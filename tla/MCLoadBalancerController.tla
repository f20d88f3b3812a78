---------------------- MODULE MCLoadBalancerController ----------------------
(* LoadBalancerController for TLC. *)
EXTENDS LoadBalancerController, TLC

OneByOne == {{rule} : rule \in Needed}

Symmetry == Permutations(Services) \cup Permutations(Addresses)
=============================================================================
