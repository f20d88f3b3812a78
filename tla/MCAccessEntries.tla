--------------------------- MODULE MCAccessEntries ---------------------------
(* AccessEntries for TLC. *)
EXTENDS AccessEntries, TLC

CONSTANTS view, admin, viewAlias, unsupported

\* Each supported policy has a ClusterRole of its own.
DistinctRoles == [pol \in Policies |->
    CASE pol = view -> "view" [] pol = admin -> "admin" [] OTHER -> NoRole]

\* Two policy ARNs with the same last element: path.Base maps both to "view".
AliasedRoles == [pol \in Policies |-> "view"]

Symmetry == Permutations(Principals) \cup Permutations(Handlers) \cup Permutations(Namespaces)
=============================================================================
