--------------------------- MODULE MCClusterSetup ---------------------------
(* ClusterSetup for TLC. *)
EXTENDS ClusterSetup

\* rask marks local-path as default, and clusters may carry a standard alias.
RaskClasses == {"local-path", "standard"}
=============================================================================
