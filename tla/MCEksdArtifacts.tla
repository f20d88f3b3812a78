--------------------------- MODULE MCEksdArtifacts ---------------------------
(* EksdArtifacts for TLC. *)
EXTENDS EksdArtifacts, TLC

\* One channel that is searched in earnest, and one that may have no release.
Numbers == "1.33" :> 5 @@ "1.36" :> 1
\* A release whose manifest lacks an image, followed by better ones.
OneIncomplete == {<<"1.33", 3>>}
=============================================================================
