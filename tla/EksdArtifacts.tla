---------------------------- MODULE EksdArtifacts ----------------------------
(***************************************************************************)
(* From the EKS-D bucket to the binaries a cluster runs: the table is      *)
(* generated, a fjord binary is built with it, and processes of that       *)
(* binary resolve their EKS version in it and materialize the components   *)
(* of that release.                                                        *)
(***************************************************************************)
EXTENDS ReleaseResolution

CONSTANTS
    Processes, Binaries, Missing, Overlap, MaxTroubles,
    EKSVersion      \* what the processes ask for

ASSUME EKSVersionAssumption == EKSVersion \in Minors
ASSUME MissingAssumption == Missing \notin {"good", "bad"}
ASSUME TroublesAssumption == MaxTroubles \in Nat

VARIABLES tarball, dir, pc, temp, todo, troubles

Cache == INSTANCE ComponentCache
cache == <<tarball, dir, pc, temp, todo, troubles>>

VARIABLE built      \* there is a fjord binary

artifacts == <<vars, cache, built>>

ArtifactsInit == Init /\ Cache!Init /\ built = FALSE

\* The binary holds the table; what becomes of the file and of the bucket after
\* that concerns a later binary.  resolveEKSRelease refuses a version that is not
\* in it, and nothing follows.
Build ==
    /\ ~built /\ phase = "idle" /\ Resolve(EKSVersion)
    /\ built' = TRUE
    /\ UNCHANGED <<vars, cache>>

Generate == ~built /\ Next /\ UNCHANGED <<cache, built>>

Create(p) ==
    /\ built
    /\ Cache!Begin(p) \/ Cache!Work(p) \/ Cache!Stop(p)
    /\ UNCHANGED <<vars, built>>

Evict == built /\ Cache!EvictTarball /\ UNCHANGED <<vars, built>>

ArtifactsNext == Build \/ Generate \/ Evict \/ \E p \in Processes : Create(p)

\* A generator that has begun goes on, and so does a process.
ArtifactsSpec ==
    /\ ArtifactsInit /\ [][ArtifactsNext]_artifacts
    /\ WF_artifacts(~built /\ Work /\ UNCHANGED <<cache, built>>)
    /\ \A p \in Processes :
          WF_artifacts(built /\ Cache!Work(p) /\ UNCHANGED <<vars, built>>)
-----------------------------------------------------------------------------
\* A cluster runs from the directory its materialize returned: all the binaries are
\* in it, and no other call takes it for stale.
ReturnedIsComplete == Cache!ReturnedIsComplete

\* Nothing but verified content is ever extracted.
ExtractsVerified == Cache!ExtractsVerified

\* Whatever a crash or a bad download left behind, the next call repairs it.
Recovers == Cache!Recovers
=============================================================================
