--------------------------- MODULE ComponentCache ---------------------------
(***************************************************************************)
(* The download cache of `fjord create cluster` (internal/eksdcache/       *)
(* cache.go, internal/componentdir/materialize.go and extract.go): a       *)
(* verified server tarball and the directory of component binaries that is *)
(* extracted from it, both named after the tarball's SHA256 and shared by  *)
(* every fjord process of a user.  There is no lock.                       *)
(*                                                                         *)
(* One tarball and its directory are modelled.  Downloads and extractions  *)
(* go to temporary files first, which only their own process sees; a step  *)
(* is one operation on the shared names.                                   *)
(***************************************************************************)
EXTENDS Naturals

CONSTANTS
    Processes, Binaries,
    Missing,
    Overlap,       \* whether fjord processes run at the same time
    MaxTroubles    \* bound: bad or failed downloads, crashes, removed tarballs

VARIABLES
    tarball,   \* what <sha256>.tar.gz holds: Missing, or content good or bad
    dir,       \* the directory <sha256>: what each binary in it is
    pc,        \* what each process does next
    temp,      \* the content each process has downloaded or extracted
    todo,      \* binaries hasAllBinaries has still to look at
    troubles

vars == <<tarball, dir, pc, temp, todo, troubles>>

\* "good" is the content the SHA256 stands for.
Content == {"good", "bad"}
Steps == {"check", "download", "renameTarball", "verify", "removeTarball",
          "stat", "removeDir", "extract", "renameDir"}

TypeOK ==
    /\ tarball \in Content \cup {Missing}
    /\ dir \in [Binaries -> Content \cup {Missing}]
    /\ pc \in [Processes -> {"idle", "failed", "done"} \cup Steps]
    /\ temp \in [Processes -> Content \cup {Missing}]
    /\ todo \in [Processes -> SUBSET Binaries]
    /\ \A p \in Processes : pc[p] \in {"renameTarball", "renameDir"} => temp[p] # Missing
    /\ troubles \in 0..MaxTroubles

\* Whatever earlier runs left: nothing, a tarball that does not match, "a
\* partial extraction left behind by a previous crashed run" (materialize_test.go).
Init ==
    /\ tarball \in Content \cup {Missing}
    /\ dir \in [Binaries -> {"good", Missing}]
    /\ pc = [p \in Processes |-> "idle"]
    /\ temp = [p \in Processes |-> Missing]
    /\ todo = [p \in Processes |-> {}]
    /\ troubles = 0

Running(p) == pc[p] \in Steps
Goto(p, step) == pc' = [pc EXCEPT ![p] = step]
Trouble == troubles < MaxTroubles /\ troubles' = troubles + 1

\* materialize is called.
Begin(p) ==
    /\ ~Running(p)
    /\ Overlap \/ \A q \in Processes : ~Running(q)
    /\ Goto(p, "check")
    /\ UNCHANGED <<tarball, dir, temp, todo, troubles>>
-----------------------------------------------------------------------------
(* DownloadServerTarball                                                    *)

\* The tarball is accepted, and hasAllBinaries looks at the directory.
Accept(p) == Goto(p, "stat") /\ todo' = [todo EXCEPT ![p] = Binaries]

FileMatchesSHA256 == tarball = "good"

CheckTarball(p) ==
    /\ pc[p] = "check"
    /\ IF FileMatchesSHA256 THEN Accept(p) ELSE Goto(p, "download") /\ UNCHANGED todo
    /\ UNCHANGED <<tarball, dir, temp, troubles>>

\* downloadFile into a temporary file; what arrives may not be what was asked for.
Download(p) ==
    /\ pc[p] = "download"
    /\ \/ temp' = [temp EXCEPT ![p] = "good"] /\ UNCHANGED troubles
       \/ temp' = [temp EXCEPT ![p] = "bad"] /\ Trouble
    /\ Goto(p, "renameTarball")
    /\ UNCHANGED <<tarball, dir, todo>>

\* writeAndRename's rename: the content gets its final name before it is verified.
RenameTarball(p) ==
    /\ pc[p] = "renameTarball"
    /\ tarball' = temp[p]
    /\ temp' = [temp EXCEPT ![p] = Missing]
    /\ Goto(p, "verify")
    /\ UNCHANGED <<dir, todo, troubles>>

\* Mutant: what was just downloaded is not verified.
VerifyTarball_Trusts(p) ==
    /\ pc[p] = "verify"
    /\ Accept(p)
    /\ UNCHANGED <<tarball, dir, temp, troubles>>

VerifyTarball(p) ==
    /\ pc[p] = "verify"
    /\ IF FileMatchesSHA256 THEN Accept(p) ELSE Goto(p, "removeTarball") /\ UNCHANGED todo
    /\ UNCHANGED <<tarball, dir, temp, troubles>>

\* A mismatch: whatever has the name now is removed.
RemoveTarball(p) ==
    /\ pc[p] = "removeTarball"
    /\ tarball' = Missing
    /\ Goto(p, "failed")
    /\ UNCHANGED <<dir, temp, todo, troubles>>
-----------------------------------------------------------------------------
(* materialize and extractComponentDir                                      *)

\* Mutant: one binary stands for all of them.
StatBinary_First(p) ==
    /\ pc[p] = "stat"
    /\ \E b \in todo[p] :
          /\ todo' = [todo EXCEPT ![p] = {}]
          /\ IF dir[b] # Missing THEN UNCHANGED pc ELSE Goto(p, "removeDir")
    /\ UNCHANGED <<tarball, dir, temp, troubles>>

\* hasAllBinaries: one Stat after the other.
StatBinary(p) ==
    /\ pc[p] = "stat"
    /\ \E b \in todo[p] :
          IF dir[b] # Missing
          THEN todo' = [todo EXCEPT ![p] = @ \ {b}] /\ UNCHANGED pc
          ELSE todo' = [todo EXCEPT ![p] = {}] /\ Goto(p, "removeDir")
    /\ UNCHANGED <<tarball, dir, temp, troubles>>

\* All are there: the directory is returned.
ReuseDir(p) ==
    /\ pc[p] = "stat" /\ todo[p] = {}
    /\ Goto(p, "done")
    /\ UNCHANGED <<tarball, dir, temp, todo, troubles>>

\* Mutant: a stale directory is left in place.
RemoveDir_Keeps(p) ==
    /\ pc[p] = "removeDir"
    /\ Goto(p, "extract")
    /\ UNCHANGED <<tarball, dir, temp, todo, troubles>>

\* RemoveAll of the directory.
RemoveDir(p) ==
    /\ pc[p] = "removeDir"
    /\ dir' = [b \in Binaries |-> Missing]
    /\ Goto(p, "extract")
    /\ UNCHANGED <<tarball, temp, todo, troubles>>

\* extractBinaries into a temporary directory: all the binaries, or an error.  A
\* tarball with other content may or may not have them.
Extract(p) ==
    /\ pc[p] = "extract"
    /\ \/ /\ tarball # Missing
          /\ temp' = [temp EXCEPT ![p] = tarball]
          /\ Goto(p, "renameDir")
       \/ /\ tarball # "good"
          /\ Goto(p, "failed") /\ UNCHANGED temp
    /\ UNCHANGED <<tarball, dir, todo, troubles>>

\* os.Rename refuses a directory that exists, an empty one too.  RemoveDir came
\* before, so one that has no binary is one that is not there.
RenameDir(p) ==
    /\ pc[p] = "renameDir"
    /\ IF \A b \in Binaries : dir[b] = Missing
       THEN dir' = [b \in Binaries |-> temp[p]] /\ Goto(p, "done")
       ELSE Goto(p, "failed") /\ UNCHANGED dir
    /\ temp' = [temp EXCEPT ![p] = Missing]
    /\ UNCHANGED <<tarball, todo, troubles>>
-----------------------------------------------------------------------------
\* The download or a write fails, or the process is stopped; RemoveAll may
\* have removed some of the binaries by then.
Stop(p) ==
    /\ Running(p) /\ Trouble
    /\ Goto(p, "failed")
    /\ temp' = [temp EXCEPT ![p] = Missing]
    /\ todo' = [todo EXCEPT ![p] = {}]
    /\ \/ UNCHANGED dir
       \/ /\ pc[p] = "removeDir"
          /\ \E left \in SUBSET Binaries :
                dir' = [b \in Binaries |-> IF b \in left THEN dir[b] ELSE Missing]
    /\ UNCHANGED tarball

\* A user makes room by removing the tarball.
EvictTarball ==
    /\ tarball # Missing /\ Trouble
    /\ tarball' = Missing
    /\ UNCHANGED <<dir, pc, temp, todo>>

Work(p) ==
    \/ CheckTarball(p) \/ Download(p) \/ RenameTarball(p) \/ VerifyTarball(p) \/ RemoveTarball(p)
    \/ StatBinary(p) \/ ReuseDir(p) \/ RemoveDir(p) \/ Extract(p) \/ RenameDir(p)

Next == (\E p \in Processes : Begin(p) \/ Work(p) \/ Stop(p)) \/ EvictTarball

Spec == Init /\ [][Next]_vars
FairSpec == Spec /\ \A p \in Processes : WF_vars(Work(p))
-----------------------------------------------------------------------------
\* A cluster runs from the directory its materialize returned, so it must have
\* all the binaries, then and for as long as other calls come after: none takes
\* it for stale.
ReturnedIsComplete ==
    \A p \in Processes : pc[p] = "done" => \A b \in Binaries : dir[b] # Missing

\* DownloadServerTarball "returns the path to the verified, cached tarball":
\* nothing but verified content is ever extracted.
ExtractsVerified == \A b \in Binaries : dir[b] # "bad"

\* Whatever a crash or a bad download left behind, the next call that is not
\* disturbed repairs it and succeeds.
Recovers ==
    \A p \in Processes :
        (pc[p] = "check" /\ troubles = MaxTroubles) ~> (pc[p] = "done")
=============================================================================
