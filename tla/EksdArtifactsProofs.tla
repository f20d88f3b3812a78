------------------------- MODULE EksdArtifactsProofs -------------------------
(***************************************************************************)
(* Proofs about EksdArtifacts, for any minors, release numbers, processes  *)
(* and binaries, and for any number of failures: the release table, and    *)
(* the cache that processes of one binary share one after the other.       *)
(***************************************************************************)
EXTENDS EksdArtifacts, TLAPS

\* LatestNumber is under way, or has just returned.
Searching == phase \in {"first", "grow", "bisect", "fetch"}

\* No table and no finished part of one names a release that is not there; what
\* has been resolved is no older than what the last complete table says, unless
\* the run was misled about it.
ResolvedOK ==
    /\ \A c \in Minors : kept[c] <= published[c]
    /\ phase # "idle" =>
          \A c \in Minors \ rest :
              /\ releases[c] \in 1..published[c]
              /\ c \notin misled => kept[c] <= releases[c]
    /\ phase = "write" => rest = {}

\* The number being searched lies between low, which is published, and high,
\* which was not when it was asked for unless that answer was misleading; so
\* neither was anything above it when the search began.
SearchOK ==
    Searching =>
        /\ kept[minor] <= seen /\ seen <= published[minor]
        /\ phase = "first" => low = 1 /\ high = 2
        /\ phase = "grow" => low < high
        /\ phase # "first" => low \in 1..published[minor]
        /\ phase = "bisect" => low < high /\ (minor \notin misled => seen < high)
        /\ phase = "fetch" /\ minor \notin misled => seen <= low

ReleaseInv == TypeOK /\ ResolvedOK /\ SearchOK
-----------------------------------------------------------------------------
\* The middle of two numbers that are not adjacent lies strictly between them.
LEMMA Middle ==
    ASSUME NEW l \in Nat, NEW h \in Nat, l + 1 < h
    PROVE  /\ (l + h) \div 2 \in Nat
           /\ l < (l + h) \div 2 /\ (l + h) \div 2 < h
  BY SMT

\* An aborted or finished run leaves nothing behind but the file.
LEMMA EndRunInv ==
    ASSUME TypeOK, EndRun, published' = published, failures' \in Nat,
           misled' \subseteq Minors, kept' \in [Minors -> Nat], table' \in {kept', Torn},
           \A c \in Minors : kept'[c] <= published[c]
    PROVE  ReleaseInv'
  BY DEF ReleaseInv, TypeOK, ResolvedOK, SearchOK, Searching, EndRun, Nothing

\* What the answer to a HEAD says: a release that is reported is published; one
\* that is not reported is not, or the run has been misled.
LEMMA Answered ==
    ASSUME TypeOK, phase \in {"first", "grow", "bisect"}, NEW n \in Nat, NEW ok \in BOOLEAN,
           ManifestExists(n, ok)
    PROVE  /\ ok => n \in 1..published[minor] /\ misled' = misled
           /\ ~ok /\ minor \notin misled' => n \notin 1..published[minor]
           /\ misled' \in {misled, misled \cup {minor}}
           /\ failures' \in Nat
<1>1. minor \in Minors
  BY DEF TypeOK
<1>2. CASE ok = Exists(minor, n) /\ UNCHANGED <<misled, failures>>
  BY <1>2 DEF Exists, TypeOK
<1>3. CASE ~ok /\ Exists(minor, n) /\ Fails /\ misled' = misled \cup {minor}
  BY <1>3, <1>1 DEF Fails, TypeOK
<1> QED
  BY <1>2, <1>3 DEF ManifestExists

\* Every step of the generator, of the publisher and of the user keeps the bounds
\* of the search.
LEMMA ReleaseStep ==
    ASSUME ReleaseInv, [Next]_vars
    PROVE  ReleaseInv'
<1>t. TypeOK /\ ResolvedOK /\ SearchOK
  BY DEF ReleaseInv
<1>1. CASE StartRun
  BY <1>1, <1>t DEF StartRun, file, ReleaseInv, TypeOK, ResolvedOK, SearchOK, Searching, search, Nothing
<1>2. ASSUME NEW c \in Minors, StartSearch(c)
      PROVE  ReleaseInv'
  BY <1>2, <1>t DEF StartSearch, file, ReleaseInv, TypeOK, ResolvedOK, SearchOK, Searching
<1>3. CASE ProbeFirst
  <2>0. phase = "first" /\ UNCHANGED <<published, table, kept>>
    BY <1>3 DEF ProbeFirst, file
  <2>1. PICK ok \in BOOLEAN :
           /\ ManifestExists(1, ok)
           /\ \/ ok /\ phase' = "grow" /\ UNCHANGED <<rest, releases, search>>
              \/ ~ok /\ EndRun
    BY <1>3 DEF ProbeFirst
  <2>a. /\ ok => 1 \in 1..published[minor] /\ misled' = misled
        /\ misled' \in {misled, misled \cup {minor}} /\ failures' \in Nat
    BY <2>0, <2>1, <1>t, Answered
  <2>2. CASE EndRun
    BY <2>2, <2>0, <2>a, <1>t, EndRunInv DEF TypeOK, ResolvedOK
  <2>3. CASE ok /\ phase' = "grow" /\ UNCHANGED <<rest, releases, search>>
    BY <2>3, <2>0, <2>a, <1>t
       DEF ReleaseInv, TypeOK, ResolvedOK, SearchOK, Searching, search
  <2> QED
    BY <2>1, <2>2, <2>3
<1>4. CASE Grow
  <2>0. phase = "grow" /\ UNCHANGED <<published, table, kept, rest, releases, minor, seen>>
    BY <1>4 DEF Grow, file
  <2>1. PICK ok \in BOOLEAN :
           /\ ManifestExists(high, ok)
           /\ \/ ok /\ low' = high /\ high' = 2 * high /\ UNCHANGED phase
              \/ ~ok /\ phase' = "bisect" /\ UNCHANGED <<low, high>>
    BY <1>4 DEF Grow
  <2>2. /\ ok => high \in 1..published[minor] /\ misled' = misled
        /\ ~ok /\ minor \notin misled' => high \notin 1..published[minor]
        /\ misled' \in {misled, misled \cup {minor}} /\ failures' \in Nat
    BY <2>0, <2>1, <1>t, Answered DEF TypeOK
  <2> QED
    BY <2>0, <2>1, <2>2, <1>t
       DEF ReleaseInv, TypeOK, ResolvedOK, SearchOK, Searching
<1>5. CASE Bisect
  <2> DEFINE mid == (low + high) \div 2
  <2>0. phase = "bisect" /\ ~Settled
        /\ UNCHANGED <<published, table, kept, phase, rest, releases, minor, seen>>
    BY <1>5 DEF Bisect, file
  <2>1. PICK ok \in BOOLEAN :
           /\ ManifestExists(mid, ok)
           /\ \/ ok /\ low' = mid /\ UNCHANGED high
              \/ ~ok /\ high' = mid /\ UNCHANGED low
    BY <1>5 DEF Bisect
  <2>2. mid \in Nat /\ low < mid /\ mid < high
    BY <2>0, <1>t, Middle DEF Settled, TypeOK
  <2> HIDE DEF mid
  <2>3. /\ ok => mid \in 1..published[minor] /\ misled' = misled
        /\ ~ok /\ minor \notin misled' => mid \notin 1..published[minor]
        /\ misled' \in {misled, misled \cup {minor}} /\ failures' \in Nat
    BY <2>0, <2>1, <2>2, <1>t, Answered
  <2> QED
    BY <2>0, <2>1, <2>2, <2>3, <1>t
       DEF ReleaseInv, TypeOK, ResolvedOK, SearchOK, Searching
<1>6. CASE Found
  BY <1>6, <1>t DEF Found, file, Settled, ReleaseInv, TypeOK, ResolvedOK, SearchOK, Searching, search
<1>7. CASE Fetch
  <2>1. CASE ~(Exists(minor, low) /\ Complete(minor, low))
    BY <2>1, <1>7, <1>t, EndRunInv DEF Fetch, file, TypeOK, ResolvedOK
  <2>2. CASE Exists(minor, low) /\ Complete(minor, low)
    <3>1. /\ phase = "fetch" /\ phase' = "next" /\ rest' = rest \ {minor}
          /\ releases' = [releases EXCEPT ![minor] = low]
          /\ low' = 0 /\ high' = 0 /\ seen' = 0
          /\ UNCHANGED <<published, table, kept, misled, failures>>
      BY <2>2, <1>7 DEF Fetch, file
    <3>2. TypeOK'
      BY <3>1, <1>t DEF TypeOK
    <3>3. low \in 1..published[minor] /\ (minor \notin misled => kept[minor] <= low)
      BY <3>1, <1>t DEF TypeOK, SearchOK, Searching
    <3>4. ResolvedOK'
      BY <3>1, <3>3, <1>t DEF TypeOK, ResolvedOK
    <3>5. SearchOK'
      BY <3>1 DEF SearchOK, Searching
    <3> QED
      BY <3>2, <3>4, <3>5 DEF ReleaseInv
  <2> QED
    BY <2>1, <2>2
<1>8. CASE Truncate
  BY <1>8, <1>t
     DEF Truncate, ReleaseInv, TypeOK, ResolvedOK, SearchOK, Searching, search
<1>9. CASE WriteTable
  BY <1>9, <1>t, EndRunInv DEF WriteTable, TypeOK, ResolvedOK
<1>10. CASE RunFails
  BY <1>10, <1>t, EndRunInv DEF RunFails, Fails, file, TypeOK, ResolvedOK
<1>11. CASE Restore
  BY <1>11, <1>t
     DEF Restore, ReleaseInv, TypeOK, ResolvedOK, SearchOK, Searching, generator, search
<1>12. ASSUME NEW c \in Minors, Publish(c)
       PROVE  ReleaseInv'
  BY <1>12, <1>t
     DEF Publish, file, ReleaseInv, TypeOK, ResolvedOK, SearchOK, Searching, generator, search
<1>13. CASE UNCHANGED vars
  BY <1>13, <1>t
     DEF vars, file, ReleaseInv, TypeOK, ResolvedOK, SearchOK, Searching, generator, search
<1> QED
  BY <1>1, <1>2, <1>3, <1>4, <1>5, <1>6, <1>7, <1>8, <1>9, <1>10, <1>11, <1>12, <1>13
     DEF Next, Work
-----------------------------------------------------------------------------
\* At most one process is at work.
OneAtWork == \A p, q \in Processes : Cache!Running(p) /\ Cache!Running(q) => p = q

\* What the process at work knows: the tarball it has accepted is not another one
\* (somebody may have removed it), what it has extracted is of it, the binaries it
\* has looked at are there, one is not when it removes the directory, and none
\* is from then on.
WorkOK ==
    \A p \in Processes :
        /\ pc[p] \in {"stat", "removeDir", "extract"} => tarball # "bad"
        /\ pc[p] = "renameDir" => temp[p] = "good"
        /\ pc[p] = "stat" => \A b \in Binaries \ todo[p] : dir[b] # Missing
        /\ pc[p] = "removeDir" => \E b \in Binaries : dir[b] = Missing
        /\ pc[p] \in {"extract", "renameDir"} => \A b \in Binaries : dir[b] = Missing

CacheInv ==
    /\ Cache!TypeOK
    /\ OneAtWork
    /\ WorkOK
    /\ ReturnedIsComplete
    /\ ExtractsVerified
-----------------------------------------------------------------------------
\* Every step of a process, of a crash and of a user keeps the type.
LEMMA CacheTypeStep ==
    ASSUME Cache!TypeOK, [Cache!Next]_cache
    PROVE  Cache!TypeOK'
<1> USE MissingAssumption, TroublesAssumption
<1> USE DEF Cache!TypeOK, Cache!Content, Cache!Steps, Cache!Goto, Cache!Trouble
<1>1. ASSUME NEW p \in Processes, Cache!Begin(p)
      PROVE  Cache!TypeOK'
  BY <1>1 DEF Cache!Begin
<1>2. ASSUME NEW p \in Processes, Cache!CheckTarball(p) \/ Cache!VerifyTarball(p)
      PROVE  Cache!TypeOK'
  BY <1>2 DEF Cache!CheckTarball, Cache!VerifyTarball, Cache!Accept
<1>3. ASSUME NEW p \in Processes, Cache!Download(p)
      PROVE  Cache!TypeOK'
  BY <1>3 DEF Cache!Download
<1>4. ASSUME NEW p \in Processes, Cache!RenameTarball(p) \/ Cache!RemoveTarball(p)
      PROVE  Cache!TypeOK'
  BY <1>4 DEF Cache!RenameTarball, Cache!RemoveTarball
<1>5. ASSUME NEW p \in Processes, Cache!StatBinary(p) \/ Cache!ReuseDir(p) \/ Cache!RemoveDir(p)
      PROVE  Cache!TypeOK'
  BY <1>5 DEF Cache!StatBinary, Cache!ReuseDir, Cache!RemoveDir
<1>6. ASSUME NEW p \in Processes, Cache!Extract(p) \/ Cache!RenameDir(p)
      PROVE  Cache!TypeOK'
  BY <1>6 DEF Cache!Extract, Cache!RenameDir
<1>7. ASSUME NEW p \in Processes, Cache!Stop(p)
      PROVE  Cache!TypeOK'
  BY <1>7 DEF Cache!Stop
<1>8. CASE Cache!EvictTarball
  BY <1>8 DEF Cache!EvictTarball
<1>9. CASE UNCHANGED cache
  BY <1>9 DEF cache
<1> QED
  BY <1>1, <1>2, <1>3, <1>4, <1>5, <1>6, <1>7, <1>8, <1>9 DEF Cache!Next, Cache!Work

\* A process that is about to remove the directory has missed a binary in it.
LEMMA MissedNotReturned ==
    ASSUME CacheInv, NEW p \in Processes, pc[p] \in {"removeDir", "extract", "renameDir"}
    PROVE  \/ Binaries = {}
           \/ \A q \in Processes : pc[q] # "done"
  BY DEF CacheInv, WorkOK, ReturnedIsComplete, Cache!ReturnedIsComplete

\* One process after the other: no step disturbs what the process at work knows,
\* nor a directory that was returned.
LEMMA CacheStep ==
    ASSUME Overlap = FALSE, CacheInv, [Cache!Next]_cache
    PROVE  CacheInv'
<1> USE MissingAssumption
<1> USE DEF Cache!Content, Cache!Steps, Cache!Goto, Cache!Running, OneAtWork, WorkOK,
            ReturnedIsComplete, Cache!ReturnedIsComplete, ExtractsVerified,
            Cache!ExtractsVerified, Cache!TypeOK
<1>t. /\ Cache!TypeOK /\ OneAtWork /\ WorkOK /\ ReturnedIsComplete /\ ExtractsVerified
      /\ Cache!TypeOK'
  BY CacheTypeStep DEF CacheInv
<1> SUFFICES (OneAtWork /\ WorkOK /\ ReturnedIsComplete /\ ExtractsVerified)'
  BY <1>t DEF CacheInv
<1>1. ASSUME NEW p \in Processes, Cache!Begin(p)
      PROVE  (OneAtWork /\ WorkOK /\ ReturnedIsComplete /\ ExtractsVerified)'
  BY <1>1, <1>t DEF Cache!Begin
<1>2. ASSUME NEW p \in Processes, Cache!CheckTarball(p) \/ Cache!VerifyTarball(p)
      PROVE  (OneAtWork /\ WorkOK /\ ReturnedIsComplete /\ ExtractsVerified)'
  BY <1>2, <1>t DEF Cache!CheckTarball, Cache!VerifyTarball, Cache!Accept, Cache!FileMatchesSHA256
<1>3. ASSUME NEW p \in Processes,
             Cache!Download(p) \/ Cache!RenameTarball(p) \/ Cache!RemoveTarball(p)
      PROVE  (OneAtWork /\ WorkOK /\ ReturnedIsComplete /\ ExtractsVerified)'
  BY <1>3, <1>t DEF Cache!Download, Cache!RenameTarball, Cache!RemoveTarball
<1>4. ASSUME NEW p \in Processes, Cache!StatBinary(p)
      PROVE  (OneAtWork /\ WorkOK /\ ReturnedIsComplete /\ ExtractsVerified)'
  BY <1>4, <1>t DEF Cache!StatBinary
<1>5. ASSUME NEW p \in Processes, Cache!ReuseDir(p)
      PROVE  (OneAtWork /\ WorkOK /\ ReturnedIsComplete /\ ExtractsVerified)'
  BY <1>5, <1>t DEF Cache!ReuseDir
<1>6. ASSUME NEW p \in Processes, Cache!RemoveDir(p)
      PROVE  (OneAtWork /\ WorkOK /\ ReturnedIsComplete /\ ExtractsVerified)'
  BY <1>6, <1>t, MissedNotReturned DEF Cache!RemoveDir
<1>7. ASSUME NEW p \in Processes, Cache!Extract(p) \/ Cache!RenameDir(p)
      PROVE  (OneAtWork /\ WorkOK /\ ReturnedIsComplete /\ ExtractsVerified)'
  BY <1>7, <1>t DEF Cache!Extract, Cache!RenameDir
<1>8. ASSUME NEW p \in Processes, Cache!Stop(p)
      PROVE  (OneAtWork /\ WorkOK /\ ReturnedIsComplete /\ ExtractsVerified)'
  BY <1>8, <1>t, MissedNotReturned DEF Cache!Stop
<1>9. CASE Cache!EvictTarball
  BY <1>9, <1>t DEF Cache!EvictTarball
<1>10. CASE UNCHANGED cache
  BY <1>10, <1>t DEF cache
<1> QED
  BY <1>1, <1>2, <1>3, <1>4, <1>5, <1>6, <1>7, <1>8, <1>9, <1>10 DEF Cache!Next, Cache!Work
-----------------------------------------------------------------------------
\* A step of the composition is one of the generator, one of the cache, or both
\* stay as they are.
LEMMA Parts ==
    ASSUME [ArtifactsNext]_artifacts
    PROVE  [Next]_vars /\ [Cache!Next]_cache
<1>1. ASSUME NEW p \in Processes, Create(p)
      PROVE  [Next]_vars /\ [Cache!Next]_cache
  BY <1>1 DEF Create, Cache!Next
<1>2. CASE Build \/ UNCHANGED artifacts
  BY <1>2 DEF Build, artifacts
<1>3. CASE Generate
  BY <1>3 DEF Generate
<1>4. CASE Evict
  BY <1>4 DEF Evict, Cache!Next
<1> QED
  BY <1>1, <1>2, <1>3, <1>4 DEF ArtifactsNext

\* Nothing is published, resolved or written at first.
LEMMA ReleaseInitOK == Init => ReleaseInv
<1> SUFFICES ASSUME Init PROVE ReleaseInv
  OBVIOUS
<1>1. /\ published = Nothing /\ table = Nothing /\ kept = Nothing /\ releases = Nothing
      /\ phase = "idle" /\ rest = {} /\ low = 0 /\ high = 0 /\ seen = 0
      /\ misled = {} /\ failures = 0
  BY DEF Init
<1>2. TypeOK
  BY <1>1 DEF TypeOK, Nothing
<1>3. ResolvedOK /\ SearchOK
  BY <1>1 DEF ResolvedOK, SearchOK, Searching, Nothing
<1> QED
  BY <1>2, <1>3 DEF ReleaseInv

\* Whatever earlier runs have left, nobody relies on it yet.
LEMMA CacheInitOK == Cache!Init => CacheInv
  BY MissingAssumption, TroublesAssumption
     DEF Cache!Init, CacheInv, Cache!TypeOK, Cache!Content, Cache!Steps, OneAtWork,
         Cache!Running, WorkOK, ReturnedIsComplete, Cache!ReturnedIsComplete,
         ExtractsVerified, Cache!ExtractsVerified

\* The bounds of the search hold while releases are published, answers mislead,
\* runs fail, tables are written or torn, and clusters created.
THEOREM ReleaseInvariance == ArtifactsSpec => []ReleaseInv
<1>1. ArtifactsInit => ReleaseInv
  BY ReleaseInitOK DEF ArtifactsInit
<1>2. ReleaseInv /\ [ArtifactsNext]_artifacts => ReleaseInv'
  BY Parts, ReleaseStep
<1> QED
  BY <1>1, <1>2, PTL DEF ArtifactsSpec

\* What LatestNumber returns is published, and no older than the newest release
\* of the moment at which it was called unless an answer to this very search was
\* misleading (internal/eksd/fetch.go).
THEOREM LatestFound == ArtifactsSpec => []LatestIsCurrent
<1>1. ReleaseInv => LatestIsCurrent
  BY DEF ReleaseInv, TypeOK, SearchOK, Searching, LatestIsCurrent
<1> QED
  BY <1>1, ReleaseInvariance, PTL

\* Through failing, stopped and half-written runs: a table that compiles loses no
\* minor of the last complete one, and names an older release only of a minor
\* the run was misled about (internal/cmd/eksd-gen).
THEOREM TableGrows == ArtifactsSpec => NeverDowngrades
<1> DEFINE Grows == table' # Torn =>
                        \A c \in Minors :
                            /\ kept[c] > 0 => table'[c] > 0
                            /\ c \notin misled => table'[c] >= kept[c]
<1>1. ASSUME ReleaseInv, [Next]_vars
      PROVE  Grows
  <2>t. kept \in [Minors -> Nat] /\ table \in {kept, Torn}
    BY <1>1 DEF ReleaseInv, TypeOK
  <2>1. CASE WriteTable
    BY <2>1, <1>1, <2>t DEF WriteTable, ReleaseInv, ResolvedOK, TypeOK
  <2>2. CASE ~WriteTable
    <3>1. table' \in {table, kept, Torn}
      BY <2>2, <1>1 DEF Next, Work, vars, file, StartRun, StartSearch, ProbeFirst, Grow, Bisect,
                        Found, Fetch, Truncate, RunFails, Restore, Publish
    <3> QED
      BY <3>1, <2>t
  <2> QED
    BY <2>1, <2>2
<1>2. ReleaseInv /\ [ArtifactsNext]_artifacts => [Grows]_vars
  BY <1>1, Parts
<1> QED
  BY <1>2, ReleaseInvariance, PTL DEF ArtifactsSpec, NeverDowngrades

\* The inductive invariant of the cache, for processes that run one after the other.
THEOREM CacheInvariance == Overlap = FALSE => (ArtifactsSpec => []CacheInv)
<1> SUFFICES ASSUME Overlap = FALSE PROVE ArtifactsSpec => []CacheInv
  OBVIOUS
<1>1. ArtifactsInit => CacheInv
  BY CacheInitOK DEF ArtifactsInit
<1>2. CacheInv /\ [ArtifactsNext]_artifacts => CacheInv'
  BY Parts, CacheStep
<1> QED
  BY <1>1, <1>2, PTL DEF ArtifactsSpec

\* The directory materialize has returned holds all the binaries, then and for as
\* long as it is in use (internal/componentdir/materialize.go).
THEOREM DirectoriesStay == Overlap = FALSE => (ArtifactsSpec => []ReturnedIsComplete)
<1>1. CacheInv => ReturnedIsComplete
  BY DEF CacheInv
<1> QED
  BY <1>1, CacheInvariance, PTL

\* No binary comes from a tarball that was not verified, whatever was downloaded,
\* left behind or removed (internal/eksdcache/cache.go).
THEOREM BinariesVerified == Overlap = FALSE => (ArtifactsSpec => []ExtractsVerified)
<1>1. CacheInv => ExtractsVerified
  BY DEF CacheInv
<1> QED
  BY <1>1, CacheInvariance, PTL
=============================================================================
