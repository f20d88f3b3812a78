-------------------------- MODULE ReleaseResolution --------------------------
(***************************************************************************)
(* The release table of fjord (internal/cmd/eksd-gen, internal/eksd/       *)
(* fetch.go, resolve.go): for every supported minor version the generator  *)
(* searches the newest EKS-D release number with HEAD requests, fetches    *)
(* that release's manifest, and writes the table when it has all of them.  *)
(*                                                                         *)
(* Releases are published under consecutive numbers, also while a search   *)
(* is under way.  A step is one request, or half of a write.  A release is *)
(* named by the number in its manifest's URL.                              *)
(***************************************************************************)
EXTENDS Naturals

CONSTANTS
    Minors,         \* supportedMinors; the order is left open
    MaxNumber,      \* bound: the newest number each minor may reach
    Incomplete,     \* <<minor, number>> whose manifest extractRelease rejects
    MaxFailures,    \* bound: failures, stops and misleading answers
    Torn            \* a table that does not compile

ASSUME MaxNumberAssumption == MaxNumber \in [Minors -> Nat]
ASSUME TornAssumption == Torn \notin [Minors -> Nat]

VARIABLES
    published,  \* the newest number of each minor, 0 before the first
    table,      \* generated_table.go: a number for each minor, or 0; or Torn
    kept,       \* the last complete table, which the user has committed
    phase,      \* where run is
    rest,       \* minors it has still to resolve
    releases,   \* what it has resolved
    minor, low, high,   \* LatestNumber
    seen,       \* history: the newest number when LatestNumber began
    misled,     \* history: minors of which the run was told that a release is missing
    failures

search == <<minor, low, high, seen>>
file == <<table, kept>>
generator == <<phase, rest, releases, search, misled>>
vars == <<published, file, generator, failures>>

Nothing == [c \in Minors |-> 0]

TypeOK ==
    /\ published \in [Minors -> Nat] /\ releases \in [Minors -> Nat]
    /\ kept \in [Minors -> Nat] /\ table \in {kept, Torn}
    /\ phase \in {"idle", "next", "first", "grow", "bisect", "fetch", "write"}
    /\ rest \subseteq Minors /\ misled \subseteq Minors
    /\ phase \in {"first", "grow", "bisect", "fetch"} => minor \in rest
    /\ low \in Nat /\ high \in Nat /\ seen \in Nat /\ failures \in Nat

Init ==
    /\ published = Nothing /\ table = Nothing /\ kept = Nothing
    /\ phase = "idle" /\ rest = {} /\ releases = Nothing
    /\ minor = "" /\ low = 0 /\ high = 0 /\ seen = 0
    /\ misled = {} /\ failures = 0

\* manifestURL names an object of the bucket.
Exists(c, n) == n \in 1..published[c]

Fails == failures < MaxFailures /\ failures' = failures + 1

\* manifestExists: whether the status is 200.  Any other status, that of an
\* overloaded server too, means that there is no such release.
ManifestExists(n, ok) ==
    \/ ok = Exists(minor, n) /\ UNCHANGED <<misled, failures>>
    \/ ~ok /\ Exists(minor, n) /\ Fails /\ misled' = misled \cup {minor}
-----------------------------------------------------------------------------
(* fetchReleases.                                                           *)

\* `go run` builds the generator, which imports the package of the table.
StartRun ==
    /\ phase = "idle" /\ table # Torn /\ phase' = "next"
    /\ rest' = Minors /\ releases' = Nothing /\ misled' = {}
    /\ UNCHANGED <<published, file, search, failures>>

\* LatestNumber is called for the next minor.
StartSearch(c) ==
    /\ phase = "next" /\ c \in rest
    /\ phase' = "first" /\ minor' = c /\ low' = 1 /\ high' = 2 /\ seen' = published[c]
    /\ UNCHANGED <<published, file, rest, releases, misled, failures>>

\* An error of one minor ends the run; nothing is written after it.
EndRun ==
    /\ phase' = "idle" /\ rest' = {} /\ releases' = Nothing
    /\ minor' = "" /\ low' = 0 /\ high' = 0 /\ seen' = 0

\* "no eks-d release found for channel"
ProbeFirst ==
    /\ phase = "first"
    /\ \E ok \in BOOLEAN :
          /\ ManifestExists(1, ok)
          /\ \/ ok /\ phase' = "grow" /\ UNCHANGED <<rest, releases, search>>
             \/ ~ok /\ EndRun
    /\ UNCHANGED <<published, file>>

\* The numbers double until one is missing.
Grow ==
    /\ phase = "grow"
    /\ \E ok \in BOOLEAN :
          /\ ManifestExists(high, ok)
          /\ \/ ok /\ low' = high /\ high' = 2 * high /\ UNCHANGED phase
             \/ ~ok /\ phase' = "bisect" /\ UNCHANGED <<low, high>>
    /\ UNCHANGED <<published, file, rest, releases, minor, seen>>

\* Mutant: the loop runs until the two numbers meet.
Settled_OffByOne == low >= high

\* The condition of the second loop, `low+1 < high`, is false.
Settled == low + 1 >= high

\* Mutant: the missing number itself is left out of what remains.
Bisect_BelowMiddle ==
    /\ phase = "bisect" /\ ~Settled
    /\ LET mid == (low + high) \div 2 IN
       \E ok \in BOOLEAN :
          /\ ManifestExists(mid, ok)
          /\ \/ ok /\ low' = mid /\ UNCHANGED high
             \/ ~ok /\ high' = mid - 1 /\ UNCHANGED low
    /\ UNCHANGED <<published, file, phase, rest, releases, minor, seen>>

Bisect ==
    /\ phase = "bisect" /\ ~Settled
    /\ LET mid == (low + high) \div 2 IN
       \E ok \in BOOLEAN :
          /\ ManifestExists(mid, ok)
          /\ \/ ok /\ low' = mid /\ UNCHANGED high
             \/ ~ok /\ high' = mid /\ UNCHANGED low
    /\ UNCHANGED <<published, file, phase, rest, releases, minor, seen>>

\* LatestNumber returns low.
Found ==
    /\ phase = "bisect" /\ Settled
    /\ phase' = "fetch"
    /\ UNCHANGED <<published, file, rest, releases, search, misled, failures>>

\* extractRelease and validate find all they look for in the manifest.
Complete(c, n) == <<c, n>> \notin Incomplete

\* A status other than 200, or an incomplete manifest, is an error.  The entry is
\* of the manifest that was fetched: its URIs, digests, images, and the number it
\* gives itself, which nothing reads.
Fetch ==
    /\ phase = "fetch"
    /\ IF Exists(minor, low) /\ Complete(minor, low)
       THEN /\ phase' = "next"
            /\ rest' = rest \ {minor} /\ releases' = [releases EXCEPT ![minor] = low]
            /\ minor' = "" /\ low' = 0 /\ high' = 0 /\ seen' = 0
       ELSE EndRun
    /\ UNCHANGED <<published, file, misled, failures>>

\* render, and WriteFile opens the file, which truncates it.
Truncate ==
    /\ phase = "next" /\ rest = {}
    /\ table' = Torn /\ phase' = "write"
    /\ UNCHANGED <<published, kept, rest, releases, search, misled, failures>>

\* WriteFile writes it.
WriteTable ==
    /\ phase = "write"
    /\ table' = releases /\ kept' = releases
    /\ EndRun
    /\ UNCHANGED <<published, misled, failures>>

\* Mutant: what has been resolved before the error is written.
RunFails_WritesPartial ==
    /\ phase # "idle" /\ Fails
    /\ table' = releases /\ kept' = releases /\ EndRun
    /\ UNCHANGED <<published, misled>>

\* A request fails, run's timeout has passed, the file cannot be opened or not be
\* written to the end, or the process is stopped.
RunFails ==
    /\ phase # "idle" /\ Fails
    /\ EndRun
    /\ UNCHANGED <<published, file, misled>>

\* The user takes the last complete table back from the repository.
Restore ==
    /\ phase = "idle" /\ table = Torn
    /\ table' = kept
    /\ UNCHANGED <<published, kept, generator, failures>>

\* A release is published.
Publish(c) ==
    /\ published[c] < MaxNumber[c]
    /\ published' = [published EXCEPT ![c] = @ + 1]
    /\ UNCHANGED <<file, generator, failures>>

Work ==
    \/ ProbeFirst \/ Grow \/ Bisect \/ Found \/ Fetch \/ Truncate \/ WriteTable
    \/ \E c \in Minors : StartSearch(c)

Next == StartRun \/ Work \/ RunFails \/ Restore \/ \E c \in Minors : Publish(c)

Spec == Init /\ [][Next]_vars

\* Requests are answered or time out.
FairSpec == Spec /\ WF_vars(Work)

\* Resolve: the version is in the table, of a package that compiles.
Resolve(c) == table # Torn /\ table[c] # 0
-----------------------------------------------------------------------------
\* LatestNumber "finds the highest EKS-D patch number published": also when more
\* are published during the search, what it returns is in the bucket, and no older
\* than the newest number of the moment at which the search began unless a HEAD
\* of this search was answered with another status than its object's.
LatestIsCurrent ==
    phase = "fetch" =>
        /\ low \in 1..published[minor]
        /\ minor \notin misled => seen <= low

\* However many runs fail or are stopped in between, in their write too: a table
\* that compiles has every minor of the last complete one, and names an older
\* release only of a minor of which the run that wrote it was told that a
\* published release is missing.
NeverDowngrades ==
    [][table' # Torn =>
          \A c \in Minors :
              /\ kept[c] > 0 => table'[c] > 0
              /\ c \notin misled => table'[c] >= kept[c]]_vars

\* The same without the exception.  It does not hold: one HEAD answered 503 takes
\* the table back to an older release, and no error is reported.
NeverOlder == [][table' # Torn => \A c \in Minors : table'[c] >= kept[c]]_vars

\* The search ends: the doubling when releases do, the bisection by itself.
SearchEnds == phase # "idle" ~> phase = "idle"
=============================================================================
