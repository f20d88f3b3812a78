------------------------ MODULE SecretPrincipalStore ------------------------
(***************************************************************************)
(* SecretPrincipalStore (internal/agent/store.go): the principal registry  *)
(* kept as the Data of one Secret, kube-system/fjord-principals, written   *)
(* by several processes at once with resourceVersion-based optimistic      *)
(* locking and a bounded conflict retry.                                   *)
(*                                                                         *)
(* Every request to the API server is one step, so the requests of         *)
(* different clients interleave; the editing of the fetched copy between   *)
(* two requests is local to its client and belongs to the later one.       *)
(***************************************************************************)
EXTENDS Integers

CONSTANTS
    Clients,      \* processes using the store: CLI runs, fjord-agent, fjord-imds
    Names,        \* principal names
    Keys,         \* the access key IDs the random generator can return
    NoName,
    NoKey,
    MaxAttempts   \* retry.DefaultRetry.Steps

ASSUME NoNameAssumption == NoName \notin Names
ASSUME NoKeyAssumption == NoKey \notin Keys
ASSUME MaxAttemptsAssumption == MaxAttempts \in Nat \ {0}

VARIABLES
    secret,     \* the Secret: rv is its resourceVersion, 0 when it is absent
    revision,   \* the API server's revision counter, never reused
    issued,     \* access key IDs generated so far
    pc,         \* the request each client is about to make, or how its call ended
    call,       \* the arguments of each client's call, NoCall outside a call
    snap,       \* the copy of the Secret each client fetched, Absent outside a call
    attempts,   \* conflicts the current call has met
    base        \* history variable: revision when the current call started

vars == <<secret, revision, issued, pc, call, snap, attempts, base>>

Outcomes == {"ok", "notfound", "conflict", "error"}
Requests == {"lookup", "get", "create", "reget", "update"}
Registry == [Keys -> Names \cup {NoName}]
Secret == [rv : Nat, data : Registry]
Call == [kind : {"put", "ensure", "delete"},
         name : Names, key : Keys \cup {NoKey}]

NoCall == [kind |-> "delete", name |-> NoName, key |-> NoKey]
Empty == [k \in Keys |-> NoName]
Absent == [rv |-> 0, data |-> Empty]

Exists == secret.rv # 0
Working(c) == pc[c] \in Requests

\* GetByName and findAccessKeyIDByName: the keys registered under name n.
KeysOf(d, n) == {k \in Keys : d[k] = n}

\* Mutant: Put leaves the name's older key behind.
Registered_KeepsStale(d, n, k) == [d EXCEPT ![k] = n]

\* Put's edit of the fetched Data: drop the name's other keys, add the new one.
Registered(d, n, k) ==
    [j \in Keys |-> IF j = k THEN n ELSE IF d[j] = n THEN NoName ELSE d[j]]

Unregistered(d, k) == [d EXCEPT ![k] = NoName]

\* The copies of the Secret that client c may send back with its Update:
\* Delete takes the first key of that name a map iteration meets.
Edited(c) ==
    IF call[c].kind = "delete"
    THEN {Unregistered(snap[c].data, k) : k \in KeysOf(snap[c].data, call[c].name)}
    ELSE {Registered(snap[c].data, call[c].name, call[c].key)}
-----------------------------------------------------------------------------
Init ==
    /\ secret = Absent
    /\ revision = 0
    /\ issued = {}
    /\ pc = [c \in Clients |-> "idle"]
    /\ call = [c \in Clients |-> NoCall]
    /\ snap = [c \in Clients |-> Absent]
    /\ attempts = [c \in Clients |-> 0]
    /\ base = [c \in Clients |-> 0]

Goto(c, request) == pc' = [pc EXCEPT ![c] = request]

locals == <<call, snap, attempts, base>>

\* The call returns and its local variables go out of scope.
Return(c, outcome) ==
    /\ pc' = [pc EXCEPT ![c] = outcome]
    /\ call' = [call EXCEPT ![c] = NoCall]
    /\ snap' = [snap EXCEPT ![c] = Absent]
    /\ attempts' = [attempts EXCEPT ![c] = 0]
    /\ base' = [base EXCEPT ![c] = 0]

Begin(c, o, request) ==
    /\ ~Working(c)
    /\ call' = [call EXCEPT ![c] = o]
    /\ base' = [base EXCEPT ![c] = revision]
    /\ Goto(c, request)
    /\ UNCHANGED <<secret, revision, snap, attempts>>

\* `fjord create principal`, and fjord-imds and fjord-agent registering the
\* credentials they issue: a fresh random access key ID, then Put.
BeginPut(c) ==
    \E n \in Names, k \in Keys \ issued :
        /\ issued' = issued \cup {k}
        /\ Begin(c, [kind |-> "put", name |-> n, key |-> k], "get")

\* ensureNodeRolePrincipal: GetByName first, Put only when the name is unknown.
BeginEnsure(c) ==
    \E n \in Names, k \in Keys \ issued :
        /\ issued' = issued \cup {k}
        /\ Begin(c, [kind |-> "ensure", name |-> n, key |-> k], "lookup")

BeginDelete(c) ==
    \E n \in Names :
        /\ Begin(c, [kind |-> "delete", name |-> n, key |-> NoKey], "get")
        /\ UNCHANGED issued

\* GetByName finds the name, so ensureNodeRolePrincipal is done.
LookupFound(c) ==
    /\ pc[c] = "lookup"
    /\ KeysOf(secret.data, call[c].name) # {}
    /\ Return(c, "ok")
    /\ UNCHANGED <<secret, revision, issued>>

\* A missing Secret counts as an empty registry here (list).
LookupMissing(c) ==
    /\ pc[c] = "lookup"
    /\ KeysOf(secret.data, call[c].name) = {}
    /\ Goto(c, "get")
    /\ UNCHANGED <<secret, revision, issued, locals>>

\* Delete has nothing to do: no Secret, or findAccessKeyIDByName fails.
DeleteNotFound(c) ==
    /\ pc[c] = "get"
    /\ call[c].kind = "delete"
    /\ KeysOf(secret.data, call[c].name) = {}
    /\ Return(c, "notfound")
    /\ UNCHANGED <<secret, revision, issued>>

\* getSecret finds the Secret.
GetSecret(c) ==
    /\ pc[c] \in {"get", "reget"}
    /\ Exists
    /\ call[c].kind = "delete" => KeysOf(secret.data, call[c].name) # {}
    /\ snap' = [snap EXCEPT ![c] = secret]
    /\ Goto(c, "update")
    /\ UNCHANGED <<secret, revision, issued, call, attempts, base>>

\* getOrCreateSecret goes on to create a missing Secret.
GetSecretMissing(c) ==
    /\ pc[c] = "get"
    /\ call[c].kind # "delete"
    /\ ~Exists
    /\ Goto(c, "create")
    /\ UNCHANGED <<secret, revision, issued, locals>>

\* Mutant: a lost creation race sends the call back to Create, not to Get.
CreateSecretExists_CreatesAgain(c) ==
    /\ pc[c] = "create"
    /\ Exists
    /\ Goto(c, "create")
    /\ UNCHANGED <<secret, revision, issued, locals>>

\* createSecret loses the race to another creator and fetches its Secret.
CreateSecretExists(c) ==
    /\ pc[c] = "create"
    /\ Exists
    /\ Goto(c, "reget")
    /\ UNCHANGED <<secret, revision, issued, locals>>

\* ... which has been removed meanwhile: the call ends with that error.
RegetMissing(c) ==
    /\ pc[c] = "reget"
    /\ ~Exists
    /\ Return(c, "error")
    /\ UNCHANGED <<secret, revision, issued>>

CreateSecret(c) ==
    /\ pc[c] = "create"
    /\ ~Exists
    /\ revision' = revision + 1
    /\ secret' = [rv |-> revision + 1, data |-> Empty]
    /\ snap' = [snap EXCEPT ![c] = [rv |-> revision + 1, data |-> Empty]]
    /\ Goto(c, "update")
    /\ UNCHANGED <<issued, call, attempts, base>>

\* Mutant: Update without the fetched resourceVersion, the last writer wins.
Current_LastWriterWins(c) == Exists

\* updateSecret keeps the fetched resourceVersion, and the API server accepts an
\* Update only when it is the current one.
Current(c) == Exists /\ secret.rv = snap[c].rv

Commit(c) ==
    /\ pc[c] = "update"
    /\ Current(c)
    /\ revision' = revision + 1
    /\ \E d \in Edited(c) : secret' = [rv |-> revision + 1, data |-> d]
    /\ UNCHANGED issued

UpdateSecret(c) == Commit(c) /\ Return(c, "ok")

\* The Update is stored but its answer never reaches the client.
UpdateSecretLost(c) == Commit(c) /\ Return(c, "error")

\* Mutant: one attempt too many.
Retry_OffByOne(c) ==
    IF attempts[c] < MaxAttempts
    THEN /\ attempts' = [attempts EXCEPT ![c] = @ + 1]
         /\ Goto(c, "get")
         /\ UNCHANGED <<call, snap, base>>
    ELSE Return(c, "conflict")

\* Mutant: the edit is sent again without fetching the Secret again.
Retry_SameCopy(c) ==
    IF attempts[c] + 1 < MaxAttempts
    THEN /\ attempts' = [attempts EXCEPT ![c] = @ + 1]
         /\ UNCHANGED <<pc, call, snap, base>>
    ELSE Return(c, "conflict")

\* Mutant: the error left when the attempts are used up is dropped.
Retry_Swallowed(c) ==
    IF attempts[c] + 1 < MaxAttempts
    THEN /\ attempts' = [attempts EXCEPT ![c] = @ + 1]
         /\ Goto(c, "get")
         /\ UNCHANGED <<call, snap, base>>
    ELSE Return(c, "ok")

\* RetryOnConflict: fetch again, until MaxAttempts attempts have failed.
Retry(c) ==
    IF attempts[c] + 1 < MaxAttempts
    THEN /\ attempts' = [attempts EXCEPT ![c] = @ + 1]
         /\ Goto(c, "get")
         /\ UNCHANGED <<call, snap, base>>
    ELSE Return(c, "conflict")

UpdateConflict(c) ==
    /\ pc[c] = "update"
    /\ Exists
    /\ ~Current(c)
    /\ Retry(c)
    /\ UNCHANGED <<secret, revision, issued>>

\* The Secret was removed in between: NotFound is no conflict, the call fails.
UpdateMissing(c) ==
    /\ pc[c] = "update"
    /\ ~Exists
    /\ Return(c, "error")
    /\ UNCHANGED <<secret, revision, issued>>

\* Any request can fail on the way to the server (or the process is stopped).
RequestFails(c) ==
    /\ Working(c)
    /\ Return(c, "error")
    /\ UNCHANGED <<secret, revision, issued>>

\* An operator deletes the Secret with kubectl.
WipeSecret ==
    /\ Exists
    /\ secret' = Absent
    /\ revision' = revision + 1
    /\ UNCHANGED <<issued, pc, call, snap, attempts, base>>

\* The steps of a call whose requests are answered.
Answered(c) ==
    \/ LookupFound(c) \/ LookupMissing(c) \/ DeleteNotFound(c)
    \/ GetSecret(c) \/ GetSecretMissing(c) \/ RegetMissing(c)
    \/ CreateSecretExists(c) \/ CreateSecret(c)
    \/ UpdateSecret(c) \/ UpdateConflict(c) \/ UpdateMissing(c)

Next ==
    \/ \E c \in Clients :
          \/ BeginPut(c) \/ BeginEnsure(c) \/ BeginDelete(c)
          \/ Answered(c) \/ UpdateSecretLost(c) \/ RequestFails(c)
    \/ WipeSecret

Spec == Init /\ [][Next]_vars

\* The API server answers every request, and the process that sent it goes on.
FairSpec == Spec /\ \A c \in Clients : WF_vars(Answered(c))
-----------------------------------------------------------------------------
TypeOK ==
    /\ secret \in Secret
    /\ revision \in Nat
    /\ issued \in SUBSET Keys
    /\ pc \in [Clients -> {"idle"} \cup Requests \cup Outcomes]
    /\ call \in [Clients -> Call \cup {NoCall}]
    /\ snap \in [Clients -> Secret]
    /\ attempts \in [Clients -> 0 .. MaxAttempts - 1]
    /\ base \in [Clients -> Nat]

\* "a name resolves to exactly one access key ID" (PrincipalStore.Put): however
\* the clients interleave, no two access key IDs share a name.
UniqueName ==
    \A n \in Names : \A j, k \in KeysOf(secret.data, n) : j = k

\* Optimistic locking: a client whose fetched resourceVersion is still the
\* current one holds the current Data, so its Update overwrites nobody's work.
SnapshotCurrent ==
    \A c \in Clients : Current(c) => snap[c].data = secret.data

\* RetryOnConflict gives up only under real contention: each attempt lost to a
\* conflict is paid for by a write somebody else made during the call.
ConflictsArePaidFor ==
    \A c \in Clients : Working(c) => attempts[c] <= revision - base[c]

\* A call that reports a conflict has seen MaxAttempts writes by others.
ContendedStep ==
    \A c \in Clients : Working(c) /\ pc'[c] = "conflict" =>
        revision - base[c] >= MaxAttempts
GivesUpOnlyUnderContention == [][ContendedStep]_vars

\* A write touches only the name its caller asked for: no step of one client
\* makes an entry of another name appear, change or vanish.
OwnNameStep ==
    \A c \in Clients : Commit(c) =>
        \A k \in Keys : secret'.data[k] # secret.data[k] =>
            {secret.data[k], secret'.data[k]} = {NoName, call[c].name}
WritesStayInTheirName == [][OwnNameStep]_vars

\* A Put that reports success has made its key the name's only key, and a
\* Delete that reports success has left the name without a key.
AckedStep ==
    \A c \in Clients : Working(c) /\ pc'[c] = "ok" =>
        LET keys == KeysOf(secret'.data, call[c].name) IN
        /\ call[c].kind = "put" => keys = {call[c].key}
        /\ call[c].kind = "ensure" => keys # {}
        /\ call[c].kind = "delete" => keys = {}
AckedCallsTookEffect == [][AckedStep]_vars

\* Every call ends: the retry loop is bounded and no request waits for another client.
CallsTerminate == \A c \in Clients : Working(c) ~> ~Working(c)

\* The Secret-backed store implements the atomic registry of PrincipalStore,
\* each call taking effect at one point between its start and its end.
Atomic == INSTANCE PrincipalStore WITH
    principals <- secret.data,
    status <- [c \in Clients |-> IF Working(c) THEN "pending" ELSE pc[c]]

ImplementsPrincipalStore == Atomic!Spec
=============================================================================
