--------------------- MODULE SecretPrincipalStoreProofs ---------------------
(***************************************************************************)
(* Proofs about SecretPrincipalStore, for any number of clients, names and *)
(* access key IDs and any retry bound.                                     *)
(***************************************************************************)
EXTENDS SecretPrincipalStore, TLAPS

\* A present Secret carries the newest revision, which bounds every copy's; an
\* absent one registers nothing.
RevisionOK ==
    /\ IF Exists THEN secret.rv = revision ELSE secret.data = Empty
    /\ \A c \in Clients : snap[c].rv <= revision

\* A client that has started holds well-formed arguments and counts from zero.
CallOK ==
    \A c \in Clients :
        /\ Working(c) => call[c] \in Call
        /\ Working(c) /\ call[c].kind # "delete" => call[c].key \in Keys
        /\ pc[c] = "lookup" => call[c].kind = "ensure"
        /\ ~Working(c) => attempts[c] = 0

\* Access key IDs are used once: one being registered is in nobody else's call
\* and not yet in the registry.
FreshKeys ==
    /\ \A k \in Keys : secret.data[k] # NoName => k \in issued
    /\ \A c \in Clients : Working(c) /\ call[c].kind # "delete" =>
          /\ call[c].key \in issued
          /\ secret.data[call[c].key] = NoName
          /\ \A d \in Clients : d # c /\ Working(d) /\ call[d].kind # "delete" =>
                call[d].key # call[c].key

\* The writes that made a call retry lie between its start and its copy.
AttemptsOK ==
    \A c \in Clients :
        /\ Working(c) => attempts[c] + base[c] <= revision
        /\ pc[c] = "update" => attempts[c] + base[c] <= snap[c].rv

IInv ==
    /\ TypeOK
    /\ RevisionOK
    /\ SnapshotCurrent
    /\ UniqueName
    /\ CallOK
    /\ FreshKeys
    /\ AttemptsOK
-----------------------------------------------------------------------------
\* What Put and Delete send back to the API server is a registry again.
LEMMA EditedType ==
    ASSUME TypeOK, NEW c \in Clients
    PROVE  Edited(c) \subseteq Registry
<1>1. /\ snap[c].data \in Registry
      /\ call[c].name \in Names \cup {NoName}
  BY DEF TypeOK, Secret, Call, NoCall
<1>2. Registered(snap[c].data, call[c].name, call[c].key) \in Registry
  BY <1>1 DEF Registered, Registry
<1>3. \A k \in Keys : Unregistered(snap[c].data, k) \in Registry
  BY <1>1 DEF Unregistered, Registry
<1> QED
  BY <1>2, <1>3 DEF Edited, KeysOf

\* Every step of the store keeps the type invariant.
LEMMA TypeStep == TypeOK /\ [Next]_vars => TypeOK'
<1> SUFFICES ASSUME TypeOK, [Next]_vars PROVE TypeOK'
  OBVIOUS
<1> USE MaxAttemptsAssumption
<1>a. Empty \in Registry /\ Absent \in Secret
  BY DEF Empty, Absent, Registry, Secret
<1>r. ASSUME NEW c \in Clients, NEW o \in Outcomes, Return(c, o)
      PROVE  /\ pc' \in [Clients -> {"idle"} \cup Requests \cup Outcomes]
             /\ call' \in [Clients -> Call \cup {NoCall}]
             /\ snap' \in [Clients -> Secret]
             /\ attempts' \in [Clients -> 0 .. MaxAttempts - 1]
             /\ base' \in [Clients -> Nat]
  BY <1>a, <1>r DEF TypeOK, Return
<1>1. ASSUME NEW c \in Clients, BeginPut(c) \/ BeginEnsure(c) \/ BeginDelete(c)
      PROVE  TypeOK'
  BY <1>1 DEF TypeOK, BeginPut, BeginEnsure, BeginDelete, Begin, Goto, Call, Requests
<1>2. ASSUME NEW c \in Clients,
             LookupFound(c) \/ DeleteNotFound(c) \/ RegetMissing(c)
               \/ UpdateMissing(c) \/ RequestFails(c)
      PROVE  TypeOK'
  <2>1. PICK o \in Outcomes : Return(c, o)
    BY <1>2 DEF LookupFound, DeleteNotFound, RegetMissing, UpdateMissing,
                RequestFails, Outcomes
  <2> QED
    BY <1>2, <2>1, <1>r DEF TypeOK, LookupFound, DeleteNotFound, RegetMissing,
                            UpdateMissing, RequestFails
<1>3. ASSUME NEW c \in Clients,
             LookupMissing(c) \/ GetSecretMissing(c) \/ CreateSecretExists(c)
      PROVE  TypeOK'
  BY <1>3 DEF TypeOK, LookupMissing, GetSecretMissing, CreateSecretExists, Goto,
              Requests, locals
<1>4. ASSUME NEW c \in Clients, GetSecret(c)
      PROVE  TypeOK'
  BY <1>4 DEF TypeOK, GetSecret, Goto, Requests
<1>5. ASSUME NEW c \in Clients, CreateSecret(c)
      PROVE  TypeOK'
  BY <1>5, <1>a DEF TypeOK, CreateSecret, Goto, Requests, Secret
<1>6. ASSUME NEW c \in Clients, UpdateSecret(c) \/ UpdateSecretLost(c)
      PROVE  TypeOK'
  <2>1. PICK o \in Outcomes : Return(c, o) /\ Commit(c)
    BY <1>6 DEF UpdateSecret, UpdateSecretLost, Outcomes
  <2>2. secret' \in Secret /\ revision' \in Nat /\ issued' \in SUBSET Keys
    BY <2>1, EditedType DEF Commit, TypeOK, Secret
  <2> QED
    BY <2>1, <2>2, <1>r DEF TypeOK
<1>7. ASSUME NEW c \in Clients, UpdateConflict(c)
      PROVE  TypeOK'
  <2>1. CASE attempts[c] + 1 < MaxAttempts
    BY <1>7, <2>1 DEF TypeOK, UpdateConflict, Retry, Goto, Requests
  <2>2. CASE ~(attempts[c] + 1 < MaxAttempts)
    BY <1>7, <2>2, <1>r DEF TypeOK, UpdateConflict, Retry, Outcomes
  <2> QED
    BY <2>1, <2>2
<1>8. CASE WipeSecret
  BY <1>8, <1>a DEF TypeOK, WipeSecret
<1>9. CASE UNCHANGED vars
  BY <1>9 DEF TypeOK, vars
<1> QED
  BY <1>1, <1>2, <1>3, <1>4, <1>5, <1>6, <1>7, <1>8, <1>9 DEF Next, Answered

\* The state of the Secret, of the fetched copies and of every call stays
\* well-formed, whatever the clients do.
THEOREM TypeCorrect == Spec => []TypeOK
<1>1. Init => TypeOK
  BY MaxAttemptsAssumption
     DEF Init, TypeOK, Absent, Empty, Secret, Registry, Requests
<1> QED
  BY <1>1, TypeStep, PTL DEF Spec
-----------------------------------------------------------------------------
\* The actions by the parts of the state they leave alone: the first three
\* keep the Secret and end, start or continue a call.
Ends(c) == \E o \in Outcomes : Return(c, o) /\ Working(c) /\ UNCHANGED <<secret, revision, issued>>
Starts(c) == BeginPut(c) \/ BeginEnsure(c) \/ BeginDelete(c)
Continues(c) == LookupMissing(c) \/ GetSecretMissing(c) \/ CreateSecretExists(c)
Commits(c) == \E o \in Outcomes : Return(c, o) /\ Commit(c)
Conflicts(c) ==
    /\ pc[c] = "update" /\ Exists /\ ~Current(c)
    /\ attempts[c] + 1 < MaxAttempts
    /\ attempts' = [attempts EXCEPT ![c] = @ + 1]
    /\ Goto(c, "get")
    /\ UNCHANGED <<secret, revision, issued, call, snap, base>>

\* Next, regrouped by those classes.
LEMMA NextCases ==
    ASSUME [Next]_vars
    PROVE  \/ \E c \in Clients : Ends(c) \/ Starts(c) \/ Continues(c) \/ Commits(c)
                                 \/ Conflicts(c) \/ GetSecret(c) \/ CreateSecret(c)
           \/ WipeSecret
           \/ UNCHANGED vars
<1>1. ASSUME NEW c \in Clients,
             LookupFound(c) \/ DeleteNotFound(c) \/ RegetMissing(c)
               \/ UpdateMissing(c) \/ RequestFails(c)
      PROVE  Ends(c)
  BY <1>1 DEF LookupFound, DeleteNotFound, RegetMissing, UpdateMissing,
              RequestFails, Outcomes, Ends, Working, Requests
<1>2. ASSUME NEW c \in Clients, UpdateConflict(c)
      PROVE  Ends(c) \/ Conflicts(c)
  BY <1>2 DEF UpdateConflict, Retry, Ends, Conflicts, Outcomes, Working, Requests
<1>3. ASSUME NEW c \in Clients, UpdateSecret(c) \/ UpdateSecretLost(c)
      PROVE  Commits(c)
  BY <1>3 DEF UpdateSecret, UpdateSecretLost, Outcomes, Commits
<1> QED
  BY <1>1, <1>2, <1>3 DEF Next, Answered, Starts, Continues

\* A call that has ended is no longer working.
LEMMA ReturnEnds ==
    ASSUME TypeOK, NEW c \in Clients, NEW o \in Outcomes, Return(c, o)
    PROVE  /\ ~Working(c)'
           /\ pc'[c] # "update"
           /\ attempts'[c] = 0 /\ base'[c] = 0 /\ snap'[c] = Absent /\ call'[c] = NoCall
           /\ \A d \in Clients : d # c =>
                 /\ pc'[d] = pc[d] /\ call'[d] = call[d] /\ snap'[d] = snap[d]
                 /\ attempts'[d] = attempts[d] /\ base'[d] = base[d]
  BY DEF Return, TypeOK, Working, Requests, Outcomes

\* Copies are never newer than the Secret.
LEMMA RevisionStep == IInv /\ [Next]_vars => RevisionOK'
<1> SUFFICES ASSUME IInv, [Next]_vars PROVE RevisionOK'
  OBVIOUS
<1>t. TypeOK /\ RevisionOK
  BY DEF IInv
<1> USE <1>t DEF RevisionOK
<1>1. ASSUME NEW c \in Clients, Ends(c)
      PROVE  RevisionOK'
  BY <1>1 DEF Ends, Return, Exists, Absent, TypeOK, Secret
<1>2. ASSUME NEW c \in Clients, Starts(c) \/ Continues(c) \/ Conflicts(c)
      PROVE  RevisionOK'
  BY <1>2 DEF Starts, BeginPut, BeginEnsure, BeginDelete, Begin, Continues,
              LookupMissing, GetSecretMissing, CreateSecretExists, locals, Conflicts, Exists
<1>3. ASSUME NEW c \in Clients, GetSecret(c)
      PROVE  RevisionOK'
  BY <1>3 DEF GetSecret, Exists, TypeOK, Secret
<1>4. ASSUME NEW c \in Clients, CreateSecret(c)
      PROVE  RevisionOK'
  BY <1>4 DEF CreateSecret, Exists, TypeOK, Secret
<1>5. ASSUME NEW c \in Clients, Commits(c)
      PROVE  RevisionOK'
  BY <1>5 DEF Commits, Commit, Return, Absent, Exists, TypeOK, Secret
<1>6. CASE WipeSecret
  BY <1>6 DEF WipeSecret, Exists, Absent, TypeOK, Secret
<1>7. CASE UNCHANGED vars
  BY <1>7 DEF vars, Exists
<1> QED
  BY NextCases, <1>1, <1>2, <1>3, <1>4, <1>5, <1>6, <1>7

\* A copy with the current resourceVersion stays equal to the Secret, because
\* every write takes a revision no copy has.
LEMMA SnapshotStep == IInv /\ [Next]_vars => SnapshotCurrent'
<1> SUFFICES ASSUME IInv, [Next]_vars PROVE SnapshotCurrent'
  OBVIOUS
<1>t. TypeOK /\ RevisionOK /\ SnapshotCurrent
  BY DEF IInv
<1> USE <1>t DEF SnapshotCurrent, Current, Exists
<1>1. ASSUME NEW c \in Clients, Ends(c)
      PROVE  SnapshotCurrent'
  BY <1>1 DEF Ends, Return, Absent, TypeOK, Secret
<1>2. ASSUME NEW c \in Clients, Starts(c) \/ Continues(c) \/ Conflicts(c)
      PROVE  SnapshotCurrent'
  BY <1>2 DEF Starts, BeginPut, BeginEnsure, BeginDelete, Begin, Continues,
              LookupMissing, GetSecretMissing, CreateSecretExists, locals, Conflicts
<1>3. ASSUME NEW c \in Clients, GetSecret(c)
      PROVE  SnapshotCurrent'
  BY <1>3 DEF GetSecret, TypeOK
<1>4. ASSUME NEW c \in Clients, CreateSecret(c)
      PROVE  SnapshotCurrent'
  BY <1>4 DEF CreateSecret, RevisionOK, TypeOK, Secret
<1>5. ASSUME NEW c \in Clients, Commits(c)
      PROVE  SnapshotCurrent'
  BY <1>5 DEF Commits, Commit, Return, Absent, RevisionOK, TypeOK, Secret
<1>6. CASE WipeSecret
  BY <1>6 DEF WipeSecret, Absent
<1>7. CASE UNCHANGED vars
  BY <1>7 DEF vars
<1> QED
  BY NextCases, <1>1, <1>2, <1>3, <1>4, <1>5, <1>6, <1>7

\* What a write stores is an edit of the Secret as it is at that moment, not of
\* an older copy.
LEMMA CommitEditsCurrent ==
    ASSUME IInv, NEW c \in Clients, Commit(c)
    PROVE  \/ /\ call[c].kind = "delete"
              /\ \E k \in KeysOf(secret.data, call[c].name) :
                    secret'.data = Unregistered(secret.data, k)
           \/ /\ call[c].kind # "delete"
              /\ secret'.data = Registered(secret.data, call[c].name, call[c].key)
<1>1. snap[c].data = secret.data
  BY DEF IInv, SnapshotCurrent, Commit
<1>2. PICK d \in Edited(c) : secret' = [rv |-> revision + 1, data |-> d]
  BY DEF Commit
<1>3. secret'.data = d
  BY <1>2
<1> QED
  BY <1>1, <1>2, <1>3 DEF Edited

\* Writes keep names unique: Put evicts the name's other keys in the same write.
LEMMA UniqueNameStep == IInv /\ [Next]_vars => UniqueName'
<1> SUFFICES ASSUME IInv, [Next]_vars PROVE UniqueName'
  OBVIOUS
<1>t. TypeOK /\ UniqueName /\ secret.data \in Registry
  BY DEF IInv, TypeOK, Secret
<1> USE NoNameAssumption
<1>1. ASSUME NEW c \in Clients,
             Ends(c) \/ Starts(c) \/ Continues(c) \/ Conflicts(c) \/ GetSecret(c)
      PROVE  UniqueName'
  <2>1. secret' = secret
    BY <1>1 DEF Ends, Starts, BeginPut, BeginEnsure, BeginDelete, Begin, Continues,
              LookupMissing, GetSecretMissing, CreateSecretExists, Conflicts, GetSecret
  <2> QED
    BY <2>1, <1>t DEF UniqueName, KeysOf
<1>2. ASSUME secret'.data = Empty
      PROVE  UniqueName'
  BY <1>2 DEF UniqueName, KeysOf, Empty
<1>3. ASSUME NEW c \in Clients, CreateSecret(c)
      PROVE  UniqueName'
  <2>1. secret'.data = Empty
    BY <1>3 DEF CreateSecret
  <2> QED
    BY <2>1, <1>2
<1>4. ASSUME NEW c \in Clients, Commits(c)
      PROVE  UniqueName'
  <2>1. Commit(c)
    BY <1>4 DEF Commits
  <2>2. ASSUME NEW k \in Keys, secret'.data = Unregistered(secret.data, k)
        PROVE  UniqueName'
    BY <2>2, <1>t DEF Unregistered, UniqueName, KeysOf, Registry
  <2>3. ASSUME NEW k, NEW m \in Names \cup {NoName}, secret'.data = Registered(secret.data, m, k)
        PROVE  UniqueName'
    BY <2>3, <1>t DEF Registered, UniqueName, KeysOf, Registry
  <2>4. call[c].name \in Names \cup {NoName}
    BY <1>t DEF TypeOK, Call, NoCall
  <2> QED
    BY <2>1, <2>2, <2>3, <2>4, CommitEditsCurrent DEF KeysOf
<1>5. CASE WipeSecret
  <2>1. secret'.data = Empty
    BY <1>5 DEF WipeSecret, Absent
  <2> QED
    BY <2>1, <1>2
<1>6. CASE UNCHANGED vars
  BY <1>6, <1>t DEF vars, UniqueName, KeysOf
<1> QED
  BY NextCases, <1>1, <1>3, <1>4, <1>5, <1>6

\* A call keeps its arguments until it returns.
LEMMA CallStep == IInv /\ [Next]_vars => CallOK'
<1> SUFFICES ASSUME IInv, [Next]_vars PROVE CallOK'
  OBVIOUS
<1>t. TypeOK /\ CallOK
  BY DEF IInv
<1> USE <1>t DEF CallOK
<1>1. ASSUME NEW c \in Clients, Ends(c) \/ Commits(c)
      PROVE  CallOK'
  <2>1. PICK o \in Outcomes : Return(c, o)
    BY <1>1 DEF Ends, Commits
  <2> QED
    BY <2>1, ReturnEnds DEF Working, Requests
<1>2. ASSUME NEW c \in Clients, Starts(c)
      PROVE  CallOK'
  BY <1>2 DEF Starts, BeginPut, BeginEnsure, BeginDelete, Begin, Goto, Working, TypeOK,
              Call, Requests
<1>3. ASSUME NEW c \in Clients,
             Continues(c) \/ Conflicts(c) \/ GetSecret(c) \/ CreateSecret(c)
      PROVE  CallOK'
  BY <1>3 DEF Continues, LookupMissing, GetSecretMissing, CreateSecretExists, locals,
              Conflicts, GetSecret, CreateSecret, Goto, Working, TypeOK, Requests
<1>4. CASE WipeSecret \/ UNCHANGED vars
  BY <1>4 DEF WipeSecret, vars, Working
<1> QED
  BY NextCases, <1>1, <1>2, <1>3, <1>4

\* Every conflict is charged to a write made after the copy was fetched.
LEMMA AttemptsStep == IInv /\ [Next]_vars => AttemptsOK'
<1> SUFFICES ASSUME IInv, [Next]_vars PROVE AttemptsOK'
  OBVIOUS
<1>t. TypeOK /\ CallOK /\ AttemptsOK /\ RevisionOK
  BY DEF IInv
<1> USE <1>t, MaxAttemptsAssumption DEF AttemptsOK, Working
<1>1. ASSUME NEW c \in Clients, Ends(c) \/ Commits(c)
      PROVE  AttemptsOK'
  <2>1. PICK o \in Outcomes : Return(c, o) /\ (revision' = revision \/ revision' = revision + 1)
    BY <1>1 DEF Ends, Commits, Commit
  <2> QED
    BY <2>1, ReturnEnds DEF TypeOK
<1>2. ASSUME NEW c \in Clients, Starts(c)
      PROVE  AttemptsOK'
  BY <1>2 DEF Starts, BeginPut, BeginEnsure, BeginDelete, Begin, Goto, TypeOK, CallOK, Requests
<1>3. ASSUME NEW c \in Clients, Continues(c)
      PROVE  AttemptsOK'
  BY <1>3 DEF Continues, LookupMissing, GetSecretMissing, CreateSecretExists, locals,
              Goto, TypeOK, Requests
<1>4. ASSUME NEW c \in Clients, Conflicts(c)
      PROVE  AttemptsOK'
  <2>0. snap[c].rv \in Nat /\ revision \in Nat
    BY DEF TypeOK, Secret
  <2>1. snap[c].rv # revision /\ snap[c].rv <= revision
    BY <1>4 DEF Conflicts, Current, RevisionOK
  <2>2. snap[c].rv < revision
    BY <2>0, <2>1
  <2> QED
    BY <1>4, <2>2 DEF Conflicts, Goto, TypeOK, Secret, Requests
<1>5. ASSUME NEW c \in Clients, GetSecret(c)
      PROVE  AttemptsOK'
  BY <1>5 DEF GetSecret, Goto, TypeOK, Secret, Requests, RevisionOK, Exists
<1>6. ASSUME NEW c \in Clients, CreateSecret(c)
      PROVE  AttemptsOK'
  BY <1>6 DEF CreateSecret, Goto, TypeOK, Secret, Requests
<1>7. CASE WipeSecret \/ UNCHANGED vars
  BY <1>7 DEF WipeSecret, vars, TypeOK
<1> QED
  BY NextCases, <1>1, <1>2, <1>3, <1>4, <1>5, <1>6, <1>7

\* Access key IDs stay unused until the call they were generated for writes them.
LEMMA FreshKeysStep == IInv /\ [Next]_vars => FreshKeys'
<1> SUFFICES ASSUME IInv, [Next]_vars PROVE FreshKeys'
  OBVIOUS
<1>t. TypeOK /\ CallOK /\ FreshKeys /\ secret.data \in Registry
  BY DEF IInv, TypeOK, Secret
<1> USE <1>t, NoNameAssumption DEF Working
<1>1. ASSUME NEW c \in Clients, Ends(c)
      PROVE  FreshKeys'
  BY <1>1, ReturnEnds DEF Ends, FreshKeys
<1>2. ASSUME NEW c \in Clients, Starts(c)
      PROVE  FreshKeys'
  <2>0. secret' = secret /\ ~Working(c)
    BY <1>2 DEF Starts, BeginPut, BeginEnsure, BeginDelete, Begin
  <2>1. CASE BeginDelete(c)
    BY <2>0, <2>1 DEF BeginDelete, Begin, Goto, TypeOK, FreshKeys, Requests
  <2>2. CASE BeginPut(c) \/ BeginEnsure(c)
    <3>1. PICK k \in Keys \ issued :
             /\ issued' = issued \cup {k}
             /\ call'[c].key = k
             /\ \A d \in Clients : d # c => call'[d] = call[d] /\ pc'[d] = pc[d]
      BY <2>2 DEF BeginPut, BeginEnsure, Begin, Goto, TypeOK
    <3>2. secret.data[k] = NoName
      BY <3>1 DEF FreshKeys
    <3> QED
      BY <2>0, <3>1, <3>2 DEF FreshKeys
  <2> QED
    BY <1>2, <2>1, <2>2 DEF Starts
<1>3. ASSUME NEW c \in Clients, Continues(c) \/ Conflicts(c) \/ GetSecret(c)
      PROVE  FreshKeys'
  BY <1>3 DEF Continues, LookupMissing, GetSecretMissing, CreateSecretExists, locals,
              Conflicts, GetSecret, Goto, TypeOK, Requests, FreshKeys
<1>4. ASSUME NEW c \in Clients, CreateSecret(c)
      PROVE  FreshKeys'
  <2>1. secret'.data = Empty /\ issued' = issued /\ call' = call
    BY <1>4 DEF CreateSecret
  <2>2. \A d \in Clients : pc'[d] \in Requests <=> pc[d] \in Requests
    BY <1>4 DEF CreateSecret, Goto, TypeOK, Requests
  <2> QED
    BY <2>1, <2>2 DEF Empty, FreshKeys, CallOK
<1>5. ASSUME NEW c \in Clients, Commits(c)
      PROVE  FreshKeys'
  <2>1. Commit(c) /\ issued' = issued /\ Working(c)
    BY <1>5 DEF Commits, Commit, Requests
  <2>2. /\ ~Working(c)'
        /\ \A d \in Clients : d # c => pc'[d] = pc[d] /\ call'[d] = call[d]
    BY <1>5, ReturnEnds DEF Commits
  <2>3. ASSUME NEW k \in Keys, secret'.data = Unregistered(secret.data, k)
        PROVE  FreshKeys'
    BY <2>1, <2>2, <2>3 DEF Unregistered, FreshKeys, Registry, CallOK
  <2>4. ASSUME call[c].kind # "delete",
               secret'.data = Registered(secret.data, call[c].name, call[c].key)
        PROVE  FreshKeys'
    <3>1. call[c].key \in Keys /\ call[c].key \in issued
      BY <2>1, <2>4 DEF CallOK, FreshKeys
    <3>2. \A k \in Keys : secret'.data[k] # NoName => k \in issued
      BY <3>1, <2>4 DEF Registered, FreshKeys
    <3>3. \A d \in Clients : d # c /\ Working(d) /\ call[d].kind # "delete" =>
             call[d].key \in Keys /\ call[d].key # call[c].key
      BY <2>1, <2>4 DEF CallOK, FreshKeys
    <3>4. \A d \in Clients : d # c /\ Working(d) /\ call[d].kind # "delete" =>
             secret'.data[call[d].key] = NoName
      BY <3>3, <2>4 DEF Registered, FreshKeys
    <3> QED
      BY <2>1, <2>2, <3>2, <3>4 DEF FreshKeys
  <2> QED
    BY <2>1, <2>3, <2>4, CommitEditsCurrent DEF KeysOf
<1>6. CASE WipeSecret
  BY <1>6 DEF WipeSecret, Absent, Empty, FreshKeys, CallOK
<1>7. CASE UNCHANGED vars
  BY <1>7 DEF vars, FreshKeys
<1> QED
  BY NextCases, <1>1, <1>2, <1>3, <1>4, <1>5, <1>6, <1>7

\* The inductive invariant holds throughout.
THEOREM Invariance == Spec => []IInv
<1>1. Init => IInv
  <2> SUFFICES ASSUME Init PROVE IInv
    OBVIOUS
  <2>1. TypeOK
    BY MaxAttemptsAssumption
       DEF Init, TypeOK, Absent, Empty, Secret, Registry, Requests
  <2>2. ~Exists /\ secret.data = Empty /\ \A c \in Clients : ~Working(c)
    BY DEF Init, Exists, Absent, Working, Requests
  <2>3. UniqueName
    BY <2>2, NoNameAssumption DEF UniqueName, KeysOf, Empty
  <2>4. RevisionOK /\ AttemptsOK /\ CallOK
    BY <2>2 DEF Init, RevisionOK, AttemptsOK, CallOK, Absent
  <2>5. SnapshotCurrent /\ FreshKeys
    BY <2>2 DEF SnapshotCurrent, Current, FreshKeys, Empty
  <2> QED
    BY <2>1, <2>3, <2>4, <2>5 DEF IInv
<1>2. IInv /\ [Next]_vars => IInv'
  BY TypeStep, RevisionStep, SnapshotStep, UniqueNameStep, CallStep, FreshKeysStep,
     AttemptsStep DEF IInv
<1> QED
  BY <1>1, <1>2, PTL DEF Spec

\* "a name resolves to exactly one access key ID": no interleaving of Puts and
\* Deletes leaves two access key IDs registered under one name.
THEOREM NamesAreUnique == Spec => []UniqueName
<1>1. IInv => UniqueName
  BY DEF IInv
<1> QED
  BY <1>1, Invariance, PTL

\* A copy that still carries the current resourceVersion is the current Secret.
THEOREM SnapshotsAreCurrent == Spec => []SnapshotCurrent
<1>1. IInv => SnapshotCurrent
  BY DEF IInv
<1> QED
  BY <1>1, Invariance, PTL

\* Attempts lost to conflicts are bounded by the writes of others.
THEOREM ConflictsPaid == Spec => []ConflictsArePaidFor
<1>1. IInv => ConflictsArePaidFor
  <2> SUFFICES ASSUME IInv, NEW c \in Clients, Working(c)
               PROVE  attempts[c] <= revision - base[c]
    BY DEF ConflictsArePaidFor
  <2>1. attempts[c] \in Int /\ base[c] \in Int /\ revision \in Int
    BY MaxAttemptsAssumption DEF IInv, TypeOK
  <2>2. attempts[c] + base[c] <= revision
    BY DEF IInv, AttemptsOK
  <2> QED
    BY <2>1, <2>2
<1> QED
  BY <1>1, Invariance, PTL
-----------------------------------------------------------------------------
\* A write changes entries of its caller's name only.
THEOREM WritesStay == Spec => WritesStayInTheirName
<1>1. IInv /\ [Next]_vars => [OwnNameStep]_vars
  <2> SUFFICES ASSUME IInv, NEW c \in Clients, Commit(c), NEW k \in Keys,
                      secret'.data[k] # secret.data[k]
               PROVE  {secret.data[k], secret'.data[k]} = {NoName, call[c].name}
    BY DEF OwnNameStep
  <2>t. secret.data \in Registry
    BY DEF IInv, TypeOK, Secret
  <2>1. ASSUME NEW j \in KeysOf(secret.data, call[c].name),
               secret'.data = Unregistered(secret.data, j)
        PROVE  secret.data[k] = call[c].name /\ secret'.data[k] = NoName
    BY <2>1, <2>t DEF KeysOf, Unregistered, Registry
  <2>2. ASSUME call[c].kind # "delete",
               secret'.data = Registered(secret.data, call[c].name, call[c].key)
        PROVE  \/ secret.data[k] = call[c].name /\ secret'.data[k] = NoName
               \/ secret.data[k] = NoName /\ secret'.data[k] = call[c].name
    <3>1. Working(c)
      BY DEF Commit, Working, Requests
    <3>2. secret.data[call[c].key] = NoName
      BY <2>2, <3>1 DEF IInv, FreshKeys
    <3> QED
      BY <2>2, <3>2 DEF Registered
  <2> QED
    BY <2>1, <2>2, CommitEditsCurrent
<1> QED
  BY <1>1, Invariance, PTL DEF Spec, WritesStayInTheirName

\* Success is reported only for what is in the registry at that moment.
THEOREM AckedCalls == Spec => AckedCallsTookEffect
<1>1. IInv /\ [Next]_vars => [AckedStep]_vars
  <2> SUFFICES ASSUME IInv, Next, NEW c \in Clients, Working(c), pc'[c] = "ok"
               PROVE  LET keys == KeysOf(secret'.data, call[c].name) IN
                      /\ call[c].kind = "put" => keys = {call[c].key}
                      /\ call[c].kind = "ensure" => keys # {}
                      /\ call[c].kind = "delete" => keys = {}
    BY DEF AckedStep
  <2>t. /\ TypeOK /\ secret.data \in Registry
        /\ call[c] \in Call
        /\ call[c].kind # "delete" => call[c].key \in Keys
    BY DEF IInv, TypeOK, Secret, CallOK
  <2>1. LookupFound(c) \/ UpdateSecret(c)
    <3>1. pc[c] # "ok"
      BY DEF Working, Requests
    <3>2. ~WipeSecret
      BY <3>1 DEF WipeSecret
    <3>3. PICK d \in Clients :
             BeginPut(d) \/ BeginEnsure(d) \/ BeginDelete(d)
               \/ Answered(d) \/ UpdateSecretLost(d) \/ RequestFails(d)
      BY <3>2 DEF Next
    <3>4. pc' # pc /\ \E v : pc' = [pc EXCEPT ![d] = v]
      BY <3>1, <3>3 DEF BeginPut, BeginEnsure, BeginDelete, Begin, Answered, UpdateSecretLost,
           RequestFails, LookupFound, LookupMissing, DeleteNotFound, GetSecret,
           GetSecretMissing, RegetMissing, CreateSecretExists, CreateSecret, UpdateSecret,
           UpdateConflict, UpdateMissing, Retry, Return, Goto
    <3>5. d = c
      BY <3>1, <3>4, <2>t DEF TypeOK
    <3> QED
      BY <3>3, <3>5, <2>t DEF BeginPut, BeginEnsure, BeginDelete, Begin, Answered,
           UpdateSecretLost, RequestFails, LookupMissing, DeleteNotFound, GetSecret,
           GetSecretMissing, RegetMissing, CreateSecretExists, CreateSecret,
           UpdateConflict, UpdateMissing, Retry, Return, Goto, TypeOK
  <2>2. CASE LookupFound(c)
    <3>1. /\ secret' = secret /\ KeysOf(secret.data, call[c].name) # {}
          /\ call[c].kind = "ensure"
      BY <2>2 DEF LookupFound, IInv, CallOK
    <3> QED
      BY <3>1
  <2>3. CASE UpdateSecret(c)
    <3>1. Commit(c)
      BY <2>3 DEF UpdateSecret
    <3>n. call[c].name \in Names /\ call[c].name # NoName
      BY <2>t, NoNameAssumption DEF Call
    <3>2. ASSUME call[c].kind # "delete",
                 secret'.data = Registered(secret.data, call[c].name, call[c].key)
          PROVE  KeysOf(secret'.data, call[c].name) = {call[c].key}
      BY <3>2, <3>n, <2>t DEF Registered, KeysOf
    <3>3. ASSUME NEW k \in KeysOf(secret.data, call[c].name),
                 secret'.data = Unregistered(secret.data, k)
          PROVE  KeysOf(secret'.data, call[c].name) = {}
      BY <3>3, <3>n, <2>t DEF IInv, UniqueName, Unregistered, KeysOf, Registry
    <3> QED
      BY <3>1, <3>2, <3>3, CommitEditsCurrent
  <2> QED
    BY <2>1, <2>2, <2>3
<1> QED
  BY <1>1, Invariance, PTL DEF Spec, AckedCallsTookEffect

\* RetryOnConflict reports a conflict only after MaxAttempts foreign writes.
THEOREM GivesUpContended == Spec => GivesUpOnlyUnderContention
<1>1. IInv /\ [Next]_vars => [ContendedStep]_vars
  <2> SUFFICES ASSUME IInv, Next, NEW c \in Clients, Working(c), pc'[c] = "conflict"
               PROVE  revision - base[c] >= MaxAttempts
    BY DEF ContendedStep
  <2>t. TypeOK /\ RevisionOK /\ AttemptsOK
    BY DEF IInv
  <2>n. /\ attempts[c] \in Nat /\ base[c] \in Nat /\ revision \in Nat
        /\ snap[c].rv \in Nat /\ MaxAttempts \in Nat /\ attempts[c] < MaxAttempts
    BY <2>t, MaxAttemptsAssumption DEF TypeOK, Secret
  <2>1. pc[c] # "conflict"
    BY DEF Working, Requests
  <2>2. ~WipeSecret
    BY <2>1 DEF WipeSecret
  <2>3. PICK d \in Clients :
           BeginPut(d) \/ BeginEnsure(d) \/ BeginDelete(d)
             \/ Answered(d) \/ UpdateSecretLost(d) \/ RequestFails(d)
    BY <2>2 DEF Next
  <2>4. pc' # pc /\ \E v : pc' = [pc EXCEPT ![d] = v]
    BY <2>1, <2>3 DEF BeginPut, BeginEnsure, BeginDelete, Begin, Answered, UpdateSecretLost,
         RequestFails, LookupFound, LookupMissing, DeleteNotFound, GetSecret,
         GetSecretMissing, RegetMissing, CreateSecretExists, CreateSecret, UpdateSecret,
         UpdateConflict, UpdateMissing, Retry, Return, Goto
  <2>5. d = c
    BY <2>1, <2>4, <2>t DEF TypeOK
  <2>6. UpdateConflict(c)
    BY <2>3, <2>5, <2>t DEF BeginPut, BeginEnsure, BeginDelete, Begin, Answered,
         UpdateSecretLost, UpdateSecret, RequestFails, LookupFound, LookupMissing,
         DeleteNotFound, GetSecret, GetSecretMissing, RegetMissing, CreateSecretExists,
         CreateSecret, UpdateMissing, Return, Goto, TypeOK
  <2>7. ~(attempts[c] + 1 < MaxAttempts)
    BY <2>6, <2>t DEF UpdateConflict, Retry, Goto, TypeOK
  <2>8. snap[c].rv # revision /\ snap[c].rv <= revision /\ attempts[c] + base[c] <= snap[c].rv
    BY <2>6, <2>t DEF UpdateConflict, Current, RevisionOK, AttemptsOK
  <2> QED
    BY <2>n, <2>7, <2>8
<1> QED
  BY <1>1, Invariance, PTL DEF Spec, GivesUpOnlyUnderContention
-----------------------------------------------------------------------------
\* The abstract status of every client, and what one client's step does to it.
Status == [c \in Clients |-> IF Working(c) THEN "pending" ELSE pc[c]]

\* A returning call is a completion of the abstract store.
LEMMA ReturnCompletes ==
    ASSUME TypeOK, NEW c \in Clients, Working(c), NEW o \in Outcomes, Return(c, o)
    PROVE  Atomic!Complete(c, o)
<1>1. Status[c] = "pending"
  BY DEF Status
<1>2. Status' = [Status EXCEPT ![c] = o]
  BY DEF Status, Return, TypeOK, Working, Requests, Outcomes
<1>3. call' = [call EXCEPT ![c] = Atomic!NoCall]
  BY DEF Return, NoCall, Atomic!NoCall
<1> QED
  BY <1>1, <1>2, <1>3 DEF Atomic!Complete, Status

\* A step of the Secret-backed store is a step of the atomic one, or none.
LEMMA StepRefines ==
    ASSUME IInv, [Next]_vars
    PROVE  [Atomic!Next]_(Atomic!storeVars)
<1>t. TypeOK /\ CallOK /\ secret.data \in Registry
  BY DEF IInv, TypeOK, Secret
<1>1. ASSUME NEW c \in Clients, Starts(c)
      PROVE  Atomic!Next
  <2>1. PICK o \in Call : Begin(c, o, "get") \/ Begin(c, o, "lookup")
    BY <1>1 DEF Starts, BeginPut, BeginEnsure, BeginDelete, Call
  <2>2. Status[c] # "pending" /\ Status' = [Status EXCEPT ![c] = "pending"]
    BY <2>1, <1>t DEF Begin, Goto, Status, Working, Requests, Outcomes, TypeOK
  <2>3. Atomic!Request(c, o)
    BY <2>1, <2>2 DEF Begin, Atomic!Request, Status
  <2> QED
    BY <2>1, <2>3 DEF Atomic!Next, Atomic!Call, Call
<1>2. ASSUME NEW c \in Clients, LookupFound(c)
      PROVE  Atomic!Next
  <2>1. Working(c) /\ Return(c, "ok") /\ call[c].kind = "ensure"
    BY <1>2, <1>t DEF LookupFound, Working, Requests, CallOK
  <2>2. Atomic!Ensured(c)
    BY <1>2, <2>1, <1>t, ReturnCompletes
       DEF LookupFound, Atomic!Ensured, Atomic!KeysOf, KeysOf, Outcomes
  <2> QED
    BY <2>2 DEF Atomic!Next
<1>3. ASSUME NEW c \in Clients, DeleteNotFound(c)
      PROVE  Atomic!Next
  <2>1. Working(c) /\ Return(c, "notfound")
    BY <1>3 DEF DeleteNotFound, Working, Requests
  <2>2. Atomic!DeleteNotFound(c)
    BY <1>3, <2>1, <1>t, ReturnCompletes
       DEF DeleteNotFound, Atomic!DeleteNotFound, Atomic!KeysOf, KeysOf, Outcomes
  <2> QED
    BY <2>2 DEF Atomic!Next
<1>4. ASSUME NEW c \in Clients, Working(c), UNCHANGED secret,
             Return(c, "error") \/ Return(c, "conflict")
      PROVE  Atomic!Next
  <2>1. Atomic!Fail(c)
    BY <1>4, <1>t, ReturnCompletes DEF Atomic!Fail, Outcomes
  <2> QED
    BY <2>1 DEF Atomic!Next
<1>5. ASSUME NEW c \in Clients, Commit(c), Return(c, "ok") \/ Return(c, "error")
      PROVE  Atomic!Next
  <2>1. Working(c)
    BY <1>5 DEF Commit, Working, Requests
  <2>2. \E r \in {"ok", "error"} : Atomic!Complete(c, r)
    BY <1>5, <2>1, <1>t, ReturnCompletes DEF Outcomes
  <2>3. CASE call[c].kind = "delete"
    <3>1. Atomic!Delete(c)
      BY <2>2, <2>3, <1>5, CommitEditsCurrent
         DEF Atomic!Delete, Atomic!KeysOf, KeysOf, Atomic!Unregistered, Unregistered
    <3> QED
      BY <3>1 DEF Atomic!Next
  <2>4. CASE call[c].kind # "delete"
    <3>1. call[c].kind \in {"put", "ensure"}
      BY <2>1, <2>4, <1>t DEF CallOK, Call
    <3>2. Atomic!Put(c)
      BY <2>2, <2>4, <3>1, <1>5, CommitEditsCurrent
         DEF Atomic!Put, Atomic!Registered, Registered
    <3> QED
      BY <3>2 DEF Atomic!Next
  <2> QED
    BY <2>3, <2>4
<1>6. ASSUME secret'.data = secret.data, call' = call, Status' = Status
      PROVE  UNCHANGED Atomic!storeVars
  BY <1>6 DEF Atomic!storeVars, Status
<1>7. ASSUME NEW c \in Clients,
             Continues(c) \/ GetSecret(c) \/ Conflicts(c)
      PROVE  UNCHANGED Atomic!storeVars
  <2>1. secret' = secret /\ call' = call /\ Status' = Status
    BY <1>7, <1>t DEF Continues, LookupMissing, GetSecretMissing, CreateSecretExists, locals,
         GetSecret, Conflicts, Goto, Status, Working, Requests, TypeOK
  <2> QED
    BY <2>1, <1>6
<1>8. ASSUME NEW c \in Clients, CreateSecret(c)
      PROVE  UNCHANGED Atomic!storeVars
  <2>1. secret.data = Empty
    BY <1>8 DEF CreateSecret, IInv, RevisionOK
  <2>2. secret'.data = Empty /\ call' = call /\ Status' = Status
    BY <1>8, <1>t DEF CreateSecret, Goto, Status, Working, Requests, TypeOK
  <2> QED
    BY <2>1, <2>2, <1>6
<1>9. CASE WipeSecret
  <2>1. secret'.data = Empty /\ call' = call /\ Status' = Status
    BY <1>9 DEF WipeSecret, Absent, Status, Working
  <2>2. Atomic!Wipe
    BY <2>1 DEF Atomic!Wipe, Atomic!Empty, Empty, Status
  <2> QED
    BY <2>2 DEF Atomic!Next
<1>10. CASE UNCHANGED vars
  <2>1. secret' = secret /\ call' = call /\ Status' = Status
    BY <1>10 DEF vars, Status, Working
  <2> QED
    BY <2>1, <1>6
<1>11. ASSUME NEW c \in Clients,
              RegetMissing(c) \/ UpdateMissing(c) \/ RequestFails(c)
       PROVE  Atomic!Next
  BY <1>11, <1>4 DEF RegetMissing, UpdateMissing, RequestFails, Working, Requests
<1>12. ASSUME NEW c \in Clients, UpdateConflict(c)
       PROVE  [Atomic!Next]_(Atomic!storeVars)
  <2>1. Conflicts(c) \/ (Working(c) /\ UNCHANGED secret /\ Return(c, "conflict"))
    BY <1>12 DEF UpdateConflict, Retry, Conflicts, Working, Requests
  <2> QED
    BY <2>1, <1>4, <1>7
<1>13. ASSUME NEW c \in Clients, UpdateSecret(c) \/ UpdateSecretLost(c)
       PROVE  Atomic!Next
  BY <1>13, <1>5 DEF UpdateSecret, UpdateSecretLost
<1> QED
  BY <1>1, <1>2, <1>3, <1>7, <1>8, <1>9, <1>10, <1>11, <1>12, <1>13
     DEF Next, Answered, Starts, Continues

\* The Secret-backed store behaves as the atomic registry its interface
\* describes: retries, lost races and lost answers are invisible.
THEOREM Refinement == Spec => ImplementsPrincipalStore
<1>1. Init => Atomic!Init
  BY DEF Init, Atomic!Init, Absent, Empty, Atomic!Empty, NoCall, Atomic!NoCall,
         Working, Requests
<1>2. IInv /\ [Next]_vars => [Atomic!Next]_(Atomic!storeVars)
  BY StepRefines
<1> QED
  BY <1>1, <1>2, Invariance, PTL DEF Spec, ImplementsPrincipalStore, Atomic!Spec
=============================================================================
