----------------------------- MODULE Credentials -----------------------------
(***************************************************************************)
(* Temporary AWS credentials (internal/agent/imds.go, eksauth.go, sts.go,  *)
(* session.go, facade.go): the three services that issue them, the         *)
(* registry they are registered in, and the GetCallerIdentity call that    *)
(* turns an access key ID back into an identity.                           *)
(*                                                                         *)
(*  - fjord-imds, one process per node, hands the node role's credentials  *)
(*    to every pod of its node and caches them until they expire;          *)
(*  - AssumeRoleForPodIdentity issues a new set for every request, for the *)
(*    role that is associated with the caller's ServiceAccount;            *)
(*  - AssumeRoleWithWebIdentity (IRSA) records its sessions in the memory  *)
(*    of the agent.                                                        *)
(*                                                                         *)
(* The first two register what they issue in the principal registry, whose *)
(* operations are atomic (PrincipalStore), under the name of the role and  *)
(* the ID of the association.  A name has one access key at a time.        *)
(***************************************************************************)
EXTENDS Naturals

CONSTANTS
    Nodes, ServiceAccounts, Roles,
    Requests,     \* AssumeRoleForPodIdentity requests served at the same time
    Keys,         \* access key IDs: random, so every one is issued once
    NoKey, NoName, None,
    NodeRole,     \* the name of the node role
    MaxIDs,       \* bound: associations ever created
    MaxBoots,     \* bound: restarts of each fjord-imds
    MaxTime,      \* bound of the clock
    TTL           \* sessionCredentialsTTL

ASSUME TTLAssumption == TTL \in Nat \ {0}
ASSUME NoKeyAssumption == NoKey \notin Keys
ASSUME NoNameAssumption == NoName \notin {NodeRole} \cup (1..MaxIDs)
ASSUME BoundsAssumption == {MaxIDs, MaxBoots, MaxTime} \subseteq Nat

VARIABLES
    now,
    principals,   \* the registry: access key ID -> name of its principal
    arn,          \* the registry: access key ID -> ARN of its principal
    sessions,     \* the agent's session store: access key ID -> ARN
    assoc,        \* ServiceAccount -> its PodIdentityAssociation
    ids,          \* association IDs generated so far
    boot,         \* node -> instance ID of the running fjord-imds process
    cached,       \* node -> the credentials it serves
    making,       \* node -> the credentials the holder of credMu registers
    fetched,      \* request -> the association it has looked up
    issued,       \* access key IDs generated so far
    answered,     \* history: access key ID -> the credentials a caller received
    replaced,     \* history: access key IDs whose name got another one
    deleted       \* history: access key IDs whose principal was deleted

vars == <<now, principals, arn, sessions, assoc, ids, boot, cached, making,
          fetched, issued, answered, replaced, deleted>>

\* The registry, of which only the effects of Put and Delete are used here.
Names == {NodeRole} \cup (1..MaxIDs)
Registry == INSTANCE PrincipalStore WITH Clients <- {}, call <- <<>>, status <- <<>>

\* An ARN is a role and a session: the instance ID of a fjord-imds process, or
\* a session name that is generated for the key.  A user's ARN has neither.
ARN == [role : Roles \cup {NodeRole}, session : (Nodes \X Nat) \cup Keys]
Root == [role |-> None, session |-> NoKey]
Creds == [key : Keys, arn : ARN, expires : Nat, via : {"imds", "podIdentity", "session"}]

TypeOK ==
    /\ now \in 0..MaxTime
    /\ principals \in Registry!Registry
    /\ arn \in [Keys -> ARN \cup {None}]
    /\ sessions \in [Keys -> ARN \cup {None}]
    /\ assoc \in [ServiceAccounts -> [id : 1..MaxIDs, role : Roles] \cup {None}]
    /\ ids \in 0..MaxIDs
    /\ boot \in [Nodes -> 0..MaxBoots]
    /\ cached \in [Nodes -> Creds \cup {None}]
    /\ making \in [Nodes -> Creds \cup {None}]
    /\ fetched \in [Requests -> [id : 1..MaxIDs, role : Roles] \cup {None}]
    /\ issued \subseteq Keys
    /\ answered \in [Keys -> Creds \cup {None}]
    /\ replaced \subseteq Keys /\ deleted \subseteq Keys

Init ==
    /\ now = 0
    /\ principals = Registry!Empty
    /\ arn = [k \in Keys |-> None]
    /\ sessions = [k \in Keys |-> None]
    /\ assoc = [sa \in ServiceAccounts |-> None]
    /\ ids = 0
    /\ boot = [n \in Nodes |-> 0]
    /\ cached = [n \in Nodes |-> None]
    /\ making = [n \in Nodes |-> None]
    /\ fetched = [q \in Requests |-> None]
    /\ issued = {}
    /\ answered = [k \in Keys |-> None]
    /\ replaced = {} /\ deleted = {}

\* newCredentials, for a session of the given ARN; via is the endpoint.
NewCredentials(k, a, via) == [key |-> k, arn |-> a, expires |-> now + TTL, via |-> via]

CredentialsExpired(c) == now >= c.expires

\* store.Put of a principal.
Put(k, name, a) ==
    /\ principals' = Registry!Registered(principals, name, k)
    /\ arn' = [arn EXCEPT ![k] = a]
    /\ replaced' = replaced \cup (Registry!KeysOf(principals, name) \ {k})
    /\ UNCHANGED deleted

registry == <<principals, arn, replaced, deleted>>
imds == <<boot, cached, making>>
podIdentity == <<assoc, ids, fetched>>

Answer(c) == answered' = [answered EXCEPT ![c.key] = c]

\* callerIdentity: sessions first, then the registry, and the account root for
\* a key that neither knows.
CallerIdentity(k) ==
    IF sessions[k] # None THEN sessions[k]
    ELSE IF principals[k] # NoName THEN arn[k] ELSE Root
-----------------------------------------------------------------------------
(* fjord-imds: credentialsFor and handleRoleCredentials.                    *)

\* The cached credentials are still valid.
ServeCached(n) ==
    /\ making[n] = None
    /\ cached[n] # None
    /\ ~CredentialsExpired(cached[n])
    /\ Answer(cached[n])
    /\ UNCHANGED <<now, registry, sessions, podIdentity, imds, issued>>

\* Mutant: the new credentials are cached before they are registered.
Renew_CachesFirst(n) ==
    /\ making[n] = None
    /\ cached[n] # None => CredentialsExpired(cached[n])
    /\ \E k \in Keys \ issued :
          LET c == NewCredentials(k, [role |-> NodeRole, session |-> <<n, boot[n]>>], "imds") IN
          /\ making' = [making EXCEPT ![n] = c]
          /\ cached' = [cached EXCEPT ![n] = c]
          /\ issued' = issued \cup {k}
    /\ UNCHANGED <<now, registry, sessions, podIdentity, boot, answered>>

\* There are none, or they expired: generate a set.  credMu is held from here
\* to the end of Put, so other requests to this process wait.
Renew(n) ==
    /\ making[n] = None
    /\ cached[n] # None => CredentialsExpired(cached[n])
    /\ \E k \in Keys \ issued :
          /\ making' = [making EXCEPT ![n] =
                 NewCredentials(k, [role |-> NodeRole, session |-> <<n, boot[n]>>], "imds")]
          /\ issued' = issued \cup {k}
    /\ UNCHANGED <<now, registry, sessions, podIdentity, boot, cached, answered>>

\* Mutant: the ARN does not name the instance whose role was assumed.
Register_AnyInstance(n) ==
    /\ making[n] # None
    /\ Put(making[n].key, NodeRole, [role |-> NodeRole, session |-> <<n, 0>>])
    /\ cached' = [cached EXCEPT ![n] = making[n]]
    /\ making' = [making EXCEPT ![n] = None]
    /\ Answer(making[n])
    /\ UNCHANGED <<now, sessions, podIdentity, boot, issued>>

Register(n) ==
    /\ making[n] # None
    /\ Put(making[n].key, NodeRole, making[n].arn)
    /\ cached' = [cached EXCEPT ![n] = making[n]]
    /\ making' = [making EXCEPT ![n] = None]
    /\ Answer(making[n])
    /\ UNCHANGED <<now, sessions, podIdentity, boot, issued>>

\* Put fails, with or without an effect: 500, and nothing is cached.
RegisterFails(n) ==
    /\ making[n] # None
    /\ making' = [making EXCEPT ![n] = None]
    /\ \/ Put(making[n].key, NodeRole, making[n].arn)
       \/ UNCHANGED registry
    /\ UNCHANGED <<now, sessions, podIdentity, boot, cached, issued, answered>>

\* The process restarts: NewIMDS generates another instance ID.
RestartIMDS(n) ==
    /\ boot[n] < MaxBoots
    /\ boot' = [boot EXCEPT ![n] = @ + 1]
    /\ cached' = [cached EXCEPT ![n] = None]
    /\ making' = [making EXCEPT ![n] = None]
    /\ UNCHANGED <<now, registry, sessions, podIdentity, issued, answered>>
-----------------------------------------------------------------------------
(* The agent: pod identity, IRSA sessions.                                  *)

\* handleCreatePodIdentityAssociation: a new ID, also when the ServiceAccount
\* has an association already, which is replaced.
CreatePodIdentityAssociation(sa, r) ==
    /\ ids < MaxIDs
    /\ ids' = ids + 1
    /\ assoc' = [assoc EXCEPT ![sa] = [id |-> ids', role |-> r]]
    /\ UNCHANGED <<now, registry, sessions, fetched, imds, issued, answered>>

\* handleAssumeRoleForPodIdentity up to GetBySA.
LookupAssociation(q) ==
    /\ fetched[q] = None
    /\ \E sa \in ServiceAccounts :
          /\ assoc[sa] # None
          /\ fetched' = [fetched EXCEPT ![q] = assoc[sa]]
    /\ UNCHANGED <<now, registry, sessions, assoc, ids, imds, issued, answered>>

\* issuePodIdentityCredentials.
IssuePodIdentity(q) ==
    /\ fetched[q] # None
    /\ \E k \in Keys \ issued :
          LET c == NewCredentials(k, [role |-> fetched[q].role, session |-> k], "podIdentity") IN
          /\ issued' = issued \cup {k}
          /\ Put(k, fetched[q].id, c.arn)
          /\ Answer(c)
    /\ fetched' = [fetched EXCEPT ![q] = None]
    /\ UNCHANGED <<now, sessions, assoc, ids, imds>>

\* Put fails: 500 (with or without an effect), or the agent stops.
IssueFails(q) ==
    /\ fetched[q] # None
    /\ fetched' = [fetched EXCEPT ![q] = None]
    /\ \/ \E k \in Keys \ issued :
             /\ issued' = issued \cup {k}
             /\ Put(k, fetched[q].id, [role |-> fetched[q].role, session |-> k])
       \/ UNCHANGED <<registry, issued>>
    /\ UNCHANGED <<now, sessions, assoc, ids, imds, answered>>

\* handleAssumeRoleWithWebIdentity.
AssumeRoleWithWebIdentity(r) ==
    /\ \E k \in Keys \ issued :
          LET c == NewCredentials(k, [role |-> r, session |-> k], "session") IN
          /\ issued' = issued \cup {k}
          /\ sessions' = [sessions EXCEPT ![k] = c.arn]
          /\ Answer(c)
    /\ UNCHANGED <<now, registry, podIdentity, imds>>

\* The agent restarts: its sessions are gone and its requests unanswered.
RestartAgent ==
    /\ sessions' = [k \in Keys |-> None]
    /\ fetched' = [q \in Requests |-> None]
    /\ UNCHANGED <<now, registry, assoc, ids, imds, issued, answered>>

\* `fjord delete principal` of a name the services registered.
DeletePrincipal(name) ==
    /\ \E k \in Registry!KeysOf(principals, name) :
          /\ principals' = Registry!Unregistered(principals, k)
          /\ deleted' = deleted \cup {k}
    /\ UNCHANGED <<now, arn, replaced, sessions, podIdentity, imds, issued, answered>>

Tick ==
    /\ now < MaxTime
    /\ now' = now + 1
    /\ UNCHANGED <<registry, sessions, podIdentity, imds, issued, answered>>

IMDSNext(n) ==
    \/ ServeCached(n) \/ Renew(n) \/ Register(n)
    \/ RegisterFails(n) \/ RestartIMDS(n)

AgentNext ==
    \/ \E sa \in ServiceAccounts, r \in Roles : CreatePodIdentityAssociation(sa, r)
    \/ \E q \in Requests : LookupAssociation(q) \/ IssuePodIdentity(q) \/ IssueFails(q)
    \/ \E r \in Roles : AssumeRoleWithWebIdentity(r)
    \/ RestartAgent

Next ==
    \/ \E n \in Nodes : IMDSNext(n)
    \/ AgentNext
    \/ \E name \in Names : DeletePrincipal(name)
    \/ Tick

Spec == Init /\ [][Next]_vars
-----------------------------------------------------------------------------
\* GetCallerIdentity never takes one caller for another: credentials resolve to
\* the identity their answer named, or to no identity but the account root.
NeverMisattributed ==
    \A k \in Keys : answered[k] # None =>
        CallerIdentity(k) \in {answered[k].arn, Root}

\* Nothing is handed out unregistered: credentials of fjord-imds or of Pod
\* Identity resolve, unless their name was registered with another access key
\* or deleted since.  (Sessions live in the agent's memory.)
RevokedOnlyByName ==
    \A k \in Keys : answered[k] # None /\ answered[k].via # "session"
            /\ k \notin replaced \cup deleted =>
        CallerIdentity(k) = answered[k].arn

\* fjord-imds registers "the credentials it issues in store so a
\* GetCallerIdentity call resolves them", and Pod Identity likewise: what was
\* answered resolves until it expires or its principal is deleted.
AnsweredResolves ==
    \A k \in Keys : answered[k] # None /\ answered[k].via # "session"
            /\ ~CredentialsExpired(answered[k]) /\ k \notin deleted =>
        CallerIdentity(k) = answered[k].arn
=============================================================================
