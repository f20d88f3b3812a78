-------------------------- MODULE CredentialsProofs --------------------------
(***************************************************************************)
(* Proofs about Credentials, for any number of nodes, service accounts,    *)
(* requests and access key IDs: the identity of a caller is the one its    *)
(* credentials were issued for.                                            *)
(*                                                                         *)
(* The second part is about Injector, the webhook that points pods at the  *)
(* issuers, for pods with any containers and lists of any length.          *)
(***************************************************************************)
EXTENDS Credentials, Injector, SequenceTheorems, WellFoundedInduction, TLAPS

\* Nobody knows a key: it was not answered and nothing resolves it.
Unknown(k) == answered[k] = None /\ sessions[k] = None /\ principals[k] = NoName

\* A key is handed to one holder of credMu at most, and is unknown until that
\* one has registered it.
FreshKeys ==
    /\ \A k \in Keys \ issued : Unknown(k)
    /\ \A n \in Nodes : making[n] # None => making[n].key \in issued /\ Unknown(making[n].key)
    /\ \A m, n \in Nodes :
          m # n /\ making[m] # None /\ making[n] # None => making[m].key # making[n].key

\* What a node serves again has been answered before.
CachedAnswered == \A n \in Nodes : cached[n] # None => answered[cached[n].key] = cached[n]

\* Wherever an answered key is known, it is known as what the answer said; keys
\* of the registry are never sessions, and stay there until their name changes
\* hands.
KnownAsAnswered ==
    \A k \in Keys : answered[k] # None =>
        /\ sessions[k] # None => sessions[k] = answered[k].arn
        /\ principals[k] # NoName => arn[k] = answered[k].arn
        /\ answered[k].via # "session" =>
              sessions[k] = None /\ (k \notin replaced \cup deleted => principals[k] # NoName)

IInv == TypeOK /\ FreshKeys /\ CachedAnswered /\ KnownAsAnswered
-----------------------------------------------------------------------------
\* What a Put does to the registry: the key gets its name and ARN, other keys of
\* the name lose it and are remembered as replaced.
LEMMA PutEffect ==
    ASSUME TypeOK, NEW k \in Keys, NEW name \in Names, NEW a \in ARN, Put(k, name, a)
    PROVE  /\ principals' \in Registry!Registry /\ arn' \in [Keys -> ARN \cup {None}]
           /\ principals'[k] = name /\ name # NoName /\ arn'[k] = a
           /\ \A j \in Keys \ {k} :
                 /\ arn'[j] = arn[j]
                 /\ \/ principals'[j] = principals[j]
                    \/ principals'[j] = NoName /\ j \in replaced'
           /\ replaced \subseteq replaced' /\ replaced' \subseteq Keys
           /\ deleted' = deleted
  BY NoNameAssumption
     DEF TypeOK, Put, Names, Registry!Registry, Registry!Registered, Registry!KeysOf

\* New credentials are well-formed.
LEMMA NewCredentialsType ==
    ASSUME TypeOK, NEW k \in Keys, NEW a \in ARN, NEW via \in {"imds", "podIdentity", "session"}
    PROVE  /\ NewCredentials(k, a, via) \in Creds
           /\ NewCredentials(k, a, via).key = k
           /\ NewCredentials(k, a, via).arn = a
           /\ NewCredentials(k, a, via).via = via
  BY TTLAssumption, BoundsAssumption DEF TypeOK, NewCredentials, Creds

\* The ARN of a fjord-imds process and that of a generated session.
LEMMA ARNType ==
    ASSUME TypeOK
    PROVE  /\ \A n \in Nodes : [role |-> NodeRole, session |-> <<n, boot[n]>>] \in ARN
           /\ \A r \in Roles, k \in Keys : [role |-> r, session |-> k] \in ARN
  BY BoundsAssumption DEF TypeOK, ARN

\* Credentials are registered under an association's ID, or under the node role.
LEMMA NamesType ==
    ASSUME TypeOK
    PROVE  /\ NodeRole \in Names
           /\ \A q \in Requests : fetched[q] # None => fetched[q].id \in Names /\ fetched[q].role \in Roles
  BY DEF TypeOK, Names

\* Every step of the issuers, of the registry and of the clock keeps the type.
LEMMA TypeStep ==
    ASSUME TypeOK, [Next]_vars
    PROVE  TypeOK'
<1> USE BoundsAssumption
<1>1. ASSUME NEW n \in Nodes, ServeCached(n)
      PROVE  TypeOK'
  BY <1>1 DEF TypeOK, ServeCached, Answer, Creds, registry, podIdentity, imds
<1>2. ASSUME NEW n \in Nodes, Renew(n)
      PROVE  TypeOK'
  <2>1. PICK k \in Keys \ issued :
           /\ making' = [making EXCEPT ![n] =
                 NewCredentials(k, [role |-> NodeRole, session |-> <<n, boot[n]>>], "imds")]
           /\ issued' = issued \cup {k}
    BY <1>2 DEF Renew
  <2>2. NewCredentials(k, [role |-> NodeRole, session |-> <<n, boot[n]>>], "imds") \in Creds
    BY ARNType, NewCredentialsType
  <2> QED
    BY <1>2, <2>1, <2>2 DEF TypeOK, Renew, registry, podIdentity
<1>3. ASSUME NEW n \in Nodes, Register(n) \/ RegisterFails(n)
      PROVE  TypeOK'
  <2>1. making[n] \in Creds /\ making[n].key \in Keys /\ making[n].arn \in ARN
    BY <1>3 DEF TypeOK, Register, RegisterFails, Creds
  <2>2. CASE UNCHANGED registry /\ RegisterFails(n)
    BY <2>2 DEF TypeOK, RegisterFails, registry, podIdentity
  <2>3. CASE Put(making[n].key, NodeRole, making[n].arn)
    <3>1. /\ principals' \in Registry!Registry /\ arn' \in [Keys -> ARN \cup {None}]
          /\ replaced' \subseteq Keys /\ deleted' = deleted
      BY <2>1, <2>3, PutEffect, NamesType
    <3> QED
      BY <1>3, <2>1, <3>1 DEF TypeOK, Register, RegisterFails, Answer, podIdentity
  <2> QED
    BY <1>3, <2>2, <2>3 DEF Register, RegisterFails
<1>4. ASSUME NEW n \in Nodes, RestartIMDS(n)
      PROVE  TypeOK'
  BY <1>4 DEF TypeOK, RestartIMDS, registry, podIdentity
<1>5. ASSUME NEW a \in ServiceAccounts, NEW r \in Roles, CreatePodIdentityAssociation(a, r)
      PROVE  TypeOK'
  BY <1>5 DEF TypeOK, CreatePodIdentityAssociation, registry, imds
<1>6. ASSUME NEW q \in Requests, LookupAssociation(q)
      PROVE  TypeOK'
  BY <1>6 DEF TypeOK, LookupAssociation, registry, imds
<1>7. ASSUME NEW q \in Requests, IssuePodIdentity(q)
      PROVE  TypeOK'
  <2>1. PICK k \in Keys \ issued :
           LET c == NewCredentials(k, [role |-> fetched[q].role, session |-> k], "podIdentity") IN
           /\ issued' = issued \cup {k}
           /\ Put(k, fetched[q].id, c.arn)
           /\ Answer(c)
    BY <1>7 DEF IssuePodIdentity
  <2> DEFINE a == [role |-> fetched[q].role, session |-> k]
             c == NewCredentials(k, a, "podIdentity")
  <2>2. a \in ARN /\ fetched[q].id \in Names
    BY <1>7, ARNType, NamesType DEF IssuePodIdentity
  <2>3. c \in Creds /\ c.key = k /\ c.arn = a
    BY <2>2, NewCredentialsType
  <2>4. Put(k, fetched[q].id, a) /\ Answer(c) /\ issued' = issued \cup {k}
    BY <2>1, <2>3
  <2> HIDE DEF a, c
  <2>5. /\ principals' \in Registry!Registry /\ arn' \in [Keys -> ARN \cup {None}]
        /\ replaced' \subseteq Keys /\ deleted' = deleted
    BY <2>2, <2>4, PutEffect
  <2> QED
    BY <1>7, <2>3, <2>4, <2>5 DEF TypeOK, IssuePodIdentity, Answer, imds
<1>8. ASSUME NEW q \in Requests, IssueFails(q)
      PROVE  TypeOK'
  <2>1. CASE UNCHANGED <<registry, issued>>
    BY <2>1, <1>8 DEF TypeOK, IssueFails, registry, imds
  <2>2. ASSUME NEW k \in Keys \ issued, issued' = issued \cup {k},
               Put(k, fetched[q].id, [role |-> fetched[q].role, session |-> k])
        PROVE  TypeOK'
    <3>1. [role |-> fetched[q].role, session |-> k] \in ARN /\ fetched[q].id \in Names
      BY <1>8, ARNType, NamesType DEF IssueFails
    <3>2. /\ principals' \in Registry!Registry /\ arn' \in [Keys -> ARN \cup {None}]
          /\ replaced' \subseteq Keys /\ deleted' = deleted
      BY <2>2, <3>1, PutEffect
    <3> QED
      BY <1>8, <2>2, <3>2 DEF TypeOK, IssueFails, imds
  <2> QED
    BY <1>8, <2>1, <2>2 DEF IssueFails
<1>9. ASSUME NEW r \in Roles, AssumeRoleWithWebIdentity(r)
      PROVE  TypeOK'
  <2>1. PICK k \in Keys \ issued :
           LET c == NewCredentials(k, [role |-> r, session |-> k], "session") IN
           /\ issued' = issued \cup {k}
           /\ sessions' = [sessions EXCEPT ![k] = c.arn]
           /\ Answer(c)
    BY <1>9 DEF AssumeRoleWithWebIdentity
  <2> DEFINE c == NewCredentials(k, [role |-> r, session |-> k], "session")
  <2>2. c \in Creds /\ c.arn \in ARN /\ c.key = k
    BY ARNType, NewCredentialsType
  <2>3. issued' = issued \cup {k} /\ sessions' = [sessions EXCEPT ![k] = c.arn] /\ Answer(c)
    BY <2>1
  <2> HIDE DEF c
  <2> QED
    BY <1>9, <2>2, <2>3 DEF TypeOK, AssumeRoleWithWebIdentity, Answer, registry, podIdentity, imds
<1>10. CASE RestartAgent
  BY <1>10 DEF TypeOK, RestartAgent, registry, imds
<1>11. ASSUME NEW name \in Names, DeletePrincipal(name)
       PROVE  TypeOK'
  BY <1>11 DEF TypeOK, DeletePrincipal, Registry!Registry, Registry!KeysOf,
               Registry!Unregistered, podIdentity, imds
<1>12. CASE Tick
  BY <1>12 DEF TypeOK, Tick, registry, podIdentity, imds
<1>13. CASE UNCHANGED vars
  BY <1>13 DEF TypeOK, vars
<1> QED
  BY <1>1, <1>2, <1>3, <1>4, <1>5, <1>6, <1>7, <1>8, <1>9, <1>10, <1>11, <1>12, <1>13
     DEF Next, IMDSNext, AgentNext
-----------------------------------------------------------------------------
Safe == FreshKeys /\ CachedAnswered /\ KnownAsAnswered

\* A Put of a key that is unknown, whether or not it is answered in the same step,
\* disturbs nobody else's identity.
LEMMA PutFresh ==
    ASSUME IInv, NEW k \in Keys, NEW name \in Names, NEW a \in ARN, Put(k, name, a),
           Unknown(k), UNCHANGED sessions,
           \/ UNCHANGED answered
           \/ \E c \in Creds : c.key = k /\ c.arn = a /\ Answer(c)
    PROVE  KnownAsAnswered'
<1>1. TypeOK /\ KnownAsAnswered
  BY DEF IInv
<1>2. /\ principals'[k] = name /\ name # NoName /\ arn'[k] = a
      /\ \A j \in Keys \ {k} :
            /\ arn'[j] = arn[j]
            /\ \/ principals'[j] = principals[j]
               \/ principals'[j] = NoName /\ j \in replaced'
      /\ replaced \subseteq replaced' /\ deleted' = deleted
  BY <1>1, PutEffect
<1>3. \A j \in Keys \ {k} : answered'[j] = answered[j]
  BY <1>1 DEF Answer, TypeOK
<1>4. answered'[k] # None => answered'[k].arn = a
  BY <1>1 DEF Answer, TypeOK, Unknown
<1>5. sessions'[k] = None
  BY DEF Unknown
<1> QED
  BY <1>1, <1>2, <1>3, <1>4, <1>5 DEF KnownAsAnswered

\* Every step keeps keys fresh until they are registered, and known keys known
\* for what they are.
LEMMA SafeStep ==
    ASSUME IInv, [Next]_vars
    PROVE  Safe'
<1>t. TypeOK /\ FreshKeys /\ CachedAnswered /\ KnownAsAnswered
  BY DEF IInv
<1> USE DEF Safe
<1>1. ASSUME NEW n \in Nodes, ServeCached(n)
      PROVE  Safe'
  <2>1. answered' = answered
    BY <1>1, <1>t DEF ServeCached, Answer, CachedAnswered, TypeOK, Creds
  <2> QED
    BY <1>1, <2>1, <1>t DEF ServeCached, FreshKeys, Unknown, CachedAnswered, KnownAsAnswered,
                            registry, podIdentity, imds
<1>2. ASSUME NEW n \in Nodes, Renew(n)
      PROVE  Safe'
  <2>1. PICK k \in Keys \ issued :
           /\ making' = [making EXCEPT ![n] =
                 NewCredentials(k, [role |-> NodeRole, session |-> <<n, boot[n]>>], "imds")]
           /\ issued' = issued \cup {k}
    BY <1>2 DEF Renew
  <2> DEFINE c == NewCredentials(k, [role |-> NodeRole, session |-> <<n, boot[n]>>], "imds")
  <2>2. c.key = k
    BY DEF NewCredentials
  <2>3. making' = [making EXCEPT ![n] = c]
    BY <2>1
  <2> HIDE DEF c
  <2>4. UNCHANGED <<answered, sessions, principals, arn, replaced, deleted, cached>>
    BY <1>2 DEF Renew, registry
  <2>5. FreshKeys'
    BY <2>1, <2>2, <2>3, <2>4, <1>t DEF FreshKeys, Unknown, TypeOK
  <2> QED
    BY <2>4, <2>5, <1>t DEF CachedAnswered, KnownAsAnswered
<1>3. ASSUME NEW n \in Nodes, Register(n) \/ RegisterFails(n)
      PROVE  Safe'
  <2> DEFINE k == making[n].key
  <2>1. making[n] # None /\ making[n] \in Creds /\ k \in Keys /\ making[n].arn \in ARN
    BY <1>3, <1>t DEF TypeOK, Register, RegisterFails, Creds
  <2>2. k \in issued /\ Unknown(k)
    BY <2>1, <1>t DEF FreshKeys
  <2>3. making' = [making EXCEPT ![n] = None] /\ UNCHANGED <<sessions, issued>>
    BY <1>3 DEF Register, RegisterFails
  <2>4. CASE UNCHANGED registry /\ RegisterFails(n)
    BY <2>4, <2>3, <1>t DEF RegisterFails, FreshKeys, Unknown, CachedAnswered, KnownAsAnswered,
                            TypeOK, registry
  <2>5. CASE Put(k, NodeRole, making[n].arn)
    <3>1. \A j \in Keys \ {k} : principals'[j] \in {principals[j], NoName}
      BY <2>1, <2>5, <1>t, PutEffect, NamesType
    <3>2. \A j \in Keys \ {k} : answered'[j] = answered[j]
      BY <1>3, <1>t, <2>1 DEF Register, RegisterFails, Answer, TypeOK
    <3>3. FreshKeys'
      BY <2>1, <2>2, <2>3, <3>1, <3>2, <1>t DEF FreshKeys, Unknown, TypeOK, Creds
    <3>4. CachedAnswered'
      BY <1>3, <2>1, <2>2, <3>2, <1>t
         DEF Register, RegisterFails, Answer, CachedAnswered, TypeOK, Creds, Unknown
    <3>5. \/ UNCHANGED answered
          \/ \E c \in Creds : c.key = k /\ c.arn = making[n].arn /\ Answer(c)
      BY <1>3, <2>1 DEF Register, RegisterFails
    <3> HIDE DEF k
    <3>6. KnownAsAnswered'
      BY <2>1, <2>2, <2>3, <2>5, <3>5, <1>t, PutFresh, NamesType
    <3> QED
      BY <3>3, <3>4, <3>6
  <2> QED
    BY <1>3, <2>4, <2>5 DEF Register, RegisterFails
<1>4. ASSUME NEW n \in Nodes, RestartIMDS(n)
      PROVE  Safe'
  BY <1>4, <1>t DEF RestartIMDS, FreshKeys, Unknown, CachedAnswered, KnownAsAnswered, TypeOK,
                    registry
<1>5. CASE \E a \in ServiceAccounts, r \in Roles : CreatePodIdentityAssociation(a, r)
  BY <1>5, <1>t DEF CreatePodIdentityAssociation, FreshKeys, Unknown, CachedAnswered,
                    KnownAsAnswered, registry, imds
<1>6. CASE \E q \in Requests : LookupAssociation(q)
  BY <1>6, <1>t DEF LookupAssociation, FreshKeys, Unknown, CachedAnswered,
                    KnownAsAnswered, registry, imds
<1>7. ASSUME NEW q \in Requests, NEW k \in Keys \ issued, fetched[q] # None,
             issued' = issued \cup {k}, UNCHANGED <<sessions, imds>>,
             Put(k, fetched[q].id, [role |-> fetched[q].role, session |-> k]),
             \/ UNCHANGED answered
             \/ \E c \in Creds : /\ c.key = k /\ c.arn = [role |-> fetched[q].role, session |-> k]
                                 /\ Answer(c)
      PROVE  Safe'
  <2> DEFINE a == [role |-> fetched[q].role, session |-> k]
  <2>1. a \in ARN /\ fetched[q].id \in Names
    BY <1>7, <1>t, ARNType, NamesType
  <2>2. Unknown(k)
    BY <1>t DEF FreshKeys
  <2>3. \A j \in Keys \ {k} : principals'[j] \in {principals[j], NoName}
    BY <1>7, <2>1, <1>t, PutEffect
  <2>4. \A j \in Keys \ {k} : answered'[j] = answered[j]
    BY <1>7, <1>t DEF Answer, TypeOK
  <2>5. FreshKeys'
    BY <1>7, <2>3, <2>4, <1>t DEF FreshKeys, Unknown, TypeOK, Creds, imds
  <2>6. \A n \in Nodes : cached[n] # None => cached[n] \in Creds /\ cached[n].key # k
    BY <2>2, <1>t DEF CachedAnswered, Unknown, TypeOK, Creds
  <2>7. CachedAnswered'
    BY <1>7, <2>4, <2>6, <1>t DEF CachedAnswered, TypeOK, Creds, imds
  <2>8. KnownAsAnswered'
    BY <1>7, <2>1, <2>2, PutFresh
  <2> QED
    BY <2>5, <2>7, <2>8
<1>8. ASSUME NEW q \in Requests, IssuePodIdentity(q)
      PROVE  Safe'
  <2>1. PICK k \in Keys \ issued :
           LET c == NewCredentials(k, [role |-> fetched[q].role, session |-> k], "podIdentity") IN
           /\ issued' = issued \cup {k}
           /\ Put(k, fetched[q].id, c.arn)
           /\ Answer(c)
    BY <1>8 DEF IssuePodIdentity
  <2> DEFINE a == [role |-> fetched[q].role, session |-> k]
             c == NewCredentials(k, a, "podIdentity")
  <2>2. c \in Creds /\ c.key = k /\ c.arn = a
    BY <1>8, <1>t, ARNType, NamesType, NewCredentialsType DEF IssuePodIdentity
  <2>3. Put(k, fetched[q].id, a) /\ Answer(c) /\ issued' = issued \cup {k}
    BY <2>1, <2>2
  <2>4. fetched[q] # None /\ UNCHANGED <<sessions, imds>>
    BY <1>8 DEF IssuePodIdentity
  <2> HIDE DEF c
  <2> QED
    BY <1>7, <2>2, <2>3, <2>4
<1>9. ASSUME NEW q \in Requests, IssueFails(q)
      PROVE  Safe'
  <2>1. fetched[q] # None /\ UNCHANGED <<sessions, imds, answered>>
    BY <1>9 DEF IssueFails
  <2>2. CASE UNCHANGED <<registry, issued>>
    BY <2>1, <2>2, <1>t DEF FreshKeys, Unknown, CachedAnswered, KnownAsAnswered, registry, imds
  <2>3. ASSUME NEW k \in Keys \ issued, issued' = issued \cup {k},
               Put(k, fetched[q].id, [role |-> fetched[q].role, session |-> k])
        PROVE  Safe'
    BY <2>1, <2>3, <1>7
  <2> QED
    BY <1>9, <2>2, <2>3 DEF IssueFails
<1>10. ASSUME NEW r \in Roles, AssumeRoleWithWebIdentity(r)
       PROVE  Safe'
  <2>1. PICK k \in Keys \ issued :
           LET c == NewCredentials(k, [role |-> r, session |-> k], "session") IN
           /\ issued' = issued \cup {k}
           /\ sessions' = [sessions EXCEPT ![k] = c.arn]
           /\ Answer(c)
    BY <1>10 DEF AssumeRoleWithWebIdentity
  <2> DEFINE c == NewCredentials(k, [role |-> r, session |-> k], "session")
  <2>2. c \in Creds /\ c.arn \in ARN /\ c.key = k /\ c.via = "session"
    BY <1>t, ARNType, NewCredentialsType
  <2>3. issued' = issued \cup {k} /\ sessions' = [sessions EXCEPT ![k] = c.arn] /\ Answer(c)
    BY <2>1
  <2> HIDE DEF c
  <2>4. UNCHANGED <<principals, arn, replaced, deleted, cached, making>>
    BY <1>10 DEF AssumeRoleWithWebIdentity, registry, imds
  <2>5. Unknown(k)
    BY <1>t DEF FreshKeys
  <2>6. answered' = [answered EXCEPT ![k] = c]
    BY <2>2, <2>3 DEF Answer
  <2>7. FreshKeys'
    BY <2>3, <2>4, <2>6, <1>t DEF FreshKeys, Unknown, TypeOK, Creds
  <2>8. \A n \in Nodes : cached[n] # None => cached[n] \in Creds /\ cached[n].key # k
    BY <2>5, <1>t DEF CachedAnswered, Unknown, TypeOK, Creds
  <2>9. CachedAnswered'
    BY <2>4, <2>6, <2>8, <1>t DEF CachedAnswered, TypeOK, Creds
  <2>10. KnownAsAnswered'
    BY <2>2, <2>3, <2>4, <2>5, <2>6, <1>t DEF KnownAsAnswered, TypeOK, Unknown
  <2> QED
    BY <2>7, <2>9, <2>10
<1>11. CASE RestartAgent
  BY <1>11, <1>t DEF RestartAgent, FreshKeys, Unknown, CachedAnswered, KnownAsAnswered, TypeOK,
                     Creds, registry, imds
<1>12. ASSUME NEW name \in Names, DeletePrincipal(name)
       PROVE  Safe'
  <2>1. PICK k \in Keys : /\ principals' = [principals EXCEPT ![k] = NoName]
                          /\ deleted' = deleted \cup {k}
    BY <1>12 DEF DeletePrincipal, Registry!KeysOf, Registry!Unregistered
  <2> QED
    BY <1>12, <2>1, <1>t DEF DeletePrincipal, FreshKeys, Unknown, CachedAnswered,
             KnownAsAnswered, TypeOK, Creds, Registry!Registry, podIdentity, imds
<1>13. CASE Tick
  BY <1>13, <1>t DEF Tick, FreshKeys, Unknown, CachedAnswered, KnownAsAnswered,
                     registry, imds
<1>14. CASE UNCHANGED vars
  BY <1>14, <1>t DEF vars, FreshKeys, Unknown, CachedAnswered, KnownAsAnswered
<1> QED
  BY <1>1, <1>2, <1>3, <1>4, <1>5, <1>6, <1>8, <1>9, <1>10, <1>11, <1>12, <1>13, <1>14
     DEF Next, IMDSNext, AgentNext
-----------------------------------------------------------------------------
\* The inductive invariant, along every interleaving of nodes, requests, restarts
\* and deletions.
THEOREM Invariance == Spec => []IInv
<1>1. Init => IInv
  BY BoundsAssumption
     DEF Init, IInv, TypeOK, FreshKeys, Unknown, CachedAnswered, KnownAsAnswered,
         Registry!Registry, Registry!Empty
<1>2. IInv /\ [Next]_vars => IInv'
  BY TypeStep, SafeStep DEF IInv, Safe
<1> QED
  BY <1>1, <1>2, PTL DEF Spec

\* GetCallerIdentity answers with the identity the caller's credentials were
\* issued for, or with the account root, never with somebody else
\* (internal/agent/sts.go, imds.go, eksauth.go).
THEOREM IdentityIsKept == Spec => []NeverMisattributed
<1>1. IInv => NeverMisattributed
  BY DEF IInv, KnownAsAnswered, NeverMisattributed, CallerIdentity
<1> QED
  BY <1>1, Invariance, PTL

\* Credentials that fjord-imds or Pod Identity has handed out resolve for as long
\* as their name has not been given another key or been deleted.
THEOREM RegisteredResolves == Spec => []RevokedOnlyByName
<1>1. IInv => RevokedOnlyByName
  BY DEF IInv, KnownAsAnswered, RevokedOnlyByName, CallerIdentity
<1> QED
  BY <1>1, Invariance, PTL
-----------------------------------------------------------------------------
(* The webhook that points pods at these credentials.                       *)

\* WFMin as a formula.
LEMMA MinimalElement ==
    \A R, S, T : IsWellFoundedOn(R, S) /\ T \subseteq S /\ T # {} =>
                    \E x \in T : \A y \in T : ~(<<y, x>> \in R)
  BY WFMin, Zenon

\* A set of natural numbers has a least element.
LEMMA LeastElement ==
    ASSUME NEW S \in SUBSET Nat, S # {}
    PROVE  \E x \in S : \A y \in S : x <= y
<1>1. \A x, y \in Nat : x < y => <<x, y>> \in OpToRel(<, Nat)
  BY DEF OpToRel
<1>2. \E R : IsWellFoundedOn(R, Nat) /\ \A x, y \in Nat : x < y => <<x, y>> \in R
  BY <1>1, NatLessThanWellFounded, Zenon
<1>3. PICK R : IsWellFoundedOn(R, Nat) /\ \A x, y \in Nat : x < y => <<x, y>> \in R
  BY <1>2
<1>4. S \subseteq Nat
  OBVIOUS
<1>5. \E x \in S : \A y \in S : ~(<<y, x>> \in R)
  <2>1. IsWellFoundedOn(R, Nat)
    BY <1>3, Zenon
  <2> QED
    BY <1>4, <2>1, MinimalElement
<1>6. \E x \in S : \A y \in S : ~(y < x)
  BY <1>3, <1>4, <1>5, Zenon
<1> QED
  BY <1>4, <1>6

\* Induction over the natural numbers, for the set of those that have a property.
LEMMA SetInduction ==
    ASSUME NEW S \in SUBSET Nat, 0 \in S, \A n \in S : n + 1 \in S
    PROVE  S = Nat
<1> SUFFICES ASSUME Nat \ S # {} PROVE FALSE
  OBVIOUS
<1>1. PICK x \in Nat \ S : \A y \in Nat \ S : x <= y
  BY LeastElement
<1>2. x # 0 /\ x - 1 \in Nat
  OBVIOUS
<1>3. x - 1 \in S
  BY <1>1, <1>2
<1> QED
  BY <1>3

\* Induction up to a number.
LEMMA InductionUpTo ==
    ASSUME NEW N \in Nat, NEW S, 0 \in S, \A n \in 0..(N - 1) : n \in S => n + 1 \in S
    PROVE  N \in S
<1> DEFINE Steps == {n \in Nat : n <= N => n \in S}
<1>1. 0 \in Steps
  OBVIOUS
<1>2. \A n \in Steps : n + 1 \in Steps
  OBVIOUS
<1>3. Steps = Nat
  <2> HIDE DEF Steps
  <2>1. Steps \in SUBSET Nat
    BY DEF Steps
  <2> QED
    BY <1>1, <1>2, <2>1, SetInduction
<1> QED
  BY <1>3

\* What a patch makes of a list, operation by operation.
LEMMA AppliedInSteps ==
    ASSUME NEW list, NEW ops, Len(ops) \in Nat
    PROVE  \E after : /\ after[0] = list
                      /\ \A n \in 1..Len(ops) :
                            after[n] = ApplyOp(after[n - 1], ops[n])
                      /\ Applied(list, ops) = after[Len(ops)]
<1> DEFINE Def(f, n) == IF n = 0 THEN list ELSE ApplyOp(f[n - 1], ops[n])
           Upto == {m \in Nat : \E f : f = [n \in 0..m |-> Def(f, n)]}
<1>1. 0 \in Upto
  <2>1. [n \in 0..0 |-> list] = [n \in 0..0 |-> Def([k \in 0..0 |-> list], n)]
    OBVIOUS
  <2> QED
    BY <2>1
<1>2. \A m \in Upto : m + 1 \in Upto
  <2> SUFFICES ASSUME NEW m \in Nat, NEW f, f = [n \in 0..m |-> Def(f, n)]
               PROVE  \E g : g = [n \in 0..(m + 1) |-> Def(g, n)]
    OBVIOUS
  <2> DEFINE g == [n \in 0..(m + 1) |-> IF n = m + 1 THEN Def(f, n) ELSE f[n]]
  <2>1. \A n \in 0..m : f[n] = Def(f, n)
    OBVIOUS
  <2>2. \A n \in 0..m : g[n] = f[n]
    OBVIOUS
  <2>3. \A n \in 0..(m + 1) : Def(g, n) = Def(f, n)
    <3> SUFFICES ASSUME NEW n \in 0..(m + 1), n # 0 PROVE g[n - 1] = f[n - 1]
      OBVIOUS
    <3> QED
      BY <2>2
  <2>4. \A n \in 0..(m + 1) : g[n] = Def(f, n)
    BY <2>1
  <2>5. g = [n \in 0..(m + 1) |-> Def(g, n)]
    <3> HIDE DEF Def
    <3> QED
      BY <2>3, <2>4
  <2> QED
    BY <2>5
<1>3. Upto = Nat
  <2> HIDE DEF Upto
  <2>1. Upto \in SUBSET Nat
    BY DEF Upto
  <2> QED
    BY <1>1, <1>2, <2>1, SetInduction
<1>4. \E f : f = [n \in 0..Len(ops) |-> Def(f, n)]
  BY <1>3
<1> DEFINE after == CHOOSE f : f = [n \in 0..Len(ops) |-> Def(f, n)]
<1>5. after = [n \in 0..Len(ops) |-> Def(after, n)]
  BY <1>4
<1>6. Applied(list, ops) = after[Len(ops)]
  BY DEF Applied
<1> HIDE DEF after
<1>7. \A n \in 0..Len(ops) : after[n] = Def(after, n)
  BY <1>5
<1> QED
  BY <1>6, <1>7

\* The operations that add to a list extend it: no operation finds its list missing
\* and none replaces one.
LEMMA AddOpsExtend ==
    ASSUME NEW T, NEW list \in Seq(T), NEW additions \in Seq(T)
    PROVE  Applied(list, AddOps(list, additions)) = list \o additions
<1> DEFINE ops == AddOps(list, additions)
<1>1. CASE additions = <<>>
  <2>1. ops = <<>> /\ Len(ops) = 0
    BY <1>1 DEF AddOps
  <2>2. Applied(list, ops) = list
    <3> HIDE DEF ops
    <3> QED
      BY <2>1, AppliedInSteps
  <2> QED
    BY <1>1, <2>2, ConcatEmptySeq
<1>2. CASE additions # <<>> /\ list = <<>>
  <2>1. ops = <<[op |-> "set", value |-> additions]>> /\ Len(ops) = 1
    BY <1>2 DEF AddOps
  <2>2. ApplyOp(list, ops[1]) = additions
    BY <2>1 DEF ApplyOp
  <2>3. Applied(list, ops) = additions
    <3> HIDE DEF ops
    <3>1. PICK after : /\ after[0] = list
                       /\ \A n \in 1..Len(ops) :
                             after[n] = ApplyOp(after[n - 1], ops[n])
                       /\ Applied(list, ops) = after[Len(ops)]
      BY <2>1, AppliedInSteps
    <3>2. 1 \in 1..Len(ops) /\ 1 - 1 = 0
      BY <2>1
    <3>3. after[1] = ApplyOp(after[1 - 1], ops[1])
      BY <3>1, <3>2
    <3> QED
      BY <2>1, <2>2, <3>1, <3>2, <3>3
  <2> QED
    BY <1>2, <2>3, ConcatEmptySeq
<1>3. CASE additions # <<>> /\ list # <<>>
  <2>1. /\ Len(ops) = Len(additions) /\ Len(additions) \in Nat
        /\ \A n \in 1..Len(ops) : ops[n] = [op |-> "append", value |-> additions[n]]
    <3>1. ops = [n \in DOMAIN additions |-> [op |-> "append", value |-> additions[n]]]
      BY <1>3 DEF AddOps
    <3>2. DOMAIN additions = 1..Len(additions) /\ Len(additions) \in Nat
      OBVIOUS
    <3>3. ops = [n \in 1..Len(additions) |-> [op |-> "append", value |-> additions[n]]]
      BY <3>1, <3>2
    <3> HIDE DEF ops
    <3> QED
      BY <3>2, <3>3
  <2> HIDE DEF ops
  <2>2. PICK after : /\ after[0] = list
                     /\ \A n \in 1..Len(ops) :
                           after[n] = ApplyOp(after[n - 1], ops[n])
                     /\ Applied(list, ops) = after[Len(ops)]
    BY <2>1, AppliedInSteps
  <2> DEFINE Good(n) == /\ after[n] \in Seq(T) /\ Len(after[n]) = Len(list) + n
                        /\ \A k \in 1..Len(list) : after[n][k] = list[k]
                        /\ \A k \in 1..n : after[n][Len(list) + k] = additions[k]
             Steps == {n \in 0..Len(ops) : Good(n)}
  <2>3. Len(list) \in Nat /\ Len(list) > 0
    BY <1>3, EmptySeq
  <2>4. 0 \in Steps
    BY <2>1, <2>2, <2>3
  <2>5. ASSUME NEW n \in 0..(Len(ops) - 1), Good(n)
        PROVE  Good(n + 1)
    <3>0. n \in Nat /\ n + 1 \in 1..Len(ops) /\ (n + 1) - 1 = n
      BY <2>1
    <3>1. after[n + 1] = ApplyOp(after[n], ops[n + 1])
      BY <2>2, <3>0
    <3>2. after[n] # <<>>
      BY <2>3, <2>5, <3>0
    <3>3. ops[n + 1] = [op |-> "append", value |-> additions[n + 1]]
      BY <2>1, <3>0
    <3>4. after[n + 1] = Append(after[n], additions[n + 1])
      BY <3>1, <3>2, <3>3 DEF ApplyOp
    <3>5. additions[n + 1] \in T
      BY <2>1, <3>0
    <3>6. after[n] \in Seq(T) /\ Len(after[n]) = Len(list) + n
      BY <2>5
    <3>7. /\ after[n + 1] \in Seq(T) /\ Len(after[n + 1]) = Len(list) + (n + 1)
          /\ \A k \in 1..Len(after[n]) : after[n + 1][k] = after[n][k]
          /\ after[n + 1][Len(list) + (n + 1)] = additions[n + 1]
      BY <2>3, <3>0, <3>4, <3>5, <3>6, AppendProperties
    <3>8. \A k \in 1..Len(list) : after[n + 1][k] = list[k]
      BY <2>3, <2>5, <3>0, <3>6, <3>7
    <3>9. ASSUME NEW k \in 1..(n + 1)
          PROVE  after[n + 1][Len(list) + k] = additions[k]
      <4>1. CASE k = n + 1
        BY <3>7, <4>1
      <4>2. CASE k # n + 1
        <5>1. k \in 1..n /\ Len(list) + k \in 1..Len(after[n])
          BY <2>3, <3>0, <3>6, <4>2
        <5> QED
          BY <2>5, <3>7, <5>1
      <4> QED
        BY <4>1, <4>2
    <3> QED
      BY <3>7, <3>8, <3>9
  <2> HIDE DEF Good
  <2>6. \A n \in 0..(Len(ops) - 1) : n \in Steps => n + 1 \in Steps
    BY <2>1, <2>5
  <2>7. Good(Len(ops))
    <3> HIDE DEF Steps
    <3>1. Len(ops) \in Steps
      BY <2>1, <2>4, <2>6, InductionUpTo
    <3> QED
      BY <3>1 DEF Steps
  <2> USE DEF Good
  <2>8. after[Len(ops)] = list \o additions
    <3>1. Len(list \o additions) = Len(list) + Len(additions) /\ list \o additions \in Seq(T)
      OBVIOUS
    <3>2. \A k \in 1..Len(list \o additions) : (list \o additions)[k] = after[Len(ops)][k]
      <4> SUFFICES ASSUME NEW k \in 1..Len(list \o additions)
                   PROVE  (list \o additions)[k] = after[Len(ops)][k]
        OBVIOUS
      <4>1. CASE k <= Len(list)
        BY <2>3, <2>7, <3>1, <4>1
      <4>2. CASE k > Len(list)
        <5>1. k - Len(list) \in 1..Len(additions) /\ k = Len(list) + (k - Len(list))
          BY <2>1, <2>3, <3>1, <4>2
        <5>2. (list \o additions)[k] = additions[k - Len(list)]
          BY <2>3, <3>1, <4>2
        <5>3. after[Len(ops)][Len(list) + (k - Len(list))] = additions[k - Len(list)]
          BY <2>1, <2>7, <5>1
        <5> QED
          BY <5>1, <5>2, <5>3
      <4> QED
        BY <2>3, <3>1, <4>1, <4>2
    <3> QED
      BY <2>1, <2>7, <3>1, <3>2, SeqEqual
  <2> QED
    BY <2>2, <2>8 DEF ops
<1> QED
  BY <1>1, <1>2, <1>3

\* The loop of containerEnvPatchOps, variable by variable.
LEMMA MissingInSteps ==
    ASSUME NEW env, NEW desired, Len(desired) \in Nat
    PROVE  \E toAdd :
              /\ toAdd[0] = <<>>
              /\ \A n \in 1..Len(desired) :
                    toAdd[n] = IF HasEnvVar(env, desired[n].name) THEN toAdd[n - 1]
                               ELSE Append(toAdd[n - 1], desired[n])
              /\ Missing(env, desired) = toAdd[Len(desired)]
<1> DEFINE Def(f, n) == IF n = 0 THEN <<>>
                        ELSE IF HasEnvVar(env, desired[n].name) THEN f[n - 1]
                        ELSE Append(f[n - 1], desired[n])
           Upto == {m \in Nat : \E f : f = [n \in 0..m |-> Def(f, n)]}
<1>1. 0 \in Upto
  <2>1. [n \in 0..0 |-> <<>>] = [n \in 0..0 |-> Def([k \in 0..0 |-> <<>>], n)]
    OBVIOUS
  <2> QED
    BY <2>1
<1>2. ASSUME NEW m \in Nat, NEW f, f = [n \in 0..m |-> Def(f, n)]
      PROVE  \E g : g = [n \in 0..(m + 1) |-> Def(g, n)]
  <2> DEFINE g == [n \in 0..(m + 1) |-> IF n = m + 1 THEN Def(f, n) ELSE f[n]]
  <2>1. \A n \in 0..m : f[n] = Def(f, n)
    BY <1>2
  <2>2. \A n \in 0..m : g[n] = f[n]
    OBVIOUS
  <2>3. \A n \in 0..(m + 1) : Def(g, n) = Def(f, n)
    <3> SUFFICES ASSUME NEW n \in 0..(m + 1), n # 0 PROVE g[n - 1] = f[n - 1]
      OBVIOUS
    <3> QED
      BY <2>2
  <2>4. \A n \in 0..(m + 1) : g[n] = Def(f, n)
    BY <2>1
  <2>5. g = [n \in 0..(m + 1) |-> Def(g, n)]
    <3> HIDE DEF Def
    <3> QED
      BY <2>3, <2>4
  <2> QED
    BY <2>5
<1>3. Upto = Nat
  <2> HIDE DEF Def
  <2>1. \A m \in Upto : m + 1 \in Upto
    BY <1>2
  <2> HIDE DEF Upto
  <2>2. Upto \in SUBSET Nat
    BY DEF Upto
  <2> QED
    BY <1>1, <2>1, <2>2, SetInduction
<1>4. \E f : f = [n \in 0..Len(desired) |-> Def(f, n)]
  BY <1>3
<1> DEFINE toAdd == CHOOSE f : f = [n \in 0..Len(desired) |-> Def(f, n)]
<1>5. toAdd = [n \in 0..Len(desired) |-> Def(toAdd, n)]
  BY <1>4
<1>6. Missing(env, desired) = toAdd[Len(desired)]
  BY DEF Missing
<1> HIDE DEF toAdd
<1>7. \A n \in 0..Len(desired) : toAdd[n] = Def(toAdd, n)
  BY <1>5
<1> QED
  BY <1>6, <1>7

\* A list holds the variables of the desired ones that the container does not
\* define, all of them and no others.
Selects(toAdd, env, desired) ==
    /\ \A k \in DOMAIN toAdd : \E i \in DOMAIN desired :
          toAdd[k] = desired[i] /\ ~HasEnvVar(env, desired[i].name)
    /\ \A i \in DOMAIN desired : ~HasEnvVar(env, desired[i].name) =>
          \E k \in DOMAIN toAdd : toAdd[k] = desired[i]

\* The loop selects what the container does not define.
LEMMA MissingSelects ==
    ASSUME NEW T, NEW env, NEW desired \in Seq(T)
    PROVE  /\ Missing(env, desired) \in Seq(T)
           /\ Selects(Missing(env, desired), env, desired)
<1> DEFINE Lacks(i) == ~HasEnvVar(env, desired[i].name)
<1>0. Len(desired) \in Nat /\ DOMAIN desired = 1..Len(desired)
  OBVIOUS
<1>1. PICK toAdd : /\ toAdd[0] = <<>>
                   /\ \A n \in 1..Len(desired) :
                         toAdd[n] = IF Lacks(n) THEN Append(toAdd[n - 1], desired[n])
                                    ELSE toAdd[n - 1]
                   /\ Missing(env, desired) = toAdd[Len(desired)]
  BY <1>0, MissingInSteps
<1> HIDE DEF Lacks
<1> DEFINE Good(n) ==
             /\ toAdd[n] \in Seq(T)
             /\ \A k \in 1..Len(toAdd[n]) : \E i \in 1..n : toAdd[n][k] = desired[i] /\ Lacks(i)
             /\ \A i \in 1..n : Lacks(i) => \E k \in 1..Len(toAdd[n]) : toAdd[n][k] = desired[i]
           Steps == {n \in 0..Len(desired) : Good(n)}
<1>2. 0 \in Steps
  <2>1. toAdd[0] \in Seq(T) /\ Len(toAdd[0]) = 0
    BY <1>1
  <2>2. 1..Len(toAdd[0]) = {} /\ 1..0 = {} /\ 0 \in 0..Len(desired)
    BY <1>0, <2>1
  <2> QED
    BY <2>1, <2>2
<1>3. ASSUME NEW n \in 0..(Len(desired) - 1), Good(n)
      PROVE  Good(n + 1)
  <2>0. n \in Nat /\ n + 1 \in 1..Len(desired) /\ (n + 1) - 1 = n
        /\ 1..(n + 1) = 1..n \cup {n + 1}
    BY <1>0
  <2>1. CASE ~Lacks(n + 1)
    <3>1. toAdd[n + 1] = toAdd[n]
      BY <1>1, <2>0, <2>1
    <3> QED
      BY <1>3, <2>0, <2>1, <3>1
  <2>2. CASE Lacks(n + 1)
    <3>1. toAdd[n + 1] = Append(toAdd[n], desired[n + 1])
      BY <1>1, <2>0, <2>2
    <3>2. toAdd[n] \in Seq(T) /\ desired[n + 1] \in T
      BY <1>3, <2>0
    <3>3. /\ toAdd[n + 1] \in Seq(T) /\ Len(toAdd[n + 1]) = Len(toAdd[n]) + 1
          /\ \A k \in 1..Len(toAdd[n]) : toAdd[n + 1][k] = toAdd[n][k]
          /\ toAdd[n + 1][Len(toAdd[n]) + 1] = desired[n + 1]
      BY <3>1, <3>2, AppendProperties
    <3>4. Len(toAdd[n]) \in Nat
      BY <3>2
    <3>5. ASSUME NEW k \in 1..Len(toAdd[n + 1])
          PROVE  \E i \in 1..(n + 1) : toAdd[n + 1][k] = desired[i] /\ Lacks(i)
      <4>1. CASE k = Len(toAdd[n]) + 1
        BY <2>0, <2>2, <3>3, <4>1
      <4>2. CASE k # Len(toAdd[n]) + 1
        <5>1. k \in 1..Len(toAdd[n])
          BY <3>3, <3>4, <4>2
        <5>2. toAdd[n + 1][k] = toAdd[n][k]
          BY <3>3, <5>1
        <5>3. PICK i \in 1..n : toAdd[n][k] = desired[i] /\ Lacks(i)
          BY <1>3, <5>1
        <5> QED
          BY <2>0, <5>2, <5>3
      <4> QED
        BY <4>1, <4>2
    <3>6. ASSUME NEW i \in 1..(n + 1), Lacks(i)
          PROVE  \E k \in 1..Len(toAdd[n + 1]) : toAdd[n + 1][k] = desired[i]
      <4>1. CASE i = n + 1
        BY <3>3, <3>4, <4>1
      <4>2. CASE i \in 1..n
        <5>1. PICK k \in 1..Len(toAdd[n]) : toAdd[n][k] = desired[i]
          BY <1>3, <3>6, <4>2
        <5>2. k \in 1..Len(toAdd[n + 1]) /\ toAdd[n + 1][k] = desired[i]
          BY <3>3, <3>4, <5>1
        <5> QED
          BY <5>2
      <4> QED
        BY <2>0, <4>1, <4>2
    <3> QED
      BY <3>3, <3>5, <3>6
  <2> QED
    BY <2>1, <2>2
<1> HIDE DEF Good
<1>4. \A n \in 0..(Len(desired) - 1) : n \in Steps => n + 1 \in Steps
  BY <1>0, <1>3
<1>5. Good(Len(desired))
  <2> HIDE DEF Steps
  <2>1. Len(desired) \in Steps
    BY <1>0, <1>2, <1>4, InductionUpTo
  <2> QED
    BY <2>1 DEF Steps
<1>6. /\ toAdd[Len(desired)] \in Seq(T)
      /\ DOMAIN toAdd[Len(desired)] = 1..Len(toAdd[Len(desired)])
  BY <1>5 DEF Good
<1>7. Missing(env, desired) = toAdd[Len(desired)]
  BY <1>1
<1>8. Selects(toAdd[Len(desired)], env, desired)
  <2> DEFINE list == toAdd[Len(desired)]
             d == DOMAIN desired
             l == DOMAIN list
  <2>1. /\ \A k \in l : \E i \in d : list[k] = desired[i] /\ Lacks(i)
        /\ \A i \in d : Lacks(i) => \E k \in l : list[k] = desired[i]
    <3>1. d = 1..Len(desired) /\ l = 1..Len(list)
      BY <1>0, <1>6
    <3> HIDE DEF d, l
    <3> QED
      BY <1>5, <3>1 DEF Good
  <2> QED
    BY <2>1 DEF Lacks, Selects
<1> QED
  BY <1>6, <1>7, <1>8

\* A list of a pod after a patch: still a list of the kind it was, and everything
\* that was in it is in its place.
Extends(T, list, after) ==
    /\ after \in Seq(T)
    /\ IsPrefix(list, after)
    /\ ToSet(list) \subseteq ToSet(after)

\* A list followed by additions extends the list and holds the additions.
LEMMA ConcatenationExtends ==
    ASSUME NEW T, NEW list \in Seq(T), NEW additions \in Seq(T)
    PROVE  /\ Extends(T, list, list \o additions)
           /\ \A x : x \in ToSet(list \o additions) <=>
                        x \in ToSet(list) \/ x \in ToSet(additions)
<1> DEFINE both == list \o additions
<1>1. /\ both \in Seq(T) /\ Len(both) = Len(list) + Len(additions)
      /\ Len(list) \in Nat /\ Len(additions) \in Nat
      /\ DOMAIN list = 1..Len(list) /\ DOMAIN additions = 1..Len(additions)
      /\ DOMAIN both = 1..(Len(list) + Len(additions))
      /\ \A k \in 1..Len(list) : both[k] = list[k]
      /\ \A k \in 1..Len(additions) : both[Len(list) + k] = additions[k]
  OBVIOUS
<1> HIDE DEF both
<1>2. \A k \in DOMAIN list : k \in DOMAIN both /\ both[k] = list[k]
  BY <1>1
<1>3. \A k \in DOMAIN additions : Len(list) + k \in DOMAIN both
                                  /\ both[Len(list) + k] = additions[k]
  BY <1>1
<1>4. ASSUME NEW x
      PROVE  x \in ToSet(both) <=>
                x \in ToSet(list) \/ x \in ToSet(additions)
  <2>1. ASSUME x \in ToSet(both)
        PROVE  x \in ToSet(list) \/ x \in ToSet(additions)
    <3>1. PICK k \in DOMAIN both : both[k] = x
      BY <2>1 DEF ToSet
    <3>2. CASE k <= Len(list)
      <4>1. k \in DOMAIN list
        BY <1>1, <3>2
      <4> QED
        BY <1>2, <3>1, <4>1 DEF ToSet
    <3>3. CASE k > Len(list)
      <4>1. k - Len(list) \in DOMAIN additions /\ Len(list) + (k - Len(list)) = k
        BY <1>1, <3>3
      <4>2. additions[k - Len(list)] = x
        BY <1>3, <3>1, <4>1
      <4> QED
        BY <4>1, <4>2 DEF ToSet
    <3> QED
      BY <1>1, <3>2, <3>3
  <2>2. x \in ToSet(list) => x \in ToSet(both)
    BY <1>2 DEF ToSet
  <2>3. x \in ToSet(additions) => x \in ToSet(both)
    BY <1>3 DEF ToSet
  <2> QED
    BY <2>1, <2>2, <2>3
<1>5. IsPrefix(list, both)
  <2>1. Len(list) <= Len(both)
    BY <1>1
  <2>2. SubSeq(list, 1, Len(list)) = SubSeq(both, 1, Len(list))
    BY <1>1
  <2> QED
    BY <2>1, <2>2 DEF IsPrefix
<1> QED
  BY <1>1, <1>4, <1>5 DEF Extends, both

\* A patch without operations leaves a list as it was.
LEMMA NothingToApply ==
    ASSUME NEW T, NEW list \in Seq(T)
    PROVE  Applied(list, <<>>) = list /\ Extends(T, list, list)
<1>1. <<>> \in Seq(T) /\ list \o <<>> = list /\ AddOps(list, <<>>) = <<>>
  BY ConcatEmptySeq DEF AddOps
<1>2. Applied(list, AddOps(list, <<>>)) = list \o <<>>
  BY <1>1, AddOpsExtend
<1>3. Extends(T, list, list \o <<>>)
  BY <1>1, ConcatenationExtends
<1> QED
  BY <1>1, <1>2, <1>3

\* Where the volume with the token is missing, the patch adds it.
LEMMA TokenIsAdded ==
    ASSUME NEW list \in Seq(Volume),
           NEW ops, ops = AddOps(list, IF "token" \in ToSet(list) THEN <<>>
                                               ELSE <<"token">>)
    PROVE  /\ Extends(Volume, list, Applied(list, ops))
           /\ "token" \in ToSet(Applied(list, ops))
           /\ "token" \in ToSet(list) => ops = <<>>
<1> DEFINE additions == IF "token" \in ToSet(list) THEN <<>> ELSE <<"token">>
<1>1. additions \in Seq(Volume)
  <2>1. <<>> \in Seq(Volume) /\ <<"token">> \in Seq(Volume)
    BY DEF Volume
  <2>2. additions = <<>> \/ additions = <<"token">>
    BY Zenon
  <2> QED
    BY <2>1, <2>2
<1>2. "token" \in ToSet(list) \/ "token" \in ToSet(additions)
  BY DEF ToSet
<1>3. "token" \in ToSet(list) => AddOps(list, additions) = <<>>
  BY DEF AddOps
<1>4. ops = AddOps(list, additions)
  OBVIOUS
<1> HIDE DEF additions
<1>5. Applied(list, ops) = list \o additions
  BY <1>1, <1>4, AddOpsExtend
<1>6. /\ Extends(Volume, list, list \o additions)
      /\ "token" \in ToSet(list \o additions)
  BY <1>1, <1>2, ConcatenationExtends
<1> QED
  BY <1>3, <1>4, <1>5, <1>6

\* The options injectionOptionsFor returns.
Options == [sts : BOOLEAN, aws : BOOLEAN, podIdentity : BOOLEAN]

\* The lists of variables are lists of variables, and only those of Pod Identity
\* name the token file.
LEMMA AgentVarsTyped ==
    /\ AgentVars(STSVars) \in Seq(EnvVar)
    /\ AgentVars(AWSVars) \in Seq(EnvVar)
    /\ AgentVars(PodIdentityVars) \in Seq(EnvVar)
    /\ TokenVar \notin ToSet(AgentVars(STSVars))
    /\ TokenVar \notin ToSet(AgentVars(AWSVars))
<1>1. ASSUME NEW names \in Seq(EnvNames)
      PROVE  /\ AgentVars(names) \in Seq(EnvVar)
             /\ "AWS_CONTAINER_AUTHORIZATION_TOKEN_FILE" \notin ToSet(names) =>
                    TokenVar \notin ToSet(AgentVars(names))
  <2> DEFINE vs == AgentVars(names)
  <2>1. DOMAIN names = 1..Len(names) /\ Len(names) \in Nat
        /\ \A i \in 1..Len(names) : names[i] \in EnvNames
    OBVIOUS
  <2>2. vs = [i \in 1..Len(names) |-> [name |-> names[i], by |-> "agent"]]
    BY <2>1 DEF AgentVars
  <2>3. \A i \in 1..Len(names) : [name |-> names[i], by |-> "agent"] \in EnvVar
    BY <2>1 DEF EnvVar
  <2> HIDE DEF vs
  <2>4. vs \in Seq(EnvVar)
    BY <2>1, <2>2, <2>3
  <2>5. ASSUME TokenVar \in ToSet(vs)
        PROVE  "AWS_CONTAINER_AUTHORIZATION_TOKEN_FILE" \in ToSet(names)
    <3>1. PICK i \in 1..Len(names) : [name |-> names[i], by |-> "agent"] = TokenVar
      BY <2>2, <2>5 DEF ToSet
    <3>2. names[i] = "AWS_CONTAINER_AUTHORIZATION_TOKEN_FILE"
      BY <3>1 DEF TokenVar
    <3> QED
      BY <2>1, <3>2 DEF ToSet
  <2> QED
    BY <2>4, <2>5 DEF vs
<1>2. /\ STSVars \in Seq(EnvNames)
      /\ "AWS_CONTAINER_AUTHORIZATION_TOKEN_FILE" \notin ToSet(STSVars)
  BY DEF EnvNames, ToSet, STSVars
<1>3. /\ AWSVars \in Seq(EnvNames)
      /\ "AWS_CONTAINER_AUTHORIZATION_TOKEN_FILE" \notin ToSet(AWSVars)
  BY DEF EnvNames, ToSet, AWSVars
<1>4. PodIdentityVars \in Seq(EnvNames)
  BY DEF EnvNames, ToSet, PodIdentityVars
<1> QED
  BY <1>1, <1>2, <1>3, <1>4

\* The variables to inject are variables, and without Pod Identity none names the
\* token file.
LEMMA DesiredTyped ==
    ASSUME NEW o
    PROVE  /\ DesiredEnvVars(o) \in Seq(EnvVar)
           /\ ~o.podIdentity => TokenVar \notin ToSet(DesiredEnvVars(o))
<1> DEFINE a == IF o.sts THEN AgentVars(STSVars) ELSE <<>>
           b == IF o.aws THEN AgentVars(AWSVars) ELSE <<>>
           c == IF o.podIdentity THEN AgentVars(PodIdentityVars) ELSE <<>>
<1>1. <<>> \in Seq(EnvVar) /\ TokenVar \notin ToSet(<<>>)
  BY DEF ToSet
<1>2. /\ a = AgentVars(STSVars) \/ a = <<>>
      /\ b = AgentVars(AWSVars) \/ b = <<>>
      /\ c = AgentVars(PodIdentityVars) \/ c = <<>>
      /\ ~o.podIdentity => c = <<>>
  BY Zenon
<1>3. DesiredEnvVars(o) = (a \o b) \o c
  BY DEF DesiredEnvVars
<1> HIDE DEF a, b, c
<1>4. /\ a \in Seq(EnvVar) /\ TokenVar \notin ToSet(a)
      /\ b \in Seq(EnvVar) /\ TokenVar \notin ToSet(b)
      /\ c \in Seq(EnvVar) /\ (~o.podIdentity => TokenVar \notin ToSet(c))
  BY <1>1, <1>2, AgentVarsTyped, Zenon
<1>5. a \o b \in Seq(EnvVar) /\ TokenVar \notin ToSet(a \o b)
  BY <1>4, ConcatenationExtends DEF Extends
<1>6. /\ (a \o b) \o c \in Seq(EnvVar)
      /\ ~o.podIdentity => TokenVar \notin ToSet((a \o b) \o c)
  BY <1>4, <1>5, ConcatenationExtends DEF Extends
<1> QED
  BY <1>3, <1>6

\* A container defines every variable to inject.
Defines(env, o) ==
    \A i \in DOMAIN DesiredEnvVars(o) :
        HasEnvVar(env, DesiredEnvVars(o)[i].name)

\* The patch of an environment keeps it, completes it, and points the container at
\* the token file only for Pod Identity.
LEMMA EnvIsInjected ==
    ASSUME NEW o, NEW env \in Seq(EnvVar), NEW after,
           after = Applied(env, EnvOps(env, DesiredEnvVars(o)))
    PROVE  /\ Extends(EnvVar, env, after)
           /\ Defines(after, o)
           /\ TokenVar \in ToSet(after) =>
                 TokenVar \in ToSet(env) \/ o.podIdentity
<1> DEFINE desired == DesiredEnvVars(o)
           additions == Missing(env, desired)
<1>1. desired \in Seq(EnvVar)
      /\ (~o.podIdentity => TokenVar \notin ToSet(desired))
  BY DesiredTyped
<1>2. after = Applied(env, AddOps(env, additions))
  BY DEF EnvOps
<1> HIDE DEF desired
<1>3. additions \in Seq(EnvVar) /\ Selects(additions, env, desired)
  BY <1>1, MissingSelects
<1> HIDE DEF additions
<1>4. after = env \o additions
  BY <1>2, <1>3, AddOpsExtend
<1>5. /\ Extends(EnvVar, env, after)
      /\ \A x : x \in ToSet(after) <=>
                   x \in ToSet(env) \/ x \in ToSet(additions)
  BY <1>3, <1>4, ConcatenationExtends
<1>6. \A name : HasEnvVar(after, name) <=>
                   \E v \in ToSet(after) : v.name = name
  BY DEF HasEnvVar, ToSet
<1>7. \A name : HasEnvVar(env, name) <=>
                   \E v \in ToSet(env) : v.name = name
  BY DEF HasEnvVar, ToSet
<1>8. ASSUME NEW i \in DOMAIN desired
      PROVE  HasEnvVar(after, desired[i].name)
  <2>1. CASE HasEnvVar(env, desired[i].name)
    BY <1>5, <1>6, <1>7, <2>1
  <2>2. CASE ~HasEnvVar(env, desired[i].name)
    <3>1. PICK k \in DOMAIN additions : additions[k] = desired[i]
      BY <1>3, <2>2 DEF Selects
    <3>2. desired[i] \in ToSet(after)
      BY <1>5, <3>1 DEF ToSet
    <3> QED
      BY <1>6, <3>2
  <2> QED
    BY <2>1, <2>2
<1>9. ASSUME TokenVar \in ToSet(additions)
      PROVE  o.podIdentity
  <2>1. PICK k \in DOMAIN additions : additions[k] = TokenVar
    BY <1>9 DEF ToSet
  <2>2. PICK i \in DOMAIN desired : additions[k] = desired[i]
    BY <1>3, <2>1 DEF Selects
  <2>3. TokenVar \in ToSet(desired)
    BY <2>1, <2>2 DEF ToSet
  <2> QED
    BY <1>1, <2>3
<1>10. Defines(after, o)
  BY <1>8 DEF Defines, desired
<1> QED
  BY <1>5, <1>9, <1>10

\* An environment that defines every variable to inject gets no operation.
LEMMA NothingIsMissing ==
    ASSUME NEW o, NEW env \in Seq(EnvVar), Defines(env, o)
    PROVE  EnvOps(env, DesiredEnvVars(o)) = <<>>
<1> DEFINE desired == DesiredEnvVars(o)
           additions == Missing(env, desired)
<1>1. desired \in Seq(EnvVar)
  BY DesiredTyped
<1>2. \A i \in DOMAIN desired : HasEnvVar(env, desired[i].name)
  BY DEF Defines
<1>3. EnvOps(env, desired) = AddOps(env, additions)
  BY DEF EnvOps
<1> HIDE DEF desired
<1>4. additions \in Seq(EnvVar) /\ Selects(additions, env, desired)
  BY <1>1, MissingSelects
<1> HIDE DEF additions
<1>5. \A k \in DOMAIN additions : FALSE
  BY <1>2, <1>4 DEF Selects
<1>6. DOMAIN additions = 1..Len(additions) /\ Len(additions) \in Nat
  BY <1>4
<1>7. Len(additions) = 0
  <2>1. Len(additions) # 0 => 1 \in DOMAIN additions
    BY <1>6
  <2> QED
    BY <1>5, <2>1
<1>8. additions = <<>>
  BY <1>4, <1>7, EmptySeq
<1> QED
  BY <1>3, <1>8 DEF AddOps, desired
-----------------------------------------------------------------------------
\* Everything the options select is in the pod.
Complete(p, o) ==
    /\ \A c \in All : Defines(p.env[c], o)
    /\ o.podIdentity =>
          /\ \A c \in All : "token" \in ToSet(p.mounts[c])
          /\ "token" \in ToSet(p.volumes)

\* Every setting of a pod is, in its place, in another.
Keeps(p, q) ==
    /\ \A c \in All : IsPrefix(p.env[c], q.env[c])
                              /\ IsPrefix(p.mounts[c], q.mounts[c])
    /\ IsPrefix(p.volumes, q.volumes)

\* A pod is as it was submitted until it is patched; whatever happens to the
\* ServiceAccount meanwhile, the patch is complete for the options it was built
\* with, and no pod, admitted without a patch or not, has the token file without
\* the volume.
WebhookInv ==
    /\ InjectorTypeOK
    /\ TokenMounted(pod)
    /\ stage \in {"serviceAccount", "association", "patch"} => pod = original
    /\ stage = "admitted" => Keeps(original, pod)
    /\ stage = "admitted" /\ (opts.sts \/ opts.podIdentity) => Complete(pod, opts)

\* What the API server makes of a pod with the patch that Inject builds.
Patched(p, o) ==
    LET patch == BuildInjectionPatch(p, o) IN
    [env |-> [c \in All |-> Applied(p.env[c], patch.env[c])],
     mounts |-> [c \in All |-> Applied(p.mounts[c], patch.mounts[c])],
     volumes |-> Applied(p.volumes, patch.volumes)]

\* A patched pod is a pod, keeps what was set, has everything selected, and has the
\* token where it has the token file.
LEMMA PatchedPod ==
    ASSUME NEW p, IsPod(p), TokenMounted(p), NEW o \in Options
    PROVE  /\ IsPod(Patched(p, o))
           /\ TokenMounted(Patched(p, o))
           /\ Keeps(p, Patched(p, o))
           /\ Complete(Patched(p, o), o)
<1> DEFINE q == Patched(p, o)
<1>1. ASSUME NEW c \in All
      PROVE  /\ Extends(EnvVar, p.env[c], q.env[c])
             /\ Defines(q.env[c], o)
             /\ TokenVar \in ToSet(q.env[c]) =>
                   TokenVar \in ToSet(p.env[c]) \/ o.podIdentity
  <2>1. q.env[c] = Applied(p.env[c],
                      EnvOps(p.env[c], DesiredEnvVars(o)))
    BY <1>1 DEF Patched, BuildInjectionPatch
  <2>2. p.env[c] \in Seq(EnvVar)
    BY <1>1 DEF IsPod
  <2> HIDE DEF q
  <2> QED
    BY <2>1, <2>2, EnvIsInjected
<1>2. ASSUME NEW c \in All
      PROVE  /\ Extends(Volume, p.mounts[c], q.mounts[c])
             /\ o.podIdentity => "token" \in ToSet(q.mounts[c])
  <2>0. p.mounts[c] \in Seq(Volume)
    BY <1>2 DEF IsPod
  <2>1. CASE o.podIdentity
    <3> DEFINE ops == AddOps(p.mounts[c], IF "token" \in ToSet(p.mounts[c])
                                                 THEN <<>> ELSE <<"token">>)
    <3>1. q.mounts[c] = Applied(p.mounts[c], ops)
      BY <1>2, <2>1 DEF Patched, BuildInjectionPatch, MountOps
    <3> HIDE DEF q
    <3> QED
      BY <2>0, <3>1, TokenIsAdded
  <2>2. CASE ~o.podIdentity
    <3>1. q.mounts[c] = Applied(p.mounts[c], <<>>)
      BY <1>2, <2>2 DEF Patched, BuildInjectionPatch
    <3> HIDE DEF q
    <3> QED
      BY <2>0, <2>2, <3>1, NothingToApply
  <2> QED
    BY <2>1, <2>2
<1>3. /\ Extends(Volume, p.volumes, q.volumes)
      /\ o.podIdentity => "token" \in ToSet(q.volumes)
  <2>0. p.volumes \in Seq(Volume)
    BY DEF IsPod
  <2>1. CASE o.podIdentity
    <3> DEFINE ops == AddOps(p.volumes, IF "token" \in ToSet(p.volumes)
                                               THEN <<>> ELSE <<"token">>)
    <3>1. q.volumes = Applied(p.volumes, ops)
      BY <2>1 DEF Patched, BuildInjectionPatch, VolumeOps
    <3> HIDE DEF q
    <3> QED
      BY <2>0, <3>1, TokenIsAdded
  <2>2. CASE ~o.podIdentity
    <3>1. q.volumes = Applied(p.volumes, <<>>)
      BY <2>2 DEF Patched, BuildInjectionPatch
    <3> HIDE DEF q
    <3> QED
      BY <2>0, <2>2, <3>1, NothingToApply
  <2> QED
    BY <2>1, <2>2
<1> HIDE DEF q
<1>4. IsPod(q) /\ Keeps(p, q)
  BY <1>1, <1>2, <1>3 DEF IsPod, Keeps, Extends
<1>5. Complete(q, o)
  BY <1>1, <1>2, <1>3 DEF Complete
<1>6. TokenMounted(q)
  BY <1>1, <1>2, <1>3 DEF TokenMounted, Extends
<1> QED
  BY <1>4, <1>5, <1>6 DEF q

\* The invariant holds initially and every step of the webhook preserves it.
THEOREM WebhookInvariance == InjectorSpec => []WebhookInv
<1>0. /\ AWSEndpoint \in BOOLEAN /\ MaxChanges \in Nat
      /\ \A p \in PodChoices : IsPod(p) /\ TokenMounted(p)
  BY AWSEndpointAssumption, MaxChangesAssumption, PodsAssumption
<1>1. InjectorInit => WebhookInv
  <2> SUFFICES ASSUME InjectorInit PROVE WebhookInv
    OBVIOUS
  <2>1. IsPod(NoPod)
    BY DEF IsPod, NoPod
  <2>2. TokenMounted(NoPod)
    BY DEF TokenMounted, NoPod, ToSet
  <2>3. InjectorTypeOK
    BY <1>0, <2>1 DEF InjectorInit, InjectorTypeOK, NoOptions
  <2> QED
    BY <2>2, <2>3 DEF InjectorInit, WebhookInv
<1>2. WebhookInv /\ [InjectorNext]_(injectorVars) => WebhookInv'
  <2> SUFFICES ASSUME WebhookInv, [InjectorNext]_(injectorVars) PROVE WebhookInv'
    OBVIOUS
  <2>0. /\ InjectorTypeOK /\ TokenMounted(pod)
        /\ stage \in {"serviceAccount", "association", "patch"} => pod = original
        /\ stage = "admitted" => Keeps(original, pod)
        /\ stage = "admitted" /\ (opts.sts \/ opts.podIdentity) => Complete(pod, opts)
    BY DEF WebhookInv
  <2>1. CASE Submit
    <3>1. /\ pod' \in PodChoices \/ pod' = pod
          /\ original' = pod' /\ stage' = "serviceAccount" /\ opts' = NoOptions
          /\ changes < MaxChanges /\ changes' = changes + 1
          /\ sa' = sa /\ associated' = associated
      BY <2>1 DEF Submit
    <3>2. IsPod(pod') /\ TokenMounted(pod')
      BY <1>0, <2>0, <3>1 DEF InjectorTypeOK
    <3>3. changes' \in 0..MaxChanges
      BY <1>0, <2>0, <3>1 DEF InjectorTypeOK
    <3>4. opts' \in Options
      BY <3>1 DEF Options, NoOptions
    <3>5. (InjectorTypeOK)'
      BY <2>0, <3>1, <3>2, <3>3, <3>4 DEF InjectorTypeOK, Options
    <3> QED
      BY <3>1, <3>2, <3>5 DEF WebhookInv
  <2>2. CASE LookupServiceAccount
    <3>1. opts' \in Options
      BY <2>2 DEF LookupServiceAccount, Options, NoOptions
    <3>2. /\ stage' \in {"patch", "association"} /\ stage = "serviceAccount"
          /\ UNCHANGED <<sa, associated, pod, original, changes>>
      BY <2>2 DEF LookupServiceAccount
    <3>3. (InjectorTypeOK)'
      BY <2>0, <3>1, <3>2 DEF InjectorTypeOK, Options
    <3> QED
      BY <2>0, <3>2, <3>3 DEF WebhookInv
  <2>3. CASE LookupPodIdentity
    <3>1. /\ stage' = "patch" /\ stage = "association"
          /\ opts' = [sts |-> opts.sts, aws |-> (opts.sts \/ associated) /\ AWSEndpoint,
                      podIdentity |-> associated]
          /\ UNCHANGED <<sa, associated, pod, original, changes>>
      BY <2>3 DEF LookupPodIdentity
    <3>2. opts' \in Options
      <4>1. associated \in BOOLEAN /\ opts.sts \in BOOLEAN
        BY <2>0 DEF InjectorTypeOK
      <4> QED
        BY <3>1, <4>1 DEF Options
    <3>3. (InjectorTypeOK)'
      BY <2>0, <3>1, <3>2 DEF InjectorTypeOK, Options
    <3> QED
      BY <2>0, <3>1, <3>3 DEF WebhookInv
  <2>4. CASE Inject
    <3>1. /\ stage = "patch" /\ stage' = "admitted"
          /\ UNCHANGED <<sa, associated, original, opts, changes>>
      BY <2>4 DEF Inject
    <3>2. /\ IsPod(pod) /\ TokenMounted(pod) /\ opts \in Options /\ original = pod
      BY <2>0, <3>1 DEF InjectorTypeOK, Options
    <3>3. CASE ~opts.sts /\ ~opts.podIdentity
      <4>1. pod' = pod
        BY <2>4, <3>3 DEF Inject
      <4>2. Keeps(pod, pod)
        BY <3>2, NothingToApply DEF Keeps, Extends, IsPod
      <4>3. (InjectorTypeOK)'
        BY <2>0, <3>1, <4>1 DEF InjectorTypeOK
      <4> QED
        BY <3>1, <3>2, <3>3, <4>1, <4>2, <4>3 DEF WebhookInv
    <3>4. CASE ~(~opts.sts /\ ~opts.podIdentity)
      <4>1. pod' = Patched(pod, opts)
        BY <2>4, <3>4 DEF Inject, Patched
      <4>2. /\ IsPod(pod') /\ TokenMounted(pod') /\ Keeps(pod, pod')
            /\ Complete(pod', opts)
        BY <3>2, <4>1, PatchedPod
      <4>3. (InjectorTypeOK)'
        BY <2>0, <3>1, <4>2 DEF InjectorTypeOK
      <4> QED
        BY <3>1, <3>2, <4>2, <4>3 DEF WebhookInv
    <3> QED
      BY <3>3, <3>4
  <2>5. CASE InjectFails
    <3>1. /\ stage' = "ignored" /\ UNCHANGED <<sa, associated, pod, original, opts, changes>>
      BY <2>5 DEF InjectFails
    <3>2. (InjectorTypeOK)'
      BY <2>0, <3>1 DEF InjectorTypeOK
    <3> QED
      BY <2>0, <3>1, <3>2 DEF WebhookInv
  <2>6. CASE ChangeServiceAccount
    <3>1. /\ UNCHANGED <<pod, original, stage, opts>>
          /\ changes < MaxChanges /\ changes' = changes + 1
          /\ sa' \in {"missing", "plain", "annotated"} \/ sa' = sa
          /\ associated' = associated \/ associated' = TRUE
      BY <2>6 DEF ChangeServiceAccount
    <3>2. changes' \in 0..MaxChanges
      BY <1>0, <2>0, <3>1 DEF InjectorTypeOK
    <3>3. (InjectorTypeOK)'
      BY <2>0, <3>1, <3>2 DEF InjectorTypeOK
    <3> QED
      BY <2>0, <3>1, <3>3 DEF WebhookInv
  <2>7. CASE UNCHANGED injectorVars
    BY <2>0, <2>7 DEF injectorVars, InjectorTypeOK, WebhookInv
  <2> QED
    BY <2>1, <2>2, <2>3, <2>4, <2>5, <2>6, <2>7 DEF InjectorNext
<1> QED
  BY <1>1, <1>2, PTL DEF InjectorSpec

\* Whatever a user set in a pod is still there after the patch, in its place: no
\* operation discards a list that it should extend (internal/agent/injector.go,
\* buildInjectionPatch).
THEOREM WebhookKeepsWhatUsersSet == InjectorSpec => []KeepsWhatUsersSet
<1>1. WebhookInv => KeepsWhatUsersSet
  BY DEF WebhookInv, Keeps, KeepsWhatUsersSet, Admitted
<1> QED
  BY <1>1, WebhookInvariance, PTL

\* A container that the agent pointed at the token file has the volume mounted that
\* holds it: init containers, and copies of pods whose association appeared between
\* two passes, too.
THEOREM WebhookTokenIsMounted == InjectorSpec => []TokenIsMounted
<1>1. WebhookInv => TokenIsMounted
  BY DEF WebhookInv, TokenMounted, TokenVar, TokenIsMounted, Admitted,
         ToSet
<1> QED
  BY <1>1, WebhookInvariance, PTL

\* A patch injects everything its options select, so that a second pass with them
\* builds an empty patch: reinvocation of the webhook adds nothing twice.
THEOREM WebhookSecondPassIsEmpty == InjectorSpec => []SecondPassIsEmpty
<1>1. WebhookInv => SecondPassIsEmpty
  <2> SUFFICES ASSUME WebhookInv, stage = "admitted", opts.sts \/ opts.podIdentity
               PROVE  LET patch == BuildInjectionPatch(pod, opts) IN
                      /\ \A c \in All : patch.env[c] = <<>> /\ patch.mounts[c] = <<>>
                      /\ patch.volumes = <<>>
                      /\ \A c \in All : Defines(pod.env[c], opts)
    BY DEF SecondPassIsEmpty, Admitted, Defines
  <2>1. IsPod(pod) /\ Complete(pod, opts)
    BY DEF WebhookInv, InjectorTypeOK
  <2>2. ASSUME NEW c \in All
        PROVE  EnvOps(pod.env[c], DesiredEnvVars(opts)) = <<>>
    BY <2>1, NothingIsMissing DEF IsPod, Complete
  <2>3. ASSUME NEW c \in All, opts.podIdentity
        PROVE  MountOps(c, pod.mounts[c]) = <<>>
    BY <2>1, <2>3 DEF Complete, MountOps, AddOps
  <2>4. ASSUME opts.podIdentity
        PROVE  VolumeOps(pod.volumes) = <<>>
    BY <2>1, <2>4 DEF Complete, VolumeOps, AddOps
  <2> QED
    BY <2>1, <2>2, <2>3, <2>4 DEF Complete, BuildInjectionPatch
<1> QED
  BY <1>1, WebhookInvariance, PTL
=============================================================================
