------------------------- MODULE CNPControllerProofs -------------------------
(***************************************************************************)
(* Proofs about CNPController, for any policies, namespaces, specs and     *)
(* bounds: users, watch events, garbage collection, failing requests and   *)
(* restarts come between any two requests of a pass.                       *)
(*                                                                         *)
(* The second part is about ClusterNetworkPolicy, the translation that     *)
(* computes what a pass applies.                                           *)
(***************************************************************************)
EXTENDS CNPController, ClusterNetworkPolicy, SequenceTheorems, WellFoundedInduction, TLAPS

\* A pass works on NetworkPolicies that carried the managed-by label when it
\* listed them, and deletes only what it does not desire.
PassOK ==
    /\ \A k \in Key : existing[k] # None => existing[k].managed
    /\ \A k \in Key : desired[k] # None => desired[k].rules \in Specs \cup {"rejected"}
    /\ pc = "apply" => \A k \in todo : desired[k] # None
    /\ pc = "delete" => \A k \in todo : desired[k] = None

\* A pass that works from a cache that changed since has another pass to follow.
FollowedUp == pc # "idle" => queue \/ desired = DesiredFrom(cnpCache, nsCache)

IInv == TypeOK /\ PassOK /\ FollowedUp
-----------------------------------------------------------------------------
\* desiredNetworkPolicies gives every key a NetworkPolicy or none.
LEMMA DesiredType ==
    ASSUME TypeOK
    PROVE  DesiredFrom(cnpCache, nsCache) \in [Key -> [rules : Rules, owner : 0..MaxChanges] \cup {None}]
<1>1. \A p \in Policies : cnpCache[p] # None =>
         [rules |-> cnpCache[p].rules, owner |-> cnpCache[p].uid] \in [rules : Rules, owner : 0..MaxChanges]
  BY DEF TypeOK, CNP
<1> QED
  BY <1>1 DEF DesiredFrom, Key

\* What the controller writes is a NetworkPolicy with the label.
LEMMA ManagedType ==
    ASSUME TypeOK, NEW k \in Key, desired[k] # None, desired[k].rules \in Specs
    PROVE  Managed(desired[k]) \in NP /\ Managed(desired[k]).managed
<1>1. desired[k] \in [rules : Rules, owner : 0..MaxChanges]
  BY DEF TypeOK
<1> QED
  BY <1>1 DEF Managed, NP, TypeOK

\* The end of a pass, from whatever step.
LEMMA PassEnded ==
    ASSUME EndPass
    PROVE  /\ pc' = "idle" /\ todo' = {}
           /\ desired' \in [Key -> [rules : Rules, owner : 0..MaxChanges] \cup {None}]
           /\ existing' \in [Key -> NP \cup {None}]
           /\ PassOK' /\ FollowedUp'
  BY DEF EndPass, NoPolicies, PassOK, FollowedUp

\* Users and the garbage collector leave the controller alone, and what they
\* make of the API server's objects has its type.
LEMMA OutsideStep ==
    ASSUME TypeOK, Users \/ Collect
    PROVE  TypeOK' /\ UNCHANGED <<caches, queue, pass>>
<1> USE BoundsAssumption
<1>c. UserChange => changes' \in 0..MaxChanges
  BY DEF UserChange, TypeOK
<1>1. ASSUME NEW p \in Policies, ApplyPolicy(p)
      PROVE  TypeOK' /\ UNCHANGED <<caches, queue, pass>>
  <2>1. PICK r \in Rules, s \in Selectors :
          cnps' = [cnps EXCEPT ![p] = [rules |-> r, subject |-> s,
                     uid |-> IF cnps[p] = None THEN changes ELSE cnps[p].uid]]
    BY <1>1 DEF ApplyPolicy
  <2>2. (IF cnps[p] = None THEN changes ELSE cnps[p].uid) \in 0..MaxChanges
    BY DEF TypeOK, CNP
  <2>3. cnps' \in [Policies -> CNP \cup {None}]
    BY <2>1, <2>2 DEF TypeOK, CNP
  <2> QED
    BY <1>1, <1>c, <2>3 DEF ApplyPolicy, caches, pass, TypeOK
<1>2. ASSUME NEW p \in Policies, DeletePolicy(p)
      PROVE  TypeOK' /\ UNCHANGED <<caches, queue, pass>>
  BY <1>2, <1>c DEF DeletePolicy, caches, pass, TypeOK
<1>3. ASSUME NEW n \in Namespaces, ChangeNamespace(n)
      PROVE  TypeOK' /\ UNCHANGED <<caches, queue, pass>>
  <2>1. nps' \in [Key -> NP \cup {None}]
    BY <1>3 DEF ChangeNamespace, TypeOK
  <2>2. namespaces' \in [Namespaces -> {None, "plain", "labelled"}]
    BY <1>3 DEF ChangeNamespace, TypeOK
  <2> QED
    BY <1>3, <1>c, <2>1, <2>2 DEF ChangeNamespace, caches, pass, TypeOK
<1>4. ASSUME NEW k \in Key, EditNetworkPolicy(k)
      PROVE  TypeOK' /\ UNCHANGED <<caches, queue, pass>>
  <2>1. nps[k] \in NP /\ changes' \in 0..MaxChanges
    BY <1>4, <1>c DEF EditNetworkPolicy, TypeOK
  <2>2. CASE \E r \in Specs : nps' = [nps EXCEPT ![k].rules = r, ![k].rv = changes']
    <3>1. PICK r \in Specs : nps' = [nps EXCEPT ![k] = [nps[k] EXCEPT !.rules = r, !.rv = changes']]
      BY <2>2 DEF TypeOK
    <3>2. [nps[k] EXCEPT !.rules = r, !.rv = changes'] \in NP
      BY <2>1 DEF NP
    <3>3. nps' \in [Key -> NP \cup {None}]
      BY <3>1, <3>2 DEF TypeOK
    <3> QED
      BY <1>4, <2>1, <3>3 DEF EditNetworkPolicy, caches, pass, TypeOK
  <2>3. CASE nps' = [nps EXCEPT ![k] = None]
    BY <1>4, <2>1, <2>3 DEF EditNetworkPolicy, caches, pass, TypeOK
  <2>4. CASE nps' = [nps EXCEPT ![k].managed = FALSE, ![k].rv = changes']
    <3>1. nps' = [nps EXCEPT ![k] = [nps[k] EXCEPT !.managed = FALSE, !.rv = changes']]
      BY <2>4 DEF TypeOK
    <3>2. [nps[k] EXCEPT !.managed = FALSE, !.rv = changes'] \in NP
      BY <2>1 DEF NP
    <3>3. nps' \in [Key -> NP \cup {None}]
      BY <3>1, <3>2 DEF TypeOK
    <3> QED
      BY <1>4, <2>1, <3>3 DEF EditNetworkPolicy, caches, pass, TypeOK
  <2> QED
    BY <1>4, <2>2, <2>3, <2>4 DEF EditNetworkPolicy
<1>5. ASSUME NEW k \in Key, CreateForeign(k)
      PROVE  TypeOK' /\ UNCHANGED <<caches, queue, pass>>
  <2>1. PICK r \in Specs : nps' = [nps EXCEPT ![k] =
           [rules |-> r, owner |-> None, managed |-> FALSE, rv |-> changes']]
    BY <1>5 DEF CreateForeign
  <2>2. [rules |-> r, owner |-> None, managed |-> FALSE, rv |-> changes'] \in NP
    BY <1>5, <1>c DEF CreateForeign, NP
  <2>3. nps' \in [Key -> NP \cup {None}]
    BY <2>1, <2>2 DEF TypeOK
  <2> QED
    BY <1>5, <1>c, <2>3 DEF CreateForeign, caches, pass, TypeOK
<1>6. ASSUME NEW k \in Key, CollectGarbage(k)
      PROVE  TypeOK' /\ UNCHANGED <<caches, queue, pass>>
  BY <1>6 DEF CollectGarbage, caches, pass, TypeOK
<1> QED
  BY <1>1, <1>2, <1>3, <1>4, <1>5, <1>6 DEF Users, Collect

\* A pass in its course writes and deletes, and changes nothing else.
LEMMA WriteStep ==
    ASSUME IInv, NEW k \in Key,
           CreateNetworkPolicy(k) \/ UpdateNetworkPolicy(k) \/ DeleteNetworkPolicy(k) \/ AnswerLost(k)
    PROVE  /\ nps' \in [Key -> NP \cup {None}]
           /\ \A x \in Key \ {k} : nps'[x] = nps[x]
           /\ \/ nps'[k] = nps[k]
              \/ pc = "delete" /\ k \in todo /\ nps'[k] = None
              \/ /\ pc = "apply" /\ nps[k] = existing[k]
                 /\ nps'[k] \in NP /\ nps'[k].managed
<1> USE DEF IInv
<1>1. ASSUME nps' = [nps EXCEPT ![k] = Managed(desired[k])], pc = "apply", k \in todo,
             desired[k].rules # "rejected", nps[k] = existing[k]
      PROVE  /\ nps' \in [Key -> NP \cup {None}]
             /\ \A x \in Key \ {k} : nps'[x] = nps[x]
             /\ nps'[k] \in NP /\ nps'[k].managed
  <2>1. desired[k] # None /\ desired[k].rules \in Specs
    BY <1>1 DEF PassOK
  <2>2. Managed(desired[k]) \in NP /\ Managed(desired[k]).managed
    BY <2>1, ManagedType
  <2> QED
    BY <1>1, <2>2 DEF TypeOK
<1>2. CASE nps' = nps
  BY <1>2 DEF TypeOK
<1>3. CASE pc = "delete" /\ k \in todo /\ nps' = [nps EXCEPT ![k] = None]
  BY <1>3 DEF TypeOK
<1>4. CASE /\ nps' = [nps EXCEPT ![k] = Managed(desired[k])] /\ pc = "apply" /\ k \in todo
           /\ desired[k].rules # "rejected" /\ nps[k] = existing[k]
  BY <1>1, <1>4
<1> QED
  BY <1>2, <1>3, <1>4 DEF CreateNetworkPolicy, UpdateNetworkPolicy, DeleteNetworkPolicy, AnswerLost

\* Every step keeps the invariant.
LEMMA Step ==
    ASSUME IInv, [Next]_vars
    PROVE  IInv'
<1> USE DEF IInv
<1>1. CASE Users \/ Collect
  <2>1. TypeOK' /\ UNCHANGED <<cnpCache, nsCache, queue, pc, desired, existing, todo>>
    BY <1>1, OutsideStep DEF caches, pass
  <2> QED
    BY <2>1 DEF PassOK, FollowedUp
<1>2. CASE Deliver \/ Resync
  <2>1. queue' = TRUE /\ UNCHANGED <<api, pass, changes, failures>>
    BY <1>2 DEF Deliver, Resync, DeliverPolicy, DeliverNamespace
  <2>2. /\ cnpCache' \in [Policies -> CNP \cup {None}]
        /\ nsCache' \in [Namespaces -> {None, "plain", "labelled"}]
    BY <1>2 DEF Deliver, Resync, DeliverPolicy, DeliverNamespace, caches, TypeOK
  <2> QED
    BY <2>1, <2>2 DEF api, pass, TypeOK, PassOK, FollowedUp
<1>3. CASE StartPass
  <2>0. UNCHANGED <<api, caches, changes, failures>> /\ queue' = FALSE
    BY <1>3 DEF StartPass
  <2>1. CASE EndPass
    BY <2>0, <2>1, PassEnded DEF api, caches, TypeOK
  <2>2. CASE /\ ~Invalid(cnpCache, nsCache) /\ pc' = "list"
             /\ desired' = DesiredFrom(cnpCache, nsCache) /\ UNCHANGED <<existing, todo>>
    <3>1. TypeOK'
      BY <2>0, <2>2, DesiredType DEF api, caches, TypeOK
    <3>2. ASSUME NEW k \in Key, desired'[k] # None
          PROVE  desired'[k].rules \in Specs \cup {"rejected"}
      <4>1. k[1] \in Namespaces /\ k[2] \in Policies
        BY DEF Key
      <4>2. /\ cnpCache[k[2]] # None /\ nsCache[k[1]] # None /\ cnpCache[k[2]].rules # "nothing"
            /\ desired'[k].rules = cnpCache[k[2]].rules
        BY <2>2, <3>2 DEF DesiredFrom
      <4>3. cnpCache[k[2]].rules # "badSelector"
        BY <2>2, <4>1, <4>2 DEF Invalid
      <4>4. cnpCache[k[2]].rules \in Rules
        BY <4>1, <4>2 DEF TypeOK, CNP
      <4> QED
        BY <4>2, <4>3, <4>4 DEF Rules
    <3>3. PassOK'
      BY <2>2, <3>2 DEF PassOK
    <3>4. FollowedUp'
      BY <2>0, <2>2 DEF FollowedUp, caches
    <3> QED
      BY <3>1, <3>3, <3>4
  <2> QED
    BY <1>3, <2>1, <2>2 DEF StartPass
<1>4. CASE ListManaged
  <2>1. TypeOK'
    BY <1>4 DEF ListManaged, api, caches, TypeOK
  <2>2. \A k \in Key : existing'[k] # None => existing'[k].managed
    BY <1>4 DEF ListManaged
  <2>3. PassOK' /\ FollowedUp'
    BY <1>4, <2>2 DEF ListManaged, caches, PassOK, FollowedUp
  <2> QED
    BY <2>1, <2>3
<1>5. CASE StartDeletes
  BY <1>5 DEF StartDeletes, api, caches, TypeOK, PassOK, FollowedUp
<1>6. ASSUME NEW k \in Key, CreateNetworkPolicy(k) \/ UpdateNetworkPolicy(k) \/ DeleteNetworkPolicy(k)
      PROVE  IInv'
  <2>1. nps' \in [Key -> NP \cup {None}]
    BY <1>6, WriteStep
  <2>2. /\ UNCHANGED <<cnps, namespaces, cnpCache, nsCache, queue, changes, failures>>
        /\ Done(k) \/ EndPass
    BY <1>6 DEF CreateNetworkPolicy, UpdateNetworkPolicy, DeleteNetworkPolicy, caches
  <2>3. CASE Done(k)
    BY <2>1, <2>2, <2>3 DEF Done, TypeOK, PassOK, FollowedUp
  <2>4. CASE EndPass
    BY <2>1, <2>2, <2>4, PassEnded DEF TypeOK
  <2> QED
    BY <2>2, <2>3, <2>4
<1>7. CASE FinishPass \/ RequestFails \/ Restart
  <2>1. /\ EndPass /\ UNCHANGED <<cnps, namespaces, nps, changes>>
        /\ failures' \in 0..MaxFailures
        /\ \/ UNCHANGED <<cnpCache, nsCache, queue>>
           \/ cnpCache' = cnps /\ nsCache' = namespaces /\ queue' = TRUE
    BY <1>7, BoundsAssumption DEF FinishPass, RequestFails, Restart, api, caches, TypeOK
  <2>2. queue' \in BOOLEAN
    BY <2>1 DEF TypeOK
  <2> QED
    BY <2>1, <2>2, PassEnded DEF TypeOK
<1>8. ASSUME NEW k \in Key, AnswerLost(k)
      PROVE  IInv'
  <2>1. nps' \in [Key -> NP \cup {None}]
    BY <1>8, WriteStep
  <2>2. /\ UNCHANGED <<cnps, namespaces, cnpCache, nsCache, queue, changes>> /\ EndPass
        /\ failures' \in 0..MaxFailures
    BY <1>8, BoundsAssumption DEF AnswerLost, caches, TypeOK
  <2> QED
    BY <2>1, <2>2, PassEnded DEF TypeOK
<1>9. CASE UNCHANGED vars
  BY <1>9 DEF vars, api, caches, pass, TypeOK, PassOK, FollowedUp
<1> QED
  BY <1>1, <1>2, <1>3, <1>4, <1>5, <1>6, <1>7, <1>8, <1>9 DEF Next, Reconcile

\* cnpcontroller.go, whatever comes between the requests of a pass: it works on
\* labelled NetworkPolicies, and a pass from an outdated cache is followed up.
THEOREM Invariance == Spec => []IInv
<1>1. Init => IInv
  <2> SUFFICES ASSUME Init PROVE IInv
    OBVIOUS
  <2>1. TypeOK
    <3>1. queue \in BOOLEAN
      BY DEF Init
    <3>2. /\ cnps \in [Policies -> CNP \cup {None}]
          /\ namespaces \in [Namespaces -> {None, "plain", "labelled"}]
          /\ cnpCache = cnps /\ nsCache = namespaces
      BY DEF Init
    <3>3. /\ nps = NoPolicies /\ desired = NoPolicies /\ existing = NoPolicies
          /\ pc = "idle" /\ todo = {} /\ changes = 0 /\ failures = 0
      BY DEF Init
    <3> QED
      BY <3>1, <3>2, <3>3, BoundsAssumption DEF TypeOK, NoPolicies
  <2>2. PassOK /\ FollowedUp
    BY DEF Init, NoPolicies, PassOK, FollowedUp
  <2> QED
    BY <2>1, <2>2 DEF IInv
<1> QED
  BY <1>1, Step, PTL DEF Spec

\* apply: no pass writes over a NetworkPolicy without the managed-by label, not
\* even one created, or stripped of its label, since the pass listed it
\* (ForeignNeverOverwritten).
THEOREM ForeignKept == Spec => ForeignNeverOverwritten
<1> DEFINE Kept == \A k \in Key : nps[k] # None /\ ~nps[k].managed =>
                      (Reconcile => nps'[k] = None \/ nps'[k] = nps[k])
<1>1. IInv => [Kept]_vars
  <2> SUFFICES ASSUME IInv, NEW k \in Key, nps[k] # None, ~nps[k].managed, Reconcile
               PROVE  nps'[k] = None \/ nps'[k] = nps[k]
    OBVIOUS
  <2>1. ASSUME NEW x \in Key, CreateNetworkPolicy(x) \/ UpdateNetworkPolicy(x) \/ DeleteNetworkPolicy(x)
        PROVE  nps'[k] = None \/ nps'[k] = nps[k]
    <3>1. CASE x # k
      BY <2>1, <3>1, WriteStep
    <3>2. CASE x = k
      <4>1. nps[k] = existing[k] => FALSE
        BY DEF IInv, PassOK
      <4> QED
        BY <2>1, <3>2, <4>1, WriteStep
    <3> QED
      BY <3>1, <3>2
  <2>2. CASE StartPass \/ ListManaged \/ StartDeletes \/ FinishPass
    BY <2>2 DEF StartPass, ListManaged, StartDeletes, FinishPass, api
  <2> QED
    BY <2>1, <2>2 DEF Reconcile
<1> QED
  BY <1>1, Invariance, PTL DEF ForeignNeverOverwritten

\* apply's second loop deletes a wanted NetworkPolicy only when the pass works
\* from an outdated cache, and then another pass is to come
\* (DeletesOnlyUnwanted).
THEOREM WantedKept == Spec => DeletesOnlyUnwanted
<1> DEFINE Kept == \A k \in Key : nps[k] # None /\ nps'[k] = None /\ Reconcile =>
                      Wanted[k] = None \/ cnpCache # cnps \/ nsCache # namespaces \/ queue
<1>1. IInv => [Kept]_vars
  <2> SUFFICES ASSUME IInv, NEW k \in Key, nps[k] # None, nps'[k] = None, Reconcile,
                      cnpCache = cnps, nsCache = namespaces, ~queue
               PROVE  Wanted[k] = None
    OBVIOUS
  <2>1. ASSUME NEW x \in Key, CreateNetworkPolicy(x) \/ UpdateNetworkPolicy(x) \/ DeleteNetworkPolicy(x)
        PROVE  pc = "delete" /\ k \in todo
    <3>1. x = k
      BY <2>1, WriteStep
    <3> QED
      BY <2>1, <3>1, WriteStep, NoneAssumption
  <2>2. ASSUME StartPass \/ ListManaged \/ StartDeletes \/ FinishPass
        PROVE  FALSE
    BY <2>2 DEF StartPass, ListManaged, StartDeletes, FinishPass, api
  <2>3. pc = "delete" /\ k \in todo
    BY <2>1, <2>2 DEF Reconcile
  <2>4. desired[k] = None /\ desired = Wanted
    BY <2>3 DEF IInv, PassOK, FollowedUp, Wanted
  <2> QED
    BY <2>4
<1> QED
  BY <1>1, Invariance, PTL DEF DeletesOnlyUnwanted
-----------------------------------------------------------------------------
(* TranslateClusterNetworkPolicy, which the controller calls for a policy.  *)

\* What ClusterNetworkPolicy assumes of its constants, and what a rule is.
TranslationConstants ==
    /\ MinPort \in Nat /\ MaxPort \in Nat /\ MinPort <= MaxPort
    /\ RuleChoices \subseteq Rule
    /\ Translatable \subseteq Protocols

\* Every Deny rule names its ports: Deny rules that omit them are dropped silently.
DenyRulesNamePorts == \A r \in RuleChoices : r.action = "Deny" => r.ports # <<>>

\* The rules leave a TCP or UDP port unnamed.  Deny rules that name all of them,
\* every source refused, translate to no NetworkPolicy at all.
SomePortUnnamed ==
    \E p \in Translatable, n \in MinPort..MaxPort :
        \A i \in DOMAIN ingress : \A j \in DOMAIN ingress[i].ports : ingress[i].ports[j] # <<p, n>>

\* WFMin as a formula.
LEMMA MinimalElement ==
    \A R, S, T : IsWellFoundedOn(R, S) /\ T \subseteq S /\ T # {} =>
                    \E x \in T : \A y \in T : ~(<<y, x>> \in R)
  BY WFMin, Zenon

\* A set of natural numbers has a least element.
LEMMA LeastElement ==
    ASSUME NEW S \in SUBSET Nat, S # {}
    PROVE  \E x \in S : \A y \in S : x <= y
<1>1. \A x, y \in Nat : x < y => <<x, y>> \in OpToRel(<, Nat)
  BY DEF OpToRel
<1>2. \E R : IsWellFoundedOn(R, Nat) /\ \A x, y \in Nat : x < y => <<x, y>> \in R
  BY <1>1, NatLessThanWellFounded, Zenon
<1>3. PICK R : IsWellFoundedOn(R, Nat) /\ \A x, y \in Nat : x < y => <<x, y>> \in R
  BY <1>2
<1>4. S \subseteq Nat
  OBVIOUS
<1>5. \E x \in S : \A y \in S : ~(<<y, x>> \in R)
  <2>1. IsWellFoundedOn(R, Nat)
    BY <1>3, Zenon
  <2> QED
    BY <1>4, <2>1, MinimalElement
<1>6. \E x \in S : \A y \in S : ~(y < x)
  BY <1>3, <1>4, <1>5, Zenon
<1> QED
  BY <1>4, <1>6

\* A bounded set of natural numbers has a greatest element, which is its Max.
LEMMA GreatestElement ==
    ASSUME NEW S \in SUBSET Nat, S # {}, NEW bound \in Nat, \A x \in S : x <= bound
    PROVE  Max(S) \in S /\ \A y \in S : y <= Max(S)
<1> DEFINE T == {k \in Nat : \E x \in S : k + x = bound}
<1>1. T \in SUBSET Nat
  OBVIOUS
<1>2. PICK s \in S : TRUE
  OBVIOUS
<1>3. bound - s \in T
  OBVIOUS
<1> HIDE DEF T
<1>4. PICK k \in T : \A y \in T : k <= y
  BY <1>1, <1>3, LeastElement
<1>5. k \in Nat /\ \E x \in S : k + x = bound
  BY <1>4 DEF T
<1>6. PICK x \in S : k + x = bound
  BY <1>5
<1>7. \A y \in S : bound - y \in T
  BY DEF T
<1>8. \A y \in S : k <= bound - y
  BY <1>4, <1>7
<1>9. \E z \in S : \A y \in S : z >= y
  BY <1>5, <1>6, <1>8
<1> QED
  BY <1>9 DEF Max

\* The gap before a port starts after every restricted port below it, and at none
\* of them: what lies below it is restricted or below a restricted port.
LEMMA GapStart ==
    ASSUME TranslationConstants, NEW ports \in SUBSET (MinPort..MaxPort), NEW port \in Nat
    PROVE  /\ NextAt(ports, port) \in Nat
           /\ MinPort <= NextAt(ports, port)
           /\ \A q \in ports : q < port => q < NextAt(ports, port)
           /\ \/ NextAt(ports, port) = MinPort
              \/ \E q \in ports : q < port /\ NextAt(ports, port) = q + 1
<1> DEFINE before == {q \in ports : q < port}
<1>0. \A q \in ports : q \in Nat /\ q <= MaxPort
  BY DEF TranslationConstants
<1>1. before \in SUBSET Nat /\ \A q \in before : q <= MaxPort
  BY <1>0
<1>2. CASE before = {}
  BY <1>2 DEF NextAt, TranslationConstants
<1>3. CASE before # {}
  <2>1. Max(before) \in before /\ \A q \in before : q <= Max(before)
    BY <1>1, <1>3, GreatestElement DEF TranslationConstants
  <2>2. NextAt(ports, port) = Max(before) + 1
    BY <1>3 DEF NextAt, NextGap
  <2> HIDE DEF before
  <2>3. PICK q \in before : q = Max(before)
    BY <2>1
  <2>4. q \in ports /\ q < port /\ q \in Nat /\ MinPort <= q
    BY <2>3, <1>1 DEF before, TranslationConstants
  <2>5. \A r \in ports : r < port => r <= q
    BY <2>1, <2>3 DEF before
  <2>6. \A r \in ports : r \in Nat
    BY DEF TranslationConstants
  <2> QED
    BY <2>2, <2>3, <2>4, <2>5, <2>6 DEF TranslationConstants
<1> QED
  BY <1>2, <1>3

\* What complementRulesForProtocol opens, it opens to every pod, and port n of a
\* protocol is opened exactly if it is the protocol meant and n is not restricted.
OpensTheRest(protocol, ports, other, n) ==
    /\ \A r \in ComplementFor(protocol, ports) : r.from = InCluster
    /\ (\E r \in ComplementFor(protocol, ports) : \E q \in r.ports :
           q.protocol = other /\ n \in q.start..q.end)
       <=> other = protocol /\ n \notin ports

\* complementRulesForProtocol opens the ports that are not restricted, and no other.
LEMMA ComplementIsComplement ==
    ASSUME TranslationConstants, NEW ports \in SUBSET (MinPort..MaxPort),
           NEW protocol, NEW other, NEW n \in MinPort..MaxPort
    PROVE  OpensTheRest(protocol, ports, other, n)
<1> DEFINE At(port) == NextAt(ports, port)
           Gaps == ComplementFor(protocol, ports)
           Opens(r) == \E q \in r.ports : q.protocol = other /\ n \in q.start..q.end
<1>t. /\ n \in Nat /\ MaxPort + 1 \in Nat /\ n < MaxPort + 1 /\ MinPort <= n
      /\ \A q \in ports : q \in Nat /\ q < MaxPort + 1
  BY DEF TranslationConstants
<1>a. \A port \in Nat :
         /\ At(port) \in Nat
         /\ \A q \in ports : q < port => q < At(port)
         /\ At(port) = MinPort \/ \E q \in ports : q < port /\ At(port) = q + 1
  BY GapStart
<1> HIDE DEF At
<1>g. /\ \A port \in ports : port > At(port) =>
            OpenRule(protocol, At(port), port - 1) \in Gaps
      /\ At(MaxPort + 1) <= MaxPort =>
            OpenRule(protocol, At(MaxPort + 1), MaxPort) \in Gaps
      /\ \A r \in Gaps :
            \/ \E port \in ports : r = OpenRule(protocol, At(port), port - 1)
            \/ r = OpenRule(protocol, At(MaxPort + 1), MaxPort)
  BY DEF ComplementFor, At
<1> HIDE DEF Gaps
<1>o. \A start, end : Opens(OpenRule(protocol, start, end))
                         <=> other = protocol /\ n \in start..end
  <2> SUFFICES ASSUME NEW start, NEW end
               PROVE  Opens(OpenRule(protocol, start, end))
                         <=> other = protocol /\ n \in start..end
    OBVIOUS
  <2> DEFINE range == [protocol |-> protocol, start |-> start, end |-> end]
  <2>1. OpenRule(protocol, start, end).ports = {range}
    BY DEF OpenRule
  <2>2. range.protocol = protocol /\ range.start = start /\ range.end = end
    OBVIOUS
  <2> HIDE DEF range
  <2>3. Opens(OpenRule(protocol, start, end))
           <=> range.protocol = other /\ n \in range.start..range.end
    BY <2>1, Zenon
  <2> QED
    BY <2>2, <2>3, Zenon
<1>1. \A r \in Gaps : r.from = InCluster
  BY <1>g DEF OpenRule
<1>2. ASSUME NEW r \in Gaps, Opens(r)
      PROVE  other = protocol /\ n \notin ports
  <2>1. CASE \E port \in ports : r = OpenRule(protocol, At(port), port - 1)
    <3>1. PICK port \in ports : r = OpenRule(protocol, At(port), port - 1)
      BY <2>1
    <3>2. other = protocol /\ n \in At(port)..(port - 1)
      BY <1>2, <1>o, <3>1
    <3>3. port \in Nat /\ At(port) \in Nat
      BY <1>t, <1>a
    <3>4. n < port /\ At(port) <= n
      BY <3>2, <3>3, <1>t
    <3> QED
      BY <1>a, <1>t, <3>2, <3>3, <3>4
  <2>2. CASE r = OpenRule(protocol, At(MaxPort + 1), MaxPort)
    <3>1. other = protocol /\ n \in At(MaxPort + 1)..MaxPort
      BY <1>2, <1>o, <2>2
    <3>2. At(MaxPort + 1) \in Nat /\ At(MaxPort + 1) <= n
      BY <1>a, <1>t, <3>1
    <3> QED
      BY <1>a, <1>t, <3>1, <3>2
  <2> QED
    BY <1>g, <2>1, <2>2
<1>3. ASSUME other = protocol, n \notin ports
      PROVE  \E r \in Gaps : Opens(r)
  <2> DEFINE above == {q \in ports : n < q}
  <2>1. CASE above = {}
    <3>1. At(MaxPort + 1) <= n
      BY <1>a, <1>t, <2>1, <1>3
    <3>2. n \in At(MaxPort + 1)..MaxPort /\ At(MaxPort + 1) <= MaxPort
      BY <1>a, <1>t, <3>1 DEF TranslationConstants
    <3> QED
      BY <1>g, <1>o, <1>3, <3>2
  <2>2. CASE above # {}
    <3>1. above \in SUBSET Nat
      BY <1>t
    <3>2. PICK port \in above : \A q \in above : port <= q
      BY <2>2, <3>1, LeastElement
    <3>3. port \in ports /\ port \in Nat /\ n < port
      BY <1>t, <3>2
    <3>4. \A q \in ports : q < port => q < n
      <4> SUFFICES ASSUME NEW q \in ports, q < port PROVE q < n
        OBVIOUS
      <4>1. q \in Nat /\ q # n
        BY <1>t, <1>3
      <4>2. ~(n < q)
        BY <3>2, <3>3, <4>1
      <4> QED
        BY <4>1, <4>2, <1>t
    <3>5. At(port) <= n /\ At(port) \in Nat
      BY <1>a, <1>t, <3>3, <3>4
    <3>6. n \in At(port)..(port - 1) /\ port > At(port)
      BY <1>t, <3>3, <3>5
    <3> QED
      BY <1>g, <1>o, <1>3, <3>3, <3>6
  <2> QED
    BY <2>1, <2>2
<1> QED
  BY <1>1, <1>2, <1>3 DEF Gaps, OpensTheRest

\* Some of the rules admits the traffic.
Opened(rules, src, port) ==
    \E r \in rules : src \in r.from /\ \E q \in r.ports : q.protocol = port[1]
                                                          /\ port[2] \in q.start..q.end

\* The rule denies, and the translation can express what it leaves.
Supported(i) == ingress[i].action = "Deny" /\ DenySupported(ingress[i])

\* The rules a policy is written with are rules.
LEMMA RuleOfPolicy ==
    ASSUME TranslationConstants, ingress \in Seq(RuleChoices), NEW i \in DOMAIN ingress
    PROVE  /\ ingress[i] \in RuleChoices
           /\ ingress[i].action \in {"Allow", "Deny"}
           /\ ingress[i].from \in Seq(Peer)
           /\ ingress[i].ports \in Seq(Port)
           /\ \A j \in DOMAIN ingress[i].ports : ingress[i].ports[j] \in Port
<1>1. ingress[i] \in RuleChoices /\ ingress[i] \in Rule
  BY DEF TranslationConstants
<1>2. /\ ingress[i].action \in {"Allow", "Deny"}
      /\ ingress[i].from \in Seq(Peer)
      /\ ingress[i].ports \in Seq(Port)
  BY <1>1 DEF Rule
<1> QED
  BY <1>1, <1>2

\* restrictedPorts: a restriction is of a translatable port that one supported Deny
\* rule names, and admits what that rule leaves.
LEMMA RestrictionOrigin ==
    ASSUME TranslationConstants, ingress \in Seq(RuleChoices),
           NEW r \in Restrictions(ingress)
    PROVE  /\ r.port \in Port /\ r.port[1] \in Translatable
           /\ \E i \in DOMAIN ingress : \E j \in DOMAIN ingress[i].ports :
                 Supported(i) /\ ingress[i].ports[j] = r.port
           /\ \A i \in DOMAIN ingress : \A j \in DOMAIN ingress[i].ports :
                 Supported(i) /\ ingress[i].ports[j] = r.port =>
                    r.allowed = DenyAllowed(ingress[i])
<1> DEFINE Denied == DeniedPorts(ingress)
<1>d. /\ \A i \in DOMAIN ingress : \A j \in DOMAIN ingress[i].ports :
            Supported(i) => <<i, j>> \in Denied
      /\ \A u \in Denied : \E i \in DOMAIN ingress : \E j \in DOMAIN ingress[i].ports :
            Supported(i) /\ u = <<i, j>>
  BY DEF DeniedPorts, Supported
<1> HIDE DEF Denied
<1>1. PICK u \in Denied :
         /\ r = [port |-> Named(ingress, u),
                 allowed |-> DenyAllowed(ingress[u[1]])]
         /\ Named(ingress, u)[1] \in Translatable
         /\ \A v \in Denied : Named(ingress, v) = Named(ingress, u) => v = u
  BY DEF Restrictions, Denied
<1>i. PICK i \in DOMAIN ingress :
         \E j \in DOMAIN ingress[i].ports : Supported(i) /\ u = <<i, j>>
  BY <1>d
<1>2. PICK j \in DOMAIN ingress[i].ports : Supported(i) /\ u = <<i, j>>
  BY <1>i
<1>3. /\ r.port = ingress[i].ports[j] /\ r.allowed = DenyAllowed(ingress[i])
      /\ r.port[1] \in Translatable
  BY <1>1, <1>2 DEF Named
<1>4. ASSUME NEW k \in DOMAIN ingress, NEW l \in DOMAIN ingress[k].ports,
             Supported(k), ingress[k].ports[l] = r.port
      PROVE  r.allowed = DenyAllowed(ingress[k])
  <2>1. <<k, l>> \in Denied /\ Named(ingress, <<k, l>>) = r.port
    BY <1>d, <1>4 DEF Named
  <2>2. Named(ingress, u) = r.port
    BY <1>1
  <2>3. <<k, l>> = u
    BY <1>1, <2>1, <2>2
  <2> QED
    BY <1>2, <1>3, <2>3
<1> QED
  BY <1>2, <1>3, <1>4, RuleOfPolicy

\* complementRules opens, to every pod, the TCP and UDP ports without a restriction.
LEMMA ComplementOpens ==
    ASSUME TranslationConstants, ingress \in Seq(RuleChoices),
           Restrictions(ingress) # {},
           NEW src \in Sources, NEW port \in Port
    PROVE  /\ Opened(ComplementRules(Restrictions(ingress)), src, port)
                 <=> /\ src \in InCluster /\ port[1] \in Translatable
                     /\ \A r \in Restrictions(ingress) : r.port # port
           /\ port[1] \in Translatable /\ (\A r \in Restrictions(ingress) : r.port # port)
                 => ComplementRules(Restrictions(ingress)) # {}
<1> DEFINE rs == Restrictions(ingress)
           Ports(p) == {r.port[2] : r \in {r \in rs : r.port[1] = p}}
           Gaps(p) == ComplementFor(p, Ports(p))
<1>r. \A r \in rs : r.port \in Protocols \X (MinPort..MaxPort)
  BY RestrictionOrigin DEF Port
<1>n. port \in Protocols \X (MinPort..MaxPort)
  BY DEF Port
<1> HIDE DEF rs
<1>1. \A p : Ports(p) \in SUBSET (MinPort..MaxPort)
  BY <1>r
<1>2. port[2] \in Ports(port[1]) <=> \E r \in rs : r.port = port
  BY <1>r, <1>n
<1> HIDE DEF Ports
<1>3. \A p : /\ \A r \in Gaps(p) : r.from = InCluster
             /\ (\E r \in Gaps(p) : \E q \in r.ports :
                    q.protocol = port[1] /\ port[2] \in q.start..q.end)
                <=> port[1] = p /\ port[2] \notin Ports(p)
  <2> SUFFICES ASSUME NEW p
               PROVE  /\ \A r \in Gaps(p) : r.from = InCluster
                      /\ (\E r \in Gaps(p) : \E q \in r.ports :
                             q.protocol = port[1] /\ port[2] \in q.start..q.end)
                         <=> port[1] = p /\ port[2] \notin Ports(p)
    OBVIOUS
  <2>1. port[2] \in MinPort..MaxPort /\ Ports(p) \in SUBSET (MinPort..MaxPort)
    BY <1>n, <1>1
  <2>2. OpensTheRest(p, Ports(p), port[1], port[2])
    BY <2>1, ComplementIsComplement
  <2> QED
    BY <2>2, Zenon DEF OpensTheRest
<1>4. ComplementRules(rs) = UNION {Gaps(p) : p \in Translatable}
  BY DEF ComplementRules, rs, Ports
<1> HIDE DEF Gaps
<1>5. Opened(ComplementRules(rs), src, port)
         <=> \E p \in Translatable : \E r \in Gaps(p) : src \in r.from
                /\ \E q \in r.ports : q.protocol = port[1] /\ port[2] \in q.start..q.end
  BY <1>4, Zenon DEF Opened
<1>6. Opened(ComplementRules(rs), src, port)
         <=> src \in InCluster /\ \E p \in Translatable : port[1] = p /\ port[2] \notin Ports(p)
  <2> DEFINE Fits(r) == \E q \in r.ports : q.protocol = port[1] /\ port[2] \in q.start..q.end
  <2>1. \A p : (\E r \in Gaps(p) : src \in r.from /\ Fits(r))
                  <=> src \in InCluster /\ \E r \in Gaps(p) : Fits(r)
    BY <1>3, Zenon
  <2>2. \A p : (\E r \in Gaps(p) : Fits(r)) <=> port[1] = p /\ port[2] \notin Ports(p)
    BY <1>3, Zenon
  <2>3. Opened(ComplementRules(rs), src, port)
           <=> \E p \in Translatable : \E r \in Gaps(p) : src \in r.from /\ Fits(r)
    BY <1>5
  <2> HIDE DEF Fits
  <2> QED
    BY <2>1, <2>2, <2>3, Zenon
<1>7. (\E p \in Translatable : port[1] = p /\ port[2] \notin Ports(p)) => ComplementRules(rs) # {}
  <2> SUFFICES ASSUME NEW p \in Translatable, port[1] = p /\ port[2] \notin Ports(p)
               PROVE  ComplementRules(rs) # {}
    OBVIOUS
  <2>1. \E r \in Gaps(p) : \E q \in r.ports : q.protocol = port[1] /\ port[2] \in q.start..q.end
    BY <1>3, Zenon
  <2>2. Gaps(p) # {}
    BY <2>1, Zenon
  <2> QED
    BY <1>4, <2>2
<1> QED
  BY <1>2, <1>6, <1>7 DEF rs

\* denyAllowedPeer: a supported Deny rule leaves the pods that it does not match.
LEMMA DenyLeaves ==
    ASSUME TranslationConstants, ingress \in Seq(RuleChoices), NEW i \in DOMAIN ingress,
           Supported(i), NEW src \in Sources
    PROVE  (\E x \in DenyAllowed(ingress[i]) : src \in x)
              <=> /\ src \in InCluster
                  /\ ~(\/ ingress[i].from = <<>>
                       \/ \E j \in DOMAIN ingress[i].from : src \in ingress[i].from[j].matches)
<1>1. CASE ingress[i].from = <<>>
  BY <1>1 DEF DenyAllowed
<1>2. CASE Len(ingress[i].from) = 1 /\ ingress[i].from[1].shape = "notIn"
  <2>1. DOMAIN ingress[i].from = {1} /\ ingress[i].from # <<>>
    BY <1>2, RuleOfPolicy
  <2>2. DenyAllowed(ingress[i]) = {InCluster \ ingress[i].from[1].matches}
    BY <2>1 DEF DenyAllowed
  <2> QED
    BY <2>1, <2>2
<1> QED
  BY <1>1, <1>2 DEF Supported, DenySupported

\* restrictedAllowRules opens a restricted port to the sources still allowed.
LEMMA RestrictedOpens ==
    ASSUME TranslationConstants, ingress \in Seq(RuleChoices),
           NEW src \in Sources, NEW port \in Port
    PROVE  Opened(RestrictedAllowRules(Restrictions(ingress)), src, port)
              <=> \E r \in Restrictions(ingress) :
                     r.port = port /\ \E x \in r.allowed : src \in x
<1> DEFINE rs == Restrictions(ingress)
           Single(r) == [protocol |-> r.port[1], start |-> r.port[2], end |-> r.port[2]]
           RuleFor(r, x) == [from |-> x, ports |-> {Single(r)}]
<1>r. \A r \in rs : r.port \in Protocols \X (MinPort..MaxPort)
  BY RestrictionOrigin DEF Port
<1>n. port \in Protocols \X (MinPort..MaxPort)
  BY DEF Port
<1> HIDE DEF rs
<1>1. RestrictedAllowRules(rs) = UNION {{RuleFor(r, x) : x \in r.allowed} : r \in rs}
  BY DEF RestrictedAllowRules
<1>2. \A r, x : RuleFor(r, x).from = x /\ RuleFor(r, x).ports = {Single(r)}
  OBVIOUS
<1>3. \A r \in rs : (Single(r).protocol = port[1] /\ port[2] \in Single(r).start..Single(r).end)
                       <=> r.port = port
  <2> SUFFICES ASSUME NEW r \in rs
               PROVE  (r.port[1] = port[1] /\ port[2] \in r.port[2]..r.port[2]) <=> r.port = port
    OBVIOUS
  <2>1. r.port[2] \in Int /\ port[2] \in Int /\ r.port = <<r.port[1], r.port[2]>>
        /\ port = <<port[1], port[2]>>
    BY <1>r, <1>n DEF TranslationConstants
  <2> QED
    BY <2>1
<1> DEFINE Fits(q) == q.protocol = port[1] /\ port[2] \in q.start..q.end
           Admitting(rule) == src \in rule.from /\ \E q \in rule.ports : Fits(q)
<1>4. \A r \in rs : \A x : Admitting(RuleFor(r, x)) <=> src \in x /\ r.port = port
  <2> SUFFICES ASSUME NEW r \in rs, NEW x
               PROVE  Admitting(RuleFor(r, x)) <=> src \in x /\ r.port = port
    OBVIOUS
  <2>1. Fits(Single(r)) <=> r.port = port
    BY <1>3
  <2>2. RuleFor(r, x).from = x /\ RuleFor(r, x).ports = {Single(r)}
    OBVIOUS
  <2> HIDE DEF RuleFor, Single, Fits
  <2>3. (\E q \in RuleFor(r, x).ports : Fits(q)) <=> Fits(Single(r))
    BY <2>2, Zenon
  <2> QED
    BY <2>1, <2>2, <2>3, Zenon
<1>5. Opened(RestrictedAllowRules(rs), src, port)
         <=> \E rule \in RestrictedAllowRules(rs) : Admitting(rule)
  BY Zenon DEF Opened
<1> HIDE DEF Admitting, RuleFor
<1>6. Opened(RestrictedAllowRules(rs), src, port)
         <=> \E r \in rs : \E x \in r.allowed : src \in x /\ r.port = port
  <2>1. \A rule : rule \in RestrictedAllowRules(rs)
                     <=> \E r \in rs : \E x \in r.allowed : rule = RuleFor(r, x)
    BY <1>1, SMT
  <2>2. ASSUME NEW rule \in RestrictedAllowRules(rs), Admitting(rule)
        PROVE  \E r \in rs : \E x \in r.allowed : src \in x /\ r.port = port
    BY <1>4, <2>1, <2>2
  <2>3. ASSUME NEW r \in rs, NEW x \in r.allowed, src \in x, r.port = port
        PROVE  \E rule \in RestrictedAllowRules(rs) : Admitting(rule)
    BY <1>4, <2>1, <2>3
  <2> QED
    BY <1>5, <2>2, <2>3
<1> QED
  BY <1>6, Zenon DEF rs

\* translateAllowRule: what a translated Allow rule admits the Allow rule matches,
\* unless it has lost a peer and is reported.
LEMMA AllowOpens ==
    ASSUME TranslationConstants, ingress \in Seq(RuleChoices), NEW i \in DOMAIN ingress,
           ingress[i].action = "Allow", NEW src \in Sources, NEW port \in Port,
           Opened({AllowRule(ingress[i])}, src, port)
    PROVE  Matches(ingress[i], src, port) \/ i \in UnsupportedRules(ingress)
<1> SUFFICES ASSUME \A j \in DOMAIN ingress[i].from : ingress[i].from[j].shape # "none"
             PROVE  Matches(ingress[i], src, port)
  BY DEF UnsupportedRules
<1> DEFINE from == ingress[i].from
           ports == ingress[i].ports
<1>1. /\ src \in AdmittedBy(from)
      /\ \E q \in PortsOf(ports) : q.protocol = port[1] /\ port[2] \in q.start..q.end
  <2>1. /\ AllowRule(ingress[i]).from = AdmittedBy(from)
        /\ AllowRule(ingress[i]).ports = PortsOf(ports)
    BY DEF AllowRule
  <2> QED
    BY <2>1, Zenon DEF Opened
<1>2. from = <<>> \/ \E j \in DOMAIN from : src \in from[j].matches
  <2>1. {j \in DOMAIN from : from[j].shape # "none"} = DOMAIN from
    OBVIOUS
  <2>2. from \in Seq(Peer)
    BY RuleOfPolicy
  <2>3. CASE DOMAIN from = {}
    <3>1. Len(from) \in Nat /\ DOMAIN from = 1..Len(from)
      BY <2>2
    <3>2. 1 \notin 1..Len(from)
      BY <2>3, <3>1, Zenon
    <3>3. Len(from) = 0
      BY <3>1, <3>2
    <3> QED
      BY <2>2, <3>3, EmptySeq
  <2>4. CASE DOMAIN from # {}
    <3>1. src \in UNION {from[j].matches : j \in DOMAIN from}
      BY <1>1, <2>1, <2>4 DEF AdmittedBy
    <3> QED
      BY <3>1
  <2> QED
    BY <2>3, <2>4
<1>3. ports = <<>> \/ \E j \in DOMAIN ports : ports[j] = port
  <2> SUFFICES ASSUME ports # <<>> PROVE \E j \in DOMAIN ports : ports[j] = port
    OBVIOUS
  <2>1. PICK q \in PortsOf(ports) : q.protocol = port[1] /\ port[2] \in q.start..q.end
    BY <1>1
  <2>2. PICK j \in DOMAIN ports :
           q = [protocol |-> ports[j][1], start |-> ports[j][2], end |-> ports[j][2]]
    BY DEF PortsOf
  <2>3. ports[j] \in Protocols \X (MinPort..MaxPort) /\ port \in Protocols \X (MinPort..MaxPort)
    BY RuleOfPolicy DEF Port
  <2>4. ports[j][1] = port[1] /\ port[2] \in ports[j][2]..ports[j][2]
    BY <2>1, <2>2
  <2>5. /\ ports[j][2] \in Int /\ port[2] \in Int
        /\ ports[j] = <<ports[j][1], ports[j][2]>> /\ port = <<port[1], port[2]>>
    BY <2>3 DEF TranslationConstants
  <2> QED
    BY <2>4, <2>5
<1> QED
  BY <1>2, <1>3 DEF Matches, ToSet

\* What a translated policy admits, one of the three kinds of rules admits.
LEMMA TranslateOpens ==
    ASSUME NEW src, NEW port
    PROVE  LET rs == Restrictions(ingress) IN
           Opened(Translate(ingress), src, port)
              <=> \/ \E i \in DOMAIN ingress :
                        ingress[i].action = "Allow"
                        /\ Opened({AllowRule(ingress[i])}, src, port)
                  \/ Opened(RestrictedAllowRules(rs), src, port)
                  \/ Opened(ComplementRules(rs), src, port)
<1> DEFINE rs == Restrictions(ingress)
           Admitting(r) == src \in r.from /\ \E q \in r.ports : q.protocol = port[1]
                                                /\ port[2] \in q.start..q.end
<1>1. \A rules : Opened(rules, src, port) <=> \E r \in rules : Admitting(r)
  BY Zenon DEF Opened
<1> HIDE DEF Admitting
<1>2. \A r : r \in Translate(ingress)
                <=> \/ \E i \in DOMAIN ingress :
                          ingress[i].action = "Allow" /\ r = AllowRule(ingress[i])
                    \/ r \in RestrictedAllowRules(rs)
                    \/ r \in ComplementRules(rs)
  BY DEF Translate
<1> HIDE DEF rs
<1> QED
  BY <1>1, <1>2 DEF rs

\* A restriction on a translatable protocol leaves a rule, unless all TCP and UDP
\* ports are named: there is a NetworkPolicy.
LEMMA RestrictionTranslates ==
    ASSUME TranslationConstants, ingress \in Seq(RuleChoices), SomePortUnnamed,
           Restrictions(ingress) # {}, Sources # {}
    PROVE  Translate(ingress) # {}
<1>1. PICK p \in Translatable, n \in MinPort..MaxPort :
         \A i \in DOMAIN ingress : \A j \in DOMAIN ingress[i].ports : ingress[i].ports[j] # <<p, n>>
  BY DEF SomePortUnnamed
<1>2. PICK src \in Sources : TRUE
  OBVIOUS
<1>3. <<p, n>> \in Port /\ <<p, n>>[1] \in Translatable
  BY DEF Port, TranslationConstants
<1>4. \A r \in Restrictions(ingress) : r.port # <<p, n>>
  BY <1>1, RestrictionOrigin
<1>5. ComplementRules(Restrictions(ingress)) # {}
  BY <1>2, <1>3, <1>4, ComplementOpens
<1> QED
  BY <1>5 DEF Translate

\* EnforcedOrReported, of one policy.
LEMMA EnforcedIn ==
    ASSUME TranslationConstants, DenyRulesNamePorts, ingress \in Seq(RuleChoices), SomePortUnnamed
    PROVE  EnforcedOrReported
<1> DEFINE rs == Restrictions(ingress)
<1> SUFFICES ASSUME NEW i \in DOMAIN ingress, ingress[i].action = "Deny",
                    NEW src \in Sources, NEW port \in Port,
                    Matches(ingress[i], src, port),
                    Admits(Translate(ingress), src, port[1], port[2]),
                    ~Reported(i, port),
                    ~ \E a \in UnsupportedRules(ingress) : ingress[a].action = "Allow"
             PROVE  SomeRule("Allow", src, port)
  BY DEF EnforcedOrReported
<1>1. Supported(i)
  BY DEF Supported, Reported, UnsupportedRules
<1>2. PICK j \in DOMAIN ingress[i].ports : ingress[i].ports[j] = port
  <2>1. ingress[i].ports # <<>>
    BY RuleOfPolicy DEF DenyRulesNamePorts
  <2> QED
    BY <2>1 DEF Matches, ToSet
<1>3. PICK r \in rs : r.port = port
  <2>1. <<i, j>> \in DeniedPorts(ingress)
    BY <1>1 DEF DeniedPorts, Supported
  <2>2. Named(ingress, <<i, j>>) = port
    BY <1>2 DEF Named
  <2>3. port \in {Named(ingress, u) : u \in DeniedPorts(ingress)}
    BY <2>1, <2>2
  <2> QED
    BY <2>3 DEF Reported, UnsupportedPorts
<1>4. r.allowed = DenyAllowed(ingress[i])
  BY <1>1, <1>2, <1>3, RestrictionOrigin
<1>5. ~ \E x \in r.allowed : src \in x
  BY <1>1, <1>4, DenyLeaves DEF Matches
<1>6. \A t \in rs : t.port = port => t.allowed = DenyAllowed(ingress[i])
  BY <1>1, <1>2, RestrictionOrigin
<1>7. ~Opened(RestrictedAllowRules(rs), src, port)
  BY <1>4, <1>5, <1>6, RestrictedOpens
<1>8. ~Opened(ComplementRules(rs), src, port)
  BY <1>3, ComplementOpens
<1>9. Opened(Translate(ingress), src, port)
  <2>1. Translate(ingress) # {}
    BY <1>3, RestrictionTranslates
  <2> QED
    BY <2>1, Zenon DEF Admits, Opened
<1>10. PICK k \in DOMAIN ingress :
          ingress[k].action = "Allow" /\ Opened({AllowRule(ingress[k])}, src, port)
  BY <1>7, <1>8, <1>9, TranslateOpens
<1>11. Matches(ingress[k], src, port)
  BY <1>10, AllowOpens
<1> QED
  BY <1>10, <1>11 DEF SomeRule

\* OthersStayOpen, of one policy.
LEMMA OthersOpenIn ==
    ASSUME TranslationConstants, ingress \in Seq(RuleChoices)
    PROVE  OthersStayOpen
<1> DEFINE rs == Restrictions(ingress)
<1> SUFFICES ASSUME DenyOnly,
                    NEW src \in InCluster, NEW port \in Port,
                    port[1] \in Translatable,
                    ~SomeRule("Deny", src, port),
                    Translate(ingress) # {}
             PROVE  Opened(Translate(ingress), src, port)
  BY Zenon DEF OthersStayOpen, StaysOpen, Admits, Opened
<1>0. src \in Sources
  BY DEF InCluster
<1>1. rs # {}
  <2>1. \A i \in DOMAIN ingress : ingress[i].action # "Allow"
    BY DEF DenyOnly
  <2>2. rs = {} => RestrictedAllowRules(rs) = {} /\ ComplementRules(rs) = {}
    BY DEF RestrictedAllowRules, ComplementRules
  <2> QED
    BY <2>1, <2>2 DEF Translate
<1>2. CASE \A r \in rs : r.port # port
  BY <1>0, <1>1, <1>2, ComplementOpens, TranslateOpens
<1>3. CASE \E r \in rs : r.port = port
  <2>1. PICK r \in rs : r.port = port
    BY <1>3
  <2>2. PICK i \in DOMAIN ingress :
           \E j \in DOMAIN ingress[i].ports : Supported(i) /\ ingress[i].ports[j] = port
    BY <2>1, RestrictionOrigin
  <2>3. Supported(i) /\ r.allowed = DenyAllowed(ingress[i])
    BY <2>1, <2>2, RestrictionOrigin
  <2>4. ~Matches(ingress[i], src, port)
    BY <2>3 DEF SomeRule, Supported
  <2>5. port \in ToSet(ingress[i].ports)
    BY <2>2 DEF ToSet
  <2>6. ~(\/ ingress[i].from = <<>>
          \/ \E j \in DOMAIN ingress[i].from : src \in ingress[i].from[j].matches)
    BY <2>4, <2>5 DEF Matches
  <2>7. \E x \in r.allowed : src \in x
    BY <1>0, <2>3, <2>6, DenyLeaves
  <2> QED
    BY <1>0, <2>1, <2>7, RestrictedOpens, TranslateOpens
<1> QED
  BY <1>2, <1>3

\* A policy is a list of the rules there are.
LEMMA PolicyInvariance ==
    TranslationSpec => [](ingress \in Seq(RuleChoices))
<1>1. TranslationInit => ingress \in Seq(RuleChoices)
  BY DEF TranslationInit
<1>2. ingress \in Seq(RuleChoices) /\ [TranslationNext]_ingress => (ingress \in Seq(RuleChoices))'
  BY AppendProperties DEF TranslationNext, AddRule
<1> QED
  BY <1>1, <1>2, PTL DEF TranslationSpec

\* TranslateClusterNetworkPolicy, for any policy whose Deny rules name their ports
\* and leave a TCP or UDP port unnamed: traffic that a Deny rule matches is refused,
\* or reported, or admitted by an Allow rule (EnforcedOrReported).
THEOREM TranslationEnforcedOrReported ==
    DenyRulesNamePorts => (TranslationSpec => [](SomePortUnnamed => EnforcedOrReported))
<1> SUFFICES ASSUME DenyRulesNamePorts
             PROVE  TranslationSpec => [](SomePortUnnamed => EnforcedOrReported)
  OBVIOUS
<1>0. TranslationConstants
  BY PortAssumption, RuleAssumption, ProtocolAssumption DEF TranslationConstants
<1>1. ingress \in Seq(RuleChoices) => (SomePortUnnamed => EnforcedOrReported)
  BY <1>0, EnforcedIn
<1> QED
  BY <1>1, PolicyInvariance, PTL

\* TranslateClusterNetworkPolicy, for any policy: under Deny rules alone, TCP and
\* UDP traffic of a pod that none of them matches stays open (OthersStayOpen).
THEOREM TranslationOthersStayOpen == TranslationSpec => []OthersStayOpen
<1>0. TranslationConstants
  BY PortAssumption, RuleAssumption, ProtocolAssumption DEF TranslationConstants
<1>1. ingress \in Seq(RuleChoices) => OthersStayOpen
  BY <1>0, OthersOpenIn
<1> QED
  BY <1>1, PolicyInvariance, PTL
=============================================================================
