---------------------------- MODULE CNPController ----------------------------
(***************************************************************************)
(* CNPController (internal/agent/cnpcontroller.go): a level-triggered      *)
(* controller that keeps, for every ClusterNetworkPolicy and every         *)
(* namespace its subject matches, one NetworkPolicy labelled as managed by *)
(* fjord.                                                                  *)
(*                                                                         *)
(* The controller reads policies and namespaces from informer caches that  *)
(* trail the API server, and NetworkPolicies by a List per pass.  Its      *)
(* queue has one slot.  A pass that fails is only logged: the next event,  *)
(* or the periodic resync of the informers, starts another one.            *)
(* TranslateClusterNetworkPolicy is the module ClusterNetworkPolicy; here  *)
(* a policy's rules are an opaque spec.                                    *)
(***************************************************************************)
EXTENDS Naturals

CONSTANTS
    Policies, Namespaces, Specs,
    None,
    LabelStripping, \* whether users remove the managed-by label by hand
    MaxChanges,     \* bound: changes made by users
    MaxFailures     \* bound: requests of the controller that fail, and restarts

\* Besides specs that translate, a policy's rules can translate to nothing, to a
\* NetworkPolicy the API server rejects, or carry an invalid selector.
Rules == Specs \cup {"nothing", "rejected", "badSelector"}
Selectors == {"nil", "every", "labelled"}
CNP == [rules : Rules, subject : Selectors, uid : 0..MaxChanges]
\* rv tells the writes of users apart; the controller writes an object at most
\* once between two lists of it.
NP == [rules : Specs, owner : (0..MaxChanges) \cup {None}, managed : BOOLEAN,
       rv : 0..MaxChanges]
Key == Namespaces \X Policies      \* NetworkPolicyName(p) in a namespace

ASSUME BoundsAssumption == MaxChanges \in Nat /\ MaxFailures \in Nat
ASSUME NoneAssumption == None \notin NP \cup CNP \cup [rules : Rules, owner : 0..MaxChanges]

VARIABLES
    cnps, namespaces, nps,      \* the objects of the API server
    cnpCache, nsCache,          \* the informers' stores
    queue,                      \* a reconcile request is pending
    pc,                         \* "idle", "list", "apply" or "delete"
    desired,                    \* the pass's NetworkPolicies, by key
    existing,                   \* the managed NetworkPolicies it listed
    todo,                       \* keys it has still to deal with
    changes, failures

api == <<cnps, namespaces, nps>>
caches == <<cnpCache, nsCache>>
pass == <<pc, desired, existing, todo>>
vars == <<api, caches, queue, pass, changes, failures>>

NoPolicies == [k \in Key |-> None]

TypeOK ==
    /\ cnps \in [Policies -> CNP \cup {None}]
    /\ namespaces \in [Namespaces -> {None, "plain", "labelled"}]
    /\ nps \in [Key -> NP \cup {None}]
    /\ cnpCache \in [Policies -> CNP \cup {None}]
    /\ nsCache \in [Namespaces -> {None, "plain", "labelled"}]
    /\ queue \in BOOLEAN
    /\ pc \in {"idle", "list", "apply", "delete"}
    /\ desired \in [Key -> [rules : Rules, owner : 0..MaxChanges] \cup {None}]
    /\ existing \in [Key -> NP \cup {None}]
    /\ todo \subseteq Key
    /\ changes \in 0..MaxChanges /\ failures \in 0..MaxFailures

\* Run: the caches are synced and the first pass is requested.
Init ==
    /\ cnps = [p \in Policies |-> None]
    /\ namespaces \in [Namespaces -> {"plain", "labelled"}]
    /\ nps = NoPolicies
    /\ cnpCache = cnps /\ nsCache = namespaces
    /\ queue = TRUE
    /\ pc = "idle" /\ desired = NoPolicies /\ existing = NoPolicies /\ todo = {}
    /\ changes = 0 /\ failures = 0

\* namespaceMatches
NamespaceMatches(selector, ns) ==
    \/ selector = "every"
    \/ selector = "labelled" /\ ns = "labelled"

\* desiredNetworkPolicies, from the given policies and namespaces.
DesiredFrom(c, s) == [k \in Key |->
    IF c[k[2]] = None \/ s[k[1]] = None THEN None
    ELSE IF ~NamespaceMatches(c[k[2]].subject, s[k[1]]) \/ c[k[2]].rules = "nothing"
         THEN None ELSE [rules |-> c[k[2]].rules, owner |-> c[k[2]].uid]]

\* The selector of a policy is parsed once for every namespace there is.
Invalid(c, s) ==
    /\ \E p \in Policies : c[p] # None /\ c[p].rules = "badSelector"
    /\ \E n \in Namespaces : s[n] # None
-----------------------------------------------------------------------------
(* Users, and what the cluster does for them.                               *)

UserChange == changes < MaxChanges /\ changes' = changes + 1

\* A policy is created, changed or deleted; the UID is that of its creation.
ApplyPolicy(p) ==
    /\ UserChange
    /\ \E r \in Rules, s \in Selectors :
          cnps' = [cnps EXCEPT ![p] =
              [rules |-> r, subject |-> s,
               uid |-> IF cnps[p] = None THEN changes ELSE cnps[p].uid]]
    /\ cnps' # cnps
    /\ UNCHANGED <<namespaces, nps, caches, queue, pass, failures>>

DeletePolicy(p) ==
    /\ UserChange
    /\ cnps[p] # None
    /\ cnps' = [cnps EXCEPT ![p] = None]
    /\ UNCHANGED <<namespaces, nps, caches, queue, pass, failures>>

\* A namespace is created, relabelled or deleted, with the policies in it.
ChangeNamespace(n) ==
    /\ UserChange
    /\ \E s \in {None, "plain", "labelled"} \ {namespaces[n]} :
          /\ namespaces' = [namespaces EXCEPT ![n] = s]
          /\ nps' = [k \in Key |-> IF k[1] = n /\ s = None THEN None ELSE nps[k]]
    /\ UNCHANGED <<cnps, caches, queue, pass, failures>>

\* A managed NetworkPolicy is edited or deleted by hand.
EditNetworkPolicy(k) ==
    /\ UserChange
    /\ nps[k] # None
    /\ \/ \E r \in Specs \ {nps[k].rules} :
             nps' = [nps EXCEPT ![k].rules = r, ![k].rv = changes']
       \/ nps' = [nps EXCEPT ![k] = None]
       \/ LabelStripping /\ nps[k].managed /\ nps' = [nps EXCEPT ![k].managed = FALSE, ![k].rv = changes']
    /\ UNCHANGED <<cnps, namespaces, caches, queue, pass, failures>>

\* Somebody creates a NetworkPolicy of the same name.
CreateForeign(k) ==
    /\ UserChange
    /\ nps[k] = None /\ namespaces[k[1]] # None
    /\ \E r \in Specs :
          nps' = [nps EXCEPT ![k] = [rules |-> r, owner |-> None, managed |-> FALSE,
                                    rv |-> changes']]
    /\ UNCHANGED <<cnps, namespaces, caches, queue, pass, failures>>

\* Kubernetes' garbage collector: cnpOwnerReference names a policy that is gone.
CollectGarbage(k) ==
    /\ nps[k] # None /\ nps[k].owner # None
    /\ nps[k].owner \notin {cnps[p].uid : p \in {p \in Policies : cnps[p] # None}}
    /\ nps' = [nps EXCEPT ![k] = None]
    /\ UNCHANGED <<cnps, namespaces, caches, queue, pass, changes, failures>>
-----------------------------------------------------------------------------
(* The informers and the controller.                                        *)

\* Mutant: changes of a policy are not enqueued.
DeliverPolicy_NoEnqueue(p) ==
    /\ cnpCache[p] # cnps[p]
    /\ cnpCache' = [cnpCache EXCEPT ![p] = cnps[p]]
    /\ UNCHANGED <<api, nsCache, queue, pass, changes, failures>>

\* The event handlers enqueue for every event.
DeliverPolicy(p) ==
    /\ cnpCache[p] # cnps[p]
    /\ cnpCache' = [cnpCache EXCEPT ![p] = cnps[p]]
    /\ queue' = TRUE
    /\ UNCHANGED <<api, nsCache, pass, changes, failures>>

DeliverNamespace(n) ==
    /\ nsCache[n] # namespaces[n]
    /\ nsCache' = [nsCache EXCEPT ![n] = namespaces[n]]
    /\ queue' = TRUE
    /\ UNCHANGED <<api, cnpCache, pass, changes, failures>>

\* CNPControllerResyncPeriod has passed.  An update event for every cached
\* object, so nothing happens while both stores are empty.
Resync ==
    /\ ~queue
    /\ (\E p \in Policies : cnpCache[p] # None) \/ (\E n \in Namespaces : nsCache[n] # None)
    /\ queue' = TRUE
    /\ UNCHANGED <<api, caches, pass, changes, failures>>

EndPass ==
    /\ pc' = "idle"
    /\ desired' = NoPolicies /\ existing' = NoPolicies /\ todo' = {}

\* reconcile up to desiredNetworkPolicies.  One policy with an invalid selector
\* fails the whole pass.
StartPass ==
    /\ pc = "idle" /\ queue
    /\ queue' = FALSE
    /\ \/ Invalid(cnpCache, nsCache) /\ EndPass
       \/ /\ ~Invalid(cnpCache, nsCache)
          /\ pc' = "list"
          /\ desired' = DesiredFrom(cnpCache, nsCache)
          /\ UNCHANGED <<existing, todo>>
    /\ UNCHANGED <<api, caches, changes, failures>>

\* List of the NetworkPolicies with the managed-by label.
ListManaged ==
    /\ pc = "list"
    /\ existing' = [k \in Key |-> IF nps[k] # None /\ nps[k].managed THEN nps[k] ELSE None]
    /\ pc' = "apply"
    /\ todo' = {k \in Key : desired[k] # None}
    /\ UNCHANGED <<api, caches, queue, desired, changes, failures>>

Managed(d) == [rules |-> d.rules, owner |-> d.owner, managed |-> TRUE, rv |-> changes]

Done(k) ==
    /\ todo' = todo \ {k}
    /\ UNCHANGED <<pc, desired, existing>>

\* Mutant: what is there already is overwritten.
CreateNetworkPolicy_Overwrites(k) ==
    /\ pc = "apply" /\ k \in todo /\ existing[k] = None
    /\ namespaces[k[1]] # None /\ desired[k].rules # "rejected"
    /\ nps' = [nps EXCEPT ![k] = Managed(desired[k])]
    /\ Done(k)
    /\ UNCHANGED <<cnps, namespaces, caches, queue, changes, failures>>

\* apply's first loop, in the order of a Go map: create or update one.
\* create: AlreadyExists is taken for success.
CreateNetworkPolicy(k) ==
    /\ pc = "apply" /\ k \in todo /\ existing[k] = None
    /\ \/ /\ nps[k] # None
          /\ Done(k) /\ UNCHANGED nps
       \/ /\ nps[k] = None /\ namespaces[k[1]] # None /\ desired[k].rules # "rejected"
          /\ nps' = [nps EXCEPT ![k] = Managed(desired[k])]
          /\ Done(k)
       \/ /\ nps[k] = None /\ (namespaces[k[1]] = None \/ desired[k].rules = "rejected")
          /\ EndPass /\ UNCHANGED nps
    /\ UNCHANGED <<cnps, namespaces, caches, queue, changes, failures>>

Same(current, d) ==
    current.rules = d.rules /\ current.owner = d.owner /\ current.managed

\* update: nothing when it is the same; otherwise the resourceVersion of the
\* listed object must be current, or the pass fails.
UpdateNetworkPolicy(k) ==
    /\ pc = "apply" /\ k \in todo /\ existing[k] # None
    /\ \/ /\ Same(existing[k], desired[k])
          /\ Done(k) /\ UNCHANGED nps
       \/ /\ ~Same(existing[k], desired[k])
          /\ nps[k] = existing[k] /\ desired[k].rules # "rejected"
          /\ nps' = [nps EXCEPT ![k] = Managed(desired[k])]
          /\ Done(k)
       \/ /\ ~Same(existing[k], desired[k])
          /\ nps[k] # existing[k] \/ desired[k].rules = "rejected"
          /\ EndPass /\ UNCHANGED nps
    /\ UNCHANGED <<cnps, namespaces, caches, queue, changes, failures>>

\* Mutant: a pass that desires nothing has nothing to do.
StartDeletes_SkipsEmpty ==
    /\ pc = "apply" /\ todo = {}
    /\ pc' = "delete"
    /\ todo' = IF desired = NoPolicies THEN {}
               ELSE {k \in Key : existing[k] # None /\ desired[k] = None}
    /\ UNCHANGED <<api, caches, queue, desired, existing, changes, failures>>

\* apply's second loop: what is not desired any more.
StartDeletes ==
    /\ pc = "apply" /\ todo = {}
    /\ pc' = "delete"
    /\ todo' = {k \in Key : existing[k] # None /\ desired[k] = None}
    /\ UNCHANGED <<api, caches, queue, desired, existing, changes, failures>>

\* delete: by name, whatever is there now; NotFound is success.
DeleteNetworkPolicy(k) ==
    /\ pc = "delete" /\ k \in todo
    /\ nps' = [nps EXCEPT ![k] = None]
    /\ Done(k)
    /\ UNCHANGED <<cnps, namespaces, caches, queue, changes, failures>>

FinishPass ==
    /\ pc = "delete" /\ todo = {}
    /\ EndPass
    /\ UNCHANGED <<api, caches, queue, changes, failures>>

\* A write takes effect but its answer is lost: the pass ends all the same.
AnswerLost(k) ==
    /\ pc \in {"apply", "delete"} /\ k \in todo /\ failures < MaxFailures
    /\ failures' = failures + 1
    /\ \/ pc = "delete" /\ nps' = [nps EXCEPT ![k] = None]
       \/ /\ pc = "apply" /\ nps[k] = existing[k]
          /\ namespaces[k[1]] # None /\ desired[k].rules # "rejected"
          /\ nps' = [nps EXCEPT ![k] = Managed(desired[k])]
    /\ EndPass
    /\ UNCHANGED <<cnps, namespaces, caches, queue, changes>>

\* A request of the pass fails: the pass ends, and is not requested again.
RequestFails ==
    /\ pc # "idle" /\ failures < MaxFailures
    /\ failures' = failures + 1
    /\ EndPass
    /\ UNCHANGED <<api, caches, queue, changes>>

\* The agent restarts, and syncs its caches before its first pass.
Restart ==
    /\ failures < MaxFailures
    /\ failures' = failures + 1
    /\ cnpCache' = cnps /\ nsCache' = namespaces
    /\ queue' = TRUE
    /\ EndPass
    /\ UNCHANGED <<api, changes>>

Reconcile ==
    \/ StartPass \/ ListManaged \/ StartDeletes \/ FinishPass
    \/ \E k \in Key : CreateNetworkPolicy(k) \/ UpdateNetworkPolicy(k) \/ DeleteNetworkPolicy(k)

Users ==
    \/ \E p \in Policies : ApplyPolicy(p) \/ DeletePolicy(p)
    \/ \E n \in Namespaces : ChangeNamespace(n)
    \/ \E k \in Key : EditNetworkPolicy(k) \/ CreateForeign(k)

Deliver ==
    \/ \E p \in Policies : DeliverPolicy(p)
    \/ \E n \in Namespaces : DeliverNamespace(n)

Collect == \E k \in Key : CollectGarbage(k)

Next ==
    \/ Users \/ Collect \/ Deliver \/ Resync \/ Reconcile \/ RequestFails \/ Restart
    \/ \E k \in Key : AnswerLost(k)

Spec == Init /\ [][Next]_vars

\* The controller's goroutine and the informers run; the resync timer fires.
FairSpec == /\ Spec
            /\ WF_vars(Reconcile) /\ WF_vars(Deliver)
            /\ WF_vars(Resync) /\ WF_vars(Collect)
-----------------------------------------------------------------------------
\* What the cluster should hold, from the objects themselves.
Wanted == DesiredFrom(cnps, namespaces)

Acceptable == \A p \in Policies :
    cnps[p] # None => cnps[p].rules \notin {"badSelector", "rejected"}

\* Once users leave the cluster alone and requests succeed, every managed
\* NetworkPolicy is wanted and up to date, and every wanted one is there,
\* unless a NetworkPolicy of somebody else has its name.
Converges ==
    <>[](Acceptable => \A k \in Key :
            \/ nps[k] # None /\ ~nps[k].managed
            \/ IF Wanted[k] = None THEN nps[k] = None
               ELSE nps[k] # None /\ Same(nps[k], Wanted[k]))

\* The resync catches "drift (e.g. a managed NetworkPolicy edited by hand)":
\* one that fjord created is brought back to what its policy says.
DriftRepaired ==
    <>[](Acceptable => \A k \in Key :
            nps[k] # None /\ nps[k].owner # None /\ Wanted[k] # None =>
                nps[k].rules = Wanted[k].rules)

\* The managed-by label is there to clean up "without touching NetworkPolicies
\* created by anyone else": a step of the controller leaves those alone.
ForeignUntouched ==
    [][\A k \in Key : nps[k] # None /\ nps[k].owner = None =>
          (Reconcile => nps'[k] = nps[k])]_vars

\* A pass never writes over a NetworkPolicy that is not labelled as managed:
\* listing, comparing and writing are three requests, and somebody may take the
\* name over between them.
ForeignNeverOverwritten ==
    [][\A k \in Key : nps[k] # None /\ ~nps[k].managed =>
          (Reconcile => nps'[k] = None \/ nps'[k] = nps[k])]_vars

\* No pass removes a NetworkPolicy that is wanted, by the policies and namespaces
\* there are, for good: what it deletes is not wanted, or a cache lags or another
\* pass is already asked for, and that one puts it back.
DeletesOnlyUnwanted ==
    [][\A k \in Key : nps[k] # None /\ nps'[k] = None /\ Reconcile =>
          Wanted[k] = None \/ cnpCache # cnps \/ nsCache # namespaces \/ queue]_vars
=============================================================================
