----------------------- MODULE LoadBalancerController -----------------------
(***************************************************************************)
(* LoadBalancerController (internal/agent/loadbalancercontroller.go):      *)
(* every class-less Service of type LoadBalancer that has no ingress gets  *)
(* the node addresses as its ingress.                                      *)
(*                                                                         *)
(* Informer events and a periodic resync fill a queue of one slot; each    *)
(* request taken from it is a pass over the Services of the informer's     *)
(* cache.  A pass stops at its first error, and the request is not put     *)
(* back.  The API server checks the resourceVersion of every status write. *)
(* The agent's ClusterRole is installed without some of the permissions the *)
(* controller needs; an administrator may add them.                        *)
(***************************************************************************)
EXTENDS Naturals

CONSTANTS
    Services, Addresses,
    None,
    Foreign,        \* an ingress written by another LoadBalancer implementation
    Edits,          \* the sets of rules an administrator adds to the ClusterRole
    MaxChanges,     \* bound: changes made by users and other controllers
    MaxFailures     \* bound: requests that fail, and restarts

\* nodeAddress of a Node that has neither kind of address is "", which
\* desiredIngress leaves out: a node without an address is no node here.
Ingress == (SUBSET Addresses) \cup {Foreign}
\* rv changes with every write of a user; a status write changes ingress.
Service == [lb : BOOLEAN, class : BOOLEAN, ingress : Ingress, rv : 1..MaxChanges]

VARIABLES
    services, nodes,            \* objects of the API server
    granted,                    \* what the agent's ClusterRole permits
    serviceCache, nodeCache,    \* the informers' stores
    started,        \* the caches have synced
    queue,          \* the slot of the queue is taken
    pass,           \* the reconcile pass under way, or NoPass
    changes, failures

api == <<services, nodes, granted>>
caches == <<serviceCache, nodeCache>>
counters == <<changes, failures>>
vars == <<api, caches, started, queue, pass, counters>>

Readable == {"list services", "list nodes"}

\* What the controller asks of the API server.
Needed == Readable \cup {"update services/status"}

\* ensureClusterRole, as far as the controller uses it.
AgentRules == {"list services"}

NoPass == [todo |-> {}, copies |-> [s \in Services |-> None], desired |-> {}, running |-> FALSE]
Pass == [todo : SUBSET Services, copies : [Services -> Service \cup {None}],
         desired : SUBSET Addresses, running : BOOLEAN]

TypeOK ==
    /\ services \in [Services -> Service \cup {None}]
    /\ nodes \subseteq Addresses /\ granted \subseteq Needed
    /\ serviceCache \in [Services -> Service \cup {None}]
    /\ nodeCache \subseteq Addresses
    /\ started \in BOOLEAN /\ queue \in BOOLEAN
    /\ pass \in Pass /\ (~pass.running => pass = NoPass)
    /\ changes \in 0..MaxChanges /\ failures \in 0..MaxFailures

Init ==
    /\ services = [s \in Services |-> None]
    /\ nodes \in SUBSET Addresses /\ granted = AgentRules
    /\ serviceCache = services /\ nodeCache = {}
    /\ started = FALSE /\ queue = FALSE
    /\ pass = NoPass
    /\ changes = 0 /\ failures = 0
-----------------------------------------------------------------------------
(* Users, other controllers, nodes.                                         *)

Change == changes < MaxChanges /\ changes' = changes + 1

\* A Service is created or its spec changed.  The API server clears the ingress
\* of a Service that is no LoadBalancer.
ApplyService(s) ==
    /\ Change
    /\ \E lb, class \in BOOLEAN :
          services' = [services EXCEPT ![s] =
              [lb |-> lb, class |-> class, rv |-> changes',
               ingress |-> IF lb /\ services[s] # None THEN services[s].ingress ELSE {}]]
    /\ UNCHANGED <<nodes, granted, caches, started, queue, pass, failures>>

\* Another implementation claims a Service, whatever its class.
ForeignClaim(s) ==
    /\ Change
    /\ services[s] # None /\ services[s].lb
    /\ services' = [services EXCEPT ![s].ingress = Foreign, ![s].rv = changes']
    /\ UNCHANGED <<nodes, granted, caches, started, queue, pass, failures>>

DeleteService(s) ==
    /\ Change
    /\ services[s] # None
    /\ services' = [services EXCEPT ![s] = None]
    /\ UNCHANGED <<nodes, granted, caches, started, queue, pass, failures>>

ChangeNodes ==
    /\ Change
    /\ \E ns \in SUBSET Addresses : ns # nodes /\ nodes' = ns
    /\ UNCHANGED <<services, granted, caches, started, queue, pass, failures>>

\* An administrator adds rules to the ClusterRole, which ensureClusterRole leaves
\* as it finds it.  Nothing makes anybody do so.
Grant ==
    /\ \E rules \in Edits : ~(rules \subseteq granted) /\ granted' = granted \cup rules
    /\ UNCHANGED <<services, nodes, caches, started, queue, pass, counters>>
-----------------------------------------------------------------------------
(* Informers.                                                               *)

\* Run: both caches are filled, then the first pass is requested.
Start ==
    /\ ~started
    /\ Readable \subseteq granted
    /\ started' = TRUE
    /\ serviceCache' = services /\ nodeCache' = nodes
    /\ queue' = TRUE
    /\ UNCHANGED <<api, pass, counters>>

DeliverService(s) ==
    /\ started /\ serviceCache[s] # services[s]
    /\ serviceCache' = [serviceCache EXCEPT ![s] = services[s]]
    /\ queue' = TRUE
    /\ UNCHANGED <<api, nodeCache, started, pass, counters>>

DeliverNodes ==
    /\ started /\ nodeCache # nodes
    /\ nodeCache' = nodes
    /\ queue' = TRUE
    /\ UNCHANGED <<api, serviceCache, started, pass, counters>>

\* Mutant: the update events of a resync, old and new object equal, are ignored.
Resync_NoEnqueue == started /\ UNCHANGED vars

\* LoadBalancerControllerResyncPeriod: an update event for every cached object.
Resync ==
    /\ started
    /\ queue' = TRUE
    /\ UNCHANGED <<api, caches, started, pass, counters>>
-----------------------------------------------------------------------------
(* Passes: reconcile.                                                       *)

\* The request is taken; listNodes and listServices read the caches.
StartPass ==
    /\ started /\ queue /\ ~pass.running
    /\ queue' = FALSE
    /\ pass' = [todo |-> {s \in Services : serviceCache[s] # None}, copies |-> serviceCache,
                desired |-> nodeCache, running |-> TRUE]
    /\ UNCHANGED <<api, caches, started, counters>>

\* The early returns of reconcileService, on the listed copy.
Claimable(s) ==
    LET svc == pass.copies[s] IN
    svc.lb /\ ~svc.class /\ svc.ingress = {} /\ pass.desired # {}

Handled(s) == pass' = [pass EXCEPT !.todo = @ \ {s}]

\* The first error ends the pass.
Abort == pass' = NoPass

SkipService(s) ==
    /\ s \in pass.todo /\ ~Claimable(s)
    /\ Handled(s)
    /\ UNCHANGED <<api, caches, started, queue, counters>>

MayWrite == "update services/status" \in granted

\* Mutant: the status is written whatever has happened to the Service since.
Current_Unchecked(s) == services[s] # None

\* The resourceVersion of the listed copy is the stored one.
Current(s) == services[s] = pass.copies[s]

\* UpdateStatus with the node addresses.
Claim(s) ==
    /\ s \in pass.todo /\ Claimable(s) /\ MayWrite /\ Current(s)
    /\ services' = [services EXCEPT ![s].ingress = pass.desired]
    /\ Handled(s)
    /\ UNCHANGED <<nodes, granted, caches, started, queue, counters>>

\* A conflict, NotFound or Forbidden.
ClaimConflict(s) ==
    /\ s \in pass.todo /\ Claimable(s)
    /\ MayWrite => ~Current(s)
    /\ Abort
    /\ UNCHANGED <<api, caches, started, queue, counters>>

\* The request fails, with or without an effect.
ClaimFails(s) ==
    /\ s \in pass.todo /\ Claimable(s) /\ failures < MaxFailures
    /\ failures' = failures + 1
    /\ \/ UNCHANGED services
       \/ MayWrite /\ Current(s) /\ services' = [services EXCEPT ![s].ingress = pass.desired]
    /\ Abort
    /\ UNCHANGED <<nodes, granted, caches, started, queue, changes>>

EndPass ==
    /\ pass.running /\ pass.todo = {}
    /\ pass' = NoPass
    /\ UNCHANGED <<api, caches, started, queue, counters>>

Restart ==
    /\ started /\ failures < MaxFailures
    /\ failures' = failures + 1
    /\ started' = FALSE /\ queue' = FALSE /\ pass' = NoPass
    /\ UNCHANGED <<api, caches, changes>>

Controller ==
    \/ StartPass \/ EndPass
    \/ \E s \in Services : SkipService(s) \/ Claim(s) \/ ClaimConflict(s)

Next ==
    \/ \E s \in Services : ApplyService(s) \/ ForeignClaim(s) \/ DeleteService(s)
    \/ ChangeNodes \/ Grant
    \/ Start \/ DeliverNodes \/ Resync \/ Restart
    \/ Controller
    \/ \E s \in Services : DeliverService(s) \/ ClaimFails(s)

Spec == Init /\ [][Next]_vars

\* The informers, their resync timer and the loop of Run go on.
FairSpec ==
    /\ Spec
    /\ WF_vars(Start) /\ WF_vars(DeliverNodes) /\ WF_vars(Resync) /\ WF_vars(Controller)
    /\ \A s \in Services : WF_vars(DeliverService(s))
-----------------------------------------------------------------------------
Eligible(s) == services[s] # None /\ services[s].lb /\ ~services[s].class

\* "It never touches a Service whose ingress is already populated, by us or by
\* anything else" (and none with a class): judged by what the API server holds
\* when the write arrives, not by the cached copy the decision was made on.
ClaimStep ==
    \A s \in Services :
        services'[s] # services[s] /\ changes' = changes =>
            Eligible(s) /\ services[s].ingress = {}
ClaimsOnlyUnclaimed == [][ClaimStep]_vars

Claimed == nodes # {} => \A s \in Services : Eligible(s) => services[s].ingress # {}

\* "for every class-less type: LoadBalancer Service with no ingress yet, claims
\* it": once changes and failures stop and there is a node, whatever pass was
\* aborted, every eligible Service has an ingress, provided that the rules missing
\* in the ClusterRole have been added.
Claims == <>[](Needed \subseteq granted) => <>[]Claimed

\* The same with the ClusterRole as installed.  It does not hold.
ClaimsAsInstalled == <>[]Claimed

\* The resync is for "catching a node set change (added, removed, or an IP
\* change)": in the end the published addresses are the nodes'.
IngressFollowsNodes ==
    <>[](\A s \in Services : Eligible(s) => services[s].ingress \in {{}, Foreign, nodes})
=============================================================================
