-------------------- MODULE TargetGroupBindingController --------------------
(***************************************************************************)
(* TargetGroupBindingController (internal/agent/targetgroupbinding.go and  *)
(* targetgroupbindingcontroller.go): for every TargetGroupBinding, the     *)
(* targets a load balancer would have are resolved from its Service, the   *)
(* EndpointSlices of that Service and the Nodes, and written to its status.*)
(*                                                                         *)
(* Four informers without resync feed a rate limited work queue that two   *)
(* workers drain.  The informers' caches trail the API server; the status  *)
(* is written with the resourceVersion of the cached object.  Nothing      *)
(* happens before all four informers have synced, which takes the          *)
(* permission to list and watch what they read.  The agent's ClusterRole   *)
(* is installed without some of it; an administrator may add it.           *)
(***************************************************************************)
EXTENDS Naturals

CONSTANTS
    Bindings, Services, Slices, Addresses,
    Workers,        \* targetGroupBindingWorkers of them
    None,
    Edits,          \* the sets of rules an administrator adds to the ClusterRole
    Owner,          \* slice -> the Service its controller made it for
    Relabelling,    \* whether users move an EndpointSlice to another Service
    MaxChanges,     \* bound: changes made by users and other controllers
    MaxFailures     \* bound: requests that fail, and restarts

TargetTypes == {"ip", "instance"}
\* A Service: whether it has a selector, whether its type has node ports and
\* the port referred to got one, and whether it has that port at all.
Service == [selector : BOOLEAN, nodePort : {"unsupported", "unallocated", "allocated"},
            hasPort : BOOLEAN]
Slice == [service : Services, ready : SUBSET Addresses]
Status == [generation : 0..MaxChanges, type : TargetTypes, targets : SUBSET Addresses]
Binding == [service : Services, type : TargetTypes, generation : 0..MaxChanges,
            status : Status \cup {None}]

ASSUME BoundsAssumption == MaxChanges \in Nat /\ MaxFailures \in Nat
ASSUME NoneAssumption == None \notin Binding \cup Service \cup Slice \cup Status

VARIABLES
    bindings, services, slices, nodes,              \* objects of the API server
    granted,        \* what the agent's ClusterRole permits
    bindingCache, serviceCache, sliceCache, nodeCache,
    started,        \* the caches have synced and the workers run
    dirty,          \* work queue: keys to process
    processing,     \* work queue: keys handed to a worker
    delayed,        \* work queue: keys waiting for their rate limit
    job,            \* worker -> what it does
    typeAt,         \* history: the target type of each generation
    changes, failures

api == <<bindings, services, slices, nodes, granted>>
caches == <<bindingCache, serviceCache, sliceCache, nodeCache>>
queue == <<dirty, processing, delayed>>
counters == <<typeAt, changes, failures>>
vars == <<api, caches, started, queue, job, counters>>

Readable == {"list targetgroupbindings", "list services", "list endpointslices", "list nodes"}

\* What the controller asks of the API server.
Needed == Readable \cup {"update targetgroupbindings/status"}

\* targetGroupBindingControllerRules, as far as the controller uses them.
AgentRules == {"list targetgroupbindings", "list services"}

ASSUME EditsAssumption == \A rules \in Edits : rules \subseteq Needed

NoJob == [step |-> "idle"]
Job == {NoJob} \cup [step : {"resolve"}, key : Bindings]
         \cup [step : {"write"}, key : Bindings, copy : Binding, desired : Status]

TypeOK ==
    /\ bindings \in [Bindings -> Binding \cup {None}]
    /\ services \in [Services -> Service \cup {None}]
    /\ slices \in [Slices -> Slice \cup {None}]
    /\ nodes \subseteq Addresses /\ granted \subseteq Needed
    /\ bindingCache \in [Bindings -> Binding \cup {None}]
    /\ serviceCache \in [Services -> Service \cup {None}]
    /\ sliceCache \in [Slices -> Slice \cup {None}]
    /\ nodeCache \subseteq Addresses
    /\ started \in BOOLEAN
    /\ dirty \subseteq Bindings /\ processing \subseteq Bindings /\ delayed \subseteq Bindings
    /\ job \in [Workers -> Job]
    /\ typeAt \in [0..MaxChanges -> TargetTypes \cup {None}]
    /\ changes \in 0..MaxChanges /\ failures \in 0..MaxFailures

Init ==
    /\ bindings = [b \in Bindings |-> None]
    /\ services \in [Services -> {[selector |-> TRUE, nodePort |-> "allocated", hasPort |-> TRUE]}]
    /\ slices = [e \in Slices |-> None]
    /\ nodes = Addresses /\ granted = AgentRules
    /\ bindingCache = bindings /\ serviceCache = services
    /\ sliceCache = slices /\ nodeCache = nodes
    /\ started = FALSE
    /\ dirty = {} /\ processing = {} /\ delayed = {}
    /\ job = [w \in Workers |-> NoJob]
    /\ typeAt = [g \in 0..MaxChanges |-> None]
    /\ changes = 0 /\ failures = 0

\* resolveTargets: TRUE when it returns an error.
Unresolvable(b, svc) ==
    \/ ~svc.hasPort
    \/ IF b.type = "instance" THEN svc.nodePort = "unsupported" ELSE ~svc.selector

\* resolveIPTargets: the ready endpoints of the slices labelled with the Service.
IPTargets(name, es) ==
    UNION {es[e].ready : e \in {e \in Slices : es[e] # None /\ es[e].service = name}}

\* resolveInstanceTargets: the node addresses, if there is a nodePort.
InstanceTargets(svc, ns) == IF svc.nodePort = "allocated" THEN ns ELSE {}

\* resolveTargets; sorted, so a set says as much.
ResolvedTargets(b, svc, es, ns) ==
    IF b.type = "instance" THEN InstanceTargets(svc, ns) ELSE IPTargets(b.service, es)

\* The status reconcile asks updateStatus to write.
Desired(b, svc, es, ns) ==
    [generation |-> b.generation, type |-> b.type, targets |-> ResolvedTargets(b, svc, es, ns)]

\* What reconcile finds in the informers' caches.
CachedDesired(b) == Desired(b, serviceCache[b.service], sliceCache, nodeCache)
-----------------------------------------------------------------------------
(* Users and other controllers.                                             *)

Change == changes < MaxChanges /\ changes' = changes + 1

\* A TargetGroupBinding is created, its spec changed, or it is deleted.
ApplyBinding(b) ==
    /\ Change
    /\ \E svc \in Services, type \in TargetTypes :
          /\ bindings' = [bindings EXCEPT ![b] =
                 [service |-> svc, type |-> type, generation |-> changes',
                  status |-> IF bindings[b] = None THEN None ELSE bindings[b].status]]
          /\ typeAt' = [typeAt EXCEPT ![changes'] = type]
    /\ UNCHANGED <<services, slices, nodes, granted, caches, started, queue, job, failures>>

DeleteBinding(b) ==
    /\ Change
    /\ bindings[b] # None
    /\ bindings' = [bindings EXCEPT ![b] = None]
    /\ UNCHANGED <<services, slices, nodes, granted, caches, started, queue, job, typeAt, failures>>

ChangeService(s) ==
    /\ Change
    /\ \E v \in (Service \cup {None}) \ {services[s]} :
          services' = [services EXCEPT ![s] = v]
    /\ UNCHANGED <<bindings, slices, nodes, granted, caches, started, queue, job, typeAt, failures>>

\* Endpoints come, go, or change their readiness; the slice stays with the
\* Service it was made for, unless somebody edits its label.
ChangeSlice(e) ==
    /\ Change
    /\ \E v \in (Slice \cup {None}) \ {slices[e]} :
          /\ v # None /\ ~Relabelling => v.service = Owner[e]
          /\ slices' = [slices EXCEPT ![e] = v]
    /\ UNCHANGED <<bindings, services, nodes, granted, caches, started, queue, job, typeAt, failures>>

ChangeNodes ==
    /\ Change
    /\ \E ns \in SUBSET Addresses : ns # nodes /\ nodes' = ns
    /\ UNCHANGED <<bindings, services, slices, granted, caches, started, queue, job, typeAt, failures>>

\* An administrator adds rules to the ClusterRole, which ensureClusterRole leaves
\* as it finds it.  Nothing makes anybody do so.
Grant ==
    /\ \E rules \in Edits : ~(rules \subseteq granted) /\ granted' = granted \cup rules
    /\ UNCHANGED <<bindings, services, slices, nodes, caches, started, queue, job, counters>>
-----------------------------------------------------------------------------
(* Informers: the cache follows the object, then the handler enqueues.      *)

Referring(s) == {b \in Bindings : bindingCache[b] # None /\ bindingCache[b].service = s}
Known == {b \in Bindings : bindingCache[b] # None}

\* Run: the informers list everything and the workers start.  Every binding is
\* enqueued by its Add event.
Start ==
    /\ ~started
    /\ Readable \subseteq granted
    /\ started' = TRUE
    /\ bindingCache' = bindings /\ serviceCache' = services
    /\ sliceCache' = slices /\ nodeCache' = nodes
    /\ dirty' = {b \in Bindings : bindings[b] # None}
    /\ UNCHANGED <<api, processing, delayed, job, counters>>

DeliverBinding(b) ==
    /\ started /\ bindingCache[b] # bindings[b]
    /\ bindingCache' = [bindingCache EXCEPT ![b] = bindings[b]]
    /\ dirty' = dirty \cup {b}
    /\ UNCHANGED <<api, serviceCache, sliceCache, nodeCache, started, processing, delayed,
                   job, counters>>

DeliverService(s) ==
    /\ started /\ serviceCache[s] # services[s]
    /\ serviceCache' = [serviceCache EXCEPT ![s] = services[s]]
    /\ dirty' = dirty \cup Referring(s)
    /\ UNCHANGED <<api, bindingCache, sliceCache, nodeCache, started, processing, delayed,
                   job, counters>>

\* enqueueTargetGroupBindingsForEndpointSlice: by the label of the new object,
\* or of the deleted one.
DeliverSlice(e) ==
    /\ started /\ sliceCache[e] # slices[e]
    /\ sliceCache' = [sliceCache EXCEPT ![e] = slices[e]]
    /\ dirty' = dirty \cup Referring(IF slices[e] # None THEN slices[e].service
                                     ELSE sliceCache[e].service)
    /\ UNCHANGED <<api, bindingCache, serviceCache, nodeCache, started, processing, delayed,
                   job, counters>>

\* Mutant: node changes are not watched.
DeliverNodes_NoEnqueue ==
    /\ started /\ nodeCache # nodes
    /\ nodeCache' = nodes
    /\ UNCHANGED <<api, bindingCache, serviceCache, sliceCache, started, queue, job, counters>>

\* enqueueAllTargetGroupBindings
DeliverNodes ==
    /\ started /\ nodeCache # nodes
    /\ nodeCache' = nodes
    /\ dirty' = dirty \cup Known
    /\ UNCHANGED <<api, bindingCache, serviceCache, sliceCache, started, processing, delayed,
                   job, counters>>
-----------------------------------------------------------------------------
(* Workers: runWorker and reconcile.                                        *)

\* queue.Get: a key is never handed to two workers at once.
GetKey(w) ==
    /\ started /\ job[w].step = "idle"
    /\ \E b \in dirty \ processing :
          /\ dirty' = dirty \ {b}
          /\ processing' = processing \cup {b}
          /\ job' = [job EXCEPT ![w] = [step |-> "resolve", key |-> b]]
    /\ UNCHANGED <<api, caches, started, delayed, counters>>

\* queue.Forget and queue.Done.
Succeed(w) ==
    /\ processing' = processing \ {job[w].key}
    /\ job' = [job EXCEPT ![w] = NoJob]
    /\ UNCHANGED <<dirty, delayed>>

\* Mutant: a key that failed is dropped.
FailJob_Forgets(w) == Succeed(w)

\* queue.AddRateLimited and queue.Done.
FailJob(w) ==
    /\ processing' = processing \ {job[w].key}
    /\ delayed' = delayed \cup {job[w].key}
    /\ job' = [job EXCEPT ![w] = NoJob]
    /\ UNCHANGED dirty

\* There is no such binding, its targets cannot be resolved (the error is
\* logged), or its cached status says so already: nothing is written.
NothingToWrite(w) ==
    LET b == bindingCache[job[w].key] IN
    /\ job[w].step = "resolve"
    /\ \/ b = None
       \/ /\ b # None /\ serviceCache[b.service] # None
          /\ \/ Unresolvable(b, serviceCache[b.service])
             \/ b.status = CachedDesired(b)
    /\ Succeed(w)
    /\ UNCHANGED <<api, caches, started, counters>>

\* The Service is not in the cache: an error, so the key comes back.
ServiceMissing(w) ==
    LET b == bindingCache[job[w].key] IN
    /\ job[w].step = "resolve"
    /\ b # None /\ serviceCache[b.service] = None
    /\ FailJob(w)
    /\ UNCHANGED <<api, caches, started, counters>>

Resolve(w) ==
    LET b == bindingCache[job[w].key] IN
    /\ job[w].step = "resolve"
    /\ b # None /\ serviceCache[b.service] # None
    /\ ~Unresolvable(b, serviceCache[b.service])
    /\ b.status # CachedDesired(b)
    /\ job' = [job EXCEPT ![w] = [step |-> "write", key |-> job[w].key, copy |-> b,
                                  desired |-> CachedDesired(b)]]
    /\ UNCHANGED <<api, caches, started, queue, counters>>

MayWrite == "update targetgroupbindings/status" \in granted

\* The resourceVersion of the cached object is still the stored one.
Current(w) == bindings[job[w].key] = job[w].copy

\* Mutant: the generation is taken from the live object.
UpdateStatus_LiveGeneration(w) ==
    /\ job[w].step = "write" /\ MayWrite /\ bindings[job[w].key] # None
    /\ bindings' = [bindings EXCEPT ![job[w].key].status =
           [job[w].desired EXCEPT !.generation = bindings[job[w].key].generation]]
    /\ Succeed(w)
    /\ UNCHANGED <<services, slices, nodes, granted, caches, started, counters>>

\* updateStatus: UpdateStatus of the cached object.
UpdateStatus(w) ==
    /\ job[w].step = "write" /\ MayWrite /\ Current(w)
    /\ bindings' = [bindings EXCEPT ![job[w].key].status = job[w].desired]
    /\ Succeed(w)
    /\ UNCHANGED <<services, slices, nodes, granted, caches, started, counters>>

\* A conflict, NotFound or Forbidden.
UpdateConflict(w) ==
    /\ job[w].step = "write"
    /\ MayWrite => ~Current(w)
    /\ FailJob(w)
    /\ UNCHANGED <<api, caches, started, counters>>

\* The request fails, with or without an effect.
UpdateFails(w) ==
    /\ job[w].step = "write" /\ failures < MaxFailures
    /\ failures' = failures + 1
    /\ \/ UNCHANGED bindings
       \/ /\ MayWrite /\ Current(w)
          /\ bindings' = [bindings EXCEPT ![job[w].key].status = job[w].desired]
    /\ FailJob(w)
    /\ UNCHANGED <<services, slices, nodes, granted, caches, started, typeAt, changes>>

\* The rate limit of a key is over.
Readd(b) ==
    /\ b \in delayed
    /\ delayed' = delayed \ {b}
    /\ dirty' = dirty \cup {b}
    /\ UNCHANGED <<api, caches, started, processing, job, counters>>

Restart ==
    /\ started /\ failures < MaxFailures
    /\ failures' = failures + 1
    /\ started' = FALSE
    /\ dirty' = {} /\ processing' = {} /\ delayed' = {}
    /\ job' = [w \in Workers |-> NoJob]
    /\ UNCHANGED <<api, caches, typeAt, changes>>

Users ==
    \/ \E b \in Bindings : ApplyBinding(b) \/ DeleteBinding(b)
    \/ \E s \in Services : ChangeService(s)
    \/ \E e \in Slices : ChangeSlice(e)
    \/ ChangeNodes \/ Grant

Deliver ==
    \/ \E b \in Bindings : DeliverBinding(b)
    \/ \E s \in Services : DeliverService(s)
    \/ \E e \in Slices : DeliverSlice(e)
    \/ DeliverNodes

Work(w) ==
    \/ GetKey(w) \/ NothingToWrite(w) \/ ServiceMissing(w) \/ Resolve(w)
    \/ UpdateStatus(w) \/ UpdateConflict(w)

Timers == \E b \in Bindings : Readd(b)

Next ==
    \/ Users \/ Start \/ Deliver \/ Timers \/ Restart
    \/ \E w \in Workers : Work(w) \/ UpdateFails(w)

Spec == Init /\ [][Next]_vars

\* The informers, the workers and the timers of the queue run.
FairSpec ==
    /\ Spec
    /\ WF_vars(Start) /\ WF_vars(Deliver) /\ \A b \in Bindings : WF_vars(Readd(b))
    /\ \A w \in Workers : WF_vars(Work(w))
-----------------------------------------------------------------------------
Converged ==
    \A b \in Bindings :
        bindings[b] # None => LET svc == services[bindings[b].service] IN
            svc # None => Unresolvable(bindings[b], svc)
                          \/ bindings[b].status = Desired(bindings[b], svc, slices, nodes)

\* "any change that could affect a TargetGroupBinding's resolved targets ... is
\* picked up": once changes stop and requests succeed, the status of every
\* binding whose targets can be resolved is what they resolve to, provided that
\* the rules missing in the ClusterRole have been added, in whatever order and
\* also after writes were refused.
Converges == <>[](Needed \subseteq granted) => <>[]Converged

\* targetGroupBindingControllerRules are "the PolicyRules [the controller] needs":
\* it converges with the ClusterRole as installed.  It does not.
ConvergesAsInstalled == <>[]Converged

\* observedGeneration is honest: the target type the status reports is the one
\* the spec of that generation asked for.
StatusIsOfItsGeneration ==
    \A b \in Bindings : bindings[b] # None => LET st == bindings[b].status IN
        st # None => st.type = typeAt[st.generation] /\ st.generation <= bindings[b].generation

\* No change is forgotten: a binding whose cached inputs resolve to something
\* else than its cached status is queued, being processed, or its cached object
\* is out of date, so an event is still to come.
NothingForgotten ==
    started => \A b \in Bindings :
        LET c == bindingCache[b] IN
        /\ c # None /\ c = bindings[b]
        /\ serviceCache[c.service] # None /\ ~Unresolvable(c, serviceCache[c.service])
        /\ c.status # CachedDesired(c)
        => b \in dirty \cup processing \cup delayed
=============================================================================
