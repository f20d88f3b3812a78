----------------- MODULE TargetGroupBindingControllerProofs -----------------
(***************************************************************************)
(* Proofs about TargetGroupBindingController, for any bindings, Services,  *)
(* slices, nodes, workers and bounds.  Changes, watch events, both halves  *)
(* of a reconcile, failing requests and restarts come in any order.        *)
(***************************************************************************)
EXTENDS TargetGroupBindingController, TLAPS

Busy(w) == job[w].step # "idle"
Writing(w) == job[w].step = "write"

\* Workers run only after Start, and the queue hands a key to one of them.
QueueOK ==
    /\ ~started => \A w \in Workers : ~Busy(w)
    /\ \A w \in Workers : Busy(w) => job[w].key \in processing
    /\ \A v, w \in Workers : Busy(v) /\ Busy(w) /\ job[v].key = job[w].key => v = w

\* A generation was given to one spec, whose target type typeAt remembers.
Dated(b) == b.generation <= changes /\ b.type = typeAt[b.generation]
Generations ==
    /\ \A b \in Bindings : bindings[b] # None => Dated(bindings[b])
    /\ \A b \in Bindings : bindingCache[b] # None => Dated(bindingCache[b])
    /\ \A w \in Workers : Writing(w) => Dated(job[w].copy)

\* A worker writes what it resolved for its copy, which says something else; if
\* the copy is still the stored object, the cache has no later one.
JobOK ==
    \A w \in Workers : Writing(w) =>
        /\ job[w].desired.generation = job[w].copy.generation
        /\ job[w].desired.type = job[w].copy.type
        /\ job[w].copy.status # job[w].desired
        /\ bindings[job[w].key] = job[w].copy => bindingCache[job[w].key] = job[w].copy

IInv == TypeOK /\ QueueOK /\ Generations /\ JobOK /\ StatusIsOfItsGeneration
-----------------------------------------------------------------------------
\* What resolveTargets returns are addresses.
LEMMA DesiredType ==
    ASSUME TypeOK, NEW b \in Binding, NEW svc
    PROVE  /\ Desired(b, svc, sliceCache, nodeCache) \in Status
           /\ Desired(b, svc, sliceCache, nodeCache).generation = b.generation
           /\ Desired(b, svc, sliceCache, nodeCache).type = b.type
<1>1. IPTargets(b.service, sliceCache) \subseteq Addresses
  <2>1. \A e \in Slices : sliceCache[e] # None => sliceCache[e].ready \subseteq Addresses
    BY DEF TypeOK, Slice
  <2> QED
    BY <2>1 DEF IPTargets
<1>2. InstanceTargets(svc, nodeCache) \subseteq Addresses
  BY DEF InstanceTargets, TypeOK
<1>3. ResolvedTargets(b, svc, sliceCache, nodeCache) \in SUBSET Addresses
  BY <1>1, <1>2 DEF ResolvedTargets
<1> QED
  BY <1>3 DEF Desired, Status, Binding

\* A worker's job has the fields of its step.
LEMMA JobFields ==
    ASSUME TypeOK, NEW w \in Workers
    PROVE  /\ job[w].step \in {"idle", "resolve", "write"}
           /\ Busy(w) => job[w].key \in Bindings
           /\ Writing(w) => Busy(w) /\ job[w].copy \in Binding /\ job[w].desired \in Status
<1>1. job[w] \in Job
  BY DEF TypeOK
<1> QED
  BY <1>1 DEF Job, NoJob, Busy, Writing

\* Writing a status leaves the spec and the generation alone.
LEMMA StatusWritten ==
    ASSUME TypeOK, NEW k \in Bindings, NEW st \in Status, bindings[k] # None,
           bindings' = [bindings EXCEPT ![k].status = st]
    PROVE  /\ bindings'[k] \in Binding
           /\ bindings'[k].status = st
           /\ bindings'[k].generation = bindings[k].generation
           /\ bindings'[k].type = bindings[k].type
           /\ \A b \in Bindings \ {k} : bindings'[b] = bindings[b]
           /\ bindings' \in [Bindings -> Binding \cup {None}]
<1>1. bindings[k] \in Binding
  BY DEF TypeOK
<1>2. bindings'[k] = [bindings[k] EXCEPT !.status = st]
  BY DEF TypeOK
<1>3. /\ bindings'[k] \in Binding /\ bindings'[k].status = st
      /\ bindings'[k].generation = bindings[k].generation
      /\ bindings'[k].type = bindings[k].type
  BY <1>1, <1>2 DEF Binding
<1>4. \A b \in Bindings \ {k} : bindings'[b] = bindings[b]
  BY DEF TypeOK
<1> QED
  BY <1>3, <1>4 DEF TypeOK

\* What a worker that ends its job leaves in the queue.
LEMMA Ended ==
    ASSUME TypeOK, NEW w \in Workers, Busy(w), Succeed(w) \/ FailJob(w)
    PROVE  /\ job' \in [Workers -> Job] /\ ~Busy(w)'
           /\ \A v \in Workers \ {w} : job'[v] = job[v]
           /\ processing' = processing \ {job[w].key} /\ dirty' = dirty
           /\ delayed \subseteq delayed' /\ delayed' \subseteq delayed \cup {job[w].key}
           /\ FailJob(w) => job[w].key \in delayed'
           /\ processing' \subseteq Bindings /\ delayed' \subseteq Bindings
<1>1. NoJob \in Job /\ NoJob.step = "idle"
  BY DEF Job, NoJob
<1>2. job' = [job EXCEPT ![w] = NoJob]
  BY DEF Succeed, FailJob
<1>3. job[w].key \in Bindings
  BY JobFields
<1> QED
  BY <1>1, <1>2, <1>3 DEF Succeed, FailJob, TypeOK, Busy
-----------------------------------------------------------------------------
\* Every step keeps the type.
LEMMA TypeStep ==
    ASSUME TypeOK, QueueOK, [Next]_vars
    PROVE  TypeOK'
<1> USE BoundsAssumption
<1>c. Change => changes' \in 0..MaxChanges
  BY DEF Change, TypeOK
<1>1. ASSUME NEW b \in Bindings, ApplyBinding(b)
      PROVE  TypeOK'
  <2>1. PICK svc \in Services, type \in TargetTypes :
          /\ bindings' = [bindings EXCEPT ![b] =
                 [service |-> svc, type |-> type, generation |-> changes',
                  status |-> IF bindings[b] = None THEN None ELSE bindings[b].status]]
          /\ typeAt' = [typeAt EXCEPT ![changes'] = type]
    BY <1>1 DEF ApplyBinding
  <2>2. changes' \in 0..MaxChanges
    BY <1>1, <1>c DEF ApplyBinding
  <2>3. (IF bindings[b] = None THEN None ELSE bindings[b].status) \in Status \cup {None}
    BY DEF TypeOK, Binding
  <2>4. bindings' \in [Bindings -> Binding \cup {None}]
    BY <2>1, <2>2, <2>3 DEF TypeOK, Binding
  <2>5. typeAt' \in [0..MaxChanges -> TargetTypes \cup {None}]
    BY <2>1, <2>2 DEF TypeOK
  <2> QED
    BY <1>1, <2>2, <2>4, <2>5 DEF ApplyBinding, caches, queue, TypeOK
<1>2. ASSUME NEW b \in Bindings, DeleteBinding(b)
      PROVE  TypeOK'
  BY <1>2, <1>c DEF DeleteBinding, caches, queue, TypeOK
<1>3. ASSUME NEW s \in Services, ChangeService(s)
      PROVE  TypeOK'
  BY <1>3, <1>c DEF ChangeService, caches, queue, TypeOK
<1>4. ASSUME NEW e \in Slices, ChangeSlice(e)
      PROVE  TypeOK'
  <2>1. slices' \in [Slices -> Slice \cup {None}]
    BY <1>4 DEF ChangeSlice, TypeOK
  <2> QED
    BY <1>4, <1>c, <2>1 DEF ChangeSlice, caches, queue, TypeOK
<1>5. CASE ChangeNodes
  BY <1>5, <1>c DEF ChangeNodes, caches, queue, TypeOK
<1>g. CASE Grant
  BY <1>g, EditsAssumption DEF Grant, caches, queue, counters, TypeOK
<1>6. CASE Start
  BY <1>6 DEF Start, api, counters, TypeOK
<1>7. CASE Deliver
  <2>1. ASSUME NEW b \in Bindings, DeliverBinding(b)
        PROVE  TypeOK'
    BY <2>1 DEF DeliverBinding, api, counters, TypeOK
  <2>2. ASSUME NEW s \in Services, DeliverService(s)
        PROVE  TypeOK'
    BY <2>2 DEF DeliverService, Referring, api, counters, TypeOK
  <2>3. ASSUME NEW e \in Slices, DeliverSlice(e)
        PROVE  TypeOK'
    <3>1. dirty' \subseteq Bindings
      BY <2>3 DEF DeliverSlice, Referring, TypeOK
    <3> QED
      BY <2>3, <3>1 DEF DeliverSlice, api, counters, TypeOK
  <2>4. CASE DeliverNodes
    BY <2>4 DEF DeliverNodes, Known, api, counters, TypeOK
  <2> QED
    BY <1>7, <2>1, <2>2, <2>3, <2>4 DEF Deliver
<1>8. CASE Timers
  BY <1>8 DEF Timers, Readd, api, caches, counters, TypeOK
<1>9. CASE Restart
  <2>1. job' \in [Workers -> Job]
    BY <1>9 DEF Restart, Job
  <2>2. failures' \in 0..MaxFailures
    BY <1>9 DEF Restart, TypeOK
  <2>3. UNCHANGED <<bindings, services, slices, nodes, bindingCache, serviceCache, sliceCache,
                    nodeCache, granted, typeAt, changes>>
    BY <1>9 DEF Restart, api, caches
  <2>4. started' \in BOOLEAN /\ dirty' = {} /\ processing' = {} /\ delayed' = {}
    BY <1>9 DEF Restart
  <2> QED
    BY <2>1, <2>2, <2>3, <2>4 DEF TypeOK
<1>10. ASSUME NEW w \in Workers, GetKey(w)
      PROVE  TypeOK'
  <2>1. PICK b \in dirty \ processing :
          /\ dirty' = dirty \ {b} /\ processing' = processing \cup {b}
          /\ job' = [job EXCEPT ![w] = [step |-> "resolve", key |-> b]]
    BY <1>10 DEF GetKey
  <2>2. b \in Bindings /\ [step |-> "resolve", key |-> b] \in Job
    BY DEF TypeOK, Job
  <2> QED
    BY <1>10, <2>1, <2>2 DEF GetKey, api, caches, counters, TypeOK
<1>11. ASSUME NEW w \in Workers, Resolve(w)
       PROVE  TypeOK'
  <2> DEFINE k == job[w].key  c == bindingCache[k]
             j == [step |-> "write", key |-> k, copy |-> c, desired |-> CachedDesired(c)]
  <2>1. k \in Bindings
    BY <1>11, JobFields DEF Resolve, Busy
  <2>2. c \in Binding
    BY <1>11, <2>1 DEF Resolve, TypeOK
  <2>3. CachedDesired(c) \in Status
    BY <2>2, DesiredType DEF CachedDesired
  <2>4. j \in Job
    BY <2>1, <2>2, <2>3 DEF Job
  <2>5. job' = [job EXCEPT ![w] = j] /\ UNCHANGED <<api, caches, started, queue, counters>>
    BY <1>11 DEF Resolve
  <2> HIDE DEF j
  <2> QED
    BY <2>4, <2>5 DEF api, caches, queue, counters, TypeOK
<1>12. ASSUME NEW w \in Workers, NothingToWrite(w) \/ ServiceMissing(w) \/ UpdateConflict(w)
       PROVE  TypeOK'
  <2>1. Busy(w) /\ (Succeed(w) \/ FailJob(w)) /\ UNCHANGED <<api, caches, started, counters>>
    BY <1>12 DEF NothingToWrite, ServiceMissing, UpdateConflict, Busy
  <2>2. /\ job' \in [Workers -> Job] /\ dirty' = dirty
        /\ processing' \subseteq Bindings /\ delayed' \subseteq Bindings
    BY <2>1, Ended
  <2> QED
    BY <2>1, <2>2 DEF api, caches, counters, TypeOK
<1>13. ASSUME NEW w \in Workers, UpdateStatus(w) \/ UpdateFails(w)
       PROVE  TypeOK'
  <2>1. /\ Writing(w) /\ Busy(w) /\ (Succeed(w) \/ FailJob(w))
        /\ UNCHANGED <<services, slices, nodes, granted, caches, started, typeAt, changes>>
        /\ failures' \in 0..MaxFailures
    BY <1>13 DEF UpdateStatus, UpdateFails, Busy, Writing, counters, TypeOK
  <2>2. /\ job' \in [Workers -> Job] /\ dirty' = dirty
        /\ processing' \subseteq Bindings /\ delayed' \subseteq Bindings
    BY <2>1, Ended
  <2>3. bindings' \in [Bindings -> Binding \cup {None}]
    <3>1. /\ job[w].key \in Bindings /\ job[w].desired \in Status
          /\ Current(w) => bindings[job[w].key] # None
      BY <2>1, JobFields, NoneAssumption DEF Current
    <3>2. \/ bindings' = bindings
          \/ Current(w) /\ bindings' = [bindings EXCEPT ![job[w].key].status = job[w].desired]
      BY <1>13 DEF UpdateStatus, UpdateFails
    <3> QED
      BY <3>1, <3>2, StatusWritten DEF TypeOK
  <2> QED
    BY <2>1, <2>2, <2>3 DEF caches, TypeOK
<1>14. CASE UNCHANGED vars
  BY <1>14 DEF vars, api, caches, queue, counters, TypeOK
<1> QED
  BY <1>1, <1>2, <1>3, <1>4, <1>5, <1>6, <1>7, <1>8, <1>9, <1>10, <1>11, <1>12, <1>13, <1>14, <1>g
     DEF Next, Users, Work
-----------------------------------------------------------------------------
\* The steps that leave the workers, and the keys handed to them, alone.
Outside == Users \/ Start \/ Deliver \/ Timers

\* Outside steps do not touch the workers.
LEMMA OutsideFrame ==
    ASSUME Outside
    PROVE  UNCHANGED <<processing, job>> /\ (started => started')
<1>1. CASE Users
  BY <1>1 DEF Users, ApplyBinding, DeleteBinding, ChangeService, ChangeSlice, ChangeNodes, Grant, queue
<1>2. CASE Start
  BY <1>2 DEF Start
<1>3. CASE Deliver
  BY <1>3 DEF Deliver, DeliverBinding, DeliverService, DeliverSlice, DeliverNodes
<1>4. CASE Timers
  BY <1>4 DEF Timers, Readd
<1> QED
  BY <1>1, <1>2, <1>3, <1>4 DEF Outside

\* A worker that ends its job.
Ends(w) == NothingToWrite(w) \/ ServiceMissing(w) \/ UpdateStatus(w) \/ UpdateConflict(w)
              \/ UpdateFails(w)

\* What it changes.
LEMMA EndsFrame ==
    ASSUME NEW w \in Workers, Ends(w)
    PROVE  /\ Busy(w) /\ (Succeed(w) \/ FailJob(w))
           /\ UNCHANGED <<services, slices, nodes, caches, started, typeAt, changes>>
           /\ \/ bindings' = bindings
              \/ /\ Writing(w) /\ Current(w)
                 /\ bindings' = [bindings EXCEPT ![job[w].key].status = job[w].desired]
<1>1. CASE NothingToWrite(w) \/ ServiceMissing(w) \/ UpdateConflict(w)
  BY <1>1 DEF NothingToWrite, ServiceMissing, UpdateConflict, Busy, api, counters
<1>2. CASE UpdateStatus(w) \/ UpdateFails(w)
  BY <1>2 DEF UpdateStatus, UpdateFails, Busy, Writing, counters
<1> QED
  BY <1>1, <1>2 DEF Ends

\* The ways a step can go.
LEMMA StepCases ==
    ASSUME [Next]_vars
    PROVE  \/ Outside \/ Restart \/ UNCHANGED vars
           \/ \E w \in Workers : GetKey(w) \/ Resolve(w) \/ Ends(w)
  BY DEF Next, Work, Outside, Ends

\* What GetKey and Resolve make of a worker's job.
LEMMA Begun ==
    ASSUME TypeOK, NEW w \in Workers, GetKey(w) \/ Resolve(w)
    PROVE  /\ started' = started /\ (started \/ Busy(w))
           /\ \A v \in Workers \ {w} : job'[v] = job[v]
           /\ UNCHANGED <<api, caches, counters>>
           /\ GetKey(w) => /\ ~Busy(w) /\ started /\ Busy(w)' /\ ~Writing(w)'
                           /\ job'[w].key \in dirty \ processing
                           /\ processing' = processing \cup {job'[w].key}
                           /\ dirty' = dirty \ {job'[w].key} /\ delayed' = delayed
           /\ Resolve(w) => /\ Busy(w) /\ Writing(w)' /\ Busy(w)' /\ job'[w].key = job[w].key
                            /\ job'[w].copy = bindingCache[job[w].key]
                            /\ job'[w].copy # None
                            /\ job'[w].desired = CachedDesired(job'[w].copy)
                            /\ job'[w].copy.status # job'[w].desired
                            /\ UNCHANGED <<dirty, processing, delayed>>
<1>1. CASE GetKey(w)
  <2>1. PICK b \in dirty \ processing :
          /\ dirty' = dirty \ {b} /\ processing' = processing \cup {b}
          /\ job' = [job EXCEPT ![w] = [step |-> "resolve", key |-> b]]
    BY <1>1 DEF GetKey
  <2>2. /\ job'[w] = [step |-> "resolve", key |-> b]
        /\ \A v \in Workers \ {w} : job'[v] = job[v]
    BY <2>1 DEF TypeOK
  <2>3. ~Resolve(w)
    BY <1>1 DEF GetKey, Resolve
  <2> QED
    BY <1>1, <2>1, <2>2, <2>3 DEF GetKey, Busy, Writing
<1>2. CASE Resolve(w)
  <2> DEFINE k == job[w].key  c == bindingCache[k]
  <2>1. /\ job'[w] = [step |-> "write", key |-> k, copy |-> c, desired |-> CachedDesired(c)]
        /\ \A v \in Workers \ {w} : job'[v] = job[v]
    BY <1>2 DEF Resolve, TypeOK
  <2>2. ~GetKey(w) /\ Busy(w)
    BY <1>2 DEF GetKey, Resolve, Busy
  <2>3. /\ c # None /\ c.status # CachedDesired(c)
        /\ UNCHANGED <<api, caches, started, dirty, processing, delayed, counters>>
    BY <1>2 DEF Resolve, queue
  <2> HIDE DEF c
  <2>4. /\ job'[w].step = "write" /\ job'[w].key = k /\ job'[w].copy = c
        /\ job'[w].desired = CachedDesired(c)
    BY <2>1
  <2> QED
    BY <2>1, <2>2, <2>3, <2>4 DEF Busy, Writing, c
<1> QED
  BY <1>1, <1>2

\* The queue hands a key to one worker at a time.
LEMMA QueueStep ==
    ASSUME TypeOK, QueueOK, [Next]_vars
    PROVE  QueueOK'
<1>1. CASE Outside
  BY <1>1, OutsideFrame DEF QueueOK, Busy
<1>2. CASE Restart
  <2>1. \A w \in Workers : job'[w].step = "idle"
    BY <1>2 DEF Restart, NoJob
  <2> QED
    BY <2>1 DEF QueueOK, Busy
<1>3. ASSUME NEW w \in Workers, GetKey(w)
      PROVE  QueueOK'
  <2>1. /\ started' = started /\ started
        /\ \A v \in Workers \ {w} : job'[v] = job[v]
        /\ job'[w].key \notin processing
        /\ processing' = processing \cup {job'[w].key}
    BY <1>3, Begun
  <2> QED
    BY <2>1 DEF QueueOK, Busy
<1>4. ASSUME NEW w \in Workers, Resolve(w)
      PROVE  QueueOK'
  <2>1. /\ started' = started /\ Busy(w) /\ \A v \in Workers \ {w} : job'[v] = job[v]
        /\ job'[w].key = job[w].key /\ processing' = processing
    BY <1>4, Begun
  <2> QED
    BY <2>1 DEF QueueOK, Busy
<1>5. ASSUME NEW w \in Workers, Ends(w)
      PROVE  QueueOK'
  <2>1. Busy(w) /\ (Succeed(w) \/ FailJob(w)) /\ started' = started
    BY <1>5, EndsFrame
  <2>2. /\ ~Busy(w)' /\ \A v \in Workers \ {w} : job'[v] = job[v]
        /\ processing' = processing \ {job[w].key}
    BY <2>1, Ended
  <2> QED
    BY <2>1, <2>2 DEF QueueOK, Busy
<1>6. CASE UNCHANGED vars
  BY <1>6 DEF vars, queue, QueueOK, Busy
<1> QED
  BY <1>1, <1>2, <1>3, <1>4, <1>5, <1>6, StepCases
-----------------------------------------------------------------------------
\* What one step does to the generations, the jobs and the statuses.
LEMMA GenerationStep ==
    ASSUME IInv, QueueOK', TypeOK', [Next]_vars
    PROVE  Generations' /\ JobOK' /\ StatusIsOfItsGeneration'
<1> USE DEF IInv
<1>n. /\ \A b \in Bindings : bindings[b] # None => bindings[b] \in Binding
      /\ \A b \in Bindings : bindingCache[b] # None => bindingCache[b] \in Binding
      /\ changes \in Nat /\ \A b \in Binding : b.generation \in 0..MaxChanges
  BY BoundsAssumption DEF TypeOK, Binding
<1>1. ASSUME NEW b \in Bindings, ApplyBinding(b)
      PROVE  Generations' /\ JobOK' /\ StatusIsOfItsGeneration'
  <2>1. PICK svc \in Services, type \in TargetTypes :
          /\ bindings' = [bindings EXCEPT ![b] =
                 [service |-> svc, type |-> type, generation |-> changes',
                  status |-> IF bindings[b] = None THEN None ELSE bindings[b].status]]
          /\ typeAt' = [typeAt EXCEPT ![changes'] = type]
    BY <1>1 DEF ApplyBinding
  <2>2. /\ changes' = changes + 1 /\ changes' \in 0..MaxChanges
        /\ UNCHANGED <<bindingCache, job>>
    BY <1>1, BoundsAssumption DEF ApplyBinding, Change, caches, TypeOK
  <2>3. /\ typeAt'[changes'] = type
        /\ \A g \in 0..MaxChanges : g <= changes => typeAt'[g] = typeAt[g]
    BY <2>1, <2>2, <1>n DEF TypeOK
  <2>4. /\ bindings'[b].type = type /\ bindings'[b].generation = changes'
        /\ bindings'[b].status = IF bindings[b] = None THEN None ELSE bindings[b].status
        /\ \A x \in Bindings \ {b} : bindings'[x] = bindings[x]
    BY <2>1 DEF TypeOK
  <2>5. \A x \in Binding : Dated(x) => Dated(x)'
    BY <2>2, <2>3, <1>n DEF Dated
  <2>6. Dated(bindings[b])'
    BY <2>2, <2>3, <2>4 DEF Dated
  <2>7. \A w \in Workers : Writing(w) => job[w].copy \in Binding /\ job[w].key \in Bindings
    BY JobFields
  <2>8. Generations'
    BY <2>2, <2>4, <2>5, <2>6, <2>7, <1>n DEF Generations, Writing
  <2>9. JobOK'
    <3>1. \A w \in Workers : Writing(w) => job[w].copy.generation <= changes
      BY DEF Generations, Dated
    <3>2. \A w \in Workers : Writing(w) => job[w].copy # bindings'[b]
      BY <3>1, <2>2, <2>4, <1>n
    <3> QED
      BY <3>2, <2>2, <2>4, <2>7 DEF JobOK, Writing
  <2>10. StatusIsOfItsGeneration'
    <3>1. ASSUME NEW x \in Bindings, bindings'[x] # None, bindings'[x].status # None
          PROVE  /\ bindings'[x].status.type = typeAt'[bindings'[x].status.generation]
                 /\ bindings'[x].status.generation <= bindings'[x].generation
      <4>1. /\ bindings[x] # None /\ bindings'[x].status = bindings[x].status
            /\ bindings[x].generation <= bindings'[x].generation
        <5>1. CASE x = b
          <6>1. bindings[b] # None
            BY <5>1, <3>1, <2>4
          <6>2. bindings[b].generation <= changes
            BY <6>1 DEF Generations, Dated
          <6> QED
            BY <5>1, <6>1, <6>2, <2>2, <2>4, <1>n
        <5>2. CASE x # b
          <6>1. bindings'[x] = bindings[x]
            BY <5>2, <2>4
          <6>2. bindings[x].generation \in Nat
            BY <6>1, <3>1, <1>n
          <6> QED
            BY <6>1, <6>2, <3>1
        <5> QED
          BY <5>1, <5>2
      <4>2. bindings[x].status \in Status
        BY <4>1, <3>1, <1>n DEF Binding
      <4>3. /\ bindings[x].status.type = typeAt[bindings[x].status.generation]
            /\ bindings[x].status.generation <= bindings[x].generation
            /\ bindings[x].generation <= changes
        BY <4>1, <3>1 DEF StatusIsOfItsGeneration, Generations, Dated
      <4>4. /\ bindings[x].status.generation \in 0..MaxChanges
            /\ bindings[x].generation \in Nat /\ bindings'[x].generation \in Nat
        BY <4>1, <4>2, <1>n, <3>1, BoundsAssumption DEF Status, TypeOK, Binding
      <4>5. bindings[x].status.generation <= changes
        BY <4>3, <4>4, <1>n
      <4> QED
        BY <4>1, <4>3, <4>4, <4>5, <2>3
    <3> QED
      BY <3>1 DEF StatusIsOfItsGeneration
  <2> QED
    BY <2>8, <2>9, <2>10
<1>2. ASSUME UNCHANGED <<job, typeAt, changes>>,
             \A x \in Bindings : bindings'[x] \in {bindings[x], None},
             \A x \in Bindings : bindingCache'[x] \in {bindings[x], bindingCache[x]},
             (\E w \in Workers : Writing(w)) => \A x \in Bindings :
                 bindings'[x] = bindings[x] \/ bindingCache'[x] = bindingCache[x]
      PROVE  Generations' /\ JobOK' /\ StatusIsOfItsGeneration'
  <2>1. \A x : Dated(x)' <=> Dated(x)
    BY <1>2 DEF Dated
  <2>2. Generations'
    BY <1>2, <2>1 DEF Generations, Writing
  <2>3. \A w \in Workers : Writing(w) => job[w].copy # None /\ job[w].key \in Bindings
    BY JobFields, NoneAssumption
  <2>4. JobOK'
    BY <1>2, <2>3 DEF JobOK, Writing
  <2>5. StatusIsOfItsGeneration'
    BY <1>2 DEF StatusIsOfItsGeneration
  <2> QED
    BY <2>2, <2>4, <2>5
<1>3. CASE Outside /\ ~\E b \in Bindings : ApplyBinding(b)
  <2>1. CASE \/ \E b \in Bindings : DeleteBinding(b)
             \/ \E s \in Services : ChangeService(s)
             \/ \E e \in Slices : ChangeSlice(e)
             \/ ChangeNodes
    <3>1. /\ UNCHANGED <<bindingCache, job, typeAt>>
          /\ \A x \in Bindings : bindings'[x] \in {bindings[x], None}
          /\ changes' = changes + 1
      BY <2>1 DEF DeleteBinding, ChangeService, ChangeSlice, ChangeNodes, Change, caches, TypeOK
    <3>2. \A x \in Binding : Dated(x) => Dated(x)'
      BY <3>1, <1>n, BoundsAssumption DEF Dated
    <3>3. \A w \in Workers : Writing(w) =>
             job[w].copy \in Binding /\ job[w].copy # None /\ job[w].key \in Bindings
      BY JobFields, NoneAssumption
    <3>4. Generations'
      BY <3>1, <3>2, <3>3, <1>n DEF Generations, Writing
    <3>5. JobOK'
      BY <3>1, <3>3 DEF JobOK, Writing
    <3>6. StatusIsOfItsGeneration'
      BY <3>1 DEF StatusIsOfItsGeneration
    <3> QED
      BY <3>4, <3>5, <3>6
  <2>2. CASE Start
    <3>1. /\ UNCHANGED <<bindings, job, typeAt, changes>> /\ bindingCache' = bindings
      BY <2>2 DEF Start, api, counters
    <3> QED
      BY <3>1, <1>2
  <2>3. CASE Deliver
    <3>1. /\ UNCHANGED <<bindings, job, typeAt, changes>>
          /\ \A x \in Bindings : bindingCache'[x] \in {bindings[x], bindingCache[x]}
      BY <2>3 DEF Deliver, DeliverBinding, DeliverService, DeliverSlice, DeliverNodes,
                  api, counters, TypeOK
    <3> QED
      BY <3>1, <1>2
  <2>4. CASE Timers
    <3>1. UNCHANGED <<bindings, bindingCache, job, typeAt, changes>>
      BY <2>4 DEF Timers, Readd, api, caches, counters
    <3> QED
      BY <3>1, <1>2
  <2>5. CASE Grant
    <3>1. UNCHANGED <<bindings, bindingCache, job, typeAt, changes>>
      BY <2>5 DEF Grant, caches, counters
    <3> QED
      BY <3>1, <1>2
  <2> QED
    BY <1>3, <2>1, <2>2, <2>3, <2>4, <2>5 DEF Outside, Users
<1>4. CASE Restart
  <2>1. /\ UNCHANGED <<bindings, bindingCache, typeAt, changes>>
        /\ \A w \in Workers : ~Writing(w)'
    BY <1>4 DEF Restart, api, caches, Writing, NoJob
  <2>2. \A x : Dated(x)' <=> Dated(x)
    BY <2>1 DEF Dated
  <2> QED
    BY <2>1, <2>2 DEF Generations, JobOK, StatusIsOfItsGeneration
<1>5. ASSUME NEW w \in Workers, GetKey(w) \/ Resolve(w)
      PROVE  Generations' /\ JobOK' /\ StatusIsOfItsGeneration'
  <2>1. /\ UNCHANGED <<bindings, bindingCache, typeAt, changes>>
        /\ \A v \in Workers \ {w} : job'[v] = job[v]
    BY <1>5, Begun DEF api, caches, counters
  <2>2. \A x : Dated(x)' <=> Dated(x)
    BY <2>1 DEF Dated
  <2>3. Writing(w)' =>
           /\ job'[w].copy = bindingCache[job'[w].key] /\ job'[w].copy # None
           /\ job'[w].key \in Bindings
           /\ job'[w].desired = CachedDesired(job'[w].copy)
           /\ job'[w].copy.status # job'[w].desired
    <3>1. Resolve(w) => job[w].key \in Bindings
      BY JobFields DEF Resolve, Busy
    <3> QED
      BY <1>5, <3>1, Begun
  <2>4. Writing(w)' => /\ job'[w].desired.generation = job'[w].copy.generation
                       /\ job'[w].desired.type = job'[w].copy.type
    BY <2>3, <1>n, DesiredType DEF CachedDesired
  <2>5. Generations'
    BY <2>1, <2>2, <2>3 DEF Generations, Writing
  <2>6. JobOK'
    BY <2>1, <2>3, <2>4 DEF JobOK, Writing
  <2> QED
    BY <2>1, <2>5, <2>6 DEF StatusIsOfItsGeneration
<1>6. ASSUME NEW w \in Workers, Ends(w)
      PROVE  Generations' /\ JobOK' /\ StatusIsOfItsGeneration'
  <2> DEFINE k == job[w].key
  <2>1. /\ Busy(w) /\ (Succeed(w) \/ FailJob(w)) /\ UNCHANGED <<bindingCache, typeAt, changes>>
        /\ \/ bindings' = bindings
           \/ /\ Writing(w) /\ Current(w)
              /\ bindings' = [bindings EXCEPT ![k].status = job[w].desired]
    BY <1>6, EndsFrame DEF caches
  <2>2. ~Busy(w)' /\ \A v \in Workers \ {w} : job'[v] = job[v]
    BY <2>1, Ended
  <2>3. k \in Bindings /\ \A v \in Workers \ {w} : Writing(v) => job[v].key # k
    BY <2>1, JobFields DEF QueueOK
  <2>4. \A x : Dated(x)' <=> Dated(x)
    BY <2>1 DEF Dated
  <2>5. \A x \in Bindings \ {k} : bindings'[x] = bindings[x]
    BY <2>1 DEF TypeOK
  <2>6. \/ bindings'[k] = bindings[k]
        \/ /\ Writing(w) /\ bindings[k] = job[w].copy /\ bindings[k] # None
           /\ bindings'[k].status = job[w].desired
           /\ bindings'[k].generation = bindings[k].generation
           /\ bindings'[k].type = bindings[k].type
    <3>1. CASE Writing(w) /\ Current(w) /\ bindings' = [bindings EXCEPT ![k].status = job[w].desired]
      <4>1. bindings[k] = job[w].copy /\ bindings[k] # None /\ job[w].desired \in Status
        BY <3>1, JobFields, NoneAssumption DEF Current
      <4> QED
        BY <2>3, <3>1, <4>1, StatusWritten
    <3> QED
      BY <2>1, <3>1
  <2> HIDE DEF k
  <2>7. ~Writing(w)' /\ \A v \in Workers : Writing(v)' => v # w /\ Writing(v) /\ job'[v] = job[v]
    BY <2>2 DEF Busy, Writing
  <2>8. Generations'
    <3>1. \A b \in Bindings : bindings'[b] # None => Dated(bindings'[b])
      <4>1. bindings'[k] # None => Dated(bindings'[k])
        BY <2>3, <2>6 DEF Generations, Dated
      <4> QED
        BY <2>5, <4>1 DEF Generations
    <3> QED
      BY <2>1, <2>4, <2>7, <3>1 DEF Generations
  <2>9. JobOK'
    BY <2>1, <2>3, <2>5, <2>7, JobFields DEF JobOK
  <2>10. StatusIsOfItsGeneration'
    <3>1. CASE bindings'[k] = bindings[k]
      <4>1. \A x \in Bindings : bindings'[x] = bindings[x]
        BY <3>1, <2>5
      <4> QED
        BY <4>1, <2>1 DEF StatusIsOfItsGeneration
    <3>2. CASE bindings'[k] # bindings[k]
      <4>1. /\ job[w].desired.generation = bindings[k].generation
            /\ job[w].desired.type = bindings[k].type
            /\ bindings[k].type = typeAt[bindings[k].generation]
        BY <3>2, <2>3, <2>6 DEF JobOK, Generations, Dated
      <4>2. bindings[k].generation \in Nat
        BY <3>2, <2>3, <2>6, <1>n
      <4>3. /\ bindings'[k].status.type = typeAt[bindings'[k].status.generation]
            /\ bindings'[k].status.generation <= bindings'[k].generation
        BY <3>2, <2>6, <4>1, <4>2
      <4> QED
        BY <2>1, <2>5, <4>3 DEF StatusIsOfItsGeneration
    <3> QED
      BY <3>1, <3>2
  <2> QED
    BY <2>8, <2>9, <2>10
<1>7. CASE UNCHANGED vars
  <2>1. UNCHANGED <<bindings, bindingCache, job, typeAt, changes>>
    BY <1>7 DEF vars, api, caches, counters
  <2> QED
    BY <2>1, <1>2
<1> QED
  BY <1>1, <1>3, <1>4, <1>5, <1>6, <1>7, StepCases

\* targetgroupbindingcontroller.go, whatever interleaves: a key is with one
\* worker, and a worker whose copy is still the stored object has the latest.
THEOREM Invariance == Spec => []IInv
<1>1. Init => IInv
  <2> SUFFICES ASSUME Init PROVE IInv
    OBVIOUS
  <2>1. services \in [Services -> Service \cup {None}]
    <3>1. [selector |-> TRUE, nodePort |-> "allocated", hasPort |-> TRUE] \in Service
      BY DEF Service
    <3> QED
      BY <3>1 DEF Init
  <2>2. TypeOK
    <3>1. /\ bindings = [b \in Bindings |-> None] /\ slices = [e \in Slices |-> None]
          /\ nodes = Addresses /\ granted = AgentRules /\ bindingCache = bindings /\ serviceCache = services
          /\ sliceCache = slices /\ nodeCache = nodes
          /\ dirty = {} /\ processing = {} /\ delayed = {}
          /\ typeAt = [g \in 0..MaxChanges |-> None] /\ changes = 0 /\ failures = 0
      BY DEF Init
    <3>2. job \in [Workers -> Job]
      BY DEF Init, Job
    <3>3. started \in BOOLEAN
      BY DEF Init
    <3>4. /\ changes \in 0..MaxChanges /\ failures \in 0..MaxFailures
          /\ typeAt \in [0..MaxChanges -> TargetTypes \cup {None}]
      BY <3>1, BoundsAssumption
    <3>5. /\ bindings \in [Bindings -> Binding \cup {None}]
          /\ slices \in [Slices -> Slice \cup {None}]
      BY <3>1
    <3> QED
      BY <2>1, <3>1, <3>2, <3>3, <3>4, <3>5 DEF TypeOK, AgentRules, Needed, Readable
  <2>3. \A w \in Workers : ~Busy(w) /\ ~Writing(w)
    BY DEF Init, Busy, Writing, NoJob
  <2>4. \A b \in Bindings : bindings[b] = None /\ bindingCache[b] = None
    BY DEF Init
  <2> QED
    BY <2>2, <2>3, <2>4 DEF IInv, QueueOK, Generations, JobOK, StatusIsOfItsGeneration
<1>2. IInv /\ [Next]_vars => IInv'
  BY TypeStep, QueueStep, GenerationStep DEF IInv
<1> QED
  BY <1>1, <1>2, PTL DEF Spec

\* updateStatus: observedGeneration is honest (StatusIsOfItsGeneration).
THEOREM StatusHonest == Spec => []StatusIsOfItsGeneration
<1>1. IInv => StatusIsOfItsGeneration
  BY DEF IInv
<1> QED
  BY <1>1, Invariance, PTL
-----------------------------------------------------------------------------
\* The cached status of b is not what its cached inputs resolve to, and no
\* event about b itself is to come.
Stale(b) ==
    /\ bindingCache[b] # None /\ bindingCache[b] = bindings[b]
    /\ serviceCache[bindingCache[b].service] # None
    /\ ~Unresolvable(bindingCache[b], serviceCache[bindingCache[b].service])
    /\ bindingCache[b].status # CachedDesired(bindingCache[b])

Pending == dirty \cup processing \cup delayed

\* A slice is labelled with the Service it was made for.
OwnedSlices ==
    \A e \in Slices : /\ slices[e] # None => slices[e].service = Owner[e]
                      /\ sliceCache[e] # None => sliceCache[e].service = Owner[e]

\* NothingForgotten in these words.
LEMMA ForgottenAsStale ==
    NothingForgotten <=> (started => \A b \in Bindings : Stale(b) => b \in Pending)
  BY DEF NothingForgotten, Stale, Pending

\* A binding does not become stale while its inputs stay.
LEMMA StaleFrame ==
    ASSUME NEW b \in Bindings, Stale(b)',
           bindingCache'[b] = bindingCache[b], bindings'[b] = bindings[b],
           serviceCache'[bindingCache[b].service] = serviceCache[bindingCache[b].service],
           IPTargets(bindingCache[b].service, sliceCache)'
              = IPTargets(bindingCache[b].service, sliceCache),
           nodeCache' = nodeCache
    PROVE  Stale(b)
<1> DEFINE c == bindingCache[b]
<1>1. CachedDesired(c)' = CachedDesired(c)
  BY DEF CachedDesired, Desired, ResolvedTargets, InstanceTargets
<1>2. /\ c # None /\ c = bindings[b] /\ serviceCache[c.service] # None
      /\ ~Unresolvable(c, serviceCache[c.service])
  BY DEF Stale, Unresolvable
<1>3. c.status # CachedDesired(c)
  BY <1>1 DEF Stale
<1> QED
  BY <1>2, <1>3 DEF Stale

\* Slices stay with their Service.
LEMMA OwnedStep ==
    ASSUME TypeOK, OwnedSlices, Relabelling = FALSE, [Next]_vars
    PROVE  OwnedSlices'
<1>1. ASSUME NEW e \in Slices, ChangeSlice(e)
      PROVE  OwnedSlices'
  <2>1. PICK v \in Slice \cup {None} : /\ v # None => v.service = Owner[e]
                                       /\ slices' = [slices EXCEPT ![e] = v]
    BY <1>1 DEF ChangeSlice
  <2> QED
    BY <1>1, <2>1 DEF ChangeSlice, caches, OwnedSlices, TypeOK
<1>2. CASE Start \/ \E e \in Slices : DeliverSlice(e)
  BY <1>2 DEF Start, DeliverSlice, api, OwnedSlices, TypeOK
<1>3. CASE UNCHANGED <<slices, sliceCache>>
  BY <1>3 DEF OwnedSlices
<1>4. \/ UNCHANGED <<slices, sliceCache>> \/ Start
      \/ \E e \in Slices : ChangeSlice(e) \/ DeliverSlice(e)
  <2>1. CASE Outside
    BY <2>1 DEF Outside, Users, ApplyBinding, DeleteBinding, ChangeService, ChangeNodes, Grant, caches,
                Deliver, DeliverBinding, DeliverService, DeliverNodes, api, Timers, Readd
  <2>2. CASE Restart \/ UNCHANGED vars
    BY <2>2 DEF Restart, vars, api, caches
  <2>3. ASSUME NEW w \in Workers, GetKey(w) \/ Resolve(w) \/ Ends(w)
        PROVE  UNCHANGED <<slices, sliceCache>>
    BY <2>3, EndsFrame DEF GetKey, Resolve, api, caches
  <2> QED
    BY <2>1, <2>2, <2>3, StepCases
<1> QED
  BY <1>1, <1>2, <1>3, <1>4

\* No step forgets a binding, when slices are not moved to another Service.
LEMMA ForgottenStep ==
    ASSUME IInv, IInv', OwnedSlices, NothingForgotten, [Next]_vars
    PROVE  NothingForgotten'
<1> USE DEF IInv
<1> SUFFICES ASSUME NEW b \in Bindings, started', Stale(b)'
             PROVE  b \in Pending'
  BY DEF NothingForgotten, Stale, Pending
<1>0. started /\ Stale(b) => b \in Pending
  BY ForgottenAsStale
<1>c. bindingCache'[b] # None /\ bindingCache'[b] = bindings'[b] /\ bindingCache'[b] \in Binding
  BY DEF Stale, TypeOK
<1>f. ASSUME started, UNCHANGED <<serviceCache, sliceCache, nodeCache>>,
             bindingCache'[b] = bindingCache[b], bindings'[b] = bindings[b]
      PROVE  Stale(b) /\ b \in Pending
  <2>1. IPTargets(bindingCache[b].service, sliceCache)' = IPTargets(bindingCache[b].service, sliceCache)
    BY <1>f DEF IPTargets
  <2>2. Stale(b)
    BY <1>f, <2>1, StaleFrame
  <2> QED
    BY <1>f, <2>2, <1>0
<1>1. CASE Users
  <2>1. UNCHANGED <<bindingCache, serviceCache, sliceCache, nodeCache, started, dirty, processing, delayed>>
    BY <1>1 DEF Users, ApplyBinding, DeleteBinding, ChangeService, ChangeSlice, ChangeNodes,
                Grant, caches, queue, counters
  <2>2. bindings'[b] = bindings[b]
    <3>1. ASSUME ApplyBinding(b)
          PROVE  FALSE
      <4>1. /\ changes' = changes + 1 /\ changes \in Nat /\ bindings'[b].generation = changes'
        BY <3>1, BoundsAssumption DEF ApplyBinding, Change, TypeOK
      <4>2. bindingCache[b].generation <= changes
        BY <1>c, <2>1 DEF Generations, Dated
      <4> QED
        BY <4>1, <4>2, <1>c, <2>1
    <3>2. ASSUME DeleteBinding(b)
          PROVE  FALSE
      BY <3>2, <1>c DEF DeleteBinding, TypeOK
    <3> QED
      BY <1>1, <3>1, <3>2 DEF Users, ApplyBinding, DeleteBinding, ChangeService, ChangeSlice,
                              ChangeNodes, Grant, TypeOK
  <2>3. b \in Pending
    BY <2>1, <2>2, <1>f
  <2> QED
    BY <2>1, <2>3 DEF Pending
<1>2. CASE Start
  BY <1>2, <1>c DEF Start, Pending
<1>3. CASE Deliver
  <2>0. /\ started /\ UNCHANGED <<bindings, processing, delayed>> /\ dirty \subseteq dirty'
    BY <1>3 DEF Deliver, DeliverBinding, DeliverService, DeliverSlice, DeliverNodes, api
  <2>k. b \in Pending \/ b \in dirty' => b \in Pending'
    BY <2>0 DEF Pending
  <2>1. ASSUME NEW x \in Bindings, DeliverBinding(x)
        PROVE  b \in Pending'
    <3>1. CASE x = b
      BY <2>1, <2>k, <3>1 DEF DeliverBinding
    <3>2. CASE x # b
      <4>1. bindingCache'[b] = bindingCache[b] /\ UNCHANGED <<serviceCache, sliceCache, nodeCache>>
        BY <2>1, <3>2 DEF DeliverBinding, TypeOK
      <4> QED
        BY <2>0, <4>1, <2>k, <1>f
    <3> QED
      BY <3>1, <3>2
  <2>2. ASSUME NEW s \in Services, DeliverService(s)
        PROVE  b \in Pending'
    <3>0. /\ UNCHANGED <<bindingCache, sliceCache, nodeCache>>
          /\ dirty' = dirty \cup Referring(s)
          /\ \A t \in Services \ {s} : serviceCache'[t] = serviceCache[t]
      BY <2>2 DEF DeliverService, TypeOK
    <3>1. CASE bindingCache[b].service = s
      BY <3>0, <3>1, <1>c, <2>k DEF Referring
    <3>2. CASE bindingCache[b].service # s
      <4>1. serviceCache'[bindingCache[b].service] = serviceCache[bindingCache[b].service]
        BY <3>0, <3>2, <1>c DEF Binding
      <4>2. IPTargets(bindingCache[b].service, sliceCache)'
               = IPTargets(bindingCache[b].service, sliceCache)
        BY <3>0 DEF IPTargets
      <4>3. Stale(b)
        BY <2>0, <3>0, <4>1, <4>2, StaleFrame
      <4> QED
        BY <4>3, <1>0, <2>0, <2>k
    <3> QED
      BY <3>1, <3>2
  <2>3. ASSUME NEW e \in Slices, DeliverSlice(e)
        PROVE  b \in Pending'
    <3>0. /\ UNCHANGED <<bindingCache, serviceCache, nodeCache>>
          /\ dirty' = dirty \cup Referring(Owner[e])
          /\ \A x \in Slices \ {e} : sliceCache'[x] = sliceCache[x]
          /\ sliceCache'[e] = slices[e]
      BY <2>3 DEF DeliverSlice, TypeOK, OwnedSlices
    <3>1. CASE bindingCache[b].service = Owner[e]
      BY <3>0, <3>1, <1>c, <2>k DEF Referring
    <3>2. CASE bindingCache[b].service # Owner[e]
      <4> DEFINE name == bindingCache[b].service
      <4>1. /\ sliceCache[e] # None => sliceCache[e].service # name
            /\ sliceCache'[e] # None => sliceCache'[e].service # name
        BY <3>0, <3>2 DEF OwnedSlices
      <4> HIDE DEF name
      <4>2. IPTargets(name, sliceCache') = IPTargets(name, sliceCache)
        BY <3>0, <4>1 DEF IPTargets
      <4>3. IPTargets(bindingCache[b].service, sliceCache)'
               = IPTargets(bindingCache[b].service, sliceCache)
        BY <3>0, <4>2 DEF name
      <4>4. Stale(b)
        BY <2>0, <3>0, <4>3, StaleFrame
      <4> QED
        BY <4>4, <1>0, <2>0, <2>k
    <3> QED
      BY <3>1, <3>2
  <2>4. CASE DeliverNodes
    BY <2>4, <2>k, <1>c DEF DeliverNodes, Known
  <2> QED
    BY <1>3, <2>1, <2>2, <2>3, <2>4 DEF Deliver
<1>4. CASE Timers
  <2>1. /\ UNCHANGED <<bindings, bindingCache, serviceCache, sliceCache, nodeCache, started, processing>>
        /\ dirty' \cup delayed' = dirty \cup delayed
    BY <1>4 DEF Timers, Readd, api, caches
  <2>2. b \in Pending
    BY <2>1, <1>f
  <2> QED
    BY <2>1, <2>2 DEF Pending
<1>5. CASE Restart
  BY <1>5 DEF Restart
<1>6. ASSUME NEW w \in Workers, GetKey(w) \/ Resolve(w)
      PROVE  b \in Pending'
  <2>1. UNCHANGED <<bindings, bindingCache, serviceCache, sliceCache, nodeCache, started>>
    BY <1>6, Begun DEF api, caches
  <2>2. Pending \subseteq Pending'
    BY <1>6, Begun DEF Pending
  <2> QED
    BY <2>1, <2>2, <1>f
<1>7. ASSUME NEW w \in Workers, Ends(w)
      PROVE  b \in Pending'
  <2>1. /\ Busy(w) /\ (Succeed(w) \/ FailJob(w))
        /\ UNCHANGED <<bindingCache, serviceCache, sliceCache, nodeCache, started>>
        /\ \/ bindings' = bindings
           \/ /\ Writing(w) /\ Current(w)
              /\ bindings' = [bindings EXCEPT ![job[w].key].status = job[w].desired]
    BY <1>7, EndsFrame DEF caches
  <2>2. /\ processing' = processing \ {job[w].key} /\ dirty' = dirty /\ delayed \subseteq delayed'
        /\ FailJob(w) => job[w].key \in delayed'
    BY <2>1, Ended
  <2>3. CASE b # job[w].key
    <3>1. bindings'[b] = bindings[b]
      BY <2>1, <2>3 DEF TypeOK
    <3> QED
      BY <2>1, <2>2, <2>3, <3>1, <1>f DEF Pending
  <2>4. CASE b = job[w].key /\ FailJob(w)
    BY <2>2, <2>4 DEF Pending
  <2>5. ASSUME b = job[w].key, NothingToWrite(w)
        PROVE  FALSE
    <3>1. bindings' = bindings
      BY <2>5 DEF NothingToWrite, api
    <3>2. Stale(b)
      BY <3>1, <2>1, <1>f
    <3> QED
      BY <3>2, <2>5 DEF NothingToWrite, Stale
  <2>6. ASSUME b = job[w].key, UpdateStatus(w)
        PROVE  FALSE
    <3>1. /\ Writing(w) /\ Current(w)
          /\ bindings' = [bindings EXCEPT ![b].status = job[w].desired]
      BY <2>6 DEF UpdateStatus, Writing
    <3>2. /\ bindings[b] = job[w].copy /\ bindings[b] # None /\ job[w].desired \in Status
      BY <3>1, <2>6, JobFields, NoneAssumption DEF Current
    <3>3. bindings'[b].status = job[w].desired
      BY <3>1, <3>2, StatusWritten
    <3>4. bindingCache[b] = job[w].copy /\ job[w].copy.status # job[w].desired
      BY <3>1, <3>2, <2>6 DEF JobOK
    <3> QED
      BY <3>3, <3>4, <1>c, <2>1
  <2>7. FailJob(w) \/ NothingToWrite(w) \/ UpdateStatus(w)
    BY <1>7 DEF Ends, ServiceMissing, UpdateConflict, UpdateFails
  <2> QED
    BY <2>3, <2>4, <2>5, <2>6, <2>7
<1>8. CASE UNCHANGED vars
  <2>1. /\ UNCHANGED <<bindings, bindingCache, serviceCache, sliceCache, nodeCache, started>>
        /\ UNCHANGED <<dirty, processing, delayed>>
    BY <1>8 DEF vars, api, caches, queue
  <2>2. b \in Pending
    BY <2>1, <1>f
  <2> QED
    BY <2>1, <2>2 DEF Pending
<1> QED
  BY <1>1, <1>2, <1>3, <1>4, <1>5, <1>6, <1>7, <1>8, StepCases DEF Outside

\* The informers' handlers and the queue: no change of a Service, a slice, a node
\* or a binding is forgotten, as long as slices are not moved to another Service
\* (NothingForgotten).
THEOREM ChangesArePickedUp == Relabelling = FALSE => (Spec => []NothingForgotten)
<1> SUFFICES ASSUME Relabelling = FALSE PROVE Spec => []NothingForgotten
  OBVIOUS
<1>1. Init => OwnedSlices /\ NothingForgotten
  BY DEF Init, OwnedSlices, NothingForgotten
<1>2. IInv /\ IInv' /\ OwnedSlices /\ NothingForgotten /\ [Next]_vars
         => OwnedSlices' /\ NothingForgotten'
  BY OwnedStep, ForgottenStep DEF IInv
<1>3. Spec => []IInv
  BY Invariance
<1> QED
  BY <1>1, <1>2, <1>3, PTL DEF Spec
=============================================================================
