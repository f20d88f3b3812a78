------------------------- MODULE ClusterSetupProofs -------------------------
(***************************************************************************)
(* Proofs about ClusterSetup, for any number of runs, classes and bounds,  *)
(* with and without rask accepting a name that is in use, when a command   *)
(* is not started while another runs (Overlap = FALSE).  A run may fail at *)
(* any request, before or after its effect, and leaves what it has done.   *)
(***************************************************************************)
EXTENDS ClusterSetup, FiniteSetTheorems, SequenceTheorems, TLAPS

TLS == "authenticator tls"

Typed ==
    /\ cluster \in 0..MaxRuns /\ writers \subseteq Runs
    /\ objects \in [Objects -> 0..MaxRuns]
    /\ defaults \subseteq Preinstalled \cup {"gp2"}
    /\ pods \in [Workloads -> 0..MaxRuns]
    /\ pc \in [Runs -> {"idle", "stage", "provider", "list", "demote", "steps", "ready", "failed"}]
    /\ auth \in [Runs -> BOOLEAN]
    /\ at \in [Runs -> Nat \ {0}]
    /\ todo \in [Runs -> SUBSET Preinstalled]

\* One command runs at a time.
Alone == \A q, r \in Runs : Active(q) /\ Active(r) => q = r

\* A run that sends requests works on the cluster there is; what it has staged is
\* still staged; once it has listed the classes, only those it has yet to
\* demote are default beside gp2.
RunOK ==
    \A r \in Runs :
        /\ pc[r] = "provider" /\ auth[r] => staged = r
        /\ pc[r] \in {"list", "demote", "steps"} => cluster # 0 /\ r \in writers
        /\ pc[r] = "demote" => defaults \ {"gp2"} \subseteq todo[r]
        /\ pc[r] = "steps" => defaults \subseteq {"gp2"}

\* The run that created the cluster decided what its API server trusts; a
\* certificate of the authenticator is of a run that has worked on it.
OfWriter(x) == x = 0 \/ (x \in writers /\ auth[x])
ClusterOK ==
    /\ cluster = 0 => writers = {}
    /\ cluster # 0 => cluster \in writers /\ (auth[cluster] => trusted = cluster)
    /\ \A q \in writers : pc[q] # "idle"
    /\ OfWriter(objects[TLS]) /\ OfWriter(pods["authenticator"])

IInv == Typed /\ Alone /\ RunOK /\ ClusterOK /\ SoleDefault
-----------------------------------------------------------------------------
\* Pods load objects they need.
LEMMA Loads ==
    /\ "authenticator" \in Workloads /\ Workload["authenticator"].loads = TLS
    /\ \A w \in Workloads : Workload[w].loads \in Objects
    /\ TLS \in Objects
<1>1. Workloads = {"agent", "authenticator", "webhook", "imds"}
  BY DEF Workloads, Workload
<1>2. \A w \in Workloads : Workload[w].loads \in Workload[w].needs
  <2>1. /\ Workload["agent"] = AgentPod /\ Workload["authenticator"] = AuthenticatorPod
        /\ Workload["webhook"] = WebhookPod /\ Workload["imds"] = IMDSPod
    BY DEF Workload
  <2>2. AgentPod.loads \in AgentPod.needs /\ AuthenticatorPod.loads \in AuthenticatorPod.needs
    BY DEF AgentPod, AuthenticatorPod
  <2>3. WebhookPod.loads \in WebhookPod.needs /\ IMDSPod.loads \in IMDSPod.needs
    BY DEF WebhookPod, IMDSPod
  <2> QED
    BY <1>1, <2>1, <2>2, <2>3
<1>3. Workload["authenticator"].loads = TLS
  BY DEF Workload, AuthenticatorPod, TLS
<1>4. \A w \in Workloads : Workload[w].needs \subseteq Objects
  BY DEF Objects
<1> QED
  BY <1>1, <1>2, <1>3, <1>4

\* applyEKSDefaultState does not write the authenticator's certificate.
LEMMA NoTLS == \A i \in {1, 2, 3, 4, 5} : DefaultState[i][1] # TLS
<1>1. DefaultState[1][1] # TLS
  BY DEF DefaultState, TLS
<1>2. DefaultState[2][1] # TLS
  BY DEF DefaultState, TLS
<1>3. DefaultState[3][1] # TLS
  BY DEF DefaultState, TLS
<1>4. DefaultState[4][1] # TLS
  BY DEF DefaultState, TLS
<1>5. DefaultState[5][1] # TLS
  BY DEF DefaultState, TLS
<1> QED
  BY <1>1, <1>2, <1>3, <1>4, <1>5

\* deployAuthenticator is called with enableAuth only.
LEMMA OnlyWithAuth ==
    ASSUME Typed, NEW r \in Runs, InSteps(r), Obj(r) = TLS
    PROVE  auth[r]
<1> SUFFICES ASSUME ~auth[r] PROVE FALSE
  OBVIOUS
<1>1. Steps(auth[r]) = DefaultState \o <<>>
  BY DEF Steps
<1>2. DefaultState \o <<>> = DefaultState
  <2> DEFINE S == {<<"gp2", "create">>, <<"gp3", "create">>,
                   <<"clusternetworkpolicies crd", "apply">>, <<"targetgroupbindings crd", "apply">>,
                   <<"network policy enforcer", "apply">>}
  <2>1. ASSUME NEW T, NEW a \in T, NEW b \in T, NEW c \in T, NEW d \in T, NEW e \in T
        PROVE  <<a, b, c, d, e>> \in Seq(T)
    OBVIOUS
  <2>2. /\ <<"gp2", "create">> \in S /\ <<"gp3", "create">> \in S
        /\ <<"clusternetworkpolicies crd", "apply">> \in S
        /\ <<"targetgroupbindings crd", "apply">> \in S
        /\ <<"network policy enforcer", "apply">> \in S
    OBVIOUS
  <2> HIDE DEF S
  <2>3. DefaultState \in Seq(S)
    BY <2>1, <2>2 DEF DefaultState
  <2> QED
    BY <2>3, ConcatEmptySeq
<1>3. Steps(auth[r]) = DefaultState
  BY <1>1, <1>2
<1>4. at[r] \in {1, 2, 3, 4, 5}
  <2>1. Len(DefaultState) = 5
    BY DEF DefaultState
  <2>2. at[r] \in Nat /\ at[r] # 0
    BY DEF Typed
  <2>3. at[r] <= Len(Steps(auth[r]))
    BY DEF InSteps
  <2>4. at[r] <= 5
    BY <1>3, <2>1, <2>3
  <2> QED
    BY <2>2, <2>4
<1>5. DefaultState[at[r]][1] = TLS
  BY <1>3 DEF Obj, Todo
<1> QED
  BY <1>4, <1>5, NoTLS
-----------------------------------------------------------------------------
\* What the invariant is about.
watched == <<staged, cluster, trusted, objects, defaults, pods, pc, auth, todo, writers>>

\* Requests that read, are refused or repeated, and writes by others, change none
\* of it.
LEMMA Quiet ==
    ASSUME IInv, UNCHANGED watched, at' \in [Runs -> Nat \ {0}]
    PROVE  IInv'
<1>1. Typed'
  BY DEF IInv, watched, Typed
<1>2. Alone' /\ RunOK'
  BY DEF IInv, watched, Alone, Active, RunOK
<1>3. ClusterOK'
  BY DEF IInv, watched, ClusterOK, OfWriter
<1>4. SoleDefault'
  BY DEF IInv, watched, SoleDefault
<1> QED
  BY <1>1, <1>2, <1>3, <1>4 DEF IInv

\* While a run is active no other run is, and none becomes so.
LEMMA RunsAlone ==
    ASSUME IInv, NEW r \in Runs, Active(r), NEW step, Goto(r, step)
    PROVE  /\ Alone'
           /\ pc'[r] = step
           /\ \A q \in Runs \ {r} : pc'[q] = pc[q] /\ ~Active(q) /\ ~Active(q)'
           /\ \A q \in Runs \ {r} : pc'[q] \notin {"provider", "list", "demote", "steps"}
<1>1. pc'[r] = step /\ \A q \in Runs \ {r} : pc'[q] = pc[q]
  BY DEF IInv, Typed, Goto
<1>2. \A q \in Runs \ {r} : ~Active(q)
  BY DEF IInv, Alone
<1>3. \A q \in Runs \ {r} : ~Active(q)'
  BY <1>1, <1>2 DEF Active
<1>4. \A q \in Runs \ {r} : pc'[q] \notin {"provider", "list", "demote", "steps"}
  BY <1>3 DEF Active
<1> QED
  BY <1>1, <1>2, <1>3, <1>4 DEF Alone

\* A command begins when no other runs.
LEMMA BeginStep ==
    ASSUME IInv, Overlap = FALSE, NEW r \in Runs, Begin(r)
    PROVE  IInv'
<1> USE DEF IInv
<1>1. /\ pc[r] = "idle" /\ \A q \in Runs : ~Active(q)
      /\ pc'[r] = "stage" /\ \A q \in Runs \ {r} : pc'[q] = pc[q]
      /\ UNCHANGED <<staged, cluster, trusted, objects, defaults, pods, writers, at, todo>>
  BY DEF Begin, MayBegin, Goto, kube, progress, Typed
<1>2. auth' \in [Runs -> BOOLEAN] /\ \A q \in Runs \ {r} : auth'[q] = auth[q]
  BY DEF Begin, Typed
<1>3. Typed'
  <2>1. pc' \in [Runs -> {"idle", "stage", "provider", "list", "demote", "steps", "ready", "failed"}]
    BY DEF Begin, Goto, Typed
  <2> QED
    BY <1>1, <1>2, <2>1 DEF Typed
<1>4. Alone' /\ RunOK'
  BY <1>1 DEF Alone, RunOK, Active
<1>5. ClusterOK'
  <2>1. r \notin writers
    BY <1>1 DEF ClusterOK
  <2>2. \A q \in writers : auth'[q] = auth[q] /\ pc'[q] = pc[q]
    BY <1>1, <1>2, <2>1 DEF Typed
  <2> QED
    BY <1>1, <2>2 DEF ClusterOK, OfWriter
<1>6. SoleDefault'
  BY <1>1 DEF SoleDefault
<1> QED
  BY <1>3, <1>4, <1>5, <1>6

\* stageAuthenticator, the refusals and failures of a run, and its end.
LEMMA MoveStep ==
    ASSUME IInv, NEW r \in Runs,
           \/ Stage(r) \/ DemoteEnd(r) \/ Ready(r) \/ ListClasses(r) \/ GiveUp(r) \/ Fail(r)
    PROVE  IInv'
<1> USE DEF IInv
<1>1. Active(r)
  BY DEF Stage, DemoteEnd, Ready, ListClasses, GiveUp, Refused, InSteps, Conflict, Fail, Active
<1>2. UNCHANGED <<cluster, trusted, objects, defaults, pods, writers, auth>>
  BY DEF Stage, DemoteEnd, Ready, ListClasses, GiveUp, Fail, kube
<1>3. PICK step \in {"provider", "demote", "steps", "ready", "failed"} :
         /\ Goto(r, step)
         /\ step = "provider" => Stage(r)
         /\ step = "demote" => ListClasses(r)
         /\ step = "steps" => DemoteEnd(r)
  BY DEF Stage, DemoteEnd, Ready, ListClasses, GiveUp, Fail, End
<1>4. /\ Alone' /\ pc'[r] = step /\ \A q \in Runs \ {r} : pc'[q] = pc[q]
      /\ \A q \in Runs \ {r} : pc'[q] \notin {"provider", "list", "demote", "steps"}
  BY <1>1, <1>3, RunsAlone
<1>5. Typed'
  <2>1. pc' \in [Runs -> {"idle", "stage", "provider", "list", "demote", "steps", "ready", "failed"}]
    BY <1>3 DEF Goto, Typed
  <2>2. at' \in [Runs -> Nat \ {0}]
    BY DEF Stage, DemoteEnd, Ready, ListClasses, GiveUp, Fail, End, progress, Typed
  <2>3. todo' \in [Runs -> SUBSET Preinstalled]
    BY DEF Stage, DemoteEnd, Ready, ListClasses, GiveUp, Fail, End, progress, Typed
  <2> QED
    BY <1>2, <2>1, <2>2, <2>3 DEF Typed
<1>6. RunOK'
  <2>1. step = "provider" /\ auth[r] => staged' = r
    BY <1>3 DEF Stage
  <2>2. step \in {"demote", "steps"} => cluster # 0 /\ r \in writers
    BY <1>3 DEF ListClasses, DemoteEnd, RunOK
  <2>3. step = "demote" => todo'[r] = defaults \ {"gp2"}
    BY <1>3 DEF ListClasses, Typed
  <2>4. step = "steps" => defaults \subseteq {"gp2"}
    BY <1>3 DEF DemoteEnd, RunOK
  <2> QED
    BY <1>2, <1>4, <2>1, <2>2, <2>3, <2>4 DEF RunOK
<1>7. ClusterOK'
  <2>1. \A q \in writers : pc'[q] # "idle"
    BY <1>4, <1>3 DEF ClusterOK, Typed
  <2> QED
    BY <1>2, <2>1 DEF ClusterOK, OfWriter
<1>8. SoleDefault'
  BY <1>2 DEF SoleDefault
<1> QED
  BY <1>4, <1>5, <1>6, <1>7, <1>8

\* rask creates the cluster, also when it reports an error: it is empty but for
\* rask's classes, and trusts the CA the run has staged.
LEMMA ClusterUpStep ==
    ASSUME IInv, NEW r \in Runs, CreateCluster(r) \/ FailAfterCreate(r)
    PROVE  IInv'
<1> USE DEF IInv
<1>1. pc[r] = "provider" /\ Active(r) /\ ClusterUp(r) /\ UNCHANGED <<staged, objects, pods, auth>>
  BY DEF CreateCluster, FailAfterCreate, Active
<1>2. PICK step \in {"list", "failed"} : Goto(r, step)
  BY DEF CreateCluster, FailAfterCreate, End
<1>3. /\ Alone' /\ pc'[r] = step
      /\ \A q \in Runs \ {r} : pc'[q] \notin {"provider", "list", "demote", "steps"}
  BY <1>1, <1>2, RunsAlone
<1>4. /\ cluster' = r /\ writers' = {r} /\ r # 0 /\ r \in 0..MaxRuns
      /\ auth[r] => trusted' = r
      /\ defaults' \subseteq Preinstalled
  BY <1>1, SetupAssumption DEF ClusterUp, RunOK, Runs
<1>5. Typed'
  <2>1. pc' \in [Runs -> {"idle", "stage", "provider", "list", "demote", "steps", "ready", "failed"}]
    BY <1>2 DEF Goto, Typed
  <2>2. at' \in [Runs -> Nat \ {0}]
    BY DEF CreateCluster, FailAfterCreate, End, progress, Typed
  <2>3. todo' \in [Runs -> SUBSET Preinstalled]
    BY DEF CreateCluster, FailAfterCreate, End, progress, Typed
  <2>4. writers' \subseteq Runs /\ defaults' \subseteq Preinstalled \cup {"gp2"}
    BY <1>4
  <2> QED
    BY <1>1, <1>4, <2>1, <2>2, <2>3, <2>4 DEF Typed
<1>6. RunOK'
  BY <1>2, <1>3, <1>4 DEF RunOK
<1>7. ClusterOK'
  <2>1. objects[TLS] = 0 /\ pods["authenticator"] = 0
    BY <1>1 DEF ClusterUp, ClusterOK, OfWriter
  <2>2. OfWriter(objects[TLS])' /\ OfWriter(pods["authenticator"])'
    BY <1>1, <2>1 DEF OfWriter
  <2> QED
    BY <1>1, <1>2, <1>3, <1>4, <2>2 DEF ClusterOK
<1>8. SoleDefault'
  BY <1>4, SetupAssumption DEF SoleDefault
<1> QED
  BY <1>3, <1>5, <1>6, <1>7, <1>8

\* rask takes the cluster there is.
LEMMA ReuseStep ==
    ASSUME IInv, NEW r \in Runs, ReuseCluster(r)
    PROVE  IInv'
<1> USE DEF IInv
<1>1. /\ Active(r) /\ Goto(r, "list") /\ cluster # 0 /\ writers' = writers \cup {r}
      /\ UNCHANGED <<staged, cluster, trusted, objects, defaults, pods, auth, at, todo>>
  BY DEF ReuseCluster, Active, progress
<1>2. /\ Alone' /\ pc'[r] = "list" /\ \A q \in Runs \ {r} : pc'[q] = pc[q]
      /\ \A q \in Runs \ {r} : pc'[q] \notin {"provider", "list", "demote", "steps"}
  BY <1>1, RunsAlone
<1>3. Typed'
  <2>1. pc' \in [Runs -> {"idle", "stage", "provider", "list", "demote", "steps", "ready", "failed"}]
    BY <1>1 DEF Goto, Typed
  <2> QED
    BY <1>1, <2>1 DEF Typed
<1>4. RunOK'
  BY <1>1, <1>2 DEF RunOK
<1>5. ClusterOK'
  <2>1. \A q \in writers' : pc'[q] # "idle"
    BY <1>1, <1>2 DEF ClusterOK, Typed
  <2>2. OfWriter(objects[TLS])' /\ OfWriter(pods["authenticator"])'
    BY <1>1 DEF ClusterOK, OfWriter
  <2> QED
    BY <1>1, <2>1, <2>2 DEF ClusterOK
<1>6. SoleDefault'
  BY <1>1 DEF SoleDefault
<1> QED
  BY <1>2, <1>3, <1>4, <1>5, <1>6

\* `fjord delete cluster`, when no create command runs.
LEMMA DeleteStep ==
    ASSUME IInv, Overlap = FALSE, DeleteCluster
    PROVE  IInv'
<1> USE DEF IInv
<1>1. /\ \A q \in Runs : ~Active(q)
      /\ cluster' = 0 /\ writers' = {} /\ defaults' = {} /\ objects' = None /\ pods' = NoPods
      /\ UNCHANGED <<staged, pc, auth, at, todo>>
  BY DEF DeleteCluster, MayBegin, progress
<1>2. objects'[TLS] = 0 /\ pods'["authenticator"] = 0
  BY <1>1, Loads DEF None, NoPods
<1>3. Typed'
  <2>1. 0 \in 0..MaxRuns
    BY SetupAssumption
  <2>2. None \in [Objects -> 0..MaxRuns] /\ NoPods \in [Workloads -> 0..MaxRuns]
    BY <2>1 DEF None, NoPods
  <2> QED
    BY <1>1, <2>1, <2>2 DEF Typed
<1>4. Alone'
  BY <1>1 DEF Alone, Active
<1>5. RunOK'
  BY <1>1 DEF RunOK, Active
<1>6. ClusterOK'
  BY <1>1, <1>2 DEF ClusterOK, OfWriter
<1>7. SoleDefault'
  BY <1>1 DEF SoleDefault
<1> QED
  BY <1>3, <1>4, <1>5, <1>6, <1>7

\* demoteDefaultClasses: one class less is default, and one less is to be demoted.
LEMMA DemoteStep ==
    ASSUME IInv, NEW r \in Runs, NEW c \in Preinstalled, Demote(r, c)
    PROVE  IInv'
<1> USE DEF IInv
<1>1. /\ pc[r] = "demote" /\ defaults' = defaults \ {c} /\ c # "gp2"
      /\ todo' = [todo EXCEPT ![r] = @ \ {c}]
      /\ UNCHANGED <<staged, cluster, trusted, objects, pods, writers, pc, auth, at>>
  BY SetupAssumption DEF Demote, Demoted
<1>2. Typed'
  BY <1>1 DEF Typed
<1>3. Alone'
  BY <1>1 DEF Alone, Active
<1>4. RunOK'
  <2>1. \A q \in Runs \ {r} : pc[q] \notin {"demote", "steps"}
    BY <1>1 DEF Alone, Active
  <2>2. defaults' \ {"gp2"} \subseteq todo'[r]
    BY <1>1 DEF RunOK, Typed
  <2> QED
    BY <1>1, <2>1, <2>2 DEF RunOK
<1>5. ClusterOK'
  BY <1>1 DEF ClusterOK, OfWriter
<1>6. SoleDefault'
  BY <1>1 DEF SoleDefault
<1> QED
  BY <1>2, <1>3, <1>4, <1>5, <1>6

\* A Create, an Update or a patch, also one whose answer is lost.
LEMMA WriteStep ==
    ASSUME IInv, NEW r \in Runs, CreateObject(r) \/ UpdateObject(r) \/ FailAfterWrite(r)
    PROVE  IInv'
<1> USE DEF IInv
<1>1. InSteps(r) /\ Write(r) /\ UNCHANGED <<staged, cluster, trusted, pods, writers, auth>>
  BY DEF CreateObject, UpdateObject, FailAfterWrite, others
<1>2. pc[r] = "steps" /\ Active(r) /\ r \in writers /\ cluster # 0 /\ defaults \subseteq {"gp2"}
  BY <1>1 DEF InSteps, Active, RunOK
<1>3. PICK step \in {"steps", "failed"} : Goto(r, step)
  <2>1. pc = [pc EXCEPT ![r] = "steps"]
    BY <1>2 DEF Typed
  <2> QED
    BY <2>1 DEF CreateObject, UpdateObject, FailAfterWrite, others, End, Goto
<1>4. /\ Alone' /\ pc'[r] = step /\ \A q \in Runs \ {r} : pc'[q] = pc[q]
      /\ \A q \in Runs \ {r} : pc'[q] \notin {"provider", "list", "demote", "steps"}
  BY <1>2, <1>3, RunsAlone
<1>5. defaults' \subseteq {"gp2"}
  BY <1>1, <1>2 DEF Write
<1>6. Typed'
  <2>1. pc' \in [Runs -> {"idle", "stage", "provider", "list", "demote", "steps", "ready", "failed"}]
    BY <1>3 DEF Goto, Typed
  <2>2. at' \in [Runs -> Nat \ {0}]
    BY DEF CreateObject, UpdateObject, FailAfterWrite, Advance, End, Typed
  <2>3. todo' \in [Runs -> SUBSET Preinstalled]
    BY DEF CreateObject, UpdateObject, FailAfterWrite, others, End, Typed
  <2>4. objects' \in [Objects -> 0..MaxRuns]
    <3>1. r \in 0..MaxRuns
      BY SetupAssumption DEF Runs
    <3>2. objects' = [objects EXCEPT ![Obj(r)] = r]
      BY <1>1 DEF Write
    <3> QED
      BY <3>1, <3>2 DEF Typed
  <2> QED
    BY <1>1, <1>5, <2>1, <2>2, <2>3, <2>4 DEF Typed
<1>7. RunOK'
  BY <1>1, <1>2, <1>3, <1>4, <1>5 DEF RunOK
<1>8. ClusterOK'
  <2>1. OfWriter(objects[TLS])'
    <3>1. CASE Obj(r) = TLS
      <4>1. auth[r]
        BY <1>1, <3>1, OnlyWithAuth
      <4>2. objects'[TLS] = r
        BY <1>1, <3>1, Loads DEF Write, Typed
      <4> QED
        BY <1>1, <1>2, <4>1, <4>2 DEF OfWriter
    <3>2. CASE Obj(r) # TLS
      <4>1. objects'[TLS] = objects[TLS]
        BY <1>1, <3>2, Loads DEF Write, Typed
      <4> QED
        BY <1>1, <4>1 DEF ClusterOK, OfWriter
    <3> QED
      BY <3>1, <3>2
  <2>2. \A q \in writers : pc'[q] # "idle"
    BY <1>3, <1>4 DEF ClusterOK, Typed
  <2>3. OfWriter(pods["authenticator"])'
    BY <1>1 DEF ClusterOK, OfWriter
  <2> QED
    BY <1>1, <2>1, <2>2, <2>3 DEF ClusterOK
<1>9. SoleDefault'
  BY <1>5 DEF SoleDefault
<1> QED
  BY <1>4, <1>6, <1>7, <1>8, <1>9

\* A pod starts with the content its objects have, or stops.
LEMMA PodStep ==
    ASSUME IInv, NEW w \in Workloads, StartPod(w) \/ StopPod(w)
    PROVE  IInv'
<1> USE DEF IInv
<1>1. UNCHANGED <<staged, cluster, trusted, objects, defaults, writers, pc, auth, at, todo>>
  BY DEF StartPod, StopPod, progress
<1>2. PICK x \in {0, objects[Workload[w].loads]} : pods' = [pods EXCEPT ![w] = x]
  BY DEF StartPod, StopPod
<1>3. x \in 0..MaxRuns
  BY <1>2, Loads, SetupAssumption DEF Typed
<1>4. Typed'
  BY <1>1, <1>2, <1>3 DEF Typed
<1>5. Alone' /\ RunOK'
  BY <1>1 DEF Alone, Active, RunOK
<1>6. ClusterOK'
  <2>1. pods'["authenticator"] \in {0, objects[TLS], pods["authenticator"]}
    BY <1>2, Loads DEF Typed
  <2>2. OfWriter(pods["authenticator"])'
    BY <1>1, <2>1 DEF ClusterOK, OfWriter
  <2>3. OfWriter(objects[TLS])'
    BY <1>1 DEF ClusterOK, OfWriter
  <2> QED
    BY <1>1, <2>2, <2>3 DEF ClusterOK
<1>7. SoleDefault'
  BY <1>1 DEF SoleDefault
<1> QED
  BY <1>4, <1>5, <1>6, <1>7
-----------------------------------------------------------------------------
\* Nothing is there before the first command.
LEMMA Initially == Init => IInv
<1> SUFFICES ASSUME Init PROVE IInv
  OBVIOUS
<1>1. Typed
  <2>1. 0 \in 0..MaxRuns
    BY SetupAssumption
  <2>2. cluster \in 0..MaxRuns /\ writers \subseteq Runs /\ defaults \subseteq Preinstalled \cup {"gp2"}
    BY <2>1 DEF Init
  <2>3. objects \in [Objects -> 0..MaxRuns] /\ pods \in [Workloads -> 0..MaxRuns]
    BY <2>1 DEF Init, None, NoPods
  <2>4. pc \in [Runs -> {"idle", "stage", "provider", "list", "demote", "steps", "ready", "failed"}]
    BY DEF Init
  <2>5. auth \in [Runs -> BOOLEAN]
    BY DEF Init
  <2>6. at \in [Runs -> Nat \ {0}] /\ todo \in [Runs -> SUBSET Preinstalled]
    BY DEF Init
  <2> QED
    BY <2>2, <2>3, <2>4, <2>5, <2>6 DEF Typed
<1>2. \A r \in Runs : pc[r] = "idle"
  BY DEF Init
<1>3. Alone /\ RunOK
  BY <1>2 DEF Alone, Active, RunOK
<1>4. ClusterOK
  <2>1. objects[TLS] = 0 /\ pods["authenticator"] = 0
    BY Loads DEF Init, None, NoPods
  <2> QED
    BY <2>1 DEF Init, ClusterOK, OfWriter
<1>5. SoleDefault
  BY DEF Init, SoleDefault
<1> QED
  BY <1>1, <1>3, <1>4, <1>5 DEF IInv

\* One step, whoever takes it.
LEMMA NextStep ==
    ASSUME IInv, Overlap = FALSE, [Next]_vars
    PROVE  IInv'
<1>1. ASSUME UNCHANGED vars PROVE IInv'
  <2>1. UNCHANGED watched /\ at' = at
    BY <1>1 DEF vars, kube, progress, watched
  <2> QED
    BY <2>1, Quiet DEF IInv, Typed
<1>2. ASSUME NEW r \in Runs, Go(r) PROVE IInv'
  <2>1. CASE Stage(r) \/ DemoteEnd(r) \/ Ready(r) \/ ListClasses(r) \/ GiveUp(r)
    BY <2>1, MoveStep
  <2>2. CASE CreateCluster(r)
    BY <2>2, ClusterUpStep
  <2>3. CASE ReuseCluster(r)
    BY <2>3, ReuseStep
  <2>4. CASE \E c \in Preinstalled : Demote(r, c)
    BY <2>4, DemoteStep
  <2>5. CASE CreateObject(r) \/ UpdateObject(r)
    BY <2>5, WriteStep
  <2>6. CASE KeepObject(r) \/ ObjectExists(r) \/ GetObject(r) \/ LookUpObject(r) \/ UpdateConflict(r)
    <3>1. UNCHANGED watched
      BY <2>6 DEF KeepObject, ObjectExists, GetObject, LookUpObject, UpdateConflict,
                  unwritten, kube, watched
    <3>2. at' \in [Runs -> Nat \ {0}]
      BY <2>6 DEF KeepObject, ObjectExists, GetObject, LookUpObject, UpdateConflict,
                  Advance, IInv, Typed
    <3> QED
      BY <3>1, <3>2, Quiet
  <2> QED
    BY <1>2, <2>1, <2>2, <2>3, <2>4, <2>5, <2>6 DEF Go
<1>3. ASSUME NEW o \in Objects \cup Preinstalled, Touch(o) PROVE IInv'
  <2>1. UNCHANGED watched /\ at' = at
    BY <1>3 DEF Touch, kube, watched
  <2> QED
    BY <2>1, Quiet DEF IInv, Typed
<1>4. CASE \E r \in Runs : Begin(r) \/ Fail(r) \/ FailAfterCreate(r) \/ FailAfterWrite(r)
  BY <1>4, BeginStep, MoveStep, ClusterUpStep, WriteStep
<1>5. CASE DeleteCluster
  BY <1>5, DeleteStep
<1>6. CASE \E w \in Workloads : StartPod(w) \/ StopPod(w)
  BY <1>6, PodStep
<1> QED
  BY <1>1, <1>2, <1>3, <1>4, <1>5, <1>6 DEF Next

\* The inductive invariant.
THEOREM Invariance == Overlap = FALSE => (Spec => []IInv)
<1> SUFFICES ASSUME Overlap = FALSE PROVE Spec => []IInv
  OBVIOUS
<1>1. IInv /\ [Next]_vars => IInv'
  BY NextStep
<1> QED
  BY Initially, <1>1, PTL DEF Spec

\* EnsureDefaultStorageClass: gp2 is never default beside a class of rask's,
\* whichever request of whichever run fails or is repeated.
THEOREM OneDefaultClass == Overlap = FALSE => (Spec => []SoleDefault)
<1>1. IInv => SoleDefault
  BY DEF IInv
<1> QED
  BY Invariance, <1>1, PTL

\* deployAuthenticator: while the cluster is the work of one run, the
\* authenticator and the API server agree on that run's CA.
THEOREM TrustedByServer == Overlap = FALSE => (Spec => []AuthenticatorTrusted)
<1>1. IInv => AuthenticatorTrusted
  <2> SUFFICES ASSUME IInv, Cardinality(writers) = 1
               PROVE  objects[TLS] \in {0, trusted} /\ pods["authenticator"] \in {0, trusted}
    BY DEF AuthenticatorTrusted, TLS
  <2> USE DEF IInv
  <2>1. IsFiniteSet(writers)
    <3>1. IsFiniteSet(Runs)
      BY FS_Interval, SetupAssumption DEF Runs
    <3> QED
      BY <3>1, FS_Subset DEF Typed
  <2>2. writers # {}
    BY FS_EmptySet
  <2>3. cluster # 0 /\ cluster \in writers
    BY <2>2 DEF ClusterOK
  <2>4. writers = {cluster}
    <3>1. PICK x : writers = {x}
      BY <2>1, FS_Singleton
    <3> QED
      BY <2>3, <3>1
  <2> QED
    BY <2>3, <2>4 DEF ClusterOK, OfWriter
<1> QED
  BY Invariance, <1>1, PTL
-----------------------------------------------------------------------------
(* What a run that is ready has done.                                       *)

\* The i-th object is there, and of this run unless it is one that is kept.
Done(r, i) ==
    LET s == Steps(auth[r])[i] IN objects[s[1]] # 0 /\ (s[2] # "create" => objects[s[1]] = r)

\* A run goes through its steps from the first on, and none that it has passed
\* is undone.
Passed ==
    \A r \in Runs :
        /\ pc[r] \in {"idle", "stage", "provider", "list", "demote"} => at[r] = 1
        /\ pc[r] = "steps" => \A i \in 1..at[r] - 1 : Done(r, i)

\* Objects go with their cluster, and gp2 is default from when it is created.
Filled ==
    /\ cluster = 0 => \A o \in Objects : objects[o] = 0
    /\ objects["gp2"] # 0 => "gp2" \in defaults

CInv == IInv /\ Passed /\ Filled
-----------------------------------------------------------------------------
\* The steps are a sequence that begins with applyEKSDefaultState.
LEMMA StepsAreASequence ==
    ASSUME NEW a \in BOOLEAN
    PROVE  /\ Len(Steps(a)) \in Nat /\ Len(Steps(a)) >= 5
           /\ DOMAIN Steps(a) = 1..Len(Steps(a))
           /\ \A i \in 1..5 : Steps(a)[i] = DefaultState[i]
           /\ ~a => Len(Steps(a)) = 5
<1> DEFINE
      OfDefaultState == {<<"gp2", "create">>, <<"gp3", "create">>, <<"clusternetworkpolicies crd", "apply">>,
                         <<"targetgroupbindings crd", "apply">>, <<"network policy enforcer", "apply">>}
      OfKumo == {<<"kumo deployment", "upsert">>, <<"kumo service", "create">>}
      OfWebhookRBAC == {<<"webhook account", "create">>, <<"webhook role", "create">>, <<"webhook role binding", "create">>}
      OfNodeIdentity == {<<"node role principal", "create">>, <<"imds daemonset", "upsert">>, <<"pod identity daemonset", "upsert">>}
      OfAgent == {<<"agent account", "create">>, <<"agent role", "create">>, <<"agent role binding", "create">>,
                  <<"agent deployment", "upsert">>, <<"agent service", "create">>, <<"agent nodeport service", "create">>}
      OfAuthenticator == {<<"authenticator account", "create">>, <<"authenticator role binding", "create">>, <<"authenticator tls", "upsert">>,
                          <<"authenticator daemonset", "upsert">>, <<"cluster info", "info">>}
      OfIRSA == {<<"agent tls", "upsert">>, <<"injector webhook", "upsert">>, <<"webhook tls", "upsert">>,
                 <<"webhook deployment", "upsert">>, <<"webhook service", "create">>, <<"pod identity webhook", "upsert">>}
      T == UNION {OfDefaultState, OfKumo, OfWebhookRBAC, OfNodeIdentity,
                  OfAgent, OfAuthenticator, OfIRSA}
<1>1. /\ OfDefaultState \subseteq T
      /\ OfKumo \subseteq T
      /\ OfWebhookRBAC \subseteq T
      /\ OfNodeIdentity \subseteq T
      /\ OfAgent \subseteq T
      /\ OfAuthenticator \subseteq T
      /\ OfIRSA \subseteq T
  OBVIOUS
<1> HIDE DEF T
<1>2. ASSUME NEW x \in T, NEW y \in T, NEW z \in T
      PROVE  <<x, y>> \in Seq(T) /\ <<x, y, z>> \in Seq(T)
  OBVIOUS
<1>3. ASSUME NEW x \in T, NEW y \in T, NEW z \in T, NEW u \in T, NEW v \in T
      PROVE  <<x, y, z, u, v>> \in Seq(T)
  OBVIOUS
<1>4. ASSUME NEW x \in T, NEW y \in T, NEW z \in T, NEW u \in T, NEW v \in T, NEW w \in T
      PROVE  <<x, y, z, u, v, w>> \in Seq(T)
  OBVIOUS
<1>5. DefaultState \in Seq(T) /\ Len(DefaultState) = 5
  <2>1. /\ <<"gp2", "create">> \in T
        /\ <<"gp3", "create">> \in T
        /\ <<"clusternetworkpolicies crd", "apply">> \in T
        /\ <<"targetgroupbindings crd", "apply">> \in T
        /\ <<"network policy enforcer", "apply">> \in T
    BY <1>1
  <2> QED
    BY <1>3, <2>1 DEF DefaultState
<1>6. Kumo \in Seq(T)
  <2>1. /\ <<"kumo deployment", "upsert">> \in T
        /\ <<"kumo service", "create">> \in T
    BY <1>1
  <2> QED
    BY <1>2, <2>1 DEF Kumo
<1>7. WebhookRBAC \in Seq(T)
  <2>1. /\ <<"webhook account", "create">> \in T
        /\ <<"webhook role", "create">> \in T
        /\ <<"webhook role binding", "create">> \in T
    BY <1>1
  <2> QED
    BY <1>2, <2>1 DEF WebhookRBAC
<1>8. NodeIdentity \in Seq(T)
  <2>1. /\ <<"node role principal", "create">> \in T
        /\ <<"imds daemonset", "upsert">> \in T
        /\ <<"pod identity daemonset", "upsert">> \in T
    BY <1>1
  <2> QED
    BY <1>2, <2>1 DEF NodeIdentity
<1>9. Agent \in Seq(T)
  <2>1. /\ <<"agent account", "create">> \in T
        /\ <<"agent role", "create">> \in T
        /\ <<"agent role binding", "create">> \in T
        /\ <<"agent deployment", "upsert">> \in T
        /\ <<"agent service", "create">> \in T
        /\ <<"agent nodeport service", "create">> \in T
    BY <1>1
  <2> QED
    BY <1>4, <2>1 DEF Agent
<1>10. Authenticator \in Seq(T)
  <2>1. /\ <<"authenticator account", "create">> \in T
        /\ <<"authenticator role binding", "create">> \in T
        /\ <<"authenticator tls", "upsert">> \in T
        /\ <<"authenticator daemonset", "upsert">> \in T
        /\ <<"cluster info", "info">> \in T
    BY <1>1
  <2> QED
    BY <1>3, <2>1 DEF Authenticator
<1>11. \A s, t \in Seq(T) : s \o t \in Seq(T)
  BY ConcatProperties
<1>12. IRSA \in Seq(T)
  <2> DEFINE first == << <<"agent tls", "upsert">>, <<"injector webhook", "upsert">>,
                         <<"webhook tls", "upsert">> >>
             last == << <<"webhook deployment", "upsert">>, <<"webhook service", "create">>,
                        <<"pod identity webhook", "upsert">> >>
  <2>1. /\ <<"agent tls", "upsert">> \in T /\ <<"injector webhook", "upsert">> \in T
        /\ <<"webhook tls", "upsert">> \in T /\ <<"webhook deployment", "upsert">> \in T
        /\ <<"webhook service", "create">> \in T /\ <<"pod identity webhook", "upsert">> \in T
    BY <1>1
  <2>2. first \in Seq(T) /\ last \in Seq(T)
    BY <1>2, <2>1
  <2>3. IRSA = (first \o WebhookRBAC) \o last
    BY DEF IRSA
  <2> HIDE DEF first, last
  <2> QED
    BY <1>7, <1>11, <2>2, <2>3
<1>13. <<>> \in Seq(T) /\ Len(<<>>) = 0
  BY EmptySeq
<1>14. DeployAgent \in Seq(T)
  <2> DEFINE k == IF WithKumo THEN Kumo ELSE <<>>
  <2>1. k \in Seq(T)
    BY <1>6, <1>13
  <2>2. DeployAgent = (((k \o Agent) \o Authenticator) \o IRSA) \o NodeIdentity
    BY DEF DeployAgent
  <2> HIDE DEF k
  <2> QED
    BY <1>8, <1>9, <1>10, <1>11, <1>12, <2>1, <2>2
<1>15. PICK rest \in Seq(T) : Steps(a) = DefaultState \o rest /\ (~a => rest = <<>>)
  <2>1. CASE a
    BY <1>14, <2>1 DEF Steps
  <2>2. CASE ~a
    BY <1>13, <2>2 DEF Steps
  <2> QED
    BY <2>1, <2>2
<1>16. /\ Steps(a) \in Seq(T) /\ Len(Steps(a)) = 5 + Len(rest)
       /\ \A i \in 1..5 + Len(rest) :
             Steps(a)[i] = IF i <= 5 THEN DefaultState[i] ELSE rest[i - 5]
  <2>1. /\ DefaultState \o rest \in Seq(T)
        /\ Len(DefaultState \o rest) = Len(DefaultState) + Len(rest)
        /\ \A i \in 1..Len(DefaultState) + Len(rest) :
              (DefaultState \o rest)[i] =
                  IF i <= Len(DefaultState) THEN DefaultState[i] ELSE rest[i - Len(DefaultState)]
    BY <1>5, ConcatProperties
  <2> QED
    BY <1>5, <1>15, <2>1
<1>17. Len(rest) \in Nat /\ DOMAIN Steps(a) = 1..Len(Steps(a))
  BY <1>16, LenProperties
<1> QED
  BY <1>13, <1>15, <1>16, <1>17

\* Every step is about an object of the model, the first one about gp2.
LEMMA StepObjects ==
    ASSUME NEW a \in BOOLEAN
    PROVE  /\ DOMAIN Steps(a) = 1..Len(Steps(a))
           /\ \A i \in 1..Len(Steps(a)) : Steps(a)[i][1] \in Objects
           /\ Steps(a)[1][1] = "gp2" /\ "gp2" \in Objects
<1>1. DOMAIN Steps(a) = 1..Len(Steps(a)) /\ DOMAIN Steps(TRUE) = 1..Len(Steps(TRUE))
  BY StepsAreASequence
<1>2. \A i \in 1..Len(Steps(TRUE)) : Steps(TRUE)[i][1] \in Objects
  BY <1>1 DEF Objects, ObjectsOf
<1>3. \A i \in 1..Len(Steps(a)) : Steps(a)[i][1] \in Objects
  <2>1. CASE a = TRUE
    BY <1>2, <2>1
  <2>2. CASE ~a
    <3>1. Len(Steps(a)) = 5
      BY <2>2, StepsAreASequence
    <3>2. Len(Steps(TRUE)) >= 5 /\ Len(Steps(TRUE)) \in Nat
      BY StepsAreASequence
    <3>3. \A i \in 1..5 : Steps(a)[i] = Steps(TRUE)[i]
      BY StepsAreASequence
    <3> SUFFICES ASSUME NEW i \in 1..Len(Steps(a)) PROVE Steps(a)[i][1] \in Objects
      OBVIOUS
    <3>4. i \in 1..5 /\ i \in 1..Len(Steps(TRUE))
      <4>1. i \in 1..5
        BY <3>1, Zenon
      <4>2. ASSUME NEW n \in Nat, n >= 5 PROVE i \in 1..n
        BY <4>1, <4>2
      <4> QED
        BY <3>2, <4>1, <4>2
    <3>5. Steps(TRUE)[i][1] \in Objects
      BY <1>2, <3>4
    <3>6. Steps(a)[i] = Steps(TRUE)[i]
      BY <3>3, <3>4
    <3> QED
      BY <3>5, <3>6
  <2> QED
    BY <2>1, <2>2
<1>4. Steps(a)[1] = DefaultState[1] /\ Len(Steps(a)) >= 5 /\ Len(Steps(a)) \in Nat
  BY StepsAreASequence
<1>5. DefaultState[1][1] = "gp2"
  BY DEF DefaultState
<1> QED
  BY <1>1, <1>3, <1>4, <1>5
-----------------------------------------------------------------------------
\* A run moves, the others stay where they are.
LEMMA PassedAfter ==
    ASSUME IInv, Passed, NEW r \in Runs, Active(r), NEW step, Goto(r, step),
           \A q \in Runs \ {r} : at'[q] = at[q],
           step \in {"idle", "stage", "provider", "list", "demote"} => at'[r] = 1,
           step = "steps" => \A i \in 1..at'[r] - 1 : Done(r, i)'
    PROVE  Passed'
<1>1. /\ pc'[r] = step
      /\ \A q \in Runs \ {r} : /\ pc'[q] = pc[q] /\ ~Active(q)
                               /\ pc'[q] \notin {"provider", "list", "demote", "steps"}
  BY RunsAlone
<1>2. ASSUME NEW q \in Runs \ {r}, pc'[q] \in {"idle", "stage", "provider", "list", "demote"}
      PROVE  at'[q] = 1
  BY <1>1, <1>2 DEF Passed
<1> QED
  BY <1>1, <1>2 DEF Passed

\* Steps that write no object and end no request.
LEMMA PassedQuiet ==
    ASSUME Passed, Filled, UNCHANGED <<cluster, objects, defaults, pc, auth, at>>
    PROVE  Passed' /\ Filled'
<1>1. \A r \in Runs : \A i : Done(r, i)' <=> Done(r, i)
  BY DEF Done
<1>2. Passed'
  BY <1>1 DEF Passed
<1> QED
  BY <1>2 DEF Filled

\* A command begins, or the cluster is deleted, when no other runs.
LEMMA PassedBetween ==
    ASSUME CInv, Overlap = FALSE, DeleteCluster \/ \E r \in Runs : Begin(r)
    PROVE  Passed' /\ Filled'
<1> USE DEF CInv
<1>1. at' = at /\ \A q \in Runs : ~Active(q)
  BY DEF DeleteCluster, Begin, MayBegin, progress
<1>2. \A q \in Runs : (pc'[q] = pc[q] \/ (pc[q] = "idle" /\ pc'[q] = "stage"))
  BY DEF DeleteCluster, Begin, Goto, IInv, Typed
<1>3. Passed'
  BY <1>1, <1>2 DEF Passed, Active
<1>4. Filled'
  <2>1. CASE DeleteCluster
    BY <2>1, StepObjects DEF DeleteCluster, None, Filled
  <2>2. CASE \E r \in Runs : Begin(r)
    BY <2>2 DEF Begin, kube, Filled
  <2> QED
    BY <2>1, <2>2
<1> QED
  BY <1>3, <1>4

\* The steps before the first object, and the ends of a run.
LEMMA PassedMove ==
    ASSUME CInv, NEW r \in Runs,
           \/ Stage(r) \/ DemoteEnd(r) \/ Ready(r) \/ ListClasses(r) \/ GiveUp(r) \/ Fail(r)
           \/ CreateCluster(r) \/ FailAfterCreate(r) \/ ReuseCluster(r)
    PROVE  Passed' /\ Filled'
<1> USE DEF CInv
<1>1. Active(r)
  BY DEF Stage, DemoteEnd, Ready, ListClasses, GiveUp, Refused, InSteps, Conflict, Fail, Active,
         CreateCluster, FailAfterCreate, ReuseCluster
<1>2. PICK step \in {"provider", "list", "demote", "steps", "ready", "failed"} :
         /\ Goto(r, step)
         /\ step \in {"provider", "list", "demote", "steps"} =>
               pc[r] \in {"stage", "provider", "list", "demote"} /\ at' = at
  BY DEF Stage, DemoteEnd, Ready, ListClasses, GiveUp, Fail, CreateCluster, FailAfterCreate,
         ReuseCluster, End, progress
<1>3. at[r] \in Nat
  BY DEF IInv, Typed
<1>4. \A q \in Runs \ {r} : at'[q] = at[q]
  BY DEF Stage, DemoteEnd, Ready, ListClasses, GiveUp, Fail, CreateCluster, FailAfterCreate,
         ReuseCluster, End, progress, IInv, Typed
<1>5. step \in {"provider", "list", "demote", "steps"} => at'[r] = 1
  BY <1>2 DEF Passed
<1>6. step \in {"idle", "stage", "provider", "list", "demote"} => at'[r] = 1
  BY <1>2, <1>5
<1>7. step = "steps" => \A i \in 1..at'[r] - 1 : Done(r, i)'
  BY <1>5
<1>8. Passed'
  BY <1>1, <1>2, <1>4, <1>6, <1>7, PassedAfter
<1>9. Filled'
  <2>1. CASE Stage(r) \/ DemoteEnd(r) \/ Ready(r) \/ ListClasses(r) \/ GiveUp(r) \/ Fail(r)
    BY <2>1 DEF Stage, DemoteEnd, Ready, ListClasses, GiveUp, Fail, kube, Filled
  <2>2. CASE CreateCluster(r) \/ FailAfterCreate(r)
    <3>1. cluster = 0 /\ cluster' = r /\ objects' = objects
      BY <2>2 DEF CreateCluster, FailAfterCreate, ClusterUp
    <3>2. r # 0
      BY SetupAssumption DEF Runs
    <3> QED
      BY <3>1, <3>2, StepObjects DEF Filled
  <2>3. CASE ReuseCluster(r)
    BY <2>3 DEF ReuseCluster, Filled
  <2> QED
    BY <2>1, <2>2, <2>3
<1> QED
  BY <1>8, <1>9

\* An object is written, or one that exists is kept.
LEMMA PassedObject ==
    ASSUME CInv, NEW r \in Runs,
           CreateObject(r) \/ UpdateObject(r) \/ FailAfterWrite(r) \/ KeepObject(r)
    PROVE  Passed' /\ Filled'
<1> USE DEF CInv
<1>1. InSteps(r) /\ UNCHANGED <<cluster, auth>>
  BY DEF CreateObject, UpdateObject, FailAfterWrite, KeepObject, others, unwritten, kube
<1>2. /\ pc[r] = "steps" /\ Active(r) /\ cluster # 0 /\ r # 0 /\ auth[r] \in BOOLEAN
      /\ at[r] \in Nat \ {0}
  BY <1>1, SetupAssumption DEF InSteps, Active, IInv, RunOK, Typed, Runs
<1>3. Obj(r) \in Objects /\ \A i \in 1..at[r] : Steps(auth[r])[i][1] \in Objects
  <2>1. at[r] <= Len(Steps(auth[r])) /\ Len(Steps(auth[r])) \in Nat
    BY <1>1, <1>2, StepsAreASequence DEF InSteps
  <2>2. \A i \in 1..Len(Steps(auth[r])) : Steps(auth[r])[i][1] \in Objects
    BY <1>2, StepObjects
  <2>3. \A i \in 1..at[r] : i \in 1..Len(Steps(auth[r]))
    BY <1>2, <2>1
  <2>4. at[r] \in 1..at[r]
    BY <1>2
  <2> QED
    BY <2>2, <2>3, <2>4 DEF Obj, Todo
<1>4. \/ Write(r)
      \/ UNCHANGED <<objects, defaults>> /\ How(r) = "create" /\ objects[Obj(r)] # 0
  BY DEF CreateObject, UpdateObject, FailAfterWrite, KeepObject, unwritten, kube
<1>5. /\ \A o \in Objects : objects'[o] \in {objects[o], r}
      /\ objects'[Obj(r)] # 0 /\ (How(r) # "create" => objects'[Obj(r)] = r)
  BY <1>2, <1>3, <1>4 DEF Write, IInv, Typed
<1>6. \A i \in 1..at[r] : Done(r, i)'
  <2> SUFFICES ASSUME NEW i \in 1..at[r] PROVE Done(r, i)'
    OBVIOUS
  <2>1. CASE i = at[r]
    BY <1>1, <1>5, <2>1 DEF Done, Obj, How, Todo
  <2>2. CASE i # at[r]
    <3>1. i \in 1..at[r] - 1
      BY <1>2, <2>2
    <3>2. Done(r, i)
      BY <1>2, <3>1 DEF Passed
    <3>3. Steps(auth[r])[i][1] \in Objects
      BY <1>3
    <3> QED
      BY <1>1, <1>2, <1>5, <3>2, <3>3 DEF Done
  <2> QED
    BY <2>1, <2>2
<1>7. \A q \in Runs \ {r} : at'[q] = at[q]
  BY DEF CreateObject, UpdateObject, FailAfterWrite, KeepObject, Advance, End, IInv, Typed
<1>8. \/ Goto(r, "failed")
      \/ Goto(r, "steps") /\ at'[r] = at[r] + 1
  <2>1. CASE FailAfterWrite(r)
    BY <2>1 DEF FailAfterWrite, End
  <2>2. CASE CreateObject(r) \/ UpdateObject(r) \/ KeepObject(r)
    <3>1. pc' = pc /\ at'[r] = at[r] + 1
      BY <2>2 DEF CreateObject, UpdateObject, KeepObject, Advance, others, unwritten, IInv, Typed
    <3>2. pc = [pc EXCEPT ![r] = "steps"]
      BY <1>2 DEF IInv, Typed
    <3> QED
      BY <3>1, <3>2 DEF Goto
  <2> QED
    BY <2>1, <2>2
<1>9. Passed'
  <2>1. CASE Goto(r, "failed")
    BY <1>2, <1>7, <2>1, PassedAfter
  <2>2. CASE Goto(r, "steps") /\ at'[r] = at[r] + 1
    <3>1. \A i \in 1..at'[r] - 1 : Done(r, i)'
      BY <1>2, <1>6, <2>2
    <3> QED
      BY <1>2, <1>7, <2>2, <3>1, PassedAfter
  <2> QED
    BY <1>8, <2>1, <2>2
<1>10. Filled'
  <2>1. objects'["gp2"] # 0 => "gp2" \in defaults'
    BY <1>3, <1>4, StepObjects DEF Write, Filled, IInv, Typed
  <2> QED
    BY <1>1, <1>2, <2>1 DEF Filled
<1> QED
  BY <1>9, <1>10

\* The two parts hold throughout.
THEOREM CompleteInvariance == Overlap = FALSE => (Spec => []CInv)
<1> SUFFICES ASSUME Overlap = FALSE PROVE Spec => []CInv
  OBVIOUS
<1>1. Init => CInv
  <2> SUFFICES ASSUME Init PROVE Passed /\ Filled
    BY Initially DEF CInv
  <2>1. Passed
    BY DEF Init, Passed
  <2>2. Filled
    BY StepObjects DEF Init, None, Filled
  <2> QED
    BY <2>1, <2>2
<1>2. CInv /\ [Next]_vars => CInv'
  <2> SUFFICES ASSUME CInv, [Next]_vars PROVE Passed' /\ Filled'
    BY NextStep DEF CInv
  <2>1. ASSUME \/ UNCHANGED vars
               \/ \E o \in Objects \cup Preinstalled : Touch(o)
               \/ \E w \in Workloads : StartPod(w) \/ StopPod(w)
               \/ \E r \in Runs : \/ ObjectExists(r) \/ GetObject(r) \/ LookUpObject(r)
                                  \/ UpdateConflict(r)
        PROVE  Passed' /\ Filled'
    <3>1. UNCHANGED <<cluster, objects, defaults, pc, auth, at>>
      BY <2>1 DEF vars, kube, progress, unwritten, Touch, StartPod, StopPod,
                  ObjectExists, GetObject, LookUpObject, UpdateConflict
    <3> QED
      BY <3>1, PassedQuiet DEF CInv
  <2>2. ASSUME NEW r \in Runs, NEW c \in Preinstalled, Demote(r, c) PROVE Passed' /\ Filled'
    <3>1. UNCHANGED <<cluster, objects, pc, auth, at>> /\ defaults' = defaults \ {c} /\ c # "gp2"
      BY <2>2, SetupAssumption DEF Demote, Demoted
    <3>2. Passed'
      BY <3>1 DEF CInv, Passed, Done
    <3>3. Filled'
      BY <3>1 DEF CInv, Filled
    <3> QED
      BY <3>2, <3>3
  <2>3. ASSUME NEW r \in Runs, Go(r) PROVE Passed' /\ Filled'
    BY <2>1, <2>2, <2>3, PassedMove, PassedObject DEF Go
  <2>4. CASE \E r \in Runs : Begin(r) \/ Fail(r) \/ FailAfterCreate(r) \/ FailAfterWrite(r)
    BY <2>4, PassedBetween, PassedMove, PassedObject
  <2>5. CASE DeleteCluster
    BY <2>5, PassedBetween
  <2> QED
    BY <2>1, <2>3, <2>4, <2>5 DEF Next
<1> QED
  BY <1>1, <1>2, PTL DEF Spec

\* "Cluster %q is ready": the message is printed only when every object is
\* there, gp2 is the only default class, and what is not merely kept is of this
\* run, whatever earlier runs left half done.
THEOREM ReadyMeansComplete == Overlap = FALSE => (Spec => ReadyIsComplete)
<1>1. ASSUME CInv, [Next]_vars, NEW r \in Runs, pc'[r] = "ready", pc[r] # "ready"
      PROVE  Complete(r)
  <2> USE DEF CInv
  <2>1. pc' # pc
    BY <1>1
  <2>2. ASSUME NEW q \in Runs, NEW step, Goto(q, step) PROVE q = r /\ step = "ready"
    BY <1>1, <2>2 DEF Goto, IInv, Typed
  <2>3. Ready(r)
    <3>1. PICK q \in Runs : Begin(q) \/ Go(q) \/ Fail(q) \/ FailAfterCreate(q) \/ FailAfterWrite(q)
      BY <1>1, <2>1 DEF Next, vars, DeleteCluster, Touch, StartPod, StopPod
    <3>2. ~Begin(q) /\ ~Fail(q) /\ ~FailAfterCreate(q) /\ ~FailAfterWrite(q)
      BY <2>2 DEF Begin, Fail, FailAfterCreate, FailAfterWrite, End
    <3>3. ~Stage(q) /\ ~CreateCluster(q) /\ ~ReuseCluster(q) /\ ~ListClasses(q) /\ ~DemoteEnd(q)
      BY <2>2 DEF Stage, CreateCluster, ReuseCluster, ListClasses, DemoteEnd
    <3>4. ~GiveUp(q) /\ ~\E c \in Preinstalled : Demote(q, c)
      BY <2>1, <2>2 DEF GiveUp, End, Demote
    <3>5. /\ ~CreateObject(q) /\ ~KeepObject(q) /\ ~ObjectExists(q) /\ ~GetObject(q)
          /\ ~LookUpObject(q) /\ ~UpdateObject(q) /\ ~UpdateConflict(q)
      BY <2>1 DEF CreateObject, KeepObject, ObjectExists, GetObject, LookUpObject, UpdateObject,
                  UpdateConflict, others, unwritten
    <3>6. Ready(q)
      BY <3>1, <3>2, <3>3, <3>4, <3>5 DEF Go
    <3>7. q = r
      BY <2>2, <3>6 DEF Ready
    <3> QED
      BY <3>6, <3>7
  <2>4. /\ pc[r] = "steps" /\ at[r] > Len(Steps(auth[r])) /\ at[r] \in Nat
        /\ auth[r] \in BOOLEAN
    BY <1>1, <2>3 DEF Ready, IInv, Typed
  <2>5. \A i \in 1..Len(Steps(auth[r])) : Done(r, i)
    <3>1. Len(Steps(auth[r])) \in Nat
      BY <2>4, StepsAreASequence
    <3>2. \A i \in 1..Len(Steps(auth[r])) : i \in 1..at[r] - 1
      BY <2>4, <3>1
    <3> QED
      BY <1>1, <2>4, <3>2 DEF Passed
  <2>6. DOMAIN Steps(auth[r]) = 1..Len(Steps(auth[r])) /\ Steps(auth[r])[1][1] = "gp2"
    BY <2>4, StepObjects
  <2>7. \A o \in ObjectsOf(auth[r]) : objects[o] # 0
    BY <2>5, <2>6 DEF ObjectsOf, Done
  <2>8. defaults = {"gp2"}
    <3>1. 1 \in 1..Len(Steps(auth[r]))
      BY <2>4, StepsAreASequence
    <3>2. objects["gp2"] # 0
      BY <2>5, <2>6, <3>1 DEF Done
    <3> QED
      BY <1>1, <3>2 DEF Filled, IInv, SoleDefault
  <2> QED
    BY <2>5, <2>6, <2>7, <2>8 DEF Complete, Done
<1>2. CInv /\ [Next]_vars => [\A r \in Runs : pc'[r] = "ready" /\ pc[r] # "ready" => Complete(r)]_vars
  BY <1>1
<1> QED
  BY <1>2, CompleteInvariance, PTL DEF Spec, ReadyIsComplete
-----------------------------------------------------------------------------
(* Why a run fails.                                                         *)

CauseTyped ==
    /\ target \in [Runs -> 0..MaxRuns]
    /\ phase \in [Runs -> {"first", "create", "get", "update", "patch"}]
    /\ tries \in [Runs -> Nat]
    /\ stale \in [Runs -> SUBSET (Objects \cup Preinstalled)]
    /\ failures \in Nat /\ touches \in Nat

\* What a run has read is outdated only while it is about to write it back, at
\* the price of one write by somebody else for each attempt; the answer to a
\* request that finds out whether the object exists is still true.
StepOK(r) ==
    /\ stale[r] # {} => stale[r] = {Obj(r)} /\ phase[r] = "update" /\ touches >= tries[r] + 1
    /\ touches >= tries[r]
    /\ phase[r] # "first" => at[r] <= Len(Steps(auth[r]))
    /\ phase[r] = "create" => objects[Obj(r)] = 0
    /\ phase[r] \in {"get", "update", "patch"} => objects[Obj(r)] # 0
    /\ phase[r] \in {"get", "update"} => Updates(r)

CauseOK(r) ==
    /\ pc[r] \in {"list", "demote", "steps"} => target[r] = cluster
    /\ pc[r] \in {"idle", "stage", "provider", "list", "demote"} => phase[r] = "first" /\ tries[r] = 0
    /\ pc[r] \notin {"demote", "steps"} => stale[r] = {}
    /\ pc[r] = "demote" => stale[r] \subseteq todo[r]
    /\ pc[r] = "steps" => StepOK(r)

Causes == CauseTyped /\ \A r \in Runs : CauseOK(r)
FInv == IInv /\ Causes
-----------------------------------------------------------------------------
\* One run moves, the others have nothing to lose.
LEMMA CausesAfter ==
    ASSUME FInv, NEW r \in Runs, Active(r), NEW step, Goto(r, step), CauseTyped', CauseOK(r)',
           \A q \in Runs \ {r} : phase'[q] = phase[q] /\ tries'[q] = tries[q] /\ stale'[q] = stale[q]
    PROVE  Causes'
<1>1. \A q \in Runs \ {r} : pc'[q] = pc[q] /\ ~Active(q)
  BY RunsAlone DEF FInv
<1>2. ASSUME NEW q \in Runs \ {r} PROVE CauseOK(q)'
  <2>1. CauseOK(q) /\ pc[q] \in {"idle", "ready", "failed"}
    BY <1>1 DEF FInv, Causes, Active
  <2> QED
    BY <1>1, <2>1 DEF CauseOK
<1> QED
  BY <1>2 DEF Causes

\* What the only active run writes outdates nothing that a run holds.
LEMMA OwnWrite ==
    ASSUME FInv, NEW r \in Runs, Active(r), NEW o, Outdate(o, r)
    PROVE  stale' = stale
<1>1. \A q \in Runs \ {r} : Holds(q) = {}
  BY DEF FInv, IInv, Alone, Active, Holds
<1>2. \A q \in Runs : stale'[q] = stale[q]
  BY <1>1 DEF Outdate
<1> QED
  BY <1>2 DEF Outdate, FInv, Causes, CauseTyped

\* Between commands nothing is held.
LEMMA CausesBetween ==
    ASSUME FInv, Overlap = FALSE, DeleteCluster \/ \E r \in Runs : Begin(r)
    PROVE  Causes'
<1> USE DEF FInv
<1>1. UNCHANGED <<target, phase, tries, stale, failures, touches>> /\ \A q \in Runs : ~Active(q)
  BY DEF DeleteCluster, Begin, MayBegin, progress, counters
<1>2. \A q \in Runs : pc'[q] = pc[q] \/ (pc[q] = "idle" /\ pc'[q] = "stage")
  BY DEF DeleteCluster, Begin, Goto, IInv, Typed
<1>3. \A q \in Runs : CauseOK(q) /\ pc[q] \in {"idle", "ready", "failed"}
  BY <1>1 DEF Causes, Active
<1>4. \A q \in Runs : CauseOK(q)'
  BY <1>1, <1>2, <1>3 DEF CauseOK
<1> QED
  BY <1>1, <1>4 DEF Causes, CauseTyped

\* Up to the first object, and from the last to the message.
LEMMA CausesMove ==
    ASSUME FInv, NEW r \in Runs,
           \/ Stage(r) \/ CreateCluster(r) \/ ReuseCluster(r) \/ ListClasses(r)
           \/ DemoteEnd(r) \/ Ready(r)
    PROVE  Causes'
<1> USE DEF FInv
<1>1. Active(r) /\ UNCHANGED <<at, phase, tries, stale, failures, touches>>
  BY DEF Stage, CreateCluster, ReuseCluster, ListClasses, DemoteEnd, Ready, Active, progress, counters
<1>2. CauseTyped'
  <2>1. target' \in [Runs -> 0..MaxRuns]
    <3>1. r \in 0..MaxRuns /\ cluster \in 0..MaxRuns /\ target \in [Runs -> 0..MaxRuns]
      BY SetupAssumption DEF IInv, Typed, Causes, CauseTyped, Runs
    <3> QED
      BY <3>1 DEF Stage, CreateCluster, ClusterUp, ReuseCluster, ListClasses, DemoteEnd, Ready
  <2> QED
    BY <1>1, <2>1 DEF Causes, CauseTyped
<1>3. CauseOK(r) /\ touches \in Nat
  BY DEF Causes, CauseTyped
<1>4. PICK step \in {"provider", "list", "demote", "steps", "ready"} :
         /\ Goto(r, step) /\ pc'[r] = step
         /\ step = "provider" => Stage(r)
         /\ step = "list" => CreateCluster(r) \/ ReuseCluster(r)
         /\ step = "demote" => ListClasses(r)
         /\ step = "steps" => DemoteEnd(r)
         /\ step = "ready" => Ready(r)
  BY DEF Stage, CreateCluster, ReuseCluster, ListClasses, DemoteEnd, Ready, Goto, IInv, Typed
<1>5. CauseOK(r)'
  <2>1. CASE step \in {"provider", "list"}
    <3>1. pc[r] \in {"stage", "provider"}
      BY <1>4, <2>1 DEF Stage, CreateCluster, ReuseCluster
    <3>2. step = "list" => target'[r] = cluster'
      BY <1>4 DEF CreateCluster, ClusterUp, ReuseCluster, Causes, CauseTyped
    <3> QED
      BY <1>1, <1>3, <1>4, <2>1, <3>1, <3>2 DEF CauseOK
  <2>2. CASE step = "demote"
    <3>1. pc[r] = "list" /\ UNCHANGED <<cluster, target>>
      BY <1>4, <2>2 DEF ListClasses, kube
    <3> QED
      BY <1>1, <1>3, <1>4, <2>2, <3>1 DEF CauseOK
  <2>3. CASE step = "steps"
    <3>1. pc[r] = "demote" /\ todo[r] = {} /\ UNCHANGED <<cluster, target>>
      BY <1>4, <2>3 DEF DemoteEnd, kube
    <3>2. stale[r] = {} /\ phase[r] = "first" /\ tries[r] = 0
      BY <1>3, <3>1 DEF CauseOK
    <3>3. StepOK(r)'
      BY <1>1, <1>3, <3>2 DEF StepOK
    <3> QED
      BY <1>1, <1>3, <1>4, <2>3, <3>1, <3>3 DEF CauseOK
  <2>4. CASE step = "ready"
    <3>1. pc[r] = "steps" /\ at[r] > Len(Steps(auth[r])) /\ StepOK(r)
      BY <1>3, <1>4, <2>4 DEF Ready, CauseOK
    <3>2. at[r] \in Nat /\ Len(Steps(auth[r])) \in Nat
      <4>1. at[r] \in Nat /\ auth[r] \in BOOLEAN
        BY DEF IInv, Typed
      <4> QED
        BY <4>1, StepsAreASequence
    <3>3. ~(at[r] <= Len(Steps(auth[r])))
      BY <3>1, <3>2
    <3>4. stale[r] = {}
      BY <3>1, <3>3 DEF StepOK
    <3> QED
      BY <1>1, <1>4, <2>4, <3>4 DEF CauseOK
  <2> QED
    BY <2>1, <2>2, <2>3, <2>4
<1> QED
  BY <1>1, <1>2, <1>4, <1>5, CausesAfter

\* A run ends with an error.
LEMMA CausesEnd ==
    ASSUME FInv, NEW r \in Runs, GiveUp(r) \/ Fail(r) \/ FailAfterCreate(r) \/ FailAfterWrite(r)
    PROVE  Causes'
<1> USE DEF FInv
<1>1. Active(r) /\ End(r)
  BY DEF GiveUp, Refused, InSteps, Conflict, Fail, FailAfterCreate, FailAfterWrite, Active
<1>2. Goto(r, "failed") /\ pc'[r] = "failed"
  BY <1>1 DEF End, Goto, IInv, Typed
<1>3. CauseOK(r)
  BY DEF Causes
<1>4. stale' \in [Runs -> SUBSET (Objects \cup Preinstalled)] /\ stale'[r] = {}
      /\ \A q \in Runs \ {r} : stale'[q] = stale[q]
  <2>1. CASE GiveUp(r) \/ Fail(r)
    BY <2>1 DEF GiveUp, Fail, Causes, CauseTyped
  <2>2. CASE FailAfterCreate(r)
    BY <1>3, <2>2 DEF FailAfterCreate, CauseOK, Causes, CauseTyped
  <2>3. CASE FailAfterWrite(r)
    <3>1. stale' = stale
      BY <1>1, <2>3, OwnWrite DEF FailAfterWrite, Write
    <3>2. StepOK(r)
      BY <1>3, <2>3 DEF FailAfterWrite, InSteps, CauseOK
    <3>3. stale[r] = {}
      BY <2>3, <3>2 DEF FailAfterWrite, Creating, StepOK
    <3> QED
      BY <3>1, <3>3 DEF Causes, CauseTyped
  <2> QED
    BY <2>1, <2>2, <2>3
<1>5. CauseTyped'
  <2>1. target' \in [Runs -> 0..MaxRuns]
    <3>1. r \in 0..MaxRuns /\ target \in [Runs -> 0..MaxRuns]
      BY SetupAssumption DEF Causes, CauseTyped, Runs
    <3> QED
      BY <3>1 DEF GiveUp, Fail, FailAfterCreate, ClusterUp, FailAfterWrite
  <2>2. /\ phase' \in [Runs -> {"first", "create", "get", "update", "patch"}]
        /\ tries' \in [Runs -> Nat]
    BY <1>1 DEF End, Causes, CauseTyped
  <2>3. failures' \in Nat /\ touches' \in Nat
    BY DEF GiveUp, Fail, FailAfterCreate, FailAfterWrite, Failure, counters, Causes, CauseTyped
  <2> QED
    BY <1>4, <2>1, <2>2, <2>3 DEF CauseTyped
<1>6. CauseOK(r)'
  BY <1>2, <1>4 DEF CauseOK
<1>7. \A q \in Runs \ {r} : phase'[q] = phase[q] /\ tries'[q] = tries[q]
  BY <1>1 DEF End, Causes, CauseTyped
<1> QED
  BY <1>1, <1>2, <1>4, <1>5, <1>6, <1>7, CausesAfter

\* A class is demoted.
LEMMA CausesDemote ==
    ASSUME FInv, NEW r \in Runs, NEW c \in Preinstalled, Demote(r, c)
    PROVE  Causes'
<1> USE DEF FInv
<1>1. /\ pc[r] = "demote" /\ Active(r) /\ c \notin stale[r] /\ Outdate(c, r)
      /\ UNCHANGED <<cluster, pc, target, phase, tries, failures, touches>>
      /\ todo'[r] = todo[r] \ {c}
  BY DEF Demote, Demoted, Active, counters, IInv, Typed
<1>2. stale' = stale
  BY <1>1, OwnWrite
<1>3. CauseTyped'
  BY <1>1, <1>2 DEF Causes, CauseTyped
<1>4. CauseOK(r)'
  <2>1. CauseOK(r)
    BY DEF Causes
  <2> QED
    BY <1>1, <1>2, <2>1 DEF CauseOK
<1>5. Goto(r, "demote")
  BY <1>1 DEF Goto, IInv, Typed
<1> QED
  BY <1>1, <1>2, <1>3, <1>4, <1>5, CausesAfter

\* A request that writes nothing is answered.
LEMMA CausesRequest ==
    ASSUME FInv, NEW r \in Runs,
           \/ ObjectExists(r) \/ GetObject(r) \/ LookUpObject(r) \/ UpdateConflict(r)
    PROVE  Causes'
<1> USE DEF FInv
<1>1. InSteps(r) /\ UNCHANGED <<cluster, objects, pc, auth, target, at, failures, touches>>
  BY DEF ObjectExists, GetObject, LookUpObject, UpdateConflict, unwritten, kube, counters
<1>2. pc[r] = "steps" /\ Active(r) /\ at[r] <= Len(Steps(auth[r]))
  BY <1>1 DEF InSteps, Active
<1>3. CauseOK(r) /\ StepOK(r)
  BY <1>2 DEF Causes, CauseOK
<1>4. Obj(r)' = Obj(r) /\ (Updates(r)' <=> Updates(r))
  BY <1>1 DEF Obj, Updates, How, Todo
<1>5. PICK p \in {"get", "update", "create", "patch"} :
         /\ phase' = [phase EXCEPT ![r] = p]
         /\ p = "create" => objects[Obj(r)] = 0
         /\ p \in {"get", "update", "patch"} => objects[Obj(r)] # 0
         /\ p \in {"get", "update"} => Updates(r)
  BY <1>3 DEF ObjectExists, GetObject, LookUpObject, UpdateConflict, Request, Conflict, StepOK
<1>6. /\ stale' \in [Runs -> SUBSET (Objects \cup Preinstalled)]
      /\ stale'[r] = {} /\ \A q \in Runs \ {r} : stale'[q] = stale[q]
  <2>1. CASE GetObject(r) \/ UpdateConflict(r)
    BY <2>1 DEF GetObject, UpdateConflict, Causes, CauseTyped
  <2>2. CASE ObjectExists(r) \/ LookUpObject(r)
    BY <1>3, <2>2 DEF ObjectExists, LookUpObject, StepOK, Causes, CauseTyped
  <2> QED
    BY <2>1, <2>2
<1>7. /\ tries' \in [Runs -> Nat] /\ touches >= tries'[r]
      /\ \A q \in Runs \ {r} : tries'[q] = tries[q]
  <2>1. CASE UpdateConflict(r)
    <3>1. touches >= tries[r] + 1
      BY <1>3, <2>1 DEF UpdateConflict, Conflict, StepOK
    <3> QED
      BY <2>1, <3>1 DEF UpdateConflict, Causes, CauseTyped
  <2>2. CASE ObjectExists(r) \/ GetObject(r) \/ LookUpObject(r)
    BY <1>3, <2>2 DEF ObjectExists, GetObject, LookUpObject, StepOK, Causes, CauseTyped
  <2> QED
    BY <2>1, <2>2
<1>8. CauseTyped'
  <2>1. phase' \in [Runs -> {"first", "create", "get", "update", "patch"}]
    BY <1>5 DEF Causes, CauseTyped
  <2> QED
    BY <1>1, <1>6, <1>7, <2>1 DEF Causes, CauseTyped
<1>9. phase'[r] = p /\ \A q \in Runs \ {r} : phase'[q] = phase[q]
  BY <1>5 DEF Causes, CauseTyped
<1>10. StepOK(r)'
  BY <1>1, <1>2, <1>4, <1>5, <1>6, <1>7, <1>9 DEF StepOK
<1>11. CauseOK(r)'
  BY <1>1, <1>2, <1>3, <1>10 DEF CauseOK
<1>12. Goto(r, "steps")
  BY <1>1, <1>2 DEF Goto, IInv, Typed
<1> QED
  BY <1>2, <1>6, <1>7, <1>8, <1>9, <1>11, <1>12, CausesAfter

\* A run is done with an object.
LEMMA CausesAdvance ==
    ASSUME FInv, NEW r \in Runs, CreateObject(r) \/ UpdateObject(r) \/ KeepObject(r)
    PROVE  Causes'
<1> USE DEF FInv
<1>1. InSteps(r) /\ Advance(r) /\ UNCHANGED <<cluster, pc, auth, target, failures, touches>>
  BY DEF CreateObject, UpdateObject, KeepObject, others, unwritten, kube, counters
<1>2. pc[r] = "steps" /\ Active(r)
  BY <1>1 DEF InSteps, Active
<1>3. CauseOK(r) /\ StepOK(r) /\ touches \in Nat
  BY <1>2 DEF Causes, CauseOK, CauseTyped
<1>4. stale' = stale
  BY <1>2, OwnWrite DEF CreateObject, UpdateObject, KeepObject, Write
<1>5. stale[r] = {}
  <2>1. CASE CreateObject(r) \/ UpdateObject(r)
    BY <1>3, <2>1 DEF CreateObject, UpdateObject, Creating, StepOK
  <2>2. CASE KeepObject(r)
    <3>1. ~Updates(r)
      BY <2>2 DEF KeepObject, Updates
    <3> QED
      BY <1>3, <3>1 DEF StepOK
  <2> QED
    BY <2>1, <2>2
<1>6. /\ phase'[r] = "first" /\ tries'[r] = 0
      /\ \A q \in Runs \ {r} : phase'[q] = phase[q] /\ tries'[q] = tries[q]
  BY <1>1 DEF Advance, Causes, CauseTyped
<1>7. CauseTyped'
  BY <1>1, <1>4 DEF Advance, Causes, CauseTyped
<1>8. StepOK(r)'
  BY <1>1, <1>3, <1>4, <1>5, <1>6 DEF StepOK
<1>9. CauseOK(r)'
  BY <1>1, <1>2, <1>3, <1>8 DEF CauseOK
<1>10. Goto(r, "steps")
  BY <1>1, <1>2 DEF Goto, IInv, Typed
<1> QED
  BY <1>2, <1>4, <1>6, <1>7, <1>9, <1>10, CausesAfter

\* Somebody writes what the run holds: that is one write more.
LEMMA CausesTouch ==
    ASSUME FInv, NEW o \in Objects \cup Preinstalled, Touch(o)
    PROVE  Causes'
<1> USE DEF FInv
<1>1. PICK r \in Runs : o \in Holds(r) \ stale[r]
  BY DEF Touch
<1>2. /\ touches' = touches + 1 /\ touches \in Nat /\ Outdate(o, 0)
      /\ UNCHANGED <<cluster, objects, pc, auth, target, at, phase, tries, todo, failures>>
  BY DEF Touch, kube, Causes, CauseTyped
<1>3. pc[r] \in {"demote", "steps"} /\ Active(r)
  BY <1>1 DEF Holds, Active
<1>4. \A q \in Runs \ {r} : Holds(q) = {}
  BY <1>3 DEF IInv, Alone, Active, Holds
<1>5. \A q \in Runs \ {r} : stale'[q] = stale[q]
  BY <1>2, <1>4 DEF Outdate
<1>6. stale'[r] = stale[r] \cup {o}
  <2>1. r # 0
    BY SetupAssumption DEF Runs
  <2> QED
    BY <1>1, <1>2, <2>1 DEF Outdate
<1>7. CauseTyped'
  <2>1. stale' \in [Runs -> SUBSET (Objects \cup Preinstalled)]
    BY <1>2 DEF Outdate, Causes, CauseTyped
  <2> QED
    BY <1>2, <2>1 DEF Causes, CauseTyped
<1>8. CauseOK(r)'
  <2>1. CauseOK(r) /\ tries[r] \in Nat
    BY DEF Causes, CauseTyped
  <2>2. CASE pc[r] = "demote"
    <3>1. o \in todo[r]
      BY <1>1, <2>2 DEF Holds
    <3> QED
      BY <1>2, <1>6, <2>1, <2>2, <3>1 DEF CauseOK
  <2>3. CASE pc[r] = "steps"
    <3>1. phase[r] = "update" /\ o = Obj(r) /\ o \notin stale[r]
      BY <1>1, <2>3 DEF Holds
    <3>2. StepOK(r)
      BY <2>1, <2>3 DEF CauseOK
    <3>3. stale'[r] = {Obj(r)}
      BY <1>6, <3>1, <3>2 DEF StepOK
    <3>4. touches' >= tries'[r] + 1 /\ touches' >= tries'[r]
      BY <1>2, <2>1, <3>2 DEF StepOK
    <3>5. Obj(r)' = Obj(r) /\ (Updates(r)' <=> Updates(r))
      BY <1>2 DEF Obj, Updates, How, Todo
    <3>6. StepOK(r)'
      BY <1>2, <3>1, <3>2, <3>3, <3>4, <3>5 DEF StepOK
    <3> QED
      BY <1>2, <2>1, <2>3, <3>6 DEF CauseOK
  <2> QED
    BY <1>3, <2>2, <2>3
<1>9. Goto(r, pc[r])
  BY <1>2 DEF Goto, IInv, Typed
<1> QED
  BY <1>2, <1>3, <1>5, <1>7, <1>8, <1>9, CausesAfter

\* The third part holds throughout.
THEOREM CauseInvariance == Overlap = FALSE => (Spec => []FInv)
<1> SUFFICES ASSUME Overlap = FALSE PROVE Spec => []FInv
  OBVIOUS
<1>1. Init => FInv
  <2> SUFFICES ASSUME Init PROVE Causes
    BY Initially DEF FInv
  <2>1. 0 \in 0..MaxRuns
    BY SetupAssumption
  <2>2. CauseTyped
    BY <2>1 DEF Init, CauseTyped
  <2>3. \A r \in Runs : CauseOK(r)
    BY DEF Init, CauseOK
  <2> QED
    BY <2>2, <2>3 DEF Causes
<1>2. FInv /\ [Next]_vars => FInv'
  <2> SUFFICES ASSUME FInv, [Next]_vars PROVE Causes'
    BY NextStep DEF FInv
  <2>1. ASSUME UNCHANGED vars \/ \E w \in Workloads : StartPod(w) \/ StopPod(w)
        PROVE  Causes'
    <3>1. UNCHANGED <<cluster, objects, pc, auth, target, at, phase, tries, todo, stale, touches>>
      BY <2>1 DEF vars, kube, progress, counters, StartPod, StopPod
    <3>2. failures' \in Nat
      BY <2>1 DEF vars, counters, StartPod, StopPod, Failure, FInv, Causes, CauseTyped
    <3>3. CauseTyped'
      BY <3>1, <3>2 DEF FInv, Causes, CauseTyped
    <3>4. \A r \in Runs : CauseOK(r)'
      BY <3>1 DEF FInv, Causes, CauseOK, StepOK, Obj, Updates, How, Todo
    <3> QED
      BY <3>3, <3>4 DEF Causes
  <2>2. ASSUME NEW r \in Runs, Go(r) PROVE Causes'
    BY <2>2, CausesMove, CausesEnd, CausesDemote, CausesRequest, CausesAdvance DEF Go
  <2>3. CASE \E r \in Runs : Begin(r) \/ Fail(r) \/ FailAfterCreate(r) \/ FailAfterWrite(r)
    BY <2>3, CausesBetween, CausesEnd
  <2>4. CASE DeleteCluster
    BY <2>4, CausesBetween
  <2>5. CASE \E o \in Objects \cup Preinstalled : Touch(o)
    BY <2>5, CausesTouch
  <2> QED
    BY <2>1, <2>2, <2>3, <2>4, <2>5 DEF Next
<1> QED
  BY <1>1, <1>2, PTL DEF Spec

\* Every step can be repeated over what an earlier run left: a run fails only
\* because a request failed, the name is in use, or others wrote in between, as
\* often as retry.DefaultRetry allows.
THEOREM FailureHasCause == Overlap = FALSE => (Spec => FailsOnlyForCause)
<1>1. ASSUME FInv, [Next]_vars, NEW r \in Runs
      PROVE  FailureStep(r)
  <2> SUFFICES ASSUME pc'[r] = "failed", pc[r] # "failed", failures' = failures, pc[r] # "provider"
               PROVE  stale[r] # {} /\ (pc[r] = "steps" /\ How(r) = "upsert" => touches >= MaxTries)
    BY DEF FailureStep
  <2> USE DEF FInv
  <2>1. pc' # pc /\ failures \in Nat /\ failures' # failures + 1
    BY <1>1 DEF Causes, CauseTyped
  <2>2. ASSUME NEW q \in Runs, NEW step, Goto(q, step) PROVE q = r /\ step = "failed"
    BY <1>1, <2>2 DEF Goto, IInv, Typed
  <2>3. GiveUp(r)
    <3>1. PICK q \in Runs : Begin(q) \/ Go(q) \/ Fail(q) \/ FailAfterCreate(q) \/ FailAfterWrite(q)
      BY <1>1, <2>1 DEF Next, vars, DeleteCluster, Touch, StartPod, StopPod
    <3>2. ~Begin(q) /\ ~Fail(q) /\ ~FailAfterCreate(q) /\ ~FailAfterWrite(q)
      BY <2>1, <2>2 DEF Begin, Fail, FailAfterCreate, FailAfterWrite, Failure
    <3>3. ~Stage(q) /\ ~CreateCluster(q) /\ ~ReuseCluster(q) /\ ~ListClasses(q) /\ ~DemoteEnd(q)
      BY <2>2 DEF Stage, CreateCluster, ReuseCluster, ListClasses, DemoteEnd
    <3>4. ~Ready(q) /\ ~\E c \in Preinstalled : Demote(q, c)
      BY <2>1, <2>2 DEF Ready, Demote
    <3>5. /\ ~CreateObject(q) /\ ~KeepObject(q) /\ ~ObjectExists(q) /\ ~GetObject(q)
          /\ ~LookUpObject(q) /\ ~UpdateObject(q) /\ ~UpdateConflict(q)
      BY <2>1 DEF CreateObject, KeepObject, ObjectExists, GetObject, LookUpObject, UpdateObject,
                  UpdateConflict, others, unwritten
    <3>6. GiveUp(q)
      BY <3>1, <3>2, <3>3, <3>4, <3>5 DEF Go
    <3>7. q = r
      BY <2>2, <3>6 DEF GiveUp, End
    <3> QED
      BY <3>6, <3>7
  <2>4. CauseOK(r) /\ tries[r] \in Nat /\ touches \in Nat
    BY <1>1 DEF Causes, CauseTyped
  <2>5. CASE pc[r] = "demote" /\ stale[r] # {}
    BY <2>5
  <2>6. CASE Conflict(r) /\ ~MayRetry(r)
    <3>1. stale[r] # {} /\ StepOK(r)
      BY <2>4, <2>6 DEF Conflict, CauseOK
    <3>2. ASSUME How(r) = "upsert" PROVE touches >= MaxTries
      <4>1. tries[r] + 1 >= MaxTries
        BY <2>4, <2>6, <3>2, SetupAssumption DEF MayRetry
      <4> QED
        BY <2>4, <3>1, <4>1, SetupAssumption DEF StepOK
    <3> QED
      BY <3>1, <3>2
  <2>7. Reaches(r) \/ pc[r] \notin {"list", "demote", "steps"}
    BY <2>4 DEF CauseOK, Reaches
  <2>8. /\ ~(InSteps(r) /\ phase[r] = "create" /\ objects[Obj(r)] # 0)
        /\ ~(InSteps(r) /\ phase[r] \in {"get", "update", "patch"} /\ objects[Obj(r)] = 0)
    BY <2>4 DEF InSteps, CauseOK, StepOK
  <2> QED
    BY <2>3, <2>5, <2>6, <2>7, <2>8 DEF GiveUp, Refused
<1>2. FInv /\ [Next]_vars => [\A r \in Runs : FailureStep(r)]_vars
  BY <1>1
<1> QED
  BY <1>2, CauseInvariance, PTL DEF Spec, FailsOnlyForCause
=============================================================================
