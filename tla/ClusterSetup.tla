---------------------------- MODULE ClusterSetup ----------------------------
(***************************************************************************)
(* `fjord create cluster` (cli/create.go): the authenticator's webhook     *)
(* configuration is staged, rask creates the cluster, and some thirty      *)
(* objects are put into it one request after the other (internal/cluster,  *)
(* clusterinfo.go).  The first error ends the command; nothing is rolled   *)
(* back, and nobody waits for a pod.  Each run makes a CA of its own.      *)
(*                                                                         *)
(* The commands are about one cluster name.  A run is a number, which also *)
(* stands for its CA and for the content of what it writes.  The kubeconfig*)
(* step is in Kubeconfig.tla, the requests of ensureNodeRolePrincipal are  *)
(* in SecretPrincipalStore.tla.                                            *)
(***************************************************************************)
EXTENDS Naturals, Sequences, FiniteSets

CONSTANTS
    MaxRuns,        \* bound: create commands
    Preinstalled,   \* the StorageClasses rask may install as default
    WithKumo,       \* --with-kumo, the same for all runs
    Reuse,          \* whether rask may accept a name that is in use
    Overlap,        \* whether a command is started while another runs
    MaxTries,       \* the steps of retry.DefaultRetry
    MaxFailures,    \* bound: requests that fail, pods that restart
    MaxTouches      \* bound: writes by controllers and users

ASSUME SetupAssumption ==
    /\ {WithKumo, Reuse, Overlap} \subseteq BOOLEAN
    /\ MaxTries \in Nat \ {0} /\ MaxRuns \in Nat
    /\ Preinstalled \cap {"gp2", "gp3"} = {}

Runs == 1..MaxRuns
-----------------------------------------------------------------------------
(* What is put into the cluster, in order: <<object, how>>.                 *)
(*   create  Create; an object that exists is kept                          *)
(*   upsert  Create, or Get and Update, repeated after a conflict           *)
(*   info    Create, or Get and Update once                                 *)
(*   apply   Get, then Create or a merge patch                              *)

\* applyEKSDefaultState, after the demotion.  The documents of the enforcer's
\* manifest are one object.
DefaultState ==
    << <<"gp2", "create">>, <<"gp3", "create">>,
       <<"clusternetworkpolicies crd", "apply">>, <<"targetgroupbindings crd", "apply">>,
       <<"network policy enforcer", "apply">> >>

Kumo == << <<"kumo deployment", "upsert">>, <<"kumo service", "create">> >>

Agent ==
    << <<"agent account", "create">>, <<"agent role", "create">>,
       <<"agent role binding", "create">>, <<"agent deployment", "upsert">>,
       <<"agent service", "create">>, <<"agent nodeport service", "create">> >>

\* deployAuthenticator
Authenticator ==
    << <<"authenticator account", "create">>, <<"authenticator role binding", "create">>,
       <<"authenticator tls", "upsert">>, <<"authenticator daemonset", "upsert">>,
       <<"cluster info", "info">> >>

WebhookRBAC ==
    << <<"webhook account", "create">>, <<"webhook role", "create">>,
       <<"webhook role binding", "create">> >>

\* Mutant: nobody writes the Secret the agent's Deployment mounts.
IRSA_NoAgentSecret ==
    << <<"injector webhook", "upsert">>, <<"webhook tls", "upsert">> >> \o WebhookRBAC \o
    << <<"webhook deployment", "upsert">>, <<"webhook service", "create">>,
       <<"pod identity webhook", "upsert">> >>

\* EnsureIRSA
IRSA ==
    << <<"agent tls", "upsert">>, <<"injector webhook", "upsert">>,
       <<"webhook tls", "upsert">> >> \o WebhookRBAC \o
    << <<"webhook deployment", "upsert">>, <<"webhook service", "create">>,
       <<"pod identity webhook", "upsert">> >>

\* ensureNodeRolePrincipal, EnsureIMDS, EnsurePodIdentity
NodeIdentity ==
    << <<"node role principal", "create">>, <<"imds daemonset", "upsert">>,
       <<"pod identity daemonset", "upsert">> >>

\* deployAgent
DeployAgent ==
    (IF WithKumo THEN Kumo ELSE <<>>) \o Agent \o Authenticator \o IRSA \o NodeIdentity

Steps(a) == DefaultState \o (IF a THEN DeployAgent ELSE <<>>)
ObjectsOf(a) == {Steps(a)[i][1] : i \in DOMAIN Steps(a)}

\* The pods that wait for something else than their own object: what they need,
\* and what they load when they start and never again (the certificate).
AgentPod ==
    [needs |-> {"agent deployment", "agent account", "agent tls"}, loads |-> "agent tls"]
AuthenticatorPod ==
    [needs |-> {"authenticator daemonset", "authenticator account", "authenticator tls"},
     loads |-> "authenticator tls"]
WebhookPod ==
    [needs |-> {"webhook deployment", "webhook account", "webhook tls"}, loads |-> "webhook tls"]
IMDSPod ==
    [needs |-> {"imds daemonset", "agent account"}, loads |-> "imds daemonset"]

Workload ==
    [agent |-> AgentPod, authenticator |-> AuthenticatorPod, webhook |-> WebhookPod, imds |-> IMDSPod]
Workloads == DOMAIN Workload

Objects == ObjectsOf(TRUE) \cup UNION {Workload[w].needs : w \in Workloads}
-----------------------------------------------------------------------------
VARIABLES
    staged,     \* the CA that the staged webhook.yaml trusts, 0 if there is none
    cluster,    \* the run that created the cluster there is, 0 for none
    trusted,    \* the CA by which its API server trusts the authenticator
    objects,    \* object -> the run whose content it has, 0 if it does not exist
    defaults,   \* the StorageClasses that are marked default
    pods,       \* workload -> the run whose content it has loaded, 0 if not running
    pc, auth, target, at, phase, tries, todo,   \* each run: opts.enableAuth, its
                \* cluster, step, request, attempt, the classes it has yet to demote
    stale,      \* each run: what was changed after it read it
    writers,    \* history: the runs that have worked on the cluster
    failures, touches

kube == <<cluster, trusted, objects, defaults, pods, writers>>
progress == <<at, phase, tries, todo, stale>>
counters == <<failures, touches>>
vars == <<staged, kube, pc, auth, target, progress, counters>>

None == [o \in Objects |-> 0]
NoPods == [w \in Workloads |-> 0]

TypeOK ==
    /\ staged \in 0..MaxRuns /\ cluster \in 0..MaxRuns /\ trusted \in 0..MaxRuns
    /\ objects \in [Objects -> 0..MaxRuns]
    /\ defaults \subseteq Preinstalled \cup {"gp2"}
    /\ pods \in [Workloads -> 0..MaxRuns]
    /\ pc \in [Runs -> {"idle", "stage", "provider", "list", "demote", "steps", "ready", "failed"}]
    /\ auth \in [Runs -> BOOLEAN] /\ target \in [Runs -> 0..MaxRuns]
    /\ at \in [Runs -> 1..Len(Steps(TRUE)) + 1]
    /\ phase \in [Runs -> {"first", "create", "get", "update", "patch"}]
    /\ tries \in [Runs -> 0..MaxTries - 1]
    /\ todo \in [Runs -> SUBSET Preinstalled]
    /\ stale \in [Runs -> SUBSET (Objects \cup Preinstalled)]
    /\ writers \subseteq Runs
    /\ failures \in 0..MaxFailures /\ touches \in 0..MaxTouches

Init ==
    /\ staged = 0 /\ cluster = 0 /\ trusted = 0
    /\ objects = None /\ defaults = {} /\ pods = NoPods
    /\ pc = [r \in Runs |-> "idle"]
    /\ auth = [r \in Runs |-> FALSE] /\ target = [r \in Runs |-> 0]
    /\ at = [r \in Runs |-> 1] /\ phase = [r \in Runs |-> "first"]
    /\ tries = [r \in Runs |-> 0]
    /\ todo = [r \in Runs |-> {}] /\ stale = [r \in Runs |-> {}]
    /\ writers = {}
    /\ failures = 0 /\ touches = 0

Active(r) == pc[r] \notin {"idle", "ready", "failed"}
MayBegin == Overlap \/ \A r \in Runs : ~Active(r)
Goto(r, step) == pc' = [pc EXCEPT ![r] = step]
-----------------------------------------------------------------------------
(* Up to a cluster that answers.                                            *)

\* Options are validated and the release is resolved.
Begin(r) ==
    /\ pc[r] = "idle" /\ MayBegin
    /\ r > 1 => pc[r - 1] # "idle"
    /\ \E a \in BOOLEAN : auth' = [auth EXCEPT ![r] = a]
    /\ Goto(r, "stage")
    /\ UNCHANGED <<staged, kube, target, progress, counters>>

\* Mutant: a webhook.yaml that is already there is kept.
Stage_KeepsExisting(r) ==
    /\ pc[r] = "stage"
    /\ staged' = IF auth[r] /\ staged = 0 THEN r ELSE staged
    /\ Goto(r, "provider")
    /\ UNCHANGED <<kube, auth, target, progress, counters>>

\* stageAuthenticator: the directory is cleared, then written for the new CA.
Stage(r) ==
    /\ pc[r] = "stage"
    /\ staged' = IF auth[r] THEN r ELSE staged
    /\ Goto(r, "provider")
    /\ UNCHANGED <<kube, auth, target, progress, counters>>

\* The cluster comes up: the staged file is copied, rask's classes are there.
ClusterUp(r) ==
    /\ cluster = 0 /\ (auth[r] => staged # 0)
    /\ cluster' = r
    /\ trusted' = IF auth[r] THEN staged ELSE 0
    /\ defaults' \in SUBSET Preinstalled
    /\ writers' = {r}
    /\ target' = [target EXCEPT ![r] = r]

CreateCluster(r) ==
    /\ pc[r] = "provider" /\ ClusterUp(r)
    /\ Goto(r, "list")
    /\ UNCHANGED <<staged, objects, pods, auth, progress, counters>>

\* The running cluster is taken as it is; its API server is not restarted.
ReuseCluster(r) ==
    /\ pc[r] = "provider" /\ Reuse /\ cluster # 0
    /\ target' = [target EXCEPT ![r] = cluster]
    /\ writers' = writers \cup {r}
    /\ Goto(r, "list")
    /\ UNCHANGED <<staged, cluster, trusted, objects, defaults, pods, auth, progress, counters>>

\* newDeleteClusterCmd.  The staging directory stays.
DeleteCluster ==
    /\ MayBegin /\ cluster # 0
    /\ cluster' = 0 /\ trusted' = 0
    /\ objects' = None /\ defaults' = {} /\ pods' = NoPods /\ writers' = {}
    /\ UNCHANGED <<staged, pc, auth, target, progress, counters>>
-----------------------------------------------------------------------------
(* Requests of a run.                                                       *)

Reaches(r) == target[r] = cluster
Todo(r) == Steps(auth[r])[at[r]]
Obj(r) == Todo(r)[1]
How(r) == Todo(r)[2]
InSteps(r) == pc[r] = "steps" /\ at[r] <= Len(Steps(auth[r])) /\ Reaches(r)

\* What a run has read and is about to write.
Holds(r) ==
    IF pc[r] = "demote" THEN todo[r]
    ELSE IF pc[r] = "steps" /\ phase[r] = "update" THEN {Obj(r)} ELSE {}
\* o is written by r, or by somebody else (0).
Outdate(o, r) ==
    stale' = [q \in Runs |-> IF q # r /\ o \in Holds(q) THEN stale[q] \cup {o} ELSE stale[q]]

\* demoteDefaultClasses: the List.
ListClasses(r) ==
    /\ pc[r] = "list" /\ Reaches(r)
    /\ todo' = [todo EXCEPT ![r] = defaults \ {"gp2"}]
    /\ Goto(r, "demote")
    /\ UNCHANGED <<staged, kube, auth, target, at, phase, tries, stale, counters>>

Demoted(r, c) ==
    /\ defaults' = defaults \ {c}
    /\ Outdate(c, r)

\* One Update for each of them.
Demote(r, c) ==
    /\ pc[r] = "demote" /\ Reaches(r)
    /\ c \in todo[r] \ stale[r]
    /\ Demoted(r, c)
    /\ todo' = [todo EXCEPT ![r] = @ \ {c}]
    /\ UNCHANGED <<staged, cluster, trusted, objects, pods, writers, pc, auth, target, at, phase, tries, counters>>

\* Mutant: the demotion ends with the first class.
DemoteEnd_AfterFirst(r) ==
    /\ pc[r] = "demote" /\ Cardinality(todo[r]) <= 1
    /\ todo' = [todo EXCEPT ![r] = {}]
    /\ Goto(r, "steps")
    /\ UNCHANGED <<staged, kube, auth, target, at, phase, tries, stale, counters>>

DemoteEnd(r) ==
    /\ pc[r] = "demote" /\ todo[r] = {}
    /\ Goto(r, "steps")
    /\ UNCHANGED <<staged, kube, auth, target, progress, counters>>

Write(r) ==
    /\ objects' = [objects EXCEPT ![Obj(r)] = r]
    /\ defaults' = IF Obj(r) = "gp2" /\ objects["gp2"] = 0 THEN defaults \cup {"gp2"} ELSE defaults
    /\ Outdate(Obj(r), r)

Advance(r) ==
    /\ at' = [at EXCEPT ![r] = @ + 1]
    /\ phase' = [phase EXCEPT ![r] = "first"]
    /\ tries' = [tries EXCEPT ![r] = 0]

Request(r, p) == phase' = [phase EXCEPT ![r] = p]
unwritten == <<staged, kube, pc, auth, target, todo, counters>>
others == <<staged, cluster, trusted, pods, writers, pc, auth, target, todo, counters>>

Creating(r) == phase[r] = "create" \/ (phase[r] = "first" /\ How(r) # "apply")

CreateObject(r) ==
    /\ InSteps(r) /\ Creating(r) /\ objects[Obj(r)] = 0
    /\ Write(r) /\ Advance(r)
    /\ UNCHANGED others

\* Mutant: AlreadyExists is an error.
KeepObject_IsError(r) ==
    /\ InSteps(r) /\ How(r) = "create" /\ objects[Obj(r)] # 0
    /\ Goto(r, "failed")
    /\ UNCHANGED <<staged, kube, auth, target, progress, counters>>

KeepObject(r) ==
    /\ InSteps(r) /\ How(r) = "create" /\ objects[Obj(r)] # 0
    /\ Advance(r)
    /\ UNCHANGED <<unwritten, stale>>

Updates(r) == How(r) \in {"upsert", "info"}

\* Mutant: what exists is taken to be what is wanted.
ObjectExists_Kept(r) ==
    /\ InSteps(r) /\ Updates(r) /\ phase[r] = "first" /\ objects[Obj(r)] # 0
    /\ Advance(r)
    /\ UNCHANGED <<unwritten, stale>>

ObjectExists(r) ==
    /\ InSteps(r) /\ Updates(r) /\ phase[r] = "first" /\ objects[Obj(r)] # 0
    /\ Request(r, "get")
    /\ UNCHANGED <<unwritten, at, tries, stale>>

GetObject(r) ==
    /\ InSteps(r) /\ phase[r] = "get" /\ objects[Obj(r)] # 0
    /\ Request(r, "update")
    /\ stale' = [stale EXCEPT ![r] = {}]
    /\ UNCHANGED <<unwritten, at, tries>>

\* applyObject: the Get that decides between Create and Patch.
LookUpObject(r) ==
    /\ InSteps(r) /\ How(r) = "apply" /\ phase[r] = "first"
    /\ Request(r, IF objects[Obj(r)] = 0 THEN "create" ELSE "patch")
    /\ UNCHANGED <<unwritten, at, tries, stale>>

\* A patch has no resourceVersion; an Update has that of the Get.
UpdateObject(r) ==
    /\ InSteps(r) /\ objects[Obj(r)] # 0
    /\ phase[r] = "patch" \/ (phase[r] = "update" /\ stale[r] = {})
    /\ Write(r) /\ Advance(r)
    /\ UNCHANGED others

Conflict(r) == pc[r] = "steps" /\ phase[r] = "update" /\ stale[r] # {}
\* retry.RetryOnConflict, which the Update of the cluster info is not wrapped in.
MayRetry(r) == How(r) = "upsert" /\ tries[r] + 1 < MaxTries

UpdateConflict(r) ==
    /\ InSteps(r) /\ Conflict(r) /\ MayRetry(r)
    /\ tries' = [tries EXCEPT ![r] = @ + 1]
    /\ Request(r, "get")
    /\ stale' = [stale EXCEPT ![r] = {}]
    /\ UNCHANGED <<unwritten, at>>

\* The "is ready" message.
Ready(r) ==
    /\ pc[r] = "steps" /\ at[r] > Len(Steps(auth[r]))
    /\ Goto(r, "ready")
    /\ UNCHANGED <<staged, kube, auth, target, progress, counters>>
-----------------------------------------------------------------------------
(* Errors: the command ends.                                                *)

End(r) ==
    /\ Goto(r, "failed")
    /\ at' = [at EXCEPT ![r] = 1] /\ phase' = [phase EXCEPT ![r] = "first"]
    /\ tries' = [tries EXCEPT ![r] = 0] /\ todo' = [todo EXCEPT ![r] = {}]

\* The answer to the next request is an error.
Refused(r) ==
    \/ pc[r] = "provider" /\ (cluster # 0 \/ (auth[r] /\ staged = 0))
    \/ pc[r] \in {"list", "demote", "steps"} /\ ~Reaches(r)
    \/ pc[r] = "demote" /\ stale[r] # {}
    \/ InSteps(r) /\ phase[r] = "create" /\ objects[Obj(r)] # 0
    \/ InSteps(r) /\ phase[r] \in {"get", "update", "patch"} /\ objects[Obj(r)] = 0
    \/ Conflict(r) /\ ~MayRetry(r)

GiveUp(r) ==
    /\ Refused(r)
    /\ End(r)
    /\ stale' = [stale EXCEPT ![r] = {}]
    /\ UNCHANGED <<staged, kube, auth, target, counters>>

Failure == failures < MaxFailures /\ failures' = failures + 1

\* A request fails without effect, or the command is interrupted.
Fail(r) ==
    /\ Active(r) /\ Failure /\ End(r)
    /\ staged' \in IF pc[r] = "stage" /\ auth[r] THEN {staged, 0} ELSE {staged}
    /\ stale' = [stale EXCEPT ![r] = {}]
    /\ UNCHANGED <<kube, auth, target, touches>>

\* A cluster that came up is reported as an error.
FailAfterCreate(r) ==
    /\ pc[r] = "provider" /\ Failure /\ End(r)
    /\ ClusterUp(r)
    /\ UNCHANGED <<staged, objects, pods, auth, stale, touches>>

\* A write has its effect, its answer is lost.
FailAfterWrite(r) ==
    /\ InSteps(r) /\ Failure /\ End(r)
    /\ \/ Creating(r) /\ objects[Obj(r)] = 0
       \/ phase[r] = "patch" /\ objects[Obj(r)] # 0
       \/ phase[r] = "update" /\ stale[r] = {} /\ objects[Obj(r)] # 0
    /\ Write(r)
    /\ UNCHANGED <<staged, cluster, trusted, pods, writers, auth, target, touches>>
-----------------------------------------------------------------------------
(* The rest of the cluster.                                                 *)

\* A controller or a user writes an object (a status, a label) that a run has
\* read and is about to write back.
Touch(o) ==
    /\ touches < MaxTouches /\ touches' = touches + 1
    /\ \E r \in Runs : Reaches(r) /\ o \in Holds(r) \ stale[r]
    /\ Outdate(o, 0)
    /\ UNCHANGED <<staged, kube, pc, auth, target, at, phase, tries, todo, failures>>

\* A pod is created once its ServiceAccount exists, and runs once its Secret does.
StartPod(w) ==
    /\ pods[w] = 0
    /\ \A o \in Workload[w].needs : objects[o] # 0
    /\ pods' = [pods EXCEPT ![w] = objects[Workload[w].loads]]
    /\ UNCHANGED <<staged, cluster, trusted, objects, defaults, writers, pc, auth, target, progress, counters>>

StopPod(w) ==
    /\ pods[w] # 0 /\ Failure
    /\ pods' = [pods EXCEPT ![w] = 0]
    /\ UNCHANGED <<staged, cluster, trusted, objects, defaults, writers, pc, auth, target, progress, touches>>
-----------------------------------------------------------------------------
Go(r) ==
    \/ Stage(r) \/ CreateCluster(r) \/ ReuseCluster(r) \/ ListClasses(r) \/ DemoteEnd(r)
    \/ \E c \in Preinstalled : Demote(r, c)
    \/ CreateObject(r) \/ KeepObject(r) \/ ObjectExists(r) \/ GetObject(r) \/ LookUpObject(r)
    \/ UpdateObject(r) \/ UpdateConflict(r) \/ Ready(r) \/ GiveUp(r)

Next ==
    \/ \E r \in Runs : Begin(r) \/ Go(r) \/ Fail(r) \/ FailAfterCreate(r) \/ FailAfterWrite(r)
    \/ DeleteCluster
    \/ \E o \in Objects \cup Preinstalled : Touch(o)
    \/ \E w \in Workloads : StartPod(w) \/ StopPod(w)

Spec == Init /\ [][Next]_vars

\* A command that runs goes on, and so do the controllers and the kubelet.
FairSpec ==
    /\ Spec
    /\ \A r \in Runs : WF_vars(Go(r))
    /\ \A w \in Workloads : WF_vars(StartPod(w))
-----------------------------------------------------------------------------
\* What a run that reports success leaves.
Complete(r) ==
    /\ \A o \in ObjectsOf(auth[r]) : objects[o] # 0
    /\ defaults = {"gp2"}
    /\ \A i \in DOMAIN Steps(auth[r]) :
          LET s == Steps(auth[r])[i] IN s[2] # "create" => objects[s[1]] = r

\* "Cluster %q is ready": when the message is printed, whatever an earlier run
\* left half done, every object is there, gp2 is the only default class and all
\* that carries a certificate, a CA or settings is of this run and no mixture.
ReadyIsComplete == [][\A r \in Runs : pc'[r] = "ready" /\ pc[r] # "ready" => Complete(r)]_vars

\* EnsureDefaultStorageClass demotes the others "so exactly one default remains":
\* at no point of any run, also one that fails, are there two beside each other.
SoleDefault == "gp2" \in defaults => defaults = {"gp2"}

\* "the pod serves the same certificate the webhook kubeconfig's SANs and trust
\* were computed against": the API server trusts the authenticator of a cluster
\* that one run has set up, whatever earlier runs of that name have staged.
AuthenticatorTrusted ==
    Cardinality(writers) = 1 =>
        objects["authenticator tls"] \in {0, trusted} /\ pods["authenticator"] \in {0, trusted}

\* Every step can be repeated over what an earlier run left: a run fails only
\* because a request did, the name is in use, or somebody wrote in between.
FailureStep(r) ==
    pc'[r] = "failed" /\ pc[r] # "failed" =>
        \/ failures' # failures
        \/ pc[r] = "provider"
        \/ stale[r] # {} /\ (pc[r] = "steps" /\ How(r) = "upsert" => touches >= MaxTries)
FailsOnlyForCause == [][\A r \in Runs : FailureStep(r)]_vars

\* The CA by which those who call a workload trust it.
TrustIn(w) ==
    CASE w = "agent" -> objects["injector webhook"]
      [] w = "webhook" -> objects["pod identity webhook"]
      [] w = "authenticator" -> trusted
      [] w = "imds" -> pods["imds"]
Serving(w) == pods[w] # 0 /\ pods[w] = TrustIn(w)

\* A run that creates a cluster ends, and unless it reports an error all that it
\* deployed comes to serve with certificates their callers trust, although the
\* agent is deployed long before its Secret.
SetsUpOrFails ==
    \A r \in Runs :
        cluster = r ~> \/ pc[r] = "failed" \/ cluster # r \/ writers # {r}
                       \/ pc[r] = "ready" /\ (auth[r] => \A w \in Workloads : Serving(w))

\* The same of a repeated run: "EnsureIRSA is idempotent".
RepeatServes ==
    \A r \in Runs :
        pc[r] = "ready" /\ auth[r] /\ cluster # 0 ~>
            cluster = 0 \/ (\E q \in Runs : q > r /\ pc[q] # "idle") \/ \A w \in Workloads : Serving(w)

\* "Cluster %q is ready. [...] fjord-agent's fake STS API is reachable".
ReadyIsServing ==
    \A r \in Runs : pc[r] = "ready" /\ auth[r] /\ writers = {r} => Serving("agent")
=============================================================================
