------------------------------ MODULE Injector ------------------------------
(***************************************************************************)
(* Injector (internal/agent/injector.go): the mutating admission webhook   *)
(* that gives pods the credential sources of their ServiceAccount, as a    *)
(* JSON patch.  A pod goes through the webhook when it is submitted, and   *)
(* once more when a user submits a copy of an admitted pod.                *)
(*                                                                         *)
(* The patch is applied by the API server, operation by operation: "add"   *)
(* of a list replaces what was there, "add" at .../- appends and fails the *)
(* patch when there is no list.                                            *)
(***************************************************************************)
EXTENDS SequencesExt, Naturals

CONSTANTS
    Containers, InitContainers,
    PodChoices,      \* the pods users write
    AWSEndpoint,     \* whether awsEndpointURL is configured
    Broken,          \* what a failed patch leaves
    MaxChanges       \* bound: changes to the ServiceAccount, pods submitted

ASSUME AWSEndpointAssumption == AWSEndpoint \in BOOLEAN

All == Containers \cup InitContainers

STSVars == <<"AWS_ENDPOINT_URL_STS", "AWS_STS_ENDPOINT">>
AWSVars == <<"AWS_ENDPOINT_URL", "AWS_SECRETSMANAGER_ENDPOINT", "AWS_SSM_ENDPOINT">>
PodIdentityVars == <<"AWS_CONTAINER_CREDENTIALS_FULL_URI",
    "AWS_CONTAINER_AUTHORIZATION_TOKEN_FILE", "AWS_CONTAINER_CREDENTIALS_TOKEN_FILE">>
EnvNames == ToSet(STSVars) \cup ToSet(AWSVars) \cup ToSet(PodIdentityVars) \cup {"OTHER"}
\* An environment variable and who set its value; volumes go by name.
EnvVar == [name : EnvNames, by : {"user", "agent"}]
Volume == {"data", "token"}

VARIABLES
    sa,          \* the pod's ServiceAccount
    associated,       \* whether it has a PodIdentityAssociation
    pod,         \* the pod in admission, or admitted last
    original,    \* history: the pod as it was submitted
    stage,       \* how far the pod is
    opts,        \* injectionOptions
    changes

injectorVars == <<sa, associated, pod, original, stage, opts, changes>>

NoOptions == [sts |-> FALSE, aws |-> FALSE, podIdentity |-> FALSE]
NoPod == [env |-> [c \in All |-> <<>>], mounts |-> [c \in All |-> <<>>], volumes |-> <<>>]

IsPod(p) ==
    /\ \A c \in All : p.env[c] \in Seq(EnvVar) /\ p.mounts[c] \in Seq(Volume)
    /\ p.volumes \in Seq(Volume)

\* The variable the agent writes to point a container at the token file, and a pod
\* of which the containers that have it mount the volume with that file.
TokenVar == [name |-> "AWS_CONTAINER_AUTHORIZATION_TOKEN_FILE", by |-> "agent"]
TokenMounted(p) ==
    \A c \in All : TokenVar \in ToSet(p.env[c]) =>
        "token" \in ToSet(p.mounts[c]) /\ "token" \in ToSet(p.volumes)

\* Users set a variable to the agent's value only in copies of injected pods.
ASSUME PodsAssumption == \A p \in PodChoices : IsPod(p) /\ TokenMounted(p)
ASSUME MaxChangesAssumption == MaxChanges \in Nat

\* No operation of a patch failed.
InjectorTypeOK ==
    /\ sa \in {"missing", "plain", "annotated"} /\ associated \in BOOLEAN
    /\ IsPod(pod) /\ IsPod(original)
    /\ stage \in {"none", "serviceAccount", "association", "patch", "admitted", "ignored"}
    /\ opts \in [sts : BOOLEAN, aws : BOOLEAN, podIdentity : BOOLEAN]
    /\ changes \in 0..MaxChanges

InjectorInit ==
    /\ sa \in {"missing", "plain", "annotated"} /\ associated \in BOOLEAN
    /\ pod = NoPod /\ original = NoPod
    /\ stage = "none"
    /\ opts = NoOptions
    /\ changes = 0
-----------------------------------------------------------------------------
(* buildInjectionPatch                                                      *)

AgentVars(names) == [i \in DOMAIN names |-> [name |-> names[i], by |-> "agent"]]

DesiredEnvVars(o) ==
    (IF o.sts THEN AgentVars(STSVars) ELSE <<>>)
        \o (IF o.aws THEN AgentVars(AWSVars) ELSE <<>>)
        \o (IF o.podIdentity THEN AgentVars(PodIdentityVars) ELSE <<>>)

\* Mutant: every variable creates the list on its own.
AddOps_SetEach(list, additions) ==
    [i \in DOMAIN additions |->
        IF list = <<>> THEN [op |-> "set", value |-> <<additions[i]>>]
        ELSE [op |-> "append", value |-> additions[i]]]

\* Mutant: the list is always created.
AddOps_Replaces(list, additions) ==
    IF additions = <<>> THEN <<>> ELSE <<[op |-> "set", value |-> additions]>>

\* The operations that add to a list: a list that is not there is created with
\* all additions at once, others are appended to one by one.
AddOps(list, additions) ==
    IF additions = <<>> THEN <<>>
    ELSE IF list = <<>> THEN <<[op |-> "set", value |-> additions]>>
    ELSE [i \in DOMAIN additions |-> [op |-> "append", value |-> additions[i]]]

HasEnvVar(env, name) == \E i \in DOMAIN env : env[i].name = name

\* The variables that the container does not define, in order.
Missing(env, desired) ==
    LET toAdd[n \in 0..Len(desired)] ==
            IF n = 0 THEN <<>>
            ELSE IF HasEnvVar(env, desired[n].name) THEN toAdd[n - 1]
            ELSE Append(toAdd[n - 1], desired[n])
    IN  toAdd[Len(desired)]

\* containerEnvPatchOps, for one container.
EnvOps(env, desired) == AddOps(env, Missing(env, desired))

\* Mutant: init containers are forgotten.
MountOps_NoInit(c, mounts) ==
    AddOps(mounts, IF "token" \in ToSet(mounts) \/ c \in InitContainers THEN <<>> ELSE <<"token">>)

\* containerVolumeMountPatchOps, for one container.
MountOps(c, mounts) ==
    AddOps(mounts, IF "token" \in ToSet(mounts) THEN <<>> ELSE <<"token">>)

\* podIdentityVolumePatchOps, without the mounts.
VolumeOps(volumes) ==
    AddOps(volumes, IF "token" \in ToSet(volumes) THEN <<>> ELSE <<"token">>)

\* The API server applies the operations on one list.
ApplyOp(list, op) ==
    IF op.op = "set" THEN op.value
    ELSE IF list = <<>> THEN <<Broken>> ELSE Append(list, op.value)
Applied(list, ops) ==
    LET after[n \in 0..Len(ops)] ==
            IF n = 0 THEN list ELSE ApplyOp(after[n - 1], ops[n])
    IN  after[Len(ops)]

BuildInjectionPatch(p, o) ==
    [env |-> [c \in All |-> EnvOps(p.env[c], DesiredEnvVars(o))],
     mounts |-> [c \in All |-> IF o.podIdentity THEN MountOps(c, p.mounts[c]) ELSE <<>>],
     volumes |-> IF o.podIdentity THEN VolumeOps(p.volumes) ELSE <<>>]
-----------------------------------------------------------------------------
\* A user submits a pod, or a copy of the admitted one.
Submit ==
    /\ stage \in {"none", "admitted", "ignored"}
    /\ changes < MaxChanges
    /\ changes' = changes + 1
    /\ \E p \in PodChoices \cup (IF stage = "admitted" THEN {pod} ELSE {}) :
          pod' = p /\ original' = p
    /\ stage' = "serviceAccount"
    /\ opts' = NoOptions
    /\ UNCHANGED <<sa, associated>>

\* injectionOptionsFor: the ServiceAccount first.
LookupServiceAccount ==
    /\ stage = "serviceAccount"
    /\ stage' = IF sa = "missing" THEN "patch" ELSE "association"
    /\ opts' = [NoOptions EXCEPT !.sts = (sa = "annotated")]
    /\ UNCHANGED <<sa, associated, pod, original, changes>>

\* ... then needsPodIdentityInjection.
LookupPodIdentity ==
    /\ stage = "association"
    /\ stage' = "patch"
    /\ opts' = [sts |-> opts.sts, aws |-> (opts.sts \/ associated) /\ AWSEndpoint,
                podIdentity |-> associated]
    /\ UNCHANGED <<sa, associated, pod, original, changes>>

\* The patch is built, and applied unless there is nothing to inject.
Inject ==
    /\ stage = "patch"
    /\ LET patch == BuildInjectionPatch(pod, opts) IN
       pod' = IF ~opts.sts /\ ~opts.podIdentity THEN pod
              ELSE [env |-> [c \in All |-> Applied(pod.env[c], patch.env[c])],
                    mounts |-> [c \in All |-> Applied(pod.mounts[c], patch.mounts[c])],
                    volumes |-> Applied(pod.volumes, patch.volumes)]
    /\ stage' = "admitted"
    /\ UNCHANGED <<sa, associated, original, opts, changes>>

\* A lookup fails, or the agent is away: failurePolicy Ignore admits the pod as it is.
InjectFails ==
    /\ stage \in {"serviceAccount", "association", "patch"}
    /\ stage' = "ignored"
    /\ UNCHANGED <<sa, associated, pod, original, opts, changes>>

ChangeServiceAccount ==
    /\ changes < MaxChanges
    /\ changes' = changes + 1
    /\ \/ sa' \in {"missing", "plain", "annotated"} \ {sa} /\ UNCHANGED associated
       \/ ~associated /\ associated' = TRUE /\ UNCHANGED sa
    /\ UNCHANGED <<pod, original, stage, opts>>

InjectorNext ==
    \/ Submit \/ LookupServiceAccount \/ LookupPodIdentity \/ Inject \/ InjectFails
    \/ ChangeServiceAccount

InjectorSpec == InjectorInit /\ [][InjectorNext]_injectorVars
-----------------------------------------------------------------------------
Unique(list) == \A i, j \in DOMAIN list : list[i] = list[j] => i = j
Admitted == stage = "admitted"

\* Every setting the user made is still there after the patch, in its place:
\* no operation discards a list that it should extend.
KeepsWhatUsersSet ==
    Admitted =>
        /\ \A c \in All : IsPrefix(original.env[c], pod.env[c])
                          /\ IsPrefix(original.mounts[c], pod.mounts[c])
        /\ IsPrefix(original.volumes, pod.volumes)

\* A container that the agent pointed at the token file has the volume mounted
\* that holds it: init containers, and copies of pods whose association
\* appeared later, too.  A mount is known by its volume's name, as in
\* hasVolumeMount: one that a user made at another path counts.
TokenIsMounted == Admitted => TokenMounted(pod)

\* Everything selected is injected, so a second pass has nothing to add.
SecondPassIsEmpty ==
    Admitted /\ (opts.sts \/ opts.podIdentity) =>
        LET patch == BuildInjectionPatch(pod, opts) IN
        /\ \A c \in All : patch.env[c] = <<>> /\ patch.mounts[c] = <<>>
        /\ patch.volumes = <<>>
        /\ \A c \in All : \A i \in DOMAIN DesiredEnvVars(opts) :
              HasEnvVar(pod.env[c], DesiredEnvVars(opts)[i].name)

\* "STS keeps calling fjord-agent because the SDK always prefers the
\* service-specific stsEndpointEnvName over this general override": a container
\* with the general override has the one for STS.
STSStaysWithAgent ==
    Admitted => \A c \in All :
        (\E i \in DOMAIN pod.env[c] :
            pod.env[c][i] = [name |-> "AWS_ENDPOINT_URL", by |-> "agent"]) =>
        HasEnvVar(pod.env[c], "AWS_ENDPOINT_URL_STS")
=============================================================================
