# fjord, specified in TLA+

fjord runs a local Kubernetes cluster that behaves like Amazon EKS. A command
line tool creates the cluster; inside it `fjord-agent` stands in for the EKS,
STS and Pod Identity services and runs a few controllers, and `fjord-imds`
stands in for the EC2 metadata service. This directory holds TLA+ models of the
parts that keep state and can interleave or fail, the TLC configurations that
check them on small instances, and TLAPS proofs of all the safety properties the
runs check.

Paths are relative to the repository (`src/` here). `PROJECT.json` lists runs,
mutants, the lines every definition models, hazards and theorems.

    tlc -workers 2 -config SecretPrincipalStore.cfg MCSecretPrincipalStore
    tlapm SecretPrincipalStoreProofs.tla
    tlapm ClusterSetupProofs.tla

## Inventory

| Component | State | Operations | What is hard | What makes it correct |
|---|---|---|---|---|
| Principal registry (`internal/agent/store.go`) | one Secret, access key ID -> principal | Put, Delete, lookups | CLI, agent and IMDS write it with optimistic locking; lost answers; create race | a name has one key; no lost update; a call behaves as one atomic operation |
| Access entries (`facade.go`, `accessentry.go`, `authenticator.go`) | ConfigMap of entries, RBAC bindings | create, delete, associate, disassociate | several requests per call, any can fail, with or without its effect; concurrent calls | record and bindings agree; a revoked policy gives no access |
| Credential issuers (`imds.go`, `eksauth.go`, `sts.go`, `session.go`) | cached node credentials, sessions in memory, registry | role credentials, AssumeRoleForPodIdentity, AssumeRoleWithWebIdentity, GetCallerIdentity | expiry, restarts, one key per name | a key resolves to whom it was issued to |
| Pod Identity associations (`store.go`, `facade.go`) | ConfigMap | create, lookups | same store pattern as principals | as the registry |
| CNP translation (`clusternetworkpolicy.go`) | none | `TranslateClusterNetworkPolicy` | Deny rules in an allow-only language, port boundaries | what is restricted is enforced or reported |
| CNP controller (`cnpcontroller.go`) | informer caches, one-slot queue | reconcile pass | stale caches, separate List/Create/Update/Delete, failing passes | converges; leaves others' NetworkPolicies alone |
| TargetGroupBinding controller (`targetgroupbinding*.go`) | caches, rate-limited queue | resolve targets, update status | four informers, concurrent workers, no resync | status follows the cluster and names its generation |
| LoadBalancer controller (`loadbalancercontroller.go`) | caches, one-slot queue | claim services | pass stops at first error; other implementations | claims every eligible service, never a claimed one |
| Injector (`injector.go`) | none (reads ServiceAccount, association) | admission patch | JSON patch semantics, reinvocation | keeps what users set; idempotent |
| EKS-D cache (`internal/eksdcache`, `internal/componentdir`) | files | download, verify, extract | crashes, other processes, no lock | returns complete directories of verified content |
| User's kubeconfig (`cli/kubeconfig.go`, `create.go`, `delete.go`) | one file | merge, remove, update-kubeconfig | read-modify-write without lock; the write truncates first; commands that stop half way | names lead to the right cluster; entries are lost for known causes only |
| create-cluster sequence (`cli/create.go`, `internal/cluster/*`, `internal/authn`) | staged webhook configuration, the cluster's objects, default storage class | some thirty requests: create-or-keep, create-or-update, look-up-then-patch | no rollback, repeated runs with a new CA each, pods that wait for later steps | ready means complete; every step can be repeated; what is deployed comes to serve |
| Agent permissions (`internal/cluster/agent.go`) | ClusterRole | created once | unit tests use clients that permit everything | controllers may do what they need |
| Cluster information (`clusterinfo.go`) | ConfigMap | Put, Get | update without retry | a Put fails only for a cause |
| Release resolution (`internal/eksd`, `internal/cmd/eksd-gen`) | the generated table | probe for the newest number, fetch, write, lookup | releases published meanwhile, one failing minor of eight, answers that mislead, a write that truncates first | the newest release is found; a table loses no minor and does not go back without a cause |
| Agent process (`cmd/fjord-agent`) | servers, controllers, signal listeners | start, serve, shut down | signals at any point, one shutdown timeout, controllers that are and are not waited for | an exit is orderly and is reached; a restart resumes the work |
| Certificates, image rewriting, provider adapter, logging, wiring | files, none | | | |

The parts interact through the API server: the registry is shared by the CLI,
`fjord-agent` and every `fjord-imds`; the injector and the Pod Identity endpoint
read the associations the facade writes; the token webhook reads access entries
and lets RBAC decide; the controllers see everything through informers.

## Modules

`MC<module>` extends a module with the constants its configurations choose
and, where a configuration uses it, the symmetry of interchangeable model values.
A specification is `Spec`, of `Init` and `Next`; AgentProcess, ClusterNetworkPolicy
and Injector, which are proved about together with another component, have
`AgentSpec`, `TranslationSpec` and `InjectorSpec`.

**PrincipalStore** is the contract of the registry: calls that take effect at
one point between their start and their end. It follows the interface and the
in-memory store. **SecretPrincipalStore** is the Secret-backed store, one step
per API request: `pc` is the request a client makes next, `snap` its copy of the
Secret, `attempts` the conflicts so far. `revision` is the API server's counter,
so a Secret that is deleted and created again never repeats a resourceVersion.
A request can fail before it reaches the server (`RequestFails`) or after it
took effect (`UpdateSecretLost`). `Atomic` maps it to PrincipalStore.

**AccessEntries**: a handler reads the entry, creates or deletes one binding per
step and puts the entry back from the copy it read. A store operation is one
step, as the registry's proof shows for the same loop. A handler may fail at any
request (`HandlerFails`), and the last one, the Put of the record, may also be stored
and its answer lost (`PutLost`): the caller is told 500 for what did happen. `leaked`,
`damaged` and `acked` are history variables for what the properties speak of.

**Credentials** composes the three issuers over the registry, of which it uses
the effects PrincipalStore defines (`INSTANCE`). `making` is held from the
generation of credentials to the end of their registration, as `credMu` is.

**ClusterNetworkPolicy** is the translation as a function of the rule list; its
behaviours write a policy rule by rule. A selector is the set of namespaces it
matches and the shape the translation looks for. Namespaces have pods; traffic
that comes from no pod has the source `Outside`, which no selector matches, not even
that of the rule `openRule` builds. The port range is `MinPort..MaxPort`.
`NextAt` is the variable `next` of the loop that looks for gaps, when it reaches a
port, as a function of the restricted ports below it.

**CNPController** and **LoadBalancerController**: API objects, informer caches
that trail them, a one-slot queue, and a pass that makes one request per step.
**TargetGroupBindingController** has client-go's rate-limited queue (`dirty`,
`processing`, `delayed`) and workers. `granted` is what the agent's ClusterRole
permits: at first what `ensureClusterRole` creates (`AgentRules`), which is not all
the two controllers need (`Needed`), and then what an administrator adds (`Grant`, in
portions from `Edits`); `ensureClusterRole` leaves a role that exists alone, so the
additions stay.

**ComponentCache** has one step per operation on the shared file names; the
content of a file is good, bad or missing. **Injector** builds the patch and
applies it as the API server does, where an add to an absent list fails the
patch; the loops over variables (`Missing`) and operations (`Applied`) are
recursive functions of the position. **ReleaseResolution** is the generator of the release table, one step per
request, next to a publisher; `seen` remembers the newest number at the start of
a search. A HEAD may be answered with another status than its object's, which the
search takes for "does not exist"; `misled` remembers the minors this happened to.
The table is truncated (`Torn`) and then written; a run that ends in between leaves a
package that does not compile, so that the generator cannot be run either until a
user puts the last complete table (`kept`) back. **EksdArtifacts** puts the two after each other: a table, a binary
built with it, and processes that materialize the release they resolve in it.

**ClusterSetup** is the whole of `create cluster`: `Steps` lists the objects in
their order with the way each is written, and one action stands for one request
of that way. A run's number stands for its CA and for the content of what it
writes, so that a mixture of two runs shows. `stale` is what a run has read and
somebody else has written since. Pods start once what they mount exists and keep
what they have loaded.

**AgentProcess** composes `serve api` with LoadBalancerController (`INSTANCE`):
`main` is where serveAPI is, `armed` the signal listeners there are, `cancelled`
the contexts that are done. A controller whose context is done may still finish
the pass it is in, and its requests fail with or without effect.

**Kubeconfig** has one step for each load, truncation, write and provider call; the
Cluster, AuthInfo and Context of one name are one entry. Commands overlap with each
other and with a user, and may stop anywhere: between truncation and write they leave
an empty file, in the write a part of it, which may not parse (`Unreadable`; all
commands then fail, and the user replaces it). `born` has the name of every cluster
there has been; `merged` are the names that must lead to their cluster, `missed` those
that a process does not have in its copy because they were merged after it loaded, or
while the file was empty.

## Runs

All twelve finish within about four minutes each on two cores.

| Run | Shows | Bounds |
|---|---|---|
| `principal_store` | no lost update, unique names, honest answers, termination, refinement of PrincipalStore | 2 clients, 2 names, 2 keys, 2 attempts: a call can lose both attempts to the other client, and the Secret can vanish at any time |
| `access_entries` | record and bindings agree; a removal, however it ends, is whole or can be repeated | 1 principal, 3 policies (one unsupported), 2 namespaces; requests about a principal do not overlap |
| `credentials` | no key is attributed to another caller; keys are lost only to their name | 2 nodes, 2 requests of one ServiceAccount, 3 keys, expiry after one tick |
| `cnp_translation` | restrictions enforced or reported, the rest open to pods | all policies of 2 rules over 4 ports, 2 namespaces and the outside, 3 protocols; Deny rules name ports |
| `cnp_controller` | foreign objects not overwritten, nothing wanted deleted, convergence | 1 policy, 1 namespace, 3 changes, 1 failure |
| `target_group_bindings` | honest observedGeneration, no forgotten change, convergence | 1 binding over 2 services, 1 slice, 1 worker (the queue hands one key to one worker at a time, so a second would stay idle), 3 changes, 1 failure; missing rules are added one by one, or never |
| `agent_process` | orderly exits that are reached, only unclaimed services are claimed, all eligible ones are | 2 services, 1 address, 2 changes, 1 signal, kill or failure; missing rules are added together, or never |
| `cluster_setup` | ready is complete and of one CA, one default class, trusted authenticator, failures have a cause, what is deployed serves | 2 runs of one name with or without authentication, 2 classes of rask, 2 attempts, 1 failure, 2 writes by others |
| `eksd_artifacts` | newest release found, table loses nothing and goes back only where it was misled, search ends; complete directories of verified content, recovery | numbers up to 5 (two doublings, and both sides of a bisection) and a minor with at most one release, 2 failures, stops or misleading answers: a run stopped in its write can be followed by a misled one; 3 runs one after the other, 2 binaries, 3 troubles |
| `injector` | user values kept, mounts present, second pass empty | a container and an init container, all options |
| `kubeconfig` | merged clusters reachable unless a named cause ends it, no entry leads to another name's cluster | 2 commands at a time, 2 names, 1 principal, 3 clusters, 4 commands or edits: enough for a cluster to be merged while another command holds an older copy, and for one of the two to be cut off |
| `access_entries_scope_change` | counterexample, below | |

`TypeOK` of every module holds on the instance of its run and can be added to the
`INVARIANTS` of its configuration, and so can the inductive invariants of the
proofs, from a module that extends the proofs' module.

Bounds on changes and failures (`MaxChanges`, `MaxFailures`, `MaxTroubles`,
`MaxCommands`, `MaxRuns`, `MaxTouches`, `MaxNumber`, `MaxClusters`) are in the guards of the environment's actions only; they end the
disturbance and never cut off a step of the code. Convergence is stated as
`<>[]`: the disturbance is finite, so what holds for good is what the code
brings about. Three changes are enough to create an object, change it while a
pass or a worker holds an older copy, and change it once more.

Fairness is weak, and only on steps that are bound to come: a request that is
sent is answered, an informer delivers, a goroutine that is ready runs, a resync
or rate-limit timer fires, a started command goes on, the shutdown timeout
passes, the kubelet starts a container again and a pod whose volumes exist. A
request in flight at the agent need not ever be answered. No fairness is assumed of
users, of administrators, of failures or of restarts: `Converges` of the
TargetGroupBinding controller and `Claims` are implications, of what happens if the
rules missing in the ClusterRole come to be there for good. Deadlock is not checked where nothing is left
to do once the bounded environment is done.

Every property has a mutant: a variant of one definition, kept above the
definition it replaces, that makes TLC find the property violated.

## Divergences

Where the code does something else than its comments say, or relies on something
nobody enforces, the statement is a definition of its module and TLC finds a
counterexample. One of them is a run of `PROJECT.json`:

- `AccessEntriesScopeChange.cfg`, `DisassociateRemovesBindings`: a policy
  associated again with another scope leaves the bindings of the first scope for
  good; `facade.go:604` removes those of the recorded scope. The comment at
  `facade.go:563` promises to remove what was created for the pair.

The others have a configuration of their own where the instance differs, and are
else obtained from the configuration of a run by checking the property named here,
with the constants changed that are named with it:

| Configuration | Property | What the code does |
|---|---|---|
| `AccessEntries.cfg`, `Handlers = {h1, h2}`, `Serialized = FALSE` | `AckedStaysRecorded` | of two overlapping associate requests the later Put drops the association of the other (`facade.go:461`, 486) |
| `AccessEntriesAlias.cfg` | `RecordedIsBound` | two policies of one cluster role share a binding, so removing one takes the access of the other (`facade.go:682`) |
| `Credentials.cfg`; `Nodes = {}` or `Requests = {}` for one of the two issuers | `AnsweredResolves` | a registration under the same name, by a second pod of a service account or after a restart, evicts unexpired credentials (`imds.go:204`, `eksauth.go:217`) |
| `ClusterNetworkPolicy.cfg`, `RuleChoices <- OmittedPorts` | `EnforcedOrReported` | a Deny rule without ports restricts nothing and is not reported (`clusternetworkpolicy.go:290`, comment at 142) |
| `ClusterNetworkPolicy.cfg` | `OtherProtocolsUntouched` | beside a restricted TCP port SCTP is closed, not "left unrestricted" (`clusternetworkpolicy.go:45`) |
| `ClusterNetworkPolicy.cfg` | `OutsideStaysOpen` | the "explicit allow-everyone rule" is for pods of all namespaces, so beside one restricted port all other ports are newly closed to traffic from outside the cluster (`clusternetworkpolicy.go:470`, comment at 130) |
| `ClusterNetworkPolicy.cfg` | `AllowNeverWidens` | an Allow rule whose peers are all dropped admits everyone (`clusternetworkpolicy.go:219`) |
| `CNPController.cfg` | `DriftRepaired` | a managed NetworkPolicy without its label is never repaired (`cnpcontroller.go:410`) |
| `CNPController.cfg`, `LabelStripping = FALSE` | `ForeignUntouched` | an object put in place of a listed one is deleted (`cnpcontroller.go:445`) |
| `TargetGroupBindingControllerRelabel.cfg` | `Converges` | an EndpointSlice moved to another service leaves stale targets (`targetgroupbindingcontroller.go:198`) |
| `TargetGroupBindingControllerRules.cfg` | `ConvergesAsInstalled` | the ClusterRole is said to have the rules the controller "needs"; it grants neither endpointslices nor nodes nor the status update, so the caches never sync and no binding gets a status (`internal/cluster/agent.go:223`, comment at 218) |
| `LoadBalancerControllerRules.cfg` | `ClaimsAsInstalled` | the same for the LoadBalancer controller, which needs nodes and services/status (`internal/cluster/agent.go:137`) |
| `LoadBalancerControllerNodes.cfg` | `IngressFollowsNodes` | a claimed service keeps addresses of nodes that are gone (`loadbalancercontroller.go:200`) |
| `EksdArtifacts.cfg`, `Overlap = TRUE` | `ReturnedIsComplete`, `ExtractsVerified` | of two runs at once one removes the directory or replaces the tarball the other has checked (`materialize.go:45`, `cache.go:47`) |
| `EksdArtifactsFlaky.cfg` | `NeverOlder` | a HEAD that is answered with 503 counts as "does not exist", and the next table names an older release (`internal/eksd/fetch.go:152`, comment at 135) |
| `Injector.cfg` | `STSStaysWithAgent` | a pod injected for Pod Identity only gets no STS override (`injector.go:318`, comment at 110) |
| `ClusterSetupRepeat.cfg` | `RepeatServes` | a second run over a cluster that is kept makes a new CA and updates Secrets and webhook configurations, and running pods go on with the certificate they have loaded; "EnsureIRSA is idempotent" (`internal/cluster/irsa.go:59`) |
| `ClusterSetup.cfg`, `Reuse = FALSE`, `Overlap = TRUE` | `AuthenticatorTrusted` | of two overlapping runs of one name one replaces the staged webhook.yaml before the cluster of the other copies it (`cli/create.go:293`) |
| `ClusterSetup.cfg` | `ReadyIsServing` | "fjord-agent's fake STS API is reachable" is printed before a pod of the agent has started (`cli/create.go:181`) |
| `AgentProcess.cfg` | `SignalEnds` | a SIGTERM between the first listener and that of runUntilSignal is lost to the servers, which go on until SIGKILL; serveAPI "serves until the process receives a termination signal" (`cmd/fjord-agent/main.go:236`) |
| `AgentProcess.cfg` | `LoadBalancerGraceful` | the stop function of the LoadBalancer controller does not block "until it has exited", and the process may end in the middle of a pass (`cmd/fjord-agent/loadbalancer.go:33`, comment at 19) |
| `AgentProcess.cfg` | `ControllersStayUp` | a failing clean-up at its start ends the TargetGroupBinding controller until the process is restarted (`targetgroupbindingcontroller.go:74`) |

The passing runs state the matching assumption as a constant (`Serialized`,
`Overlap`, `Reuse`, `Relabelling`, `RoleOf`, `RuleChoices`) or in
the property, so that what holds
and from when on it fails can both be read off. In particular the kubeconfig is
written without a lock and not atomically (`cli/kubeconfig.go:131`, 201, 242): of two
clusters created at once one can be lost from the file, and a command that is stopped
in its write loses all of it. `MergedIsReachable` names these causes (`merged`) and
excludes every other one.

## Proofs

A `<module>Proofs` holds the theorems about a module: for all values of its
constants that satisfy the named assumptions, which say that bounds are numbers
and that "none" values are not among the things they stand beside. Where a
theorem has a hypothesis it is about constants of the model, and the table of
divergences has the counterexample without it; `SomePortUnnamed`, which is
about the policy, is explained below the table. Every property below is also
checked by a run. Each proof has an inductive invariant (`IInv`), checked by TLC on the run's
instance first, one lemma per action or group of actions that change the same
variables, and a last theorem that puts them together.

| Module | Hypothesis | Proved |
|---|---|---|
| SecretPrincipalStore | none | `TypeOK`, `UniqueName`, `AckedCallsTookEffect`, `GivesUpOnlyUnderContention`, refinement of PrincipalStore |
| AccessEntries | `Serialized`: one call at a time about a principal | `NoUnexplainedAccess`, `RemovalIsWholeOrRepeatable`; with `DistinctRoles` also `RecordedIsBound` |
| Credentials | none | `NeverMisattributed`, `RevokedOnlyByName` |
| CNPController | none | `ForeignNeverOverwritten`, `DeletesOnlyUnwanted` |
| TargetGroupBindingController | none; `Relabelling = FALSE` for the second | `StatusIsOfItsGeneration`, `NothingForgotten` |
| EksdArtifacts (ReleaseResolution) | none | `LatestIsCurrent`, `NeverDowngrades` |
| EksdArtifacts (ComponentCache) | `Overlap = FALSE` | `ReturnedIsComplete`, `ExtractsVerified` |
| Kubeconfig | none | `MergedIsReachable`, `LeadsToItsName` |
| ClusterSetup | `Overlap = FALSE` | `SoleDefault`, `AuthenticatorTrusted`, `ReadyIsComplete`, `FailsOnlyForCause` |
| AgentProcess, in AccessEntriesProofs | none | `ClaimsOnlyUnclaimed`, `GracefulExit` |
| ClusterNetworkPolicy, in CNPControllerProofs | `DenyRulesNamePorts` and `SomePortUnnamed` for the first | `EnforcedOrReported`, `OthersStayOpen` |
| Injector, in CredentialsProofs | none | `KeepsWhatUsersSet`, `TokenIsMounted`, `SecondPassIsEmpty` |

The last three have the second part of the proofs' module of a component they work
with, which extends both. `DenyRulesNamePorts` excludes Deny rules without ports,
which are dropped silently (Divergences). `SomePortUnnamed`: Deny rules that name
every TCP and every UDP port and let no source through leave no ingress rule, and a
translation without rules is no NetworkPolicy (`clusternetworkpolicy.go:172`), which
refuses nothing. The proof found this case; the rules of TLC's instance never name
all ports. No real policy gets there: 131070 ports are beyond the size of an
object. `PodsAssumption` of Injector says that a pod which a user writes has the
agent's variable for the token file only together with the mount, as a copy of an
injected pod has.

**SecretPrincipalStoreProofs.** `UniqueName` is not inductive: a commit edits the
client's copy, so uniqueness of the Secret's data after it needs that a copy
accepted by the API server equals the Secret (`SnapshotCurrent`). That in turn
needs resource versions never to be reused (`RevisionOK`: the Secret has the
newest revision and no copy a newer one), also across removal of the Secret.
`FreshKeys`, that a key being registered is in no other call and not yet in the
Secret, is needed where a Put adds its key. `AttemptsOK` counts: the attempts of
a call plus the revision it started at stay below the revision of its copy,
which gives both contention properties. `CallOK` ties the step of a call to its
arguments. `NextCases` regroups the actions by what they change, so each
conjunct is shown once per group. `SnapshotCurrent`, `ConflictsArePaidFor` and
`WritesStayInTheirName` are stated in SecretPrincipalStore and proved; the run
checks what follows from them.

**AccessEntriesProofs.** A handler puts back an entry it read several requests
earlier, so the invariant says that the copy is still the entry (`HandlerOK`),
which only `OnePerPrincipal` keeps true, and how far the handler has come: an
associate has bound every place it no longer has to do, a disassociate has
unbound them. At the Put nothing is left to do, so a record that is written, whether
the caller hears of it or not, is written after the last binding:
`RemovalIsWholeOrRepeatable`, step by step. `Records` is what the three ways of
writing the record have in common. `Explained` is `NoUnexplainedAccess` without its
"no call under way": while one is, its bindings are explained by the request. `Bound`
strengthens `RecordedIsBound` in the same way. That a removal spares the bindings
of other policies is where distinct roles are needed: a binding's name is made
of the role, not of the policy.

**CredentialsProofs.** An answer could be contradicted later, by a registration
of the same key for somebody else. `FreshKeys` excludes that: a key that a node
has generated and not yet registered is known to nobody and held by no other
node. `KnownAsAnswered` then says that registry and sessions agree with the
answer wherever they know the key, and `CachedAnswered` that credentials served
again from a node's cache are those answered before.

**CNPControllerProofs.** Two facts outlive the requests of a pass: what it works
on was labelled as managed when listed (`PassOK`), and if the caches have changed
since it computed what is desired, another pass is requested (`FollowedUp`). With
the API server's comparison of versions the first gives
`ForeignNeverOverwritten`, the second `DeletesOnlyUnwanted`.

**TargetGroupBindingControllerProofs.** `typeAt` remembers which type each
generation asked for; `Generations` says that stored, cached and held objects all
carry a generation and the type that belongs to it, and `JobOK` that a worker
writes a status for the copy it read. For `NothingForgotten` the interesting step
is the end of a job: the key leaves `processing`, so the status must by then be
right or the key be `dirty` or `delayed`. `JobOK` therefore also says that a copy
that is still the stored object is the cached one, and `QueueOK` that no second
worker has the key. `OwnedSlices` is where `Relabelling = FALSE` is used: a slice event
wakes the bindings of the service the slice has now, and no other.

**EksdArtifactsProofs.** The search is correct because `low` is published and
`high` was not when it was asked for, so nothing that existed at the start lies
at or above it (`SearchOK`: `seen < high` from the bisection on, while `published`
grows), unless that answer was misleading, which `misled` has recorded of the minor.
`ResolvedOK` carries the results of finished searches to the moment the table is
written, and compares them with `kept`, not with the file, which may be torn by
then. For the cache, a run that is past a check finds what it checked, because it
runs alone; what a stopped run leaves is missing or is caught by the checksum. The
theorems are about the composed specification.

**KubeconfigProofs.** Nothing keeps the file from changing between the load and the
write of a command, so the invariant is about the copies: a copy leads to every
merged cluster except those its command has missed (`CopiesOK`), and a write gives
up just these. That the cluster a name leads to is the running one needs besides that
a merged cluster runs (`MergedRuns`): then `create` of the name is refused, and no
other command replaces the entry. `LeadsToItsName` is not inductive for the file
alone: file, copies, sources and provider must all name clusters by the name they
were created under (`NamesOK`, `CommandOK`). A part of a file has some of its entries
(`PartsOf`), so a write that is cut off cannot make up a wrong one. Entries of
`update-kubeconfig` carry other names than clusters do (`NamesAssumption`).

**ClusterSetupProofs.** Three invariants. `IInv` says of the run that is active
that its cluster is there, that what it staged is still staged, and that once it
has listed the classes only those it has yet to demote are default beside gp2:
that gives `SoleDefault`. A certificate in the cluster is of a run that worked on
it with authentication (`OfWriter`; `OnlyWithAuth` shows from `Steps` that no
other run writes one), so a cluster with one writer has that run's CA everywhere.
`CInv` adds that every step a run has passed is done and stays done, and that
gp2 is default from its creation on; at the last step that is `Complete`. `FInv`
adds the reasons for an error: while a run is alone, the answer to its look-up
stays true, its target is the cluster there is, and each failed attempt of an
update was paid for by a write of somebody else (`touches >= tries + 1` when its
copy is outdated), which bounds from below what it takes to exhaust the retries.
`StepsAreASequence` and `StepObjects` are the lemmas about the list of steps.

**AccessEntriesProofs, AgentProcess.** `ShutdownOK` follows the loop of
shutdownServers: the servers it has come to have closed their listeners, so no
request arrives at them any more, and those it has left have none in flight unless
the timeout has passed. When the loop ends that is true of all of them. The stop
function of the TargetGroupBinding controller blocks, which gives the other half of
`GracefulExit`. `ClaimsOnlyUnclaimed` needs the types (of LoadBalancerController
too) and `Listed`: a pass claims from the copy it listed, and the API server accepts
the write only if the Service still has that version.

**CNPControllerProofs, ClusterNetworkPolicy.** The heart is
`ComplementIsComplement`: the rules made of the gaps open exactly the ports that are
not restricted. For a port that is not restricted, the gap it lies in starts after
the greatest restricted port below it and ends before the least one above it
(`GreatestElement`, `LeastElement`), and the loop has a rule for that gap. The other
lemmas say what the three kinds of rules open (`AllowOpens`, `RestrictedOpens`,
`ComplementOpens`), and that every restriction comes from a Deny rule and every
supported Deny rule that names a port makes one (`RestrictionOrigin`,
`RestrictionTranslates`).

**CredentialsProofs, Injector.** `AddOpsExtend` says that the operations made for a
list and its additions, applied one by one, give the list followed by the additions,
and `MissingSelects` that the additions are the variables the container lacks, all of
them and no others. `WebhookInv` says that the pod is as submitted until it is
patched, that a patched pod keeps the submitted one and is complete for the options
the patch was built with, and that no pod has the token file without the mount. The
last part cannot be said of admitted pods only: copies of them are submitted again,
and may then be admitted without a patch.

Both translation and patch need induction, over ports and over positions in a list.
The library's induction theorems cannot be used, as they take an operator; but that
a set of natural numbers has a least element follows from the well-foundedness of `<`
(`LeastElement`), and `SetInduction` and `InductionUpTo` say of sets what an induction
rule says of formulas. `AppliedInSteps` and `MissingInSteps` show with them that the
recursive functions satisfy their equations.

The proofs found two slips in the models, both of the same kind: in
`SUBSET S \ T` and `SUBSET S \cup T` the operator binds to `S`, so that
AccessEntries admitted the empty scope, which `facade.go:518` refuses, and the type
of an ingress in LoadBalancerController did not contain the sets it should. Both
are corrected; no result of a run changed.

Only model-checked: termination, convergence and recovery (`CallsTerminate`,
`Converges` of the two controllers, `Claims`, `Leaves`, `SetsUpOrFails`, `SearchEnds`,
`Recovers`). Liveness under fairness is out of the prover's reach.

## Not modelled

- Flags, wiring, logging, HTTP routing, certificates, image rewriting and the
  provider adapter: I/O and formatting without interleaving state.
- Parsing of requests, tokens and manifests: inputs are what the parser yields.
- Read-only handlers.
- IMDSv2 session tokens: they gate every metadata path alike, and what could be
  said of them repeats one comparison of times.
- The requests of the clean-up of mirror services that older versions created:
  only that it may fail, and what that ends, is in AgentProcess.
- The requests of the associations' ConfigMap: the loop of SecretPrincipalStore
  over another object. No handler updates or deletes an association.
- Releases that are withdrawn: the search assumes consecutive numbers.

## Plan

1. Done: the models of the registry, access entries, credentials, the CNP
   translation, the controllers, the injector, the artifact cache, the kubeconfig,
   the create-cluster sequence, the agent process and release resolution; the
   proofs above, of every safety property a run checks.
2. Larger instances of `agent_process` (two failures, so that a failing claim and
   a signal meet) once the state space is cut further.
