---------------------------- MODULE AccessEntries ----------------------------
(***************************************************************************)
(* EKS access entries (internal/agent/facade.go, accessentry.go,           *)
(* authenticator.go): the facade handlers that keep the registry of access *)
(* entries and the real Kubernetes RBAC bindings in step, and the access   *)
(* the TokenReview webhook derives from both.                              *)
(*                                                                         *)
(* A handler is a sequence of API server requests, each one step here; the *)
(* agent serves every HTTP request in its own goroutine, so the steps of   *)
(* different requests interleave, and any request can fail, which ends the *)
(* handler with status 500.  A store operation (Get, Put or Delete of one  *)
(* entry in the ConfigMap) is one step: its conflict-retry loop is the one *)
(* SecretPrincipalStore shows to be atomic.                                *)
(***************************************************************************)
EXTENDS FiniteSets

CONSTANTS
    Handlers,     \* requests the agent serves at the same time
    Principals,   \* principal ARNs
    Policies,     \* policy ARNs a request can name
    Namespaces,
    Roles,        \* the ClusterRoles policies map to
    RoleOf,       \* clusterRoleForPolicy, NoRole for an unsupported policy
    NoRole,
    NoEntry,
    Serialized,   \* whether callers wait for a principal's request to be
                  \* answered before they send another one about it
    Failures      \* whether requests to the API server fail

ASSUME RoleOfAssumption == RoleOf \in [Policies -> Roles \cup {NoRole}]
ASSUME NoRoleAssumption == NoRole \notin Roles
ASSUME SerializedAssumption == Serialized \in BOOLEAN
ASSUME FailuresAssumption == Failures \in BOOLEAN

\* Where a role is bound: "cluster" is a ClusterRoleBinding, a namespace a
\* RoleBinding in it.  A policy's scope is the cluster or some namespaces;
\* the empty set stands for a policy that is not associated.
Places == {"cluster"} \cup Namespaces
Scopes == {{"cluster"}} \cup ((SUBSET Namespaces) \ {{}})
Entry == [Policies -> Scopes \cup {{}}]
NoPolicies == [pol \in Policies |-> {}]
ASSUME NoEntryAssumption == NoEntry \notin Entry
Binding == Principals \X Roles \X Places

VARIABLES
    entries,    \* the ConfigMap: principal -> associated policies, or NoEntry
    bindings,   \* the RoleBindings and ClusterRoleBindings of the facade
    pc,         \* what each handler does next: "idle", "rbac" or "put"
    req,        \* the request it serves
    copy,       \* the entry it fetched
    todo,       \* places whose binding it still has to create or delete
    acked,      \* history: associations answered 200 and not withdrawn since
    leaked,     \* history: bindings whose record was overwritten or never made
    damaged     \* history: associations whose last Disassociate was not answered 200

vars == <<entries, bindings, pc, req, copy, todo, acked, leaked, damaged>>
history == <<acked, leaked, damaged>>

Request == [op : {"associate", "disassociate"}, principal : Principals,
            policy : Policies, scope : Scopes \cup {{}}]

NoRequest == [op |-> "none"]

TypeOK ==
    /\ entries \in [Principals -> Entry \cup {NoEntry}]
    /\ bindings \subseteq Binding
    /\ pc \in [Handlers -> {"idle", "rbac", "put"}]
    /\ req \in [Handlers -> Request \cup {NoRequest}]
    /\ copy \in [Handlers -> Entry]
    /\ todo \in [Handlers -> SUBSET Places]
    /\ acked \subseteq Principals \X Policies
    /\ leaked \subseteq Binding
    /\ damaged \subseteq Principals \X Policies

Init ==
    /\ entries = [p \in Principals |-> NoEntry]
    /\ bindings = {}
    /\ pc = [h \in Handlers |-> "idle"]
    /\ req = [h \in Handlers |-> NoRequest]
    /\ copy = [h \in Handlers |-> NoPolicies]
    /\ todo = [h \in Handlers |-> {}]
    /\ acked = {} /\ leaked = {} /\ damaged = {}

InFlight(p) == \E h \in Handlers : pc[h] # "idle" /\ req[h].principal = p
MayStart(p) == Serialized => ~InFlight(p)

\* The bindings that materializeAccessPolicyRBAC creates for one policy.
BindingsFor(p, pol, scope) == {<<p, RoleOf[pol], place>> : place \in scope}

\* The bindings an entry's record calls for.
BindingsOf(p) ==
    IF entries[p] = NoEntry THEN {}
    ELSE UNION {BindingsFor(p, pol, entries[p][pol]) : pol \in Policies}

\* authenticate and EffectiveGroups: a principal with an entry authenticates, and
\* is in its synthetic group, the subject of all its bindings, when the entry
\* has an associated policy.
EffectiveAccess(p) ==
    {b \in bindings : b[1] = p /\ entries[p] \notin {NoEntry, NoPolicies}}
-----------------------------------------------------------------------------
\* store.Put and store.Delete.
PutEntry(p, entry) == entries' = [entries EXCEPT ![p] = entry]
DeleteEntry(p) == entries[p] # NoEntry /\ entries' = [entries EXCEPT ![p] = NoEntry]

\* The record of p is replaced or removed with all the policies in it.
Forget(p) ==
    /\ acked' = {a \in acked : a[1] # p}
    /\ damaged' = {d \in damaged : d[1] # p}
    /\ leaked' = leaked \cup (BindingsOf(p) \cap bindings)

\* handleCreateAccessEntry: Put of an entry without policies, over any older one.
CreateAccessEntry(p) ==
    /\ MayStart(p)
    /\ PutEntry(p, NoPolicies)
    /\ Forget(p)
    /\ UNCHANGED <<bindings, pc, req, copy, todo>>

\* handleDeleteAccessEntry: the bindings stay ("callers should disassociate
\* every policy first").
DeleteAccessEntry(p) ==
    /\ MayStart(p)
    /\ DeleteEntry(p)
    /\ Forget(p)
    /\ UNCHANGED <<bindings, pc, req, copy, todo>>

\* A handler has validated its request and fetched the entry; it changes the
\* bindings at places next.
Serve(h, r, entry, places) ==
    /\ pc[h] = "idle"
    /\ pc' = [pc EXCEPT ![h] = "rbac"]
    /\ req' = [req EXCEPT ![h] = r]
    /\ copy' = [copy EXCEPT ![h] = entry]
    /\ todo' = [todo EXCEPT ![h] = places]
    /\ UNCHANGED <<entries, bindings, history>>

\* handleAssociateAccessPolicy up to the Get.  An unsupported policy (400) and
\* an unknown principal (404) change nothing.
StartAssociate(h) ==
    \E p \in Principals, pol \in Policies, scope \in Scopes :
        /\ MayStart(p)
        /\ RoleOf[pol] # NoRole
        /\ entries[p] # NoEntry
        /\ Serve(h, [op |-> "associate", principal |-> p, policy |-> pol, scope |-> scope],
                 entries[p], scope)

\* handleDisassociateAccessPolicy up to findAssociatedPolicy: the places are the
\* recorded ones, and a policy that is not recorded is answered 404.
StartDisassociate(h) ==
    \E p \in Principals, pol \in Policies :
        /\ MayStart(p)
        /\ RoleOf[pol] # NoRole
        /\ entries[p] # NoEntry
        /\ entries[p][pol] # {}
        /\ Serve(h, [op |-> "disassociate", principal |-> p, policy |-> pol, scope |-> {}],
                 entries[p], entries[p][pol])

Place(h, place) == <<req[h].principal, RoleOf[req[h].policy], place>>

\* The binding at place is dealt with; the record is next when it was the last.
Done(h, place) ==
    /\ todo' = [todo EXCEPT ![h] = @ \ {place}]
    /\ pc' = [pc EXCEPT ![h] = IF todo[h] = {place} THEN "put" ELSE "rbac"]
    /\ UNCHANGED <<entries, req, copy, acked, damaged>>

\* Mutant: only the first binding of the scope is created.
EnsureBinding_First(h) ==
    /\ pc[h] = "rbac" /\ req[h].op = "associate"
    /\ \E place \in todo[h] :
          /\ bindings' = bindings \cup {Place(h, place)}
          /\ todo' = [todo EXCEPT ![h] = {}]
    /\ pc' = [pc EXCEPT ![h] = "put"]
    /\ UNCHANGED <<entries, req, copy, history>>

\* Mutant: a scope of namespaces falls through to the binding of the cluster.
EnsureBinding_FallsThrough(h) ==
    /\ pc[h] = "rbac" /\ req[h].op = "associate"
    /\ \E place \in todo[h] :
          /\ bindings' = bindings \cup {Place(h, place), Place(h, "cluster")}
          /\ Done(h, place)
    /\ UNCHANGED leaked

\* ensureAccessEntry(Cluster)RoleBinding: create, and AlreadyExists is success.
EnsureBinding(h) ==
    /\ pc[h] = "rbac" /\ req[h].op = "associate"
    /\ \E place \in todo[h] :
          /\ bindings' = bindings \cup {Place(h, place)}
          /\ Done(h, place)
    /\ UNCHANGED leaked

\* deleteAccessEntry(Cluster)RoleBinding: NotFound is success.
RemoveBinding(h) ==
    /\ pc[h] = "rbac" /\ req[h].op = "disassociate"
    /\ \E place \in todo[h] :
          /\ bindings' = bindings \ {Place(h, place)}
          /\ leaked' = leaked \ {Place(h, place)}
          /\ Done(h, place)

Finish(h) ==
    /\ pc' = [pc EXCEPT ![h] = "idle"]
    /\ req' = [req EXCEPT ![h] = NoRequest]
    /\ copy' = [copy EXCEPT ![h] = NoPolicies]
    /\ todo' = [todo EXCEPT ![h] = {}]

\* upsertAssociatedPolicy and removeAssociatedPolicy on the fetched copy.
Updated(h) == [copy[h] EXCEPT ![req[h].policy] = req[h].scope]

\* store.Put: the record is written, from the copy fetched at the start.
PutRecord(h, op) ==
    /\ pc[h] = "put" /\ req[h].op = op
    /\ PutEntry(req[h].principal, Updated(h))
    /\ Finish(h)
    /\ UNCHANGED bindings

\* What an associate that wrote its record leaves behind: the bindings of the
\* scope it overwrote.
Overwrite(h) ==
    LET p == req[h].principal  pol == req[h].policy IN
    /\ damaged' = damaged \ {<<p, pol>>}
    /\ leaked' = (leaked \cup (BindingsFor(p, pol, copy[h][pol]) \cap bindings))
                    \ BindingsFor(p, pol, req[h].scope)

\* The record is written and 200 answered.
PutAssociated(h) ==
    /\ PutRecord(h, "associate")
    /\ Overwrite(h)
    /\ acked' = acked \cup {<<req[h].principal, req[h].policy>>}

PutDisassociated(h) ==
    LET d == <<req[h].principal, req[h].policy>> IN
    /\ PutRecord(h, "disassociate")
    /\ acked' = acked \ {d}
    /\ damaged' = damaged \ {d}
    /\ UNCHANGED leaked

\* The Put is stored but its answer is lost, or the agent stops before it has
\* answered: the caller gets no 200 for what did happen.
PutLost(h) ==
    LET d == <<req[h].principal, req[h].policy>> IN
    /\ Failures
    /\ \/ PutRecord(h, "associate") /\ Overwrite(h) /\ UNCHANGED acked
       \/ /\ PutRecord(h, "disassociate")
          /\ acked' = acked \ {d}
          /\ damaged' = damaged \cup {d}
          /\ UNCHANGED leaked

\* Mutant: a Disassociate that fails withdraws the record on its way out.
HandlerFails_Withdraws(h) ==
    LET p == req[h].principal  pol == req[h].policy IN
    /\ Failures
    /\ pc[h] # "idle"
    /\ req[h].op = "disassociate"
    /\ entries' = [entries EXCEPT ![p] = [copy[h] EXCEPT ![pol] = {}]]
    /\ acked' = acked \ {<<p, pol>>}
    /\ damaged' = damaged \cup {<<p, pol>>}
    /\ Finish(h)
    /\ UNCHANGED <<bindings, leaked>>

\* An API server request of the handler fails and it answers 500, or the agent
\* stops: what is done so far stays.  (A request for a binding that is carried
\* out although its answer is lost is EnsureBinding or RemoveBinding and then
\* this; for the record see PutLost.)
HandlerFails(h) ==
    LET p == req[h].principal  pol == req[h].policy IN
    /\ Failures
    /\ pc[h] # "idle"
    /\ leaked' = IF req[h].op = "associate"
                 THEN leaked \cup ((BindingsFor(p, pol, req[h].scope) \cap bindings) \ BindingsOf(p))
                 ELSE leaked
    /\ damaged' = IF req[h].op = "disassociate" THEN damaged \cup {<<p, pol>>} ELSE damaged
    /\ Finish(h)
    /\ UNCHANGED <<entries, bindings, acked>>

Next ==
    \/ \E p \in Principals : CreateAccessEntry(p) \/ DeleteAccessEntry(p)
    \/ \E h \in Handlers :
          \/ StartAssociate(h) \/ StartDisassociate(h)
          \/ EnsureBinding(h) \/ RemoveBinding(h)
          \/ PutAssociated(h) \/ PutDisassociated(h)
          \/ PutLost(h) \/ HandlerFails(h)

Spec == Init /\ [][Next]_vars
-----------------------------------------------------------------------------
\* "associating a standard access policy here immediately materializes" its
\* bindings: a recorded policy has all of them, unless a Disassociate of it
\* failed half way.
RecordedIsBound ==
    \A p \in Principals : ~InFlight(p) /\ entries[p] # NoEntry =>
        \A pol \in Policies : <<p, pol>> \notin damaged =>
            BindingsFor(p, pol, entries[p][pol]) \subseteq bindings

\* A principal's access through its synthetic group is what its entry records,
\* or was left by one of three things: the entry was deleted or created again
\* with the policy associated, the policy was associated again with another
\* scope, or an Associate failed before its record was written.
NoUnexplainedAccess ==
    \A p \in Principals : ~InFlight(p) =>
        EffectiveAccess(p) \subseteq BindingsOf(p) \cup leaked

\* Disassociate removes the bindings first and the record last.  However it ends
\* (200, 500 at any request, 500 although the record was written, a stopped
\* agent), it can be sent again and then starts from the same record, or every
\* binding of the recorded scope is gone and the 404 of a repeated request
\* hides nothing.
RemovalIsWholeOrRepeatable ==
    [][\A h \in Handlers :
          pc[h] # "idle" /\ req[h].op = "disassociate" /\ pc'[h] = "idle" =>
             LET p == req[h].principal  recorded == copy[h][req[h].policy] IN
             \/ entries'[p] # NoEntry /\ entries'[p][req[h].policy] = recorded
             \/ \A place \in recorded : Place(h, place) \notin bindings']_vars

\* "Writes use resourceVersion-based optimistic locking": an association that
\* was answered 200 stays recorded until it is disassociated, or its entry is
\* deleted or created again.  It holds as long as requests about one principal
\* do not overlap (Serialized).
AckedStaysRecorded ==
    \A a \in acked : entries[a[1]] # NoEntry /\ entries[a[1]][a[2]] # {}

\* A Disassociate that answers 200 has removed "the ClusterRoleBinding/
\* RoleBinding(s) AssociateAccessPolicy created for the (principalArn,
\* policyArn) pair".
DisassociateRemovesBindings ==
    [][\A h \in Handlers : PutDisassociated(h) =>
          \A place \in Places : Place(h, place) \notin bindings']_vars
=============================================================================
