--------------------------- MODULE PrincipalStore ---------------------------
(***************************************************************************)
(* What a PrincipalStore promises its callers: the registry that maps an   *)
(* access key ID to an IAM principal, changed by one atomic operation at a *)
(* time.  This is the behaviour of InMemoryPrincipalStore, which holds a   *)
(* mutex for the whole of every method.  A principal is represented by its *)
(* Name; the store never looks at its ARN.                                 *)
(*                                                                         *)
(* A caller may learn that a call failed although it took effect (a lost   *)
(* answer), so a call that takes effect completes with "ok" or "error".    *)
(***************************************************************************)

CONSTANTS
    Clients,   \* callers: CLI processes, fjord-agent, one fjord-imds per node
    Names,     \* principal names
    Keys,      \* access key IDs
    NoName,    \* an access key ID that is not registered
    NoKey      \* the key of a call that has none (Delete)


VARIABLES
    principals,  \* access key ID -> name
    call,        \* the call each client has pending, or NoCall
    status       \* "idle", "pending", or the outcome of the last call

storeVars == <<principals, call, status>>

Outcomes == {"ok", "notfound", "conflict", "error"}
Registry == [Keys -> Names \cup {NoName}]
Call == [kind : {"put", "ensure", "delete"},
         name : Names, key : Keys \cup {NoKey}]

NoCall == [kind |-> "delete", name |-> NoName, key |-> NoKey]
Empty == [k \in Keys |-> NoName]

\* GetByName: the access key IDs registered under name n in registry d.
KeysOf(d, n) == {k \in Keys : d[k] = n}

\* Put's effect: evict every other key of the same name, register the new one.
Registered(d, n, k) ==
    [j \in Keys |-> IF j = k THEN n ELSE IF d[j] = n THEN NoName ELSE d[j]]

Unregistered(d, k) == [d EXCEPT ![k] = NoName]
-----------------------------------------------------------------------------
Init ==
    /\ principals = Empty
    /\ call = [c \in Clients |-> NoCall]
    /\ status = [c \in Clients |-> "idle"]

Request(c, o) ==
    /\ status[c] # "pending"
    /\ call' = [call EXCEPT ![c] = o]
    /\ status' = [status EXCEPT ![c] = "pending"]
    /\ UNCHANGED principals

Complete(c, outcome) ==
    /\ status[c] = "pending"
    /\ status' = [status EXCEPT ![c] = outcome]
    /\ call' = [call EXCEPT ![c] = NoCall]

Put(c) ==
    /\ call[c].kind \in {"put", "ensure"}
    /\ principals' = Registered(principals, call[c].name, call[c].key)
    /\ \E r \in {"ok", "error"} : Complete(c, r)

\* ensureNodeRolePrincipal finds the name registered and does nothing.
Ensured(c) ==
    /\ call[c].kind = "ensure"
    /\ KeysOf(principals, call[c].name) # {}
    /\ Complete(c, "ok")
    /\ UNCHANGED principals

Delete(c) ==
    /\ call[c].kind = "delete"
    /\ \E k \in KeysOf(principals, call[c].name) :
          principals' = Unregistered(principals, k)
    /\ \E r \in {"ok", "error"} : Complete(c, r)

DeleteNotFound(c) ==
    /\ call[c].kind = "delete"
    /\ KeysOf(principals, call[c].name) = {}
    /\ Complete(c, "notfound")
    /\ UNCHANGED principals

\* The call ends without an effect: retries used up, or a transport error.
Fail(c) ==
    /\ \E r \in {"conflict", "error"} : Complete(c, r)
    /\ UNCHANGED principals

\* An operator removes the whole registry with kubectl.
Wipe ==
    /\ principals' = Empty
    /\ UNCHANGED <<call, status>>

Next ==
    \/ \E c \in Clients :
          \/ \E o \in Call : Request(c, o)
          \/ Put(c) \/ Ensured(c) \/ Delete(c) \/ DeleteNotFound(c) \/ Fail(c)
    \/ Wipe

Spec == Init /\ [][Next]_storeVars
=============================================================================
