------------------------- MODULE AccessEntriesProofs -------------------------
(***************************************************************************)
(* Proofs about AccessEntries, for any handlers, principals, policies and  *)
(* namespaces, when callers wait for a principal's request to be answered  *)
(* before they send another one about it (Serialized).  Requests about     *)
(* different principals overlap freely.                                    *)
(*                                                                         *)
(* The second part is about AgentProcess, the process that serves them.    *)
(***************************************************************************)
EXTENDS AccessEntries, AgentProcess, TLAPS

Busy(h) == pc[h] # "idle"
Associates(h) == Busy(h) /\ req[h].op = "associate"
Disassociates(h) == Busy(h) /\ req[h].op = "disassociate"

\* One request at a time is about a principal.
OnePerPrincipal ==
    \A g, h \in Handlers : Busy(g) /\ Busy(h) /\ req[g].principal = req[h].principal => g = h

\* A handler works on the entry as it is recorded, and its bindings are done
\* except where it has still to go.
HandlerOK ==
    \A h \in Handlers : Busy(h) =>
        /\ req[h] \in Request
        /\ entries[req[h].principal] # NoEntry
        /\ copy[h] = entries[req[h].principal]
        /\ RoleOf[req[h].policy] # NoRole
        /\ pc[h] = "put" => todo[h] = {}
        /\ Associates(h) =>
              /\ req[h].scope \in Scopes
              /\ todo[h] \subseteq req[h].scope
              /\ \A place \in req[h].scope \ todo[h] : Place(h, place) \in bindings
        /\ Disassociates(h) =>
              /\ req[h].scope = {}
              /\ copy[h][req[h].policy] # {}
              /\ todo[h] \subseteq copy[h][req[h].policy]
              /\ \A place \in copy[h][req[h].policy] \ todo[h] : Place(h, place) \notin bindings

\* Every binding is recorded, leaked, or of an association that is under way.
Explained ==
    \A b \in bindings :
        \/ b \in BindingsOf(b[1]) \cup leaked
        \/ \E h \in Handlers :
              Associates(h) /\ b \in BindingsFor(req[h].principal, req[h].policy, req[h].scope)

IInv ==
    /\ TypeOK
    /\ OnePerPrincipal
    /\ HandlerOK
    /\ Explained

\* What a step does that writes the record, whether it is answered or not.
Records(h) ==
    LET d == <<req[h].principal, req[h].policy>> IN
    /\ pc[h] = "put"
    /\ PutEntry(req[h].principal, Updated(h))
    /\ Finish(h)
    /\ bindings' = bindings
    /\ acked' \subseteq acked \cup {d}
    /\ \/ Associates(h) /\ Overwrite(h)
       \/ Disassociates(h) /\ leaked' = leaked /\ damaged' \in {damaged \ {d}, damaged \cup {d}}
-----------------------------------------------------------------------------
\* Updated is an entry again, which differs from the copy in one policy.
LEMMA UpdatedEntry ==
    ASSUME TypeOK, HandlerOK, NEW h \in Handlers, Busy(h)
    PROVE  /\ req[h].principal \in Principals /\ req[h].policy \in Policies
           /\ RoleOf[req[h].policy] \in Roles
           /\ req[h].scope \in Scopes \cup {{}}
           /\ copy[h] \in Entry
           /\ Updated(h) \in Entry
           /\ Updated(h)[req[h].policy] = req[h].scope
           /\ \A pol \in Policies \ {req[h].policy} : Updated(h)[pol] = copy[h][pol]
  BY RoleOfAssumption DEF TypeOK, HandlerOK, Request, Updated, Entry

\* The three ways to write the record.
LEMMA RecordsOf ==
    ASSUME NEW h \in Handlers, PutAssociated(h) \/ PutDisassociated(h) \/ PutLost(h)
    PROVE  Records(h) /\ Busy(h)
  BY DEF PutAssociated, PutDisassociated, PutLost, PutRecord, Records, Associates, Disassociates, Busy

\* A scope is a set of places.
LEMMA ScopePlaces == \A scope \in Scopes \cup {{}} : scope \subseteq Places
  BY DEF Scopes, Places

\* Every step of a handler keeps the type.
LEMMA TypeStep ==
    ASSUME TypeOK, HandlerOK, [Next]_vars
    PROVE  TypeOK'
<1>n. NoPolicies \in Entry
  BY DEF NoPolicies, Entry
<1>f. ASSUME NEW h \in Handlers, Finish(h)
      PROVE  /\ pc' \in [Handlers -> {"idle", "rbac", "put"}]
             /\ req' \in [Handlers -> Request \cup {NoRequest}]
             /\ copy' \in [Handlers -> Entry]
             /\ todo' \in [Handlers -> SUBSET Places]
  BY <1>f, <1>n DEF TypeOK, Finish
<1>1. ASSUME NEW p \in Principals, CreateAccessEntry(p) \/ DeleteAccessEntry(p)
      PROVE  TypeOK'
  <2>1. entries' \in [Principals -> Entry \cup {NoEntry}]
    BY <1>1, <1>n DEF TypeOK, CreateAccessEntry, DeleteAccessEntry, PutEntry, DeleteEntry
  <2>2. acked' \subseteq acked /\ damaged' \subseteq damaged /\ leaked' \subseteq leaked \cup bindings
    BY <1>1 DEF CreateAccessEntry, DeleteAccessEntry, Forget
  <2>3. UNCHANGED <<bindings, pc, req, copy, todo>>
    BY <1>1 DEF CreateAccessEntry, DeleteAccessEntry
  <2> QED
    BY <2>1, <2>2, <2>3 DEF TypeOK
<1>2. ASSUME NEW h \in Handlers, StartAssociate(h)
      PROVE  TypeOK'
  <2>1. PICK p \in Principals, pol \in Policies, scope \in Scopes :
           /\ entries[p] # NoEntry
           /\ Serve(h, [op |-> "associate", principal |-> p, policy |-> pol, scope |-> scope],
                    entries[p], scope)
    BY <1>2 DEF StartAssociate
  <2>2. [op |-> "associate", principal |-> p, policy |-> pol, scope |-> scope] \in Request
    BY DEF Request
  <2> QED
    BY <2>1, <2>2, ScopePlaces DEF TypeOK, Serve, history
<1>3. ASSUME NEW h \in Handlers, StartDisassociate(h)
      PROVE  TypeOK'
  <2>1. PICK p \in Principals, pol \in Policies :
           /\ entries[p] # NoEntry
           /\ Serve(h, [op |-> "disassociate", principal |-> p, policy |-> pol, scope |-> {}],
                    entries[p], entries[p][pol])
    BY <1>3 DEF StartDisassociate
  <2>2. [op |-> "disassociate", principal |-> p, policy |-> pol, scope |-> {}] \in Request
    BY DEF Request
  <2>3. entries[p] \in Entry /\ entries[p][pol] \subseteq Places
    BY <2>1, ScopePlaces DEF TypeOK, Entry
  <2> QED
    BY <2>1, <2>2, <2>3 DEF TypeOK, Serve, history
<1>4. ASSUME NEW h \in Handlers, EnsureBinding(h)
      PROVE  TypeOK'
  <2>1. PICK place \in todo[h] : bindings' = bindings \cup {Place(h, place)} /\ Done(h, place)
    BY <1>4 DEF EnsureBinding
  <2>2. Place(h, place) \in Binding
    BY <1>4, UpdatedEntry DEF EnsureBinding, Busy, Place, Binding, TypeOK
  <2> QED
    BY <1>4, <2>1, <2>2 DEF EnsureBinding, Done, TypeOK
<1>5. ASSUME NEW h \in Handlers, RemoveBinding(h)
      PROVE  TypeOK'
  BY <1>5 DEF RemoveBinding, Done, TypeOK
<1>6. ASSUME NEW h \in Handlers, PutAssociated(h) \/ PutDisassociated(h) \/ PutLost(h)
      PROVE  TypeOK'
  <2>1. Records(h) /\ Busy(h)
    BY <1>6, RecordsOf
  <2>2. /\ req[h].principal \in Principals /\ req[h].policy \in Policies /\ Updated(h) \in Entry
    BY <2>1, UpdatedEntry
  <2>3. /\ damaged' \subseteq damaged \cup {<<req[h].principal, req[h].policy>>}
        /\ leaked' \subseteq leaked \cup bindings
    BY <2>1 DEF Records, Overwrite
  <2>4. /\ entries' \in [Principals -> Entry \cup {NoEntry}]
        /\ bindings' \subseteq Binding /\ acked' \subseteq Principals \X Policies
    BY <2>1, <2>2 DEF Records, PutEntry, TypeOK
  <2>5. Finish(h)
    BY <2>1 DEF Records
  <2> QED
    BY <2>2, <2>3, <2>4, <2>5, <1>f DEF TypeOK
<1>7. ASSUME NEW h \in Handlers, HandlerFails(h)
      PROVE  TypeOK'
  <2>1. /\ req[h].principal \in Principals /\ req[h].policy \in Policies
    BY <1>7, UpdatedEntry DEF HandlerFails, Busy
  <2>2. /\ Finish(h)
        /\ UNCHANGED <<entries, bindings, acked>>
        /\ damaged' \subseteq damaged \cup {<<req[h].principal, req[h].policy>>}
        /\ leaked' \subseteq leaked \cup bindings
    BY <1>7 DEF HandlerFails
  <2> QED
    BY <2>1, <2>2, <1>f DEF TypeOK
<1>8. CASE UNCHANGED vars
  BY <1>8 DEF vars, TypeOK
<1> QED
  BY <1>1, <1>2, <1>3, <1>4, <1>5, <1>6, <1>7, <1>8 DEF Next
-----------------------------------------------------------------------------
\* A step of one handler leaves the others where they are, and they serve other
\* principals.
LEMMA OthersStay ==
    ASSUME TypeOK, OnePerPrincipal, NEW h \in Handlers, Busy(h),
           \/ EnsureBinding(h) \/ RemoveBinding(h)
           \/ PutAssociated(h) \/ PutDisassociated(h) \/ PutLost(h) \/ HandlerFails(h)
    PROVE  \A g \in Handlers \ {h} :
              /\ pc'[g] = pc[g] /\ req'[g] = req[g] /\ copy'[g] = copy[g] /\ todo'[g] = todo[g]
              /\ Busy(g) => req[g].principal # req[h].principal
<1>1. CASE EnsureBinding(h) \/ RemoveBinding(h)
  BY <1>1 DEF EnsureBinding, RemoveBinding, Done, TypeOK, OnePerPrincipal
<1>2. CASE PutAssociated(h) \/ PutDisassociated(h) \/ PutLost(h) \/ HandlerFails(h)
  <2>1. Finish(h)
    BY <1>2, RecordsOf DEF Records, HandlerFails
  <2> QED
    BY <2>1 DEF Finish, TypeOK, OnePerPrincipal
<1> QED
  BY <1>1, <1>2

\* A handler that has answered is idle.
LEMMA Answered ==
    ASSUME TypeOK, NEW h \in Handlers, Finish(h)
    PROVE  ~Busy(h)'
  BY DEF TypeOK, Finish, Busy

\* What one step does to the handlers, under callers that wait.
LEMMA HandlerStep ==
    ASSUME IInv, Serialized, [Next]_vars
    PROVE  OnePerPrincipal' /\ HandlerOK'
<1> USE DEF IInv
<1>1. ASSUME NEW p \in Principals, CreateAccessEntry(p) \/ DeleteAccessEntry(p)
      PROVE  OnePerPrincipal' /\ HandlerOK'
  <2>1. /\ UNCHANGED <<bindings, pc, req, copy, todo>>
        /\ \A q \in Principals \ {p} : entries'[q] = entries[q]
    BY <1>1 DEF CreateAccessEntry, DeleteAccessEntry, PutEntry, DeleteEntry, TypeOK
  <2>2. \A h \in Handlers : Busy(h) => req[h].principal \in Principals \ {p}
    BY <1>1, UpdatedEntry DEF CreateAccessEntry, DeleteAccessEntry, MayStart, InFlight, Busy
  <2>3. OnePerPrincipal'
    BY <2>1 DEF OnePerPrincipal, Busy
  <2>4. HandlerOK'
    BY <2>1, <2>2 DEF HandlerOK, Busy, Associates, Disassociates, Place
  <2> QED
    BY <2>3, <2>4
<1>2. ASSUME NEW h \in Handlers, NEW p \in Principals, NEW pol \in Policies,
             NEW r \in Request, NEW places, Serve(h, r, entries[p], places),
             r.principal = p, r.policy = pol, MayStart(p),
             RoleOf[pol] # NoRole, entries[p] # NoEntry,
             \/ r.op = "associate" /\ r.scope \in Scopes /\ places = r.scope
             \/ /\ r.op = "disassociate" /\ r.scope = {}
                /\ places = entries[p][pol] /\ places # {}
      PROVE  OnePerPrincipal' /\ HandlerOK'
  <2>1. /\ pc'[h] = "rbac" /\ req'[h] = r /\ copy'[h] = entries[p] /\ todo'[h] = places
        /\ \A g \in Handlers \ {h} :
              pc'[g] = pc[g] /\ req'[g] = req[g] /\ copy'[g] = copy[g] /\ todo'[g] = todo[g]
        /\ entries' = entries /\ bindings' = bindings
    BY <1>2 DEF Serve, TypeOK
  <2>2. \A g \in Handlers : Busy(g) => req[g].principal # p
    BY <1>2 DEF MayStart, InFlight, Busy
  <2>3. OnePerPrincipal'
    BY <1>2, <2>1, <2>2 DEF OnePerPrincipal, Busy
  <2>4. HandlerOK'
    BY <1>2, <2>1 DEF HandlerOK, Busy, Associates, Disassociates, Place
  <2> QED
    BY <2>3, <2>4
<1>3. ASSUME NEW h \in Handlers, StartAssociate(h)
      PROVE  OnePerPrincipal' /\ HandlerOK'
  <2>1. PICK p \in Principals, pol \in Policies, scope \in Scopes :
           /\ MayStart(p) /\ RoleOf[pol] # NoRole /\ entries[p] # NoEntry
           /\ Serve(h, [op |-> "associate", principal |-> p, policy |-> pol, scope |-> scope],
                    entries[p], scope)
    BY <1>3 DEF StartAssociate
  <2>2. [op |-> "associate", principal |-> p, policy |-> pol, scope |-> scope] \in Request
    BY DEF Request
  <2> QED
    BY <2>1, <2>2, <1>2
<1>4. ASSUME NEW h \in Handlers, StartDisassociate(h)
      PROVE  OnePerPrincipal' /\ HandlerOK'
  <2>1. PICK p \in Principals, pol \in Policies :
           /\ MayStart(p) /\ RoleOf[pol] # NoRole /\ entries[p] # NoEntry /\ entries[p][pol] # {}
           /\ Serve(h, [op |-> "disassociate", principal |-> p, policy |-> pol, scope |-> {}],
                    entries[p], entries[p][pol])
    BY <1>4 DEF StartDisassociate
  <2>2. [op |-> "disassociate", principal |-> p, policy |-> pol, scope |-> {}] \in Request
    BY DEF Request
  <2> QED
    BY <2>1, <2>2, <1>2
<1>5. ASSUME NEW h \in Handlers, EnsureBinding(h)
      PROVE  OnePerPrincipal' /\ HandlerOK'
  <2>0. Busy(h) /\ Associates(h)
    BY <1>5 DEF EnsureBinding, Busy, Associates
  <2>1. PICK place \in todo[h] : bindings' = bindings \cup {Place(h, place)} /\ Done(h, place)
    BY <1>5 DEF EnsureBinding
  <2>2. /\ pc'[h] = IF todo[h] = {place} THEN "put" ELSE "rbac"
        /\ todo'[h] = todo[h] \ {place} /\ entries' = entries /\ req' = req /\ copy' = copy
    BY <2>1 DEF Done, TypeOK
  <2>3. \A g \in Handlers \ {h} :
           /\ pc'[g] = pc[g] /\ todo'[g] = todo[g]
           /\ Busy(g) => req[g].principal # req[h].principal
    BY <1>5, <2>0, OthersStay
  <2>4. OnePerPrincipal'
    BY <2>0, <2>2, <2>3 DEF OnePerPrincipal, Busy
  <2>5. HandlerOK'
    BY <2>0, <2>1, <2>2, <2>3 DEF HandlerOK, Busy, Associates, Disassociates, Place
  <2> QED
    BY <2>4, <2>5
<1>6. ASSUME NEW h \in Handlers, RemoveBinding(h)
      PROVE  OnePerPrincipal' /\ HandlerOK'
  <2>0. Busy(h) /\ Disassociates(h)
    BY <1>6 DEF RemoveBinding, Busy, Disassociates
  <2>1. PICK place \in todo[h] : bindings' = bindings \ {Place(h, place)} /\ Done(h, place)
    BY <1>6 DEF RemoveBinding
  <2>2. /\ pc'[h] = IF todo[h] = {place} THEN "put" ELSE "rbac"
        /\ todo'[h] = todo[h] \ {place} /\ entries' = entries /\ req' = req /\ copy' = copy
    BY <2>1 DEF Done, TypeOK
  <2>3. \A g \in Handlers \ {h} :
           /\ pc'[g] = pc[g] /\ todo'[g] = todo[g]
           /\ Busy(g) => req[g].principal # req[h].principal
    BY <1>6, <2>0, OthersStay
  <2>4. OnePerPrincipal'
    BY <2>0, <2>2, <2>3 DEF OnePerPrincipal, Busy
  <2>5. HandlerOK'
    BY <2>0, <2>1, <2>2, <2>3 DEF HandlerOK, Busy, Associates, Disassociates, Place
  <2> QED
    BY <2>4, <2>5
<1>7. ASSUME NEW h \in Handlers,
             PutAssociated(h) \/ PutDisassociated(h) \/ PutLost(h) \/ HandlerFails(h)
      PROVE  OnePerPrincipal' /\ HandlerOK'
  <2>0. Busy(h) /\ Finish(h) /\ bindings' = bindings
    BY <1>7, RecordsOf DEF Records, HandlerFails, Busy
  <2>1. ~Busy(h)'
    BY <2>0, Answered
  <2>2. \A g \in Handlers \ {h} :
           /\ pc'[g] = pc[g] /\ req'[g] = req[g] /\ copy'[g] = copy[g] /\ todo'[g] = todo[g]
           /\ Busy(g) => req[g].principal # req[h].principal
    BY <1>7, <2>0, OthersStay
  <2>3. \A q \in Principals \ {req[h].principal} : entries'[q] = entries[q]
    BY <1>7, RecordsOf DEF Records, HandlerFails, PutEntry, TypeOK
  <2>4. \A g \in Handlers : Busy(g) => req[g].principal \in Principals
    BY UpdatedEntry
  <2>5. OnePerPrincipal'
    BY <2>1, <2>2 DEF OnePerPrincipal, Busy
  <2>6. HandlerOK'
    BY <2>0, <2>1, <2>2, <2>3, <2>4 DEF HandlerOK, Busy, Associates, Disassociates, Place
  <2> QED
    BY <2>5, <2>6
<1>8. CASE UNCHANGED vars
  BY <1>8 DEF vars, OnePerPrincipal, HandlerOK, Busy, Associates, Disassociates, Place
<1> QED
  BY <1>1, <1>3, <1>4, <1>5, <1>6, <1>7, <1>8 DEF Next
-----------------------------------------------------------------------------
\* A binding is recorded when an associated policy of its principal has it.
LEMMA Recorded ==
    ASSUME TypeOK, NEW b \in Binding
    PROVE  b \in BindingsOf(b[1]) <=>
              /\ entries[b[1]] # NoEntry
              /\ \E pol \in Policies : RoleOf[pol] = b[2] /\ b[3] \in entries[b[1]][pol]
<1>1. b = <<b[1], b[2], b[3]>> /\ b[1] \in Principals
  BY DEF Binding
<1>2. ASSUME NEW pol \in Policies
      PROVE  b \in BindingsFor(b[1], pol, entries[b[1]][pol]) <=>
                RoleOf[pol] = b[2] /\ b[3] \in entries[b[1]][pol]
  BY <1>1 DEF BindingsFor
<1> QED
  BY <1>2 DEF BindingsOf

\* One step leaves no binding unexplained.
LEMMA ExplainedStep ==
    ASSUME IInv, Serialized, [Next]_vars, TypeOK'
    PROVE  Explained'
<1> USE DEF IInv
<1>b. \A b \in bindings \cup bindings' :
         /\ b \in Binding /\ b = <<b[1], b[2], b[3]>>
         /\ b[1] \in Principals
  BY DEF TypeOK, Binding
<1>r. ASSUME NEW b \in Binding, NEW q \in Principals, b[1] = q, entries'[q] = entries[q],
             b \in BindingsOf(q)
      PROVE  b \in BindingsOf(q)'
  BY <1>r DEF BindingsOf, BindingsFor
<1>1. ASSUME NEW p \in Principals, CreateAccessEntry(p) \/ DeleteAccessEntry(p)
      PROVE  Explained'
  <2>1. \A q \in Principals \ {p} : entries'[q] = entries[q]
    BY <1>1 DEF CreateAccessEntry, DeleteAccessEntry, PutEntry, DeleteEntry, TypeOK
  <2>2. UNCHANGED <<bindings, pc, req>> /\ leaked' = leaked \cup (BindingsOf(p) \cap bindings)
    BY <1>1 DEF CreateAccessEntry, DeleteAccessEntry, Forget
  <2>3. ASSUME NEW b \in bindings, b \in BindingsOf(b[1])
        PROVE  b \in BindingsOf(b[1])' \cup leaked'
    <3>1. CASE b[1] = p
      BY <3>1, <2>2, <2>3
    <3>2. CASE b[1] # p
      BY <3>2, <2>1, <2>3, <1>b, <1>r
    <3> QED
      BY <3>1, <3>2
  <2> QED
    BY <2>2, <2>3 DEF Explained, Associates, Busy, BindingsFor
<1>2. ASSUME NEW h \in Handlers, StartAssociate(h) \/ StartDisassociate(h)
      PROVE  Explained'
  <2>1. /\ ~Busy(h) /\ UNCHANGED <<entries, bindings, leaked>>
        /\ \A g \in Handlers \ {h} : pc'[g] = pc[g] /\ req'[g] = req[g]
    BY <1>2 DEF StartAssociate, StartDisassociate, Serve, history, TypeOK, Busy
  <2>2. \A b \in bindings : BindingsOf(b[1])' = BindingsOf(b[1])
    BY <2>1 DEF BindingsOf, BindingsFor
  <2> QED
    BY <2>1, <2>2 DEF Explained, Associates, Busy, BindingsFor
<1>3. ASSUME NEW h \in Handlers, EnsureBinding(h)
      PROVE  Explained'
  <2>0. Associates(h) /\ Busy(h)
    BY <1>3 DEF EnsureBinding, Busy, Associates
  <2>1. PICK place \in todo[h] : bindings' = bindings \cup {Place(h, place)} /\ Done(h, place)
    BY <1>3 DEF EnsureBinding
  <2>2. /\ pc'[h] \in {"put", "rbac"} /\ \A g \in Handlers \ {h} : pc'[g] = pc[g]
        /\ entries' = entries /\ req' = req /\ leaked' = leaked
    BY <1>3, <2>1 DEF Done, TypeOK, EnsureBinding
  <2>3. \A g \in Handlers : Associates(g)' <=> Associates(g)
    BY <2>0, <2>2 DEF Associates, Busy
  <2>4. Place(h, place) \in BindingsFor(req[h].principal, req[h].policy, req[h].scope)
    BY <2>0, <2>1 DEF HandlerOK, Place, BindingsFor
  <2>5. \A b \in bindings : BindingsOf(b[1])' = BindingsOf(b[1])
    BY <2>2 DEF BindingsOf, BindingsFor
  <2> QED
    BY <2>0, <2>1, <2>2, <2>3, <2>4, <2>5 DEF Explained, BindingsFor
<1>4. ASSUME NEW h \in Handlers, RemoveBinding(h)
      PROVE  Explained'
  <2>0. ~Associates(h)
    BY <1>4 DEF RemoveBinding, Associates
  <2>1. PICK place \in todo[h] : /\ bindings' = bindings \ {Place(h, place)}
                                 /\ leaked' = leaked \ {Place(h, place)}
                                 /\ Done(h, place)
    BY <1>4 DEF RemoveBinding
  <2>2. /\ \A g \in Handlers \ {h} : pc'[g] = pc[g]
        /\ entries' = entries /\ req' = req
    BY <2>1 DEF Done, TypeOK
  <2>3. \A g \in Handlers : Associates(g) => Associates(g)'
    BY <2>0, <2>2 DEF Associates, Busy
  <2>5. \A b \in bindings : BindingsOf(b[1])' = BindingsOf(b[1])
    BY <2>2 DEF BindingsOf, BindingsFor
  <2> QED
    BY <2>1, <2>2, <2>3, <2>5 DEF Explained, BindingsFor
<1>5. ASSUME NEW h \in Handlers, PutAssociated(h) \/ PutDisassociated(h) \/ PutLost(h)
      PROVE  Explained'
  <2> DEFINE p == req[h].principal  pol == req[h].policy  scope == req[h].scope
  <2>0. Busy(h) /\ Records(h)
    BY <1>5, RecordsOf
  <2>1. /\ p \in Principals /\ pol \in Policies /\ Updated(h) \in Entry
        /\ Updated(h)[pol] = scope
        /\ \A x \in Policies \ {pol} : Updated(h)[x] = copy[h][x]
    BY <2>0, UpdatedEntry
  <2>2. entries[p] # NoEntry /\ copy[h] = entries[p]
    BY <2>0 DEF HandlerOK
  <2>3. /\ entries'[p] = Updated(h) /\ entries'[p] # NoEntry
        /\ \A q \in Principals \ {p} : entries'[q] = entries[q]
        /\ bindings' = bindings
    BY <2>0, <2>1, NoEntryAssumption DEF Records, PutEntry, TypeOK
  <2>4. \A g \in Handlers \ {h} : /\ pc'[g] = pc[g] /\ req'[g] = req[g]
                                  /\ Busy(g) => req[g].principal # p
    BY <1>5, <2>0, OthersStay
  <2>5. ASSUME NEW b \in bindings
        PROVE  \/ b \in BindingsOf(b[1])' \cup leaked'
               \/ \E g \in Handlers :
                     Associates(g)' /\ b \in BindingsFor(req[g].principal, req[g].policy, req[g].scope)'
    <3>l. CASE b \in leaked \/ b \in BindingsFor(p, pol, scope)
      <4>1. CASE b \in BindingsFor(p, pol, scope)
        <5>1. b[1] = p /\ b[2] = RoleOf[pol] /\ b[3] \in scope
          BY <4>1 DEF BindingsFor
        <5>2. b \in BindingsOf(b[1])'
          BY <5>1, <1>b, <2>1, <2>3 DEF BindingsOf, BindingsFor
        <5> QED
          BY <5>2
      <4>2. CASE b \in leaked /\ b \notin BindingsFor(p, pol, scope)
        BY <4>2, <2>0 DEF Records, Overwrite
      <4> QED
        BY <3>l, <4>1, <4>2
    <3>r. CASE b \in BindingsOf(b[1])
      <4>1. CASE b[1] # p
        BY <4>1, <3>r, <2>3, <1>b, <1>r
      <4>2. CASE b[1] = p
        <5>1. PICK x \in Policies : RoleOf[x] = b[2] /\ b[3] \in entries[p][x]
          BY <3>r, <4>2, <1>b, Recorded
        <5>2. CASE x # pol
          <6>1. b[3] \in entries'[p][x]
            BY <5>1, <5>2, <2>1, <2>2, <2>3
          <6>2. b = <<p, RoleOf[x], b[3]>>
            BY <4>2, <5>1, <1>b
          <6>3. b \in BindingsOf(b[1])'
            BY <6>1, <6>2, <4>2, <2>3 DEF BindingsOf, BindingsFor
          <6> QED
            BY <6>3
        <5>3. CASE x = pol
          <6>1. b = Place(h, b[3]) /\ b \in BindingsFor(p, pol, copy[h][pol])
            BY <5>1, <5>3, <4>2, <1>b, <2>2 DEF Place, BindingsFor
          <6>2. CASE Associates(h) /\ Overwrite(h)
            <7>1. b \in leaked' \/ b \in BindingsFor(p, pol, scope)
              BY <6>1, <6>2 DEF Overwrite
            <7> QED
              BY <7>1, <3>l
          <6>3. CASE Disassociates(h)
            <7>1. b[3] \in copy[h][pol] \ todo[h] /\ Disassociates(h)
              BY <6>3, <2>0, <2>2, <5>1, <5>3 DEF HandlerOK, Records
            <7> QED
              BY <7>1, <6>1, <2>0 DEF HandlerOK
          <6> QED
            BY <2>0, <6>2, <6>3 DEF Records
        <5> QED
          BY <5>2, <5>3
      <4> QED
        BY <4>1, <4>2
    <3>a. ASSUME NEW g \in Handlers \ {h}, Associates(g),
                 b \in BindingsFor(req[g].principal, req[g].policy, req[g].scope)
          PROVE  Associates(g)' /\ b \in BindingsFor(req[g].principal, req[g].policy, req[g].scope)'
      BY <3>a, <2>4 DEF Associates, Busy, BindingsFor
    <3> QED
      BY <3>l, <3>r, <3>a DEF Explained
  <2> QED
    BY <2>3, <2>5 DEF Explained
<1>6. ASSUME NEW h \in Handlers, HandlerFails(h)
      PROVE  Explained'
  <2> DEFINE mine == BindingsFor(req[h].principal, req[h].policy, req[h].scope)
  <2>0. Busy(h)
    BY <1>6 DEF HandlerFails, Busy
  <2>1. /\ UNCHANGED <<entries, bindings>> /\ leaked \subseteq leaked'
        /\ Associates(h) =>
              leaked' = leaked \cup ((mine \cap bindings) \ BindingsOf(req[h].principal))
    BY <1>6 DEF HandlerFails, Associates
  <2>2. \A g \in Handlers \ {h} : pc'[g] = pc[g] /\ req'[g] = req[g]
    BY <1>6, <2>0, OthersStay
  <2>3. \A b \in bindings : BindingsOf(b[1])' = BindingsOf(b[1])
    BY <2>1 DEF BindingsOf, BindingsFor
  <2>4. \A b \in mine : b[1] = req[h].principal
    BY DEF BindingsFor
  <2>5. \A g \in Handlers \ {h} : Associates(g) =>
           /\ Associates(g)'
           /\ BindingsFor(req[g].principal, req[g].policy, req[g].scope)'
                 = BindingsFor(req[g].principal, req[g].policy, req[g].scope)
    BY <2>2 DEF Associates, Busy, BindingsFor
  <2>6. ASSUME NEW b \in bindings
        PROVE  \/ b \in BindingsOf(b[1])' \cup leaked'
               \/ \E g \in Handlers :
                     Associates(g)' /\ b \in BindingsFor(req[g].principal, req[g].policy, req[g].scope)'
    <3>1. CASE b \in BindingsOf(b[1]) \cup leaked
      BY <3>1, <2>1, <2>3
    <3>2. CASE Associates(h) /\ b \in mine
      BY <3>1, <3>2, <2>1, <2>3, <2>4
    <3>3. ASSUME NEW g \in Handlers \ {h}, Associates(g),
                 b \in BindingsFor(req[g].principal, req[g].policy, req[g].scope)
          PROVE  Associates(g)' /\ b \in BindingsFor(req[g].principal, req[g].policy, req[g].scope)'
      BY <3>3, <2>5
    <3> QED
      BY <3>1, <3>2, <3>3 DEF Explained
  <2> QED
    BY <2>1, <2>6 DEF Explained
<1>7. CASE UNCHANGED vars
  BY <1>7 DEF vars, Explained, BindingsOf, BindingsFor, Associates, Busy
<1> QED
  BY <1>1, <1>2, <1>3, <1>4, <1>5, <1>6, <1>7 DEF Next
-----------------------------------------------------------------------------
\* IInv holds initially and every step keeps it.
LEMMA InitOK == Init => IInv
<1> SUFFICES ASSUME Init PROVE IInv
  OBVIOUS
<1>1. TypeOK
  BY DEF Init, TypeOK, NoPolicies, Entry
<1>2. OnePerPrincipal /\ HandlerOK
  BY DEF Init, OnePerPrincipal, HandlerOK, Busy
<1>3. Explained
  BY DEF Init, Explained
<1> QED
  BY <1>1, <1>2, <1>3 DEF IInv

\* facade.go, under callers that wait for an answer: the handlers' copies are
\* never stale, and no binding exists that nothing explains.
THEOREM Invariance == Serialized => (Spec => []IInv)
<1> SUFFICES ASSUME Serialized PROVE Spec => []IInv
  OBVIOUS
<1>1. IInv /\ [Next]_vars => IInv'
  BY TypeStep, HandlerStep, ExplainedStep DEF IInv
<1> QED
  BY <1>1, InitOK, PTL DEF Spec

\* authenticator.go and accessentry.go: what a principal may do through its
\* group is recorded in its entry, or was left by one of the three ways a
\* binding leaks (NoUnexplainedAccess).
THEOREM AccessExplained == Serialized => (Spec => []NoUnexplainedAccess)
<1>1. IInv => NoUnexplainedAccess
  <2> SUFFICES ASSUME IInv, NEW p \in Principals, ~InFlight(p), NEW b \in EffectiveAccess(p)
               PROVE  b \in BindingsOf(p) \cup leaked
    BY DEF NoUnexplainedAccess
  <2>1. b \in bindings /\ b[1] = p
    BY DEF EffectiveAccess
  <2>2. \A h \in Handlers : Associates(h) => req[h].principal # p
    BY DEF InFlight, Associates, Busy
  <2>3. \A h \in Handlers : Associates(h) =>
           b \notin BindingsFor(req[h].principal, req[h].policy, req[h].scope)
    BY <2>1, <2>2 DEF BindingsFor
  <2> QED
    BY <2>1, <2>3 DEF IInv, Explained
<1> QED
  BY <1>1, Invariance, PTL

\* handleDisassociateAccessPolicy: however a request ends, answered or not, its
\* record stays as it was or all bindings of the recorded scope are gone
\* (RemovalIsWholeOrRepeatable).
THEOREM RemovalRepeatable == Serialized => (Spec => RemovalIsWholeOrRepeatable)
<1> DEFINE WholeOrRepeatable(h) ==
        \/ /\ entries'[req[h].principal] # NoEntry
           /\ entries'[req[h].principal][req[h].policy] = copy[h][req[h].policy]
        \/ \A place \in copy[h][req[h].policy] : Place(h, place) \notin bindings'
<1>1. ASSUME IInv, Next, NEW h \in Handlers, Disassociates(h), pc'[h] = "idle"
      PROVE  WholeOrRepeatable(h)
  <2>1. PutAssociated(h) \/ PutDisassociated(h) \/ PutLost(h) \/ HandlerFails(h)
    <3>1. \A p \in Principals : ~CreateAccessEntry(p) /\ ~DeleteAccessEntry(p)
      BY <1>1 DEF CreateAccessEntry, DeleteAccessEntry, Disassociates, Busy
    <3>2. ASSUME NEW g \in Handlers, StartAssociate(g) \/ StartDisassociate(g)
          PROVE  FALSE
      BY <1>1, <3>2 DEF StartAssociate, StartDisassociate, Serve, IInv, TypeOK, Disassociates, Busy
    <3>3. ASSUME NEW g \in Handlers, EnsureBinding(g) \/ RemoveBinding(g)
          PROVE  FALSE
      BY <1>1, <3>3 DEF EnsureBinding, RemoveBinding, Done, IInv, TypeOK, Disassociates, Busy
    <3>4. ASSUME NEW g \in Handlers, g # h, Finish(g)
          PROVE  FALSE
      BY <1>1, <3>4 DEF Finish, IInv, TypeOK, Disassociates, Busy
    <3>5. \A g \in Handlers :
             PutAssociated(g) \/ PutDisassociated(g) \/ PutLost(g) \/ HandlerFails(g) => g = h
      BY <3>4, RecordsOf DEF Records, HandlerFails
    <3> QED
      BY <1>1, <3>1, <3>2, <3>3, <3>5 DEF Next
  <2>2. /\ Busy(h) /\ copy[h] = entries[req[h].principal] /\ entries[req[h].principal] # NoEntry
        /\ pc[h] = "put" => \A place \in copy[h][req[h].policy] : Place(h, place) \notin bindings
    BY <1>1 DEF IInv, HandlerOK, Disassociates
  <2>3. CASE HandlerFails(h)
    BY <2>2, <2>3 DEF HandlerFails
  <2>4. CASE PutAssociated(h) \/ PutDisassociated(h) \/ PutLost(h)
    BY <2>2, <2>4, RecordsOf DEF Records, Place
  <2> QED
    BY <2>1, <2>3, <2>4
<1>2. IInv /\ [Next]_vars =>
         [\A h \in Handlers : pc[h] # "idle" /\ req[h].op = "disassociate" /\ pc'[h] = "idle" =>
             WholeOrRepeatable(h)]_vars
  BY <1>1 DEF Disassociates, Busy
<1>3. [\A h \in Handlers : pc[h] # "idle" /\ req[h].op = "disassociate" /\ pc'[h] = "idle" =>
          WholeOrRepeatable(h)]_vars
      => [\A h \in Handlers :
             pc[h] # "idle" /\ req[h].op = "disassociate" /\ pc'[h] = "idle" =>
                LET p == req[h].principal  recorded == copy[h][req[h].policy] IN
                \/ entries'[p] # NoEntry /\ entries'[p][req[h].policy] = recorded
                \/ \A place \in recorded : Place(h, place) \notin bindings']_vars
  OBVIOUS
<1> QED
  BY <1>2, <1>3, Invariance, PTL DEF Spec, RemovalIsWholeOrRepeatable
-----------------------------------------------------------------------------
\* clusterRoleForPolicy gives no two supported policies the same role: a table
\* with one ARN per policy, as the one AWS has.
DistinctRoles ==
    \A x, y \in Policies : RoleOf[x] = RoleOf[y] /\ RoleOf[x] # NoRole => x = y

\* A recorded policy is bound at all its places, unless it is being
\* disassociated or a Disassociate of it failed.
Bound ==
    \A p \in Principals, pol \in Policies :
        /\ entries[p] # NoEntry
        /\ <<p, pol>> \notin damaged
        /\ ~\E h \in Handlers : Disassociates(h) /\ req[h].principal = p /\ req[h].policy = pol
        => BindingsFor(p, pol, entries[p][pol]) \subseteq bindings

\* With distinct roles, no step unbinds a policy it does not disassociate.
LEMMA BoundStep ==
    ASSUME IInv, Bound, DistinctRoles, Serialized, [Next]_vars
    PROVE  Bound'
<1> USE DEF IInv
<1> SUFFICES ASSUME NEW p \in Principals, NEW pol \in Policies,
                    entries'[p] # NoEntry, <<p, pol>> \notin damaged',
                    \A h \in Handlers : Disassociates(h)' =>
                        ~(req'[h].principal = p /\ req'[h].policy = pol),
                    NEW place \in entries'[p][pol]
             PROVE  <<p, RoleOf[pol], place>> \in bindings'
  BY DEF Bound, BindingsFor
<1>k. ASSUME entries[p] # NoEntry, <<p, pol>> \notin damaged, place \in entries[p][pol],
             \A h \in Handlers : Disassociates(h) =>
                 ~(req[h].principal = p /\ req[h].policy = pol)
      PROVE  <<p, RoleOf[pol], place>> \in bindings
  BY <1>k DEF Bound, BindingsFor
<1>1. ASSUME NEW q \in Principals, CreateAccessEntry(q) \/ DeleteAccessEntry(q)
      PROVE  <<p, RoleOf[pol], place>> \in bindings'
  <2>1. UNCHANGED <<bindings, pc, req>> /\ damaged' = {d \in damaged : d[1] # q}
    BY <1>1 DEF CreateAccessEntry, DeleteAccessEntry, Forget
  <2>2. p # q /\ entries'[p] = entries[p]
    BY <1>1 DEF CreateAccessEntry, DeleteAccessEntry, PutEntry, DeleteEntry, TypeOK, NoPolicies
  <2>3. <<p, pol>> \notin damaged
    BY <2>1, <2>2
  <2>4. \A h \in Handlers : Disassociates(h) => ~(req[h].principal = p /\ req[h].policy = pol)
    BY <2>1 DEF Disassociates, Busy
  <2> QED
    BY <2>1, <2>2, <2>3, <2>4, <1>k
<1>2. ASSUME NEW h \in Handlers, StartAssociate(h) \/ StartDisassociate(h)
      PROVE  <<p, RoleOf[pol], place>> \in bindings'
  <2>1. /\ ~Busy(h) /\ UNCHANGED <<entries, bindings, damaged>>
        /\ \A g \in Handlers \ {h} : pc'[g] = pc[g] /\ req'[g] = req[g]
    BY <1>2 DEF StartAssociate, StartDisassociate, Serve, history, TypeOK, Busy
  <2>2. \A g \in Handlers : Disassociates(g) => ~(req[g].principal = p /\ req[g].policy = pol)
    BY <2>1 DEF Disassociates, Busy
  <2> QED
    BY <2>1, <2>2, <1>k
<1>3. ASSUME NEW h \in Handlers, EnsureBinding(h) \/ RemoveBinding(h)
      PROVE  <<p, RoleOf[pol], place>> \in bindings'
  <2>0. Busy(h)
    BY <1>3 DEF EnsureBinding, RemoveBinding, Busy
  <2>1. PICK at \in todo[h] :
           /\ Done(h, at)
           /\ \/ bindings \subseteq bindings'
              \/ Disassociates(h) /\ bindings' = bindings \ {Place(h, at)}
    BY <1>3 DEF EnsureBinding, RemoveBinding, Disassociates, Busy
  <2>2. /\ pc'[h] \in {"put", "rbac"} /\ \A g \in Handlers \ {h} : pc'[g] = pc[g]
        /\ UNCHANGED <<entries, req, damaged>>
    BY <2>1 DEF Done, TypeOK
  <2>3. \A g \in Handlers : Disassociates(g)' <=> Disassociates(g)
    BY <2>0, <2>2 DEF Disassociates, Busy
  <2>4. <<p, RoleOf[pol], place>> \in bindings
    BY <2>2, <2>3, <1>k
  <2>5. Disassociates(h) => <<p, RoleOf[pol], place>> # Place(h, at)
    <3>1. req[h].policy \in Policies /\ RoleOf[req[h].policy] # NoRole
      BY <2>0, UpdatedEntry DEF HandlerOK
    <3> QED
      BY <2>2, <2>3, <3>1 DEF DistinctRoles, Place
  <2> QED
    BY <2>1, <2>4, <2>5
<1>4. ASSUME NEW h \in Handlers, PutAssociated(h) \/ PutDisassociated(h) \/ PutLost(h)
      PROVE  <<p, RoleOf[pol], place>> \in bindings'
  <2>0. Busy(h) /\ Records(h) /\ bindings' = bindings
    BY <1>4, RecordsOf DEF Records
  <2>1. /\ req[h].principal \in Principals /\ req[h].policy \in Policies
        /\ Updated(h)[req[h].policy] = req[h].scope
        /\ \A x \in Policies \ {req[h].policy} : Updated(h)[x] = copy[h][x]
        /\ entries[req[h].principal] # NoEntry /\ copy[h] = entries[req[h].principal]
    BY <2>0, UpdatedEntry DEF HandlerOK
  <2>2. /\ entries' = [entries EXCEPT ![req[h].principal] = Updated(h)]
        /\ damaged \ {<<req[h].principal, req[h].policy>>} \subseteq damaged'
    BY <2>0 DEF Records, Overwrite, PutEntry
  <2>3. \A g \in Handlers \ {h} : /\ pc'[g] = pc[g] /\ req'[g] = req[g]
                                  /\ Busy(g) => req[g].principal # req[h].principal
    BY <1>4, <2>0, OthersStay
  <2>4. CASE p = req[h].principal /\ pol = req[h].policy
    <3>1. place \in req[h].scope
      BY <2>1, <2>2, <2>4 DEF TypeOK
    <3>2. Associates(h) /\ todo[h] = {}
      BY <3>1, <2>0 DEF Records, HandlerOK
    <3>3. Place(h, place) \in bindings
      BY <3>1, <3>2, <2>0 DEF HandlerOK
    <3> QED
      BY <3>3, <2>0, <2>4 DEF Place
  <2>5. CASE ~(p = req[h].principal /\ pol = req[h].policy)
    <3>1. place \in entries[p][pol] /\ entries[p] # NoEntry
      BY <2>1, <2>2, <2>5 DEF TypeOK
    <3>2. <<p, pol>> \notin damaged
      BY <2>2, <2>5
    <3>3. \A g \in Handlers : Disassociates(g) => ~(req[g].principal = p /\ req[g].policy = pol)
      BY <2>3, <2>5 DEF Disassociates, Busy
    <3> QED
      BY <3>1, <3>2, <3>3, <2>0, <1>k
  <2> QED
    BY <2>4, <2>5
<1>5. ASSUME NEW h \in Handlers, HandlerFails(h)
      PROVE  <<p, RoleOf[pol], place>> \in bindings'
  <2>0. Busy(h)
    BY <1>5 DEF HandlerFails, Busy
  <2>1. /\ UNCHANGED <<entries, bindings>> /\ damaged \subseteq damaged'
        /\ Disassociates(h) => <<req[h].principal, req[h].policy>> \in damaged'
    BY <1>5 DEF HandlerFails, Disassociates
  <2>2. \A g \in Handlers \ {h} : pc'[g] = pc[g] /\ req'[g] = req[g]
    BY <1>5, <2>0, OthersStay
  <2>3. \A g \in Handlers : Disassociates(g) => ~(req[g].principal = p /\ req[g].policy = pol)
    BY <2>1, <2>2 DEF Disassociates, Busy
  <2> QED
    BY <2>1, <2>3, <1>k
<1>6. CASE UNCHANGED vars
  <2>1. \A g \in Handlers : Disassociates(g)' <=> Disassociates(g)
    BY <1>6 DEF vars, Disassociates, Busy
  <2> QED
    BY <1>6, <2>1, <1>k DEF vars
<1> QED
  BY <1>1, <1>2, <1>3, <1>4, <1>5, <1>6 DEF Next

\* materializeAccessPolicyRBAC: once its requests are answered, a principal has
\* every binding its entry records (RecordedIsBound).  Two ARNs of one role
\* would share bindings, and disassociating one would unbind the other.
THEOREM RecordedBound == Serialized /\ DistinctRoles => (Spec => []RecordedIsBound)
<1> SUFFICES ASSUME Serialized, DistinctRoles PROVE Spec => []RecordedIsBound
  OBVIOUS
<1>1. Init => Bound
  BY DEF Init, Bound
<1>2. IInv /\ Bound /\ [Next]_vars => Bound'
  BY BoundStep
<1>3. Bound => RecordedIsBound
  BY DEF Bound, RecordedIsBound, InFlight, Disassociates, Busy
<1> QED
  BY <1>1, <1>2, <1>3, Invariance, PTL DEF Spec
-----------------------------------------------------------------------------
(* The process that serves these requests, and the controllers in it.       *)

\* The bounds are numbers.
AgentBounds == MaxChanges \in Nat /\ MaxFailures \in Nat

\* What a pass has still to look at was listed.
Listed == \A s \in pass.todo : pass.copies[s] # None

\* Shutdown has closed the listeners of the servers it has come to, and has waited
\* for the requests of those it has left; before the shutdown it is at none.
ShutdownOK ==
    /\ main \notin {"drain", "wait"} => draining = 0
    /\ main = "drain" =>
          \A i \in DOMAIN Servers :
             /\ i <= draining => Servers[i] \notin open
             /\ i < draining => Servers[i] \notin inflight \/ expired
    /\ main = "wait" => inflight = {} \/ expired

AgentInv == AgentTypeOK /\ Listed /\ ShutdownOK

\* No pass is under way.
LEMMA AgentNoPass ==
    LB!NoPass \in LB!Pass /\ LB!NoPass.todo = {} /\ ~LB!NoPass.running
  BY DEF LB!NoPass, LB!Pass

\* Users and other controllers leave Services and nodes of their types behind.
LEMMA AgentUsersType ==
    ASSUME AgentBounds, LB!TypeOK, Users
    PROVE  LB!TypeOK' /\ UNCHANGED <<pass, started, process>>
<1> USE DEF AgentBounds, LB!TypeOK, LB!Change, LB!caches
<1>0. UNCHANGED process
  BY DEF Users
<1>c. LB!Change => changes' \in 1..MaxChanges
  OBVIOUS
<1>1. ASSUME LB!ChangeNodes
      PROVE  LB!TypeOK' /\ UNCHANGED <<pass, started>>
  BY <1>1, <1>c DEF LB!ChangeNodes
<1>2. ASSUME NEW s \in Services, LB!ApplyService(s)
      PROVE  LB!TypeOK' /\ UNCHANGED <<pass, started>>
  <2>1. PICK lb \in BOOLEAN, class \in BOOLEAN :
          services' = [services EXCEPT ![s] =
              [lb |-> lb, class |-> class, rv |-> changes',
               ingress |-> IF lb /\ services[s] # None THEN services[s].ingress ELSE {}]]
    BY <1>2 DEF LB!ApplyService
  <2>2. (IF lb /\ services[s] # None THEN services[s].ingress ELSE {}) \in LB!Ingress
    BY DEF LB!Service, LB!Ingress
  <2>3. services' \in [Services -> LB!Service \cup {None}]
    BY <1>2, <1>c, <2>1, <2>2 DEF LB!ApplyService, LB!Service
  <2> QED
    BY <1>2, <1>c, <2>3 DEF LB!ApplyService
<1>3. ASSUME NEW s \in Services, LB!ForeignClaim(s)
      PROVE  LB!TypeOK' /\ UNCHANGED <<pass, started>>
  <2> DEFINE claimed == [services[s] EXCEPT !.ingress = Foreign, !.rv = changes']
  <2>1. claimed \in LB!Service
    BY <1>3, <1>c DEF LB!ForeignClaim, LB!Service, LB!Ingress
  <2>2. services' = [services EXCEPT ![s] = claimed]
    BY <1>3 DEF LB!ForeignClaim
  <2>3. services' \in [Services -> LB!Service \cup {None}]
    BY <2>1, <2>2
  <2> QED
    BY <1>3, <1>c, <2>3 DEF LB!ForeignClaim
<1>4. ASSUME NEW s \in Services, LB!DeleteService(s)
      PROVE  LB!TypeOK' /\ UNCHANGED <<pass, started>>
  BY <1>4, <1>c DEF LB!DeleteService
<1>5. ASSUME LB!Grant
      PROVE  LB!TypeOK' /\ UNCHANGED <<pass, started>>
  BY <1>5, EditsOfAgent DEF LB!Grant, LB!counters
<1> QED
  BY <1>0, <1>1, <1>2, <1>3, <1>4, <1>5 DEF Users

\* The informers, and the part of a pass that writes nothing.
LEMMA AgentPassType ==
    ASSUME LB!TypeOK, Listed, Informers \/ Passing
    PROVE  LB!TypeOK' /\ Listed' /\ UNCHANGED <<services, changes, failures>>
<1> USE DEF LB!TypeOK, LB!caches, LB!api, LB!counters
<1>1. CASE Informers
  BY <1>1 DEF Informers, LB!Start, LB!DeliverNodes, LB!Resync,
              LB!DeliverService, Listed
<1>2. CASE LB!StartPass
  BY <1>2 DEF LB!StartPass, LB!Pass, Listed
<1>3. CASE LB!EndPass
  BY <1>3, AgentNoPass DEF LB!EndPass, Listed
<1>4. ASSUME NEW s \in Services, LB!SkipService(s)
      PROVE  LB!TypeOK' /\ Listed' /\ UNCHANGED <<services, changes, failures>>
  BY <1>4, AgentNoPass DEF LB!SkipService, LB!Handled, LB!Pass, Listed
<1>5. ASSUME NEW s \in Services, LB!ClaimConflict(s)
      PROVE  LB!TypeOK' /\ Listed' /\ UNCHANGED <<services, changes, failures>>
  BY <1>5, AgentNoPass DEF LB!ClaimConflict, LB!Abort, Listed
<1> QED
  BY <1>1, <1>2, <1>3, <1>4, <1>5 DEF Passing

\* UpdateStatus writes the node addresses to a Service that is, at that moment, an
\* unclaimed one without a class.
LEMMA AgentWrite ==
    ASSUME LB!TypeOK, Listed, NEW s \in Services,
           s \in pass.todo, LB!Claimable(s), LB!Current(s),
           services' = [services EXCEPT ![s].ingress = pass.desired]
    PROVE  /\ services' \in [Services -> LB!Service \cup {None}]
           /\ LB!ClaimStep
<1>1. services[s] = pass.copies[s] /\ services[s] # None
  BY DEF LB!Current, Listed
<1>2. services[s] \in LB!Service /\ pass.desired \in LB!Ingress
  BY <1>1 DEF LB!TypeOK, LB!Pass, LB!Ingress
<1>3. services' \in [Services -> LB!Service \cup {None}]
  BY <1>2 DEF LB!TypeOK, LB!Service
<1>4. LB!Eligible(s) /\ services[s].ingress = {}
  BY <1>1 DEF LB!Eligible, LB!Claimable
<1>5. \A t \in Services \ {s} : services'[t] = services[t]
  BY DEF LB!TypeOK
<1> QED
  BY <1>3, <1>4, <1>5 DEF LB!ClaimStep

\* A write, whatever becomes of its answer.
LEMMA AgentClaim ==
    ASSUME AgentBounds, LB!TypeOK, Listed, NEW s \in Services,
           Claim(s) \/ ClaimFails(s) \/ ClaimCancelled(s)
    PROVE  /\ LB!TypeOK' /\ Listed' /\ LB!ClaimStep
           /\ UNCHANGED <<started, process>> /\ "lb" \in alive
<1>1. services' \in [Services -> LB!Service \cup {None}] /\ LB!ClaimStep
  <2>1. /\ s \in pass.todo /\ LB!Claimable(s)
        /\ \/ UNCHANGED services
           \/ LB!Current(s) /\ services' = [services EXCEPT ![s].ingress = pass.desired]
    BY DEF Claim, ClaimFails, ClaimCancelled, LB!Claim, LB!ClaimFails
  <2>2. CASE UNCHANGED services
    BY <2>2 DEF LB!TypeOK, LB!ClaimStep
  <2> QED
    BY <2>1, <2>2, AgentWrite
<1>2. pass' \in LB!Pass /\ (~pass'.running => pass' = LB!NoPass) /\ Listed'
  <2>1. CASE LB!Handled(s)
    BY <2>1, AgentNoPass DEF LB!TypeOK, LB!Handled, LB!Pass, Listed,
       Claim, ClaimFails, ClaimCancelled, LB!Claim, LB!ClaimFails
  <2>2. CASE LB!Abort
    BY <2>2, AgentNoPass DEF LB!Abort, Listed
  <2> QED
    BY <2>1, <2>2 DEF Claim, ClaimFails, ClaimCancelled,
                      LB!Claim, LB!ClaimFails
<1>3. /\ UNCHANGED <<nodes, granted, serviceCache, nodeCache, started, queue, changes, process>>
      /\ failures' \in 0..MaxFailures /\ "lb" \in alive
  BY DEF Claim, ClaimFails, ClaimCancelled, LB!Claim, LB!ClaimFails,
         LB!TypeOK, LB!caches, LB!counters, AgentBounds, Running, Live
<1> QED
  BY <1>1, <1>2, <1>3 DEF LB!TypeOK

\* What is left when the process is gone.
LEMMA AgentGone ==
    ASSUME AgentInv, Gone, failures' \in 0..MaxFailures
    PROVE  AgentInv' /\ UNCHANGED services
<1>1. LB!TypeOK' /\ Listed'
  BY AgentNoPass DEF AgentInv, AgentTypeOK, LB!TypeOK, Gone, Listed
<1>2. AgentTypeOK'
  <2>1. ~started' /\ ~pass'.running
    BY AgentNoPass DEF Gone
  <2>2. Len(Servers) = 2
    BY DEF Servers
  <2>3. draining' \in 0..Len(Servers)
    BY <2>2 DEF Gone
  <2>4. told' \in BOOLEAN /\ expired' \in BOOLEAN
    BY Zenon DEF Gone
  <2> QED
    BY <1>1, <2>1, <2>3, <2>4 DEF AgentTypeOK, Gone
<1>3. ShutdownOK'
  BY DEF ShutdownOK, Gone
<1> QED
  BY <1>1, <1>2, <1>3 DEF AgentInv, Gone

\* serveAPI and the signals, as long as the process is there: the controller's
\* state and the Services are not touched.
LEMMA AgentProcessStep ==
    ASSUME AgentBounds, AgentInv,
           \/ Boot \/ Listen \/ Interrupted \/ CloseListener
           \/ DrainEnds \/ ShutdownTimeout \/ Signal
           \/ RunFails \/ EndRun
           \/ \E c \in Controllers : StartController(c)
           \/ \E s \in {"api", "injector"} :
                 ServerFails(s) \/ Arrive(s) \/ Answer(s)
    PROVE  AgentInv' /\ UNCHANGED services /\ (main' = "down" => main = "down")
<1> USE DEF AgentInv
<1>s. /\ Servers = <<"api", "injector">> /\ Len(Servers) = 2
      /\ DOMAIN Servers = {1, 2}
      /\ Servers[1] = "api" /\ Servers[2] = "injector"
  BY DEF Servers
<1>1. LB!TypeOK' /\ Listed' /\ UNCHANGED <<services, started, pass>>
  <2>1. CASE UNCHANGED loadBalancer
    BY <2>1 DEF AgentTypeOK, LB!TypeOK, Listed, loadBalancer
  <2>2. CASE Failure /\ UNCHANGED apart
    BY <2>2 DEF AgentTypeOK, LB!TypeOK, Listed, Failure, apart, AgentBounds
  <2> QED
    BY <2>1, <2>2 DEF Boot, Listen, Interrupted, CloseListener,
       DrainEnds, ShutdownTimeout, Signal, RunFails, EndRun,
       StartController, ServerFails, Arrive, Answer
<1>2. CASE Boot
  BY <1>1, <1>2, <1>s DEF Boot, AgentTypeOK, ShutdownOK
<1>3. CASE Listen
  BY <1>1, <1>3, <1>s DEF Listen, AgentTypeOK, ShutdownOK
<1>4. CASE Interrupted
  BY <1>1, <1>4, <1>s DEF Interrupted, BeginDrain, AgentTypeOK, ShutdownOK
<1>5. CASE CloseListener
  <2>1. AgentTypeOK'
    <3>1. draining \in 0..Len(Servers) /\ draining < Len(Servers)
          /\ draining' = draining + 1
      BY <1>5 DEF CloseListener, AgentTypeOK
    <3>2. draining' \in 0..Len(Servers)
      BY <3>1, <1>s
    <3>3. open' \subseteq {"api", "injector"}
      BY <1>5 DEF CloseListener, AgentTypeOK
    <3> QED
      BY <1>1, <1>5, <3>2, <3>3 DEF CloseListener, AgentTypeOK
  <2>2. ShutdownOK'
    BY <1>5, <1>s DEF CloseListener, AgentTypeOK, ShutdownOK
  <2> QED
    BY <1>1, <1>5, <2>1, <2>2 DEF CloseListener
<1>6. CASE DrainEnds
  <2>1. AgentTypeOK'
    BY <1>1, <1>6, <1>s DEF DrainEnds, Stop, AgentTypeOK, Controllers
  <2>2. inflight = {} \/ expired
    BY <1>6, <1>s DEF DrainEnds, AgentTypeOK, ShutdownOK
  <2>3. ShutdownOK'
    BY <1>6, <2>2 DEF DrainEnds, Stop, ShutdownOK
  <2> QED
    BY <1>1, <1>6, <2>1, <2>3 DEF DrainEnds, Stop
<1>7. CASE ShutdownTimeout
  BY <1>1, <1>7, <1>s DEF ShutdownTimeout, AgentTypeOK, ShutdownOK
<1>8. CASE Signal
  BY <1>1, <1>8, <1>s DEF Signal, AgentTypeOK, ShutdownOK
<1>9. CASE RunFails \/ EndRun
  <2>1. alive' = alive \ {"tgb"} /\ alive # {}
        /\ UNCHANGED <<main, armed, told, cancelled, open, inflight, draining, expired>>
    BY <1>9 DEF RunFails, EndRun
  <2> QED
    BY <1>1, <2>1, <1>s DEF AgentTypeOK, ShutdownOK
<1>10. ASSUME NEW c \in Controllers, StartController(c)
       PROVE  AgentInv' /\ UNCHANGED services /\ (main' = "down" => main = "down")
  <2>1. main' \in {"tgb", "lb", "listen"} /\ main \notin {"down", "drain", "wait"}
    BY <1>10 DEF StartController, After, Controllers
  <2>2. alive' \subseteq {"tgb", "lb"}
    BY <1>10 DEF StartController, Controllers, AgentTypeOK
  <2> QED
    BY <1>1, <1>10, <2>1, <2>2, <1>s DEF StartController, AgentTypeOK, ShutdownOK
<1>11. ASSUME NEW s \in {"api", "injector"}, ServerFails(s)
       PROVE  AgentInv' /\ UNCHANGED services /\ (main' = "down" => main = "down")
  BY <1>1, <1>11, <1>s DEF ServerFails, AgentTypeOK, ShutdownOK
<1>12. ASSUME NEW s \in {"api", "injector"}, Arrive(s)
       PROVE  AgentInv' /\ UNCHANGED services /\ (main' = "down" => main = "down")
  BY <1>1, <1>12, <1>s DEF Arrive, AgentTypeOK, ShutdownOK
<1>13. ASSUME NEW s \in {"api", "injector"}, Answer(s)
       PROVE  AgentInv' /\ UNCHANGED services /\ (main' = "down" => main = "down")
  BY <1>1, <1>13, <1>s DEF Answer, AgentTypeOK, ShutdownOK
<1> QED
  BY <1>2, <1>3, <1>4, <1>5, <1>6, <1>7, <1>8, <1>9, <1>10, <1>11, <1>12, <1>13

\* Every step keeps the invariant.
LEMMA AgentStep ==
    ASSUME AgentBounds, AgentInv, [AgentNext]_agentVars
    PROVE  AgentInv' /\ LB!ClaimStep
<1>u. UNCHANGED services => LB!ClaimStep
  BY DEF LB!ClaimStep
<1>p. ASSUME UNCHANGED process, LB!TypeOK', Listed',
             main = "down" => ~started' /\ ~pass'.running
      PROVE  AgentInv'
  BY <1>p DEF AgentInv, AgentTypeOK, ShutdownOK, process
<1>1. CASE Exit \/ KillAfterGrace
  <2>1. Gone /\ failures' \in 0..MaxFailures
    BY <1>1 DEF Exit, KillAfterGrace, AgentInv, AgentTypeOK, LB!TypeOK
  <2> QED
    BY <2>1, <1>u, AgentGone
<1>2. CASE SignalByDefault \/ Kill
  <2>1. Gone /\ failures' \in 0..MaxFailures
    BY <1>2 DEF SignalByDefault, Kill, Failure, AgentInv, AgentTypeOK,
                LB!TypeOK, AgentBounds
  <2> QED
    BY <2>1, <1>u, AgentGone
<1>3. CASE Users
  <2>1. LB!TypeOK' /\ UNCHANGED <<pass, started, process>>
    BY <1>3, AgentUsersType DEF AgentInv, AgentTypeOK
  <2>2. AgentInv'
    BY <1>p, <2>1 DEF AgentInv, AgentTypeOK, Listed
  <2>3. LB!Change \/ LB!Grant
    BY <1>3, Zenon DEF Users, LB!ChangeNodes, LB!ApplyService,
                       LB!ForeignClaim, LB!DeleteService
  <2>4. LB!Change => changes' # changes
    BY DEF LB!Change, AgentInv, AgentTypeOK, LB!TypeOK, AgentBounds
  <2>5. LB!Grant => UNCHANGED services
    BY DEF LB!Grant
  <2> QED
    BY <1>u, <2>2, <2>3, <2>4, <2>5 DEF LB!ClaimStep
<1>4. CASE Inform \/ Pass
  <2>1. /\ UNCHANGED process /\ "lb" \in alive
        /\ Informers \/ Passing
    BY <1>4 DEF Inform, Pass, Live, Running
  <2>2. LB!TypeOK' /\ Listed' /\ UNCHANGED services
    BY <2>1, AgentPassType DEF AgentInv, AgentTypeOK
  <2>3. main # "down"
    BY <2>1 DEF AgentInv, AgentTypeOK
  <2> QED
    BY <1>p, <1>u, <2>1, <2>2, <2>3
<1>5. ASSUME NEW s \in Services,
             Claim(s) \/ ClaimFails(s) \/ ClaimCancelled(s)
      PROVE  AgentInv' /\ LB!ClaimStep
  <2>1. /\ LB!TypeOK' /\ Listed' /\ LB!ClaimStep
        /\ UNCHANGED process /\ "lb" \in alive
    BY <1>5, AgentClaim DEF AgentInv, AgentTypeOK
  <2>2. main # "down"
    BY <2>1 DEF AgentInv, AgentTypeOK
  <2> QED
    BY <1>p, <2>1, <2>2
<1>6. CASE LoadBalancerEnds
  <2>1. LB!TypeOK' /\ Listed'
    BY <1>6 DEF LoadBalancerEnds, AgentInv, AgentTypeOK, LB!TypeOK, Listed
  <2>2. AgentTypeOK'
    BY <1>6, <2>1 DEF LoadBalancerEnds, AgentInv, AgentTypeOK
  <2>3. ShutdownOK'
    BY <1>6 DEF LoadBalancerEnds, AgentInv, ShutdownOK
  <2> QED
    BY <1>6, <1>u, <2>1, <2>2, <2>3 DEF LoadBalancerEnds, AgentInv
<1>7. CASE UNCHANGED agentVars
  <2>1. UNCHANGED process /\ UNCHANGED loadBalancer
    BY <1>7 DEF agentVars
  <2>2. LB!TypeOK' /\ Listed'
    BY <2>1 DEF loadBalancer, AgentInv, AgentTypeOK, LB!TypeOK, Listed
  <2> QED
    BY <1>p, <1>u, <2>1, <2>2 DEF loadBalancer, AgentInv, AgentTypeOK
<1>8. CASE \/ Boot \/ Listen \/ Interrupted \/ CloseListener
           \/ DrainEnds \/ ShutdownTimeout \/ Signal
           \/ RunFails \/ EndRun
           \/ \E c \in Controllers : StartController(c)
           \/ \E s \in {"api", "injector"} :
                 ServerFails(s) \/ Arrive(s) \/ Answer(s)
  BY <1>8, <1>u, AgentProcessStep
<1> QED
  BY <1>1, <1>2, <1>3, <1>4, <1>5, <1>6, <1>7, <1>8 DEF AgentNext, Main, LoadBalancer

\* The invariant of the process.
THEOREM AgentInvariance == AgentSpec => []AgentInv
<1>0. AgentBounds
  BY BoundsOfAgent DEF AgentBounds
<1>1. AgentInit => AgentInv
  <2> SUFFICES ASSUME AgentInit PROVE AgentInv
    OBVIOUS
  <2>0. started \in BOOLEAN /\ queue \in BOOLEAN
    BY Zenon DEF AgentInit, LB!Init
  <2>1. LB!TypeOK /\ Listed
    <3>1. granted \subseteq LB!Needed
      BY DEF AgentInit, LB!Init, LB!AgentRules, LB!Needed, LB!Readable
    <3> QED
      BY <1>0, <2>0, <3>1, AgentNoPass DEF AgentInit, LB!Init, LB!TypeOK, Listed, AgentBounds
  <2>2. ~started /\ ~pass.running
    BY AgentNoPass DEF AgentInit, LB!Init
  <2>3. Len(Servers) = 2
    BY DEF Servers
  <2>4. draining \in 0..Len(Servers)
    BY <2>3 DEF AgentInit, NoProcess
  <2>5. told \in BOOLEAN /\ expired \in BOOLEAN
    BY Zenon DEF AgentInit, NoProcess
  <2>6. AgentTypeOK
    BY <2>1, <2>2, <2>4, <2>5 DEF AgentTypeOK, AgentInit, NoProcess
  <2> QED
    BY <2>1, <2>6 DEF AgentInv, ShutdownOK, AgentInit, NoProcess
<1>2. AgentInv /\ [AgentNext]_agentVars => AgentInv'
  BY <1>0, AgentStep
<1> QED
  BY <1>1, <1>2, PTL DEF AgentSpec

\* LoadBalancerController, run by this process: an ingress is written only to a
\* Service that has none and no class, judged by what the API server holds when
\* the write arrives (ClaimsOnlyUnclaimed), also when the context is done before
\* the answer and when the process is signalled, killed and started again.
THEOREM AgentClaimsOnlyUnclaimed == AgentSpec => ClaimsOnlyUnclaimed
<1>0. AgentBounds
  BY BoundsOfAgent DEF AgentBounds
<1>1. AgentInv /\ [AgentNext]_agentVars => [LB!ClaimStep]_agentVars
  BY <1>0, AgentStep
<1> QED
  BY <1>1, AgentInvariance, PTL DEF AgentSpec, ClaimsOnlyUnclaimed

\* shutdownServers and the deferred stops: a process that exits by itself has no
\* request in flight, or has waited for shutdownTimeout, and the Run of its
\* TargetGroupBinding controller has returned (GracefulExit).
THEOREM AgentGracefulExit == AgentSpec => GracefulExit
<1>0. AgentBounds
  BY BoundsOfAgent DEF AgentBounds
<1>1. ASSUME AgentInv, AgentNext, Exits
      PROVE  (inflight = {} \/ expired) /\ "tgb" \notin alive
  <2>e. main = "wait" /\ main' = "down" /\ failures' = failures /\ failures \in Nat
    BY <1>0, <1>1 DEF Exits, AgentInv, AgentTypeOK, LB!TypeOK, AgentBounds
  <2>1. CASE Exit
    BY <2>1, <2>e, <1>1 DEF Exit, AgentInv, ShutdownOK
  <2>2. ~(SignalByDefault \/ Kill \/ KillAfterGrace)
    BY <2>e DEF SignalByDefault, Kill, KillAfterGrace, Failure
  <2>3. ~(Users \/ LoadBalancer \/ LoadBalancerEnds
          \/ \E s \in Services : ClaimFails(s) \/ ClaimCancelled(s))
    BY <2>e DEF Users, LoadBalancer, LoadBalancerEnds, ClaimFails,
       ClaimCancelled, Inform, Pass, Claim, process
  <2>4. ~(\/ Boot \/ Listen \/ Interrupted \/ CloseListener
          \/ DrainEnds \/ ShutdownTimeout \/ Signal
          \/ RunFails \/ EndRun
          \/ \E c \in Controllers : StartController(c)
          \/ \E s \in {"api", "injector"} :
                ServerFails(s) \/ Arrive(s) \/ Answer(s))
    BY <1>0, <1>1, <2>e, AgentProcessStep
  <2> QED
    BY <1>1, <2>1, <2>2, <2>3, <2>4 DEF AgentNext, Main
<1>2. AgentInv /\ [AgentNext]_agentVars =>
         [Exits => (inflight = {} \/ expired) /\ "tgb" \notin alive]_agentVars
  BY <1>1
<1> QED
  BY <1>2, AgentInvariance, PTL DEF AgentSpec, GracefulExit
=============================================================================
