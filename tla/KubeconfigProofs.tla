-------------------------- MODULE KubeconfigProofs --------------------------
(***************************************************************************)
(* Proofs about Kubeconfig, for any processes, names, principals and       *)
(* bounds: commands and users overlap in every way, and every command may  *)
(* stop after any of its steps and in the middle of its write.             *)
(***************************************************************************)
EXTENDS Kubeconfig, TLAPS

Busy(p) == pc[p] # "idle"
HasCopy(p) == pc[p] \in {"write", "flush"}

\* c is a cluster that was created under the name n.
Leads(c, n) == c \in DOMAIN born /\ born[c] = n

\* The entries of fjord's in config lead to clusters of their names.
Named(config) ==
    \A e \in Entries \ {UserEntry} :
        config.entries[e] # None => Leads(config.entries[e], NameOf(e))

\* A command runs the steps of its own operation, and the cluster it has loaded
\* was created under its name.
CommandOK ==
    \A p \in Processes : Busy(p) =>
        /\ cmd[p] \in Command
        /\ pc[p] = "provider" => cmd[p].op \in {"create", "delete"}
        /\ pc[p] = "source" => cmd[p].op \in {"create", "update"}
        /\ pc[p] \in {"load", "write", "flush"} /\ cmd[p].op # "delete" =>
              Leads(source[p], cmd[p].name)

\* The file and every copy of it lead to clusters of the right names, and so does
\* the provider.
NamesOK ==
    /\ file # Unreadable => Named(file)
    /\ \A p \in Processes : Named(copy[p])
    /\ \A n \in Names : running[n] # 0 => Leads(running[n], n)

\* A merged cluster runs, so create of its name is refused.
MergedRuns == \A n \in merged : running[n] # 0

\* A copy leads to every merged cluster but those it has missed.
CopiesOK ==
    \A p \in Processes : HasCopy(p) =>
        \A n \in merged \ missed[p] : copy[p].entries[n] = running[n]

IInv == TypeOK /\ CommandOK /\ NamesOK /\ MergedRuns /\ CopiesOK /\ MergedIsReachable
-----------------------------------------------------------------------------
\* writeKubeconfigEntry and mergeClusterKubeconfig set one entry.
LEMMA AddedOne ==
    ASSUME NEW config \in Config, NEW e \in Entries, NEW c \in Clusters
    PROVE  /\ Added(config, e, c) \in Config
           /\ Added(config, e, c).entries[e] = c
           /\ \A x \in Entries \ {e} : Added(config, e, c).entries[x] = config.entries[x]
  BY DEF Added, Config

\* removeClusterKubeconfig unsets one entry.
LEMMA RemovedOne ==
    ASSUME NEW config \in Config, NEW e \in Entries
    PROVE  /\ Removed(config, e) \in Config
           /\ Removed(config, e).entries[e] = None
           /\ \A x \in Entries \ {e} : Removed(config, e).entries[x] = config.entries[x]
  BY DEF Removed, Config

\* A file without entries, and one with the user's own, are Configs that name no
\* cluster of fjord's.
LEMMA UserFiles ==
    /\ NewConfig \in Config /\ \A e \in Entries : NewConfig.entries[e] = None
    /\ UserConfig \in Config
    /\ \A e \in Entries \ {UserEntry} : UserConfig.entries[e] = None
<1>1. 0 \in Clusters /\ UserEntry \in Entries
  BY BoundsAssumption DEF Clusters, Entries
<1> QED
  BY <1>1 DEF NewConfig, UserConfig, Config

\* A part of a Config is a Config with some of its entries, or does not parse.
LEMMA PartsOf ==
    ASSUME NEW config \in Config, NEW part \in Parts(config)
    PROVE  \/ part = Unreadable
           \/ /\ part \in Config
              /\ \A e \in Entries : part.entries[e] \in {None, config.entries[e]}
<1> SUFFICES ASSUME part # Unreadable
             PROVE  /\ part \in Config
                    /\ \A e \in Entries : part.entries[e] \in {None, config.entries[e]}
  OBVIOUS
<1>1. PICK kept \in SUBSET Entries, c \in {None, config.current} :
         part = [entries |-> [e \in Entries |-> IF e \in kept THEN config.entries[e] ELSE None],
                 current |-> c]
  BY DEF Parts
<1> QED
  BY <1>1 DEF Config

\* What a command is about.
LEMMA OwnEntry ==
    ASSUME TypeOK, CommandOK, NEW p \in Processes, Busy(p)
    PROVE  /\ cmd[p].op \in {"create", "delete", "update"}
           /\ cmd[p].name \in Names
           /\ Own(p) \in Entries \ {UserEntry}
           /\ NameOf(Own(p)) = cmd[p].name
           /\ cmd[p].op = "update" => Own(p) \notin Names
           /\ cmd[p].op # "update" => Own(p) = cmd[p].name
<1>1. cmd[p] \in Command
  BY DEF CommandOK
<1>2. CASE cmd[p].op = "update"
  <2>1. cmd[p] \in [op : {"update"}, principal : Principals, name : Names]
    BY <1>1, <1>2 DEF Command
  <2>2. Own(p) \in Principals \X Names /\ Own(p)[2] = cmd[p].name
    BY <1>2, <2>1 DEF Own
  <2> QED
    BY <1>2, <2>1, <2>2, NamesAssumption DEF Entries, NameOf
<1>3. CASE cmd[p].op # "update"
  BY <1>1, <1>3, NamesAssumption DEF Command, Own, Entries, NameOf
<1> QED
  BY <1>2, <1>3

\* What a command writes is a Config that differs from its copy in its entry,
\* which leads to a cluster of its name.
LEMMA EditedOne ==
    ASSUME TypeOK, CommandOK, NamesOK, NEW p \in Processes, HasCopy(p)
    PROVE  /\ Edited(p) \in Config
           /\ \A x \in Entries \ {Own(p)} : Edited(p).entries[x] = copy[p].entries[x]
           /\ cmd[p].op = "create" => Edited(p).entries[cmd[p].name] = source[p]
           /\ Named(Edited(p))
<1>0. Busy(p)
  BY DEF HasCopy, Busy
<1>1. /\ cmd[p].op \in {"create", "delete", "update"}
      /\ Own(p) \in Entries \ {UserEntry} /\ NameOf(Own(p)) = cmd[p].name
      /\ cmd[p].op # "update" => Own(p) = cmd[p].name
  BY <1>0, OwnEntry
<1>2. copy[p] \in Config /\ source[p] \in Clusters /\ Named(copy[p])
  BY DEF TypeOK, NamesOK
<1>3. CASE cmd[p].op = "delete"
  BY <1>1, <1>2, <1>3, RemovedOne DEF Edited, Named
<1>4. CASE cmd[p].op # "delete"
  <2>1. Edited(p) = Added(copy[p], Own(p), source[p])
    BY <1>4 DEF Edited
  <2>2. Leads(source[p], cmd[p].name)
    BY <1>0, <1>4 DEF CommandOK, HasCopy
  <2>3. /\ Edited(p) \in Config /\ Edited(p).entries[Own(p)] = source[p]
        /\ \A x \in Entries \ {Own(p)} : Edited(p).entries[x] = copy[p].entries[x]
    BY <1>1, <1>2, <2>1, AddedOne
  <2>4. Named(Edited(p))
    BY <1>1, <1>2, <2>2, <2>3 DEF Named
  <2> QED
    BY <1>1, <1>4, <2>3, <2>4
<1> QED
  BY <1>3, <1>4

\* kubectl changes none of fjord's entries.
LEMMA UserEditsOnly ==
    ASSUME TypeOK, UserEdits
    PROVE  /\ file \in Config /\ file' \in Config
           /\ \A e \in Entries \ {UserEntry} : file'.entries[e] = file.entries[e]
<1>1. UserEntry \in Entries /\ 0 \in Clusters /\ file \in Config
  BY BoundsAssumption DEF Entries, Clusters, TypeOK, UserEdits
<1>2. CASE file' = Added(file, UserEntry, 0) \/ file' = Removed(file, UserEntry)
  BY <1>1, <1>2, AddedOne, RemovedOne
<1>3. CASE \E e \in Entries : file' = [file EXCEPT !.current = e]
  BY <1>1, <1>3 DEF Config
<1> QED
  BY <1>1, <1>2, <1>3 DEF UserEdits
-----------------------------------------------------------------------------
\* Every step keeps the type.
LEMMA TypeStep ==
    ASSUME TypeOK, CommandOK, NamesOK, [Next]_vars
    PROVE  TypeOK'
<1> USE BoundsAssumption DEF provider, local, history
<1>c. Count => commands' \in 0..MaxCommands
  BY DEF Count, TypeOK
<1>e. ASSUME NEW p \in Processes, End(p)
      PROVE  /\ pc' \in [Processes -> {"idle", "provider", "source", "load", "write", "flush"}]
             /\ cmd' \in [Processes -> Command \cup {NoCommand}]
             /\ copy' \in [Processes -> Config]
             /\ source' \in [Processes -> Clusters]
  BY <1>e, UserFiles DEF End, Goto, TypeOK, Clusters
<1>1. ASSUME NEW p \in Processes, NEW n \in Names, NEW op \in {"create", "delete"}, Begin(p, op, n)
      PROVE  TypeOK'
  <2>1. [op |-> op, name |-> n] \in Command
    BY DEF Command
  <2> QED
    BY <1>1, <1>c, <2>1 DEF Begin, Goto, TypeOK
<1>2. ASSUME NEW p \in Processes, NEW n \in Names, NEW r \in Principals, BeginUpdate(p, r, n)
      PROVE  TypeOK'
  <2>1. [op |-> "update", principal |-> r, name |-> n] \in Command
    BY DEF Command
  <2> QED
    BY <1>2, <1>c, <2>1 DEF BeginUpdate, Goto, TypeOK
<1>3. ASSUME NEW p \in Processes, CreateCluster(p)
      PROVE  TypeOK'
  <2>1. cmd[p].name \in Names
    BY <1>3, OwnEntry DEF CreateCluster, Busy
  <2>2. born' \in Seq(Names) /\ Len(born') = Len(born) + 1 /\ Len(born') <= MaxClusters
    BY <1>3, <2>1 DEF CreateCluster, TypeOK
  <2>3. running' \in [Names -> 0..Len(born')]
    BY <1>3, <2>1, <2>2 DEF CreateCluster, TypeOK
  <2> QED
    BY <1>3, <2>2, <2>3 DEF CreateCluster, Goto, TypeOK
<1>4. ASSUME NEW p \in Processes, DeleteCluster(p)
      PROVE  TypeOK'
  <2>1. running' \in [Names -> 0..Len(born)] /\ born' = born
    <3>1. 0 \in 0..Len(born)
      BY DEF TypeOK
    <3>2. running' = [running EXCEPT ![cmd[p].name] = 0] /\ born' = born
      BY <1>4 DEF DeleteCluster
    <3> QED
      BY <3>1, <3>2 DEF TypeOK
  <2> QED
    BY <1>4, <2>1 DEF DeleteCluster, Goto, TypeOK
<1>5. ASSUME NEW p \in Processes, LoadSource(p)
      PROVE  TypeOK'
  <2>1. cmd[p].name \in Names
    BY <1>5, OwnEntry DEF LoadSource, Busy
  <2>2. Has(cmd[p].name) => file.entries[cmd[p].name] \in Clusters
    BY <2>1 DEF Has, TypeOK, Config, Entries
  <2>3. running[cmd[p].name] \in Clusters
    BY <2>1 DEF TypeOK, Clusters
  <2>4. source' \in [Processes -> Clusters]
    BY <1>5, <2>2, <2>3 DEF LoadSource, TypeOK
  <2> QED
    BY <1>5, <2>4 DEF LoadSource, Goto, TypeOK
<1>6. ASSUME NEW p \in Processes, Load(p)
      PROVE  TypeOK'
  BY <1>6 DEF Load, Goto, TypeOK
<1>7. ASSUME NEW p \in Processes, NothingToRemove(p) \/ Fail(p)
      PROVE  TypeOK'
  <2>1. /\ End(p) /\ UNCHANGED <<born, running, file, missed, commands>>
        /\ merged' \subseteq merged
    BY <1>7 DEF NothingToRemove, Fail
  <2> QED
    BY <2>1, <1>e DEF TypeOK
<1>8. ASSUME NEW p \in Processes, Truncate(p)
      PROVE  TypeOK'
  BY <1>8, UserFiles DEF Truncate, Goto, TypeOK
<1>9. ASSUME NEW p \in Processes, Write(p)
      PROVE  TypeOK'
  <2>1. HasCopy(p) /\ Busy(p)
    BY <1>9 DEF Write, HasCopy, Busy
  <2>2. file' \in Config
    BY <1>9, <2>1, EditedOne DEF Write
  <2>3. cmd[p].name \in Names
    BY <2>1, OwnEntry
  <2>4. merged' \subseteq Names /\ missed' \in [Processes -> SUBSET Names]
    BY <1>9, <2>3 DEF Write, Recount, TypeOK
  <2> QED
    BY <1>9, <1>e, <2>2, <2>4 DEF Write, TypeOK
<1>10. ASSUME NEW p \in Processes, WritePart(p)
       PROVE  TypeOK'
  <2>1. HasCopy(p)
    BY <1>10 DEF WritePart, HasCopy
  <2>2. file' \in Config \cup {Unreadable}
    BY <1>10, <2>1, EditedOne, PartsOf DEF WritePart
  <2> QED
    BY <1>10, <1>e, <2>2 DEF WritePart, TypeOK
<1>11. CASE UserEdits
  BY <1>11, <1>c, UserEditsOnly DEF UserEdits, TypeOK
<1>12. CASE UserRestores
  BY <1>12, UserFiles DEF UserRestores, TypeOK
<1>13. CASE UNCHANGED vars
  BY <1>13 DEF vars, TypeOK
<1> QED
  BY <1>1, <1>2, <1>3, <1>4, <1>5, <1>6, <1>7, <1>8, <1>9, <1>10, <1>11, <1>12, <1>13 DEF Next
-----------------------------------------------------------------------------
\* Clusters that were created stay created under their names.
LEMMA BornStays ==
    ASSUME TypeOK, CommandOK, [Next]_vars
    PROVE  /\ \A c, n : Leads(c, n) => Leads(c, n)'
           /\ \A config : Named(config) => Named(config)'
<1>1. \A c, n : Leads(c, n) => Leads(c, n)'
  <2>1. CASE born' = born
    BY <2>1 DEF Leads
  <2>2. ASSUME NEW p \in Processes, CreateCluster(p)
        PROVE  \A c, n : Leads(c, n) => Leads(c, n)'
    <3>1. born' = Append(born, cmd[p].name) /\ born \in Seq(Names) /\ cmd[p].name \in Names
      BY <2>2, OwnEntry DEF CreateCluster, TypeOK, Busy
    <3> QED
      BY <3>1 DEF Leads
  <2>3. born' = born \/ \E p \in Processes : CreateCluster(p)
    BY DEF Next, Begin, BeginUpdate, DeleteCluster, LoadSource, Load, NothingToRemove,
           Truncate, Write, WritePart, Fail, UserEdits, UserRestores, provider, vars
  <2> QED
    BY <2>1, <2>2, <2>3
<1>2. \A config : Named(config) => Named(config)'
  BY <1>1 DEF Named, NameOf
<1> QED
  BY <1>1, <1>2

\* A Config without entries of fjord's names no cluster.
LEMMA NamedFiles == Named(NewConfig) /\ Named(UserConfig)
  BY UserFiles DEF Named

\* What commands and file lead to, after one step.
LEMMA NamesStep ==
    ASSUME TypeOK, CommandOK, NamesOK, [Next]_vars
    PROVE  CommandOK' /\ NamesOK'
<1> USE DEF provider, local, history
<1>l. /\ \A c, n : Leads(c, n) => Leads(c, n)'
      /\ \A config : Named(config) => Named(config)'
  BY BornStays
<1>n. Named(NewConfig)' /\ Named(UserConfig)'
  BY <1>l, NamedFiles
\* The others are where they were.
<1>o. ASSUME NEW p \in Processes,
             \A q \in Processes \ {p} : /\ pc'[q] = pc[q] /\ cmd'[q] = cmd[q]
                                        /\ source'[q] = source[q],
             Busy(p)' =>
                /\ cmd'[p] \in Command
                /\ pc'[p] = "provider" => cmd'[p].op \in {"create", "delete"}
                /\ pc'[p] = "source" => cmd'[p].op \in {"create", "update"}
                /\ pc'[p] \in {"load", "write", "flush"} /\ cmd'[p].op # "delete" =>
                      Leads(source[p], cmd[p].name)'
      PROVE  CommandOK'
  <2> SUFFICES ASSUME NEW q \in Processes, q # p, Busy(q)'
               PROVE  /\ cmd'[q] \in Command
                      /\ pc'[q] = "provider" => cmd'[q].op \in {"create", "delete"}
                      /\ pc'[q] = "source" => cmd'[q].op \in {"create", "update"}
                      /\ pc'[q] \in {"load", "write", "flush"} /\ cmd'[q].op # "delete" =>
                            Leads(source[q], cmd[q].name)'
    BY <1>o DEF CommandOK
  <2>1. pc'[q] = pc[q] /\ cmd'[q] = cmd[q] /\ source'[q] = source[q] /\ Busy(q)
    BY <1>o DEF Busy
  <2>2. pc[q] \in {"load", "write", "flush"} /\ cmd[q].op # "delete" =>
           Leads(source[q], cmd[q].name)'
    <3>1. pc[q] \in {"load", "write", "flush"} /\ cmd[q].op # "delete" =>
             Leads(source[q], cmd[q].name)
      BY <2>1 DEF CommandOK
    <3> QED
      BY <3>1, <2>1, <1>l DEF Leads
  <2> QED
    BY <2>1, <2>2 DEF CommandOK
\* Nothing but the file has changed of what has entries.
<1>f. ASSUME running' = running, copy' = copy, file' # Unreadable => Named(file)'
      PROVE  NamesOK'
  <2>1. \A p \in Processes : Named(copy[p])'
    BY <1>f, <1>l DEF NamesOK, Named
  <2>2. \A n \in Names : running'[n] # 0 => Leads(running[n], n)'
    BY <1>f, <1>l DEF NamesOK, Leads
  <2> QED
    BY <1>f, <2>1, <2>2 DEF NamesOK
<1>s. ASSUME file' = file
      PROVE  file' # Unreadable => Named(file)'
  BY <1>s, <1>l DEF NamesOK, Named
\* A command that is over.
<1>e. ASSUME NEW p \in Processes, End(p), running' = running, file' # Unreadable => Named(file)'
      PROVE  CommandOK' /\ NamesOK'
  <2>1. ~Busy(p)' /\ \A q \in Processes \ {p} : /\ pc'[q] = pc[q] /\ cmd'[q] = cmd[q]
                                                 /\ source'[q] = source[q] /\ copy'[q] = copy[q]
    BY <1>e DEF End, Goto, TypeOK, Busy
  <2>2. copy'[p] = NewConfig
    BY <1>e DEF End, TypeOK
  <2>3. CommandOK'
    BY <2>1, <1>o
  <2>4. \A q \in Processes : Named(copy[q])'
    BY <2>1, <2>2, <1>l, <1>n DEF NamesOK, Named
  <2>5. \A n \in Names : running'[n] # 0 => Leads(running[n], n)'
    BY <1>e, <1>l DEF NamesOK, Leads
  <2> QED
    BY <1>e, <2>3, <2>4, <2>5 DEF NamesOK
<1>1. ASSUME NEW p \in Processes, NEW n \in Names,
             \/ \E op \in {"create", "delete"} : Begin(p, op, n)
             \/ \E r \in Principals : BeginUpdate(p, r, n)
      PROVE  CommandOK' /\ NamesOK'
  <2>1. /\ UNCHANGED <<running, file, copy, source>>
        /\ \A q \in Processes \ {p} : pc'[q] = pc[q] /\ cmd'[q] = cmd[q]
    BY <1>1 DEF Begin, BeginUpdate, Goto, TypeOK
  <2>2. \/ /\ pc'[p] = "provider" /\ cmd'[p] \in Command
           /\ cmd'[p].op \in {"create", "delete"}
        \/ pc'[p] = "source" /\ cmd'[p] \in Command /\ cmd'[p].op = "update"
    <3>1. ASSUME NEW op \in {"create", "delete"}, Begin(p, op, n)
          PROVE  /\ pc'[p] = "provider" /\ cmd'[p] \in Command
                 /\ cmd'[p].op \in {"create", "delete"}
      <4>1. cmd'[p] = [op |-> op, name |-> n] /\ pc'[p] = "provider"
        BY <3>1 DEF Begin, Goto, TypeOK
      <4> QED
        BY <4>1 DEF Command
    <3>2. ASSUME NEW r \in Principals, BeginUpdate(p, r, n)
          PROVE  pc'[p] = "source" /\ cmd'[p] \in Command /\ cmd'[p].op = "update"
      <4>1. cmd'[p] = [op |-> "update", principal |-> r, name |-> n] /\ pc'[p] = "source"
        BY <3>2 DEF BeginUpdate, Goto, TypeOK
      <4> QED
        BY <4>1 DEF Command
    <3> QED
      BY <1>1, <3>1, <3>2
  <2>3. CommandOK'
    BY <2>1, <2>2, <1>o
  <2> QED
    BY <2>1, <2>3, <1>f, <1>s
<1>2. ASSUME NEW p \in Processes, CreateCluster(p)
      PROVE  CommandOK' /\ NamesOK'
  <2> DEFINE n == cmd[p].name
  <2>1. /\ Busy(p) /\ n \in Names /\ cmd[p] \in Command
    BY <1>2, OwnEntry DEF CreateCluster, Busy, CommandOK
  <2>2. /\ pc'[p] = "source" /\ cmd'[p] = cmd[p] /\ cmd[p].op = "create"
        /\ \A q \in Processes \ {p} : pc'[q] = pc[q]
        /\ UNCHANGED <<cmd, source, copy, file>>
    BY <1>2 DEF CreateCluster, Goto, TypeOK
  <2>3. CommandOK'
    BY <2>1, <2>2, <1>o
  <2>4. Leads(running[n], n)' /\ \A x \in Names \ {n} : running'[x] = running[x]
    <3>1. /\ born \in Seq(Names) /\ born' = Append(born, n)
          /\ running'[n] = Len(born') /\ n' = n
          /\ \A x \in Names \ {n} : running'[x] = running[x]
      BY <1>2, <2>1, <2>2 DEF CreateCluster, TypeOK
    <3> HIDE DEF n
    <3>2. Len(born') \in DOMAIN born' /\ born'[Len(born')] = n
      BY <2>1, <3>1
    <3> QED
      BY <3>1, <3>2 DEF Leads
  <2>5. \A x \in Names : running'[x] # 0 => Leads(running[x], x)'
    <3>1. ASSUME NEW x \in Names \ {n}, running'[x] # 0
          PROVE  Leads(running[x], x)'
      BY <2>4, <3>1, <1>l DEF NamesOK, Leads
    <3>2. n' = n
      BY <2>2
    <3> QED
      BY <2>4, <3>1, <3>2 DEF Leads
  <2>6. \A q \in Processes : Named(copy[q])'
    BY <2>2, <1>l DEF NamesOK, Named
  <2> QED
    BY <2>2, <2>3, <2>5, <2>6, <1>s DEF NamesOK
<1>3. ASSUME NEW p \in Processes, DeleteCluster(p)
      PROVE  CommandOK' /\ NamesOK'
  <2>1. /\ Busy(p) /\ cmd[p].name \in Names /\ cmd[p] \in Command
    BY <1>3, OwnEntry DEF DeleteCluster, Busy, CommandOK
  <2>2. /\ pc'[p] = "load" /\ cmd[p].op = "delete"
        /\ \A q \in Processes \ {p} : pc'[q] = pc[q]
        /\ UNCHANGED <<born, cmd, source, copy, file>>
        /\ \A x \in Names : running'[x] \in {0, running[x]}
    BY <1>3 DEF DeleteCluster, Goto, TypeOK
  <2>3. CommandOK'
    BY <2>1, <2>2, <1>o
  <2>4. \A x \in Names : running'[x] # 0 => Leads(running[x], x)'
    BY <2>2, <1>l DEF NamesOK, Leads
  <2>5. \A q \in Processes : Named(copy[q])'
    BY <2>2, <1>l DEF NamesOK, Named
  <2> QED
    BY <2>2, <2>3, <2>4, <2>5, <1>s DEF NamesOK
<1>4. ASSUME NEW p \in Processes, LoadSource(p)
      PROVE  CommandOK' /\ NamesOK'
  <2> DEFINE n == cmd[p].name
  <2>1. /\ Busy(p) /\ n \in Names /\ cmd[p] \in Command
    BY <1>4, OwnEntry DEF LoadSource, Busy, CommandOK
  <2>2. /\ pc'[p] = "load" /\ UNCHANGED <<cmd, born, running, file, copy>>
        /\ \A q \in Processes \ {p} : pc'[q] = pc[q] /\ source'[q] = source[q]
        /\ \/ Has(n) /\ source'[p] = file.entries[n]
           \/ running[n] # 0 /\ source'[p] = running[n]
    BY <1>4 DEF LoadSource, Goto, TypeOK
  <2>3. Leads(source'[p], n)
    <3>1. n \in Entries \ {UserEntry} /\ NameOf(n) = n
      BY <2>1, NamesAssumption DEF Entries, NameOf
    <3> QED
      BY <2>1, <2>2, <3>1 DEF NamesOK, Named, Has
  <2>4. Leads(source[p], cmd[p].name)'
    BY <2>2, <2>3 DEF Leads
  <2>5. CommandOK'
    BY <2>1, <2>2, <2>4, <1>o
  <2> QED
    BY <2>2, <2>5, <1>f, <1>s
<1>5. ASSUME NEW p \in Processes, Load(p)
      PROVE  CommandOK' /\ NamesOK'
  <2>1. /\ Busy(p) /\ cmd[p] \in Command
        /\ cmd[p].op # "delete" => Leads(source[p], cmd[p].name)
    BY <1>5 DEF Load, Busy, CommandOK
  <2>2. /\ pc'[p] = "write" /\ UNCHANGED <<cmd, source, born, running, file>>
        /\ copy'[p] = file /\ file # Unreadable
        /\ \A q \in Processes \ {p} : pc'[q] = pc[q] /\ copy'[q] = copy[q]
    BY <1>5 DEF Load, Goto, TypeOK
  <2>3. CommandOK'
    BY <2>1, <2>2, <1>o DEF Leads
  <2>4. \A q \in Processes : Named(copy[q])'
    BY <2>2, <1>l DEF NamesOK, Named
  <2>5. \A n \in Names : running'[n] # 0 => Leads(running[n], n)'
    BY <2>2, <1>l DEF NamesOK, Leads
  <2> QED
    BY <2>2, <2>3, <2>4, <2>5, <1>s DEF NamesOK
<1>6. ASSUME NEW p \in Processes, NothingToRemove(p) \/ Fail(p)
      PROVE  CommandOK' /\ NamesOK'
  <2>1. End(p) /\ running' = running /\ file' = file
    BY <1>6 DEF NothingToRemove, Fail
  <2> QED
    BY <2>1, <1>e, <1>s
<1>7. ASSUME NEW p \in Processes, Truncate(p)
      PROVE  CommandOK' /\ NamesOK'
  <2>1. /\ Busy(p) /\ cmd[p] \in Command
        /\ cmd[p].op # "delete" => Leads(source[p], cmd[p].name)
    BY <1>7 DEF Truncate, Busy, CommandOK
  <2>2. /\ pc'[p] = "flush" /\ UNCHANGED <<cmd, source, born, running, copy>>
        /\ file' = NewConfig
        /\ \A q \in Processes \ {p} : pc'[q] = pc[q]
    BY <1>7 DEF Truncate, Goto, TypeOK
  <2>3. CommandOK'
    BY <2>1, <2>2, <1>o DEF Leads
  <2>4. Named(file)'
    BY <2>2, <1>n DEF Named
  <2> QED
    BY <2>2, <2>3, <2>4, <1>f
<1>8. ASSUME NEW p \in Processes, Write(p)
      PROVE  CommandOK' /\ NamesOK'
  <2>1. End(p) /\ running' = running /\ file' = Edited(p) /\ HasCopy(p)
    BY <1>8 DEF Write, HasCopy
  <2>2. Named(file)'
    BY <2>1, <1>l, EditedOne DEF Named
  <2> QED
    BY <2>1, <2>2, <1>e
<1>9. ASSUME NEW p \in Processes, WritePart(p)
      PROVE  CommandOK' /\ NamesOK'
  <2>1. End(p) /\ running' = running /\ file' \in Parts(Edited(p)) /\ HasCopy(p)
    BY <1>9 DEF WritePart, HasCopy
  <2>2. Edited(p) \in Config /\ Named(Edited(p))
    BY <2>1, EditedOne
  <2>3. file' # Unreadable => Named(file')
    BY <2>1, <2>2, PartsOf DEF Named
  <2>4. file' # Unreadable => Named(file)'
    BY <2>3, <1>l DEF Named
  <2> QED
    BY <2>1, <2>4, <1>e
<1>10. CASE UserEdits
  <2>1. UNCHANGED <<born, running, copy, pc, cmd, source>> /\ file # Unreadable
    BY <1>10 DEF UserEdits
  <2>2. CommandOK'
    BY <2>1 DEF CommandOK, Busy, Leads
  <2>3. Named(file')
    BY <1>10, <2>1, UserEditsOnly DEF NamesOK, Named
  <2>4. Named(file)'
    BY <2>3, <1>l DEF Named
  <2> QED
    BY <2>1, <2>2, <2>4, <1>f
<1>11. CASE UserRestores
  <2>1. UNCHANGED <<born, running, copy, pc, cmd, source>> /\ file' \in {NewConfig, UserConfig}
    BY <1>11 DEF UserRestores
  <2>2. CommandOK'
    BY <2>1 DEF CommandOK, Busy, Leads
  <2>3. Named(file)'
    BY <2>1, <1>n DEF Named
  <2> QED
    BY <2>1, <2>2, <2>3, <1>f
<1>12. CASE UNCHANGED vars
  BY <1>12, <1>f, <1>s DEF vars, CommandOK, Busy, Leads
<1> QED
  BY <1>1, <1>2, <1>3, <1>4, <1>5, <1>6, <1>7, <1>8, <1>9, <1>10, <1>11, <1>12 DEF Next
-----------------------------------------------------------------------------
\* Of a Config: its entries lead to the clusters in ns.
Reaches(config, ns) == \A n \in ns : config.entries[n] = running[n]

\* The merged clusters, in the file and in every copy, after one step.
LEMMA MergedStep ==
    ASSUME IInv, [Next]_vars, TypeOK'
    PROVE  MergedRuns' /\ CopiesOK' /\ MergedIsReachable'
<1> USE DEF IInv, provider, local, history
<1>t. merged \subseteq Names /\ merged' \subseteq Names /\ Names \subseteq Entries \ {UserEntry}
  BY NamesAssumption DEF TypeOK, Entries
\* A running cluster is not None.
<1>r. \A n \in Names : running'[n] # None
  BY NoneAssumption, BoundsAssumption DEF TypeOK, Clusters
\* What leads to the merged clusters has them.
<1>h. ASSUME file' # Unreadable, Reaches(file, merged)'
      PROVE  MergedIsReachable'
  BY <1>h, <1>r, <1>t DEF Reaches, MergedIsReachable, Has
\* Steps that only take names out of merged, or change running elsewhere.
<1>k. ASSUME merged' \subseteq merged, \A n \in merged' : running'[n] = running[n]
      PROVE  MergedRuns'
  BY <1>k DEF MergedRuns
<1>c. ASSUME NEW p \in Processes, merged' \subseteq merged,
             \A n \in merged' : running'[n] = running[n],
             missed' = missed, ~HasCopy(p)' \/ (HasCopy(p) /\ copy'[p] = copy[p]),
             \A q \in Processes \ {p} : pc'[q] = pc[q] /\ copy'[q] = copy[q]
      PROVE  CopiesOK'
  BY <1>c DEF CopiesOK, HasCopy
<1>m. ASSUME NEW p \in Processes, merged' \subseteq merged, file' = file,
             \A n \in merged' : running'[n] = running[n],
             \A q \in Processes \ {p} : pc'[q] = pc[q],
             pc[p] = "flush" => pc'[p] = "flush"
      PROVE  MergedIsReachable'
  <2>1. Writing => Writing'
    BY <1>m DEF Writing
  <2> QED
    BY <1>m, <2>1 DEF MergedIsReachable, Has
<1>1. ASSUME NEW p \in Processes, NEW n \in Names,
             \/ \E op \in {"create", "delete"} : Begin(p, op, n)
             \/ \E r \in Principals : BeginUpdate(p, r, n)
      PROVE  MergedRuns' /\ CopiesOK' /\ MergedIsReachable'
  <2>1. /\ UNCHANGED <<running, file, merged, missed, copy>> /\ pc[p] = "idle"
        /\ pc'[p] \in {"provider", "source"}
        /\ \A q \in Processes \ {p} : pc'[q] = pc[q]
    BY <1>1 DEF Begin, BeginUpdate, Goto, TypeOK
  <2> QED
    BY <2>1, <1>k, <1>c, <1>m DEF HasCopy
<1>2. ASSUME NEW p \in Processes, CreateCluster(p) \/ DeleteCluster(p) \/ LoadSource(p)
      PROVE  MergedRuns' /\ CopiesOK' /\ MergedIsReachable'
  <2>1. /\ UNCHANGED <<file, missed, copy>> /\ merged' \subseteq merged
        /\ pc[p] # "flush" /\ pc'[p] \in {"source", "load"}
        /\ \A q \in Processes \ {p} : pc'[q] = pc[q]
    BY <1>2 DEF CreateCluster, DeleteCluster, LoadSource, Goto, TypeOK
  <2>2. \A n \in merged' : running'[n] = running[n]
    <3>1. CASE CreateCluster(p)
      <4>1. running' = [running EXCEPT ![cmd[p].name] = Len(born')]
            /\ cmd[p].name \notin merged
        BY <3>1 DEF CreateCluster, MergedRuns
      <4> QED
        BY <2>1, <4>1, <1>t DEF TypeOK
    <3>2. CASE DeleteCluster(p)
      BY <3>2, <1>t DEF DeleteCluster, TypeOK
    <3>3. CASE LoadSource(p)
      BY <3>3 DEF LoadSource
    <3> QED
      BY <1>2, <3>1, <3>2, <3>3
  <2>3. ~HasCopy(p)'
    BY <2>1 DEF HasCopy
  <2> QED
    BY <2>1, <2>2, <2>3, <1>k, <1>c, <1>m
<1>3. ASSUME NEW p \in Processes, Load(p)
      PROVE  MergedRuns' /\ CopiesOK' /\ MergedIsReachable'
  <2>1. /\ UNCHANGED <<running, file, merged>> /\ pc[p] = "load" /\ file # Unreadable
        /\ pc'[p] = "write" /\ copy'[p] = file
        /\ missed'[p] = IF Writing THEN Names ELSE {}
        /\ \A q \in Processes \ {p} : /\ pc'[q] = pc[q] /\ copy'[q] = copy[q]
                                       /\ missed'[q] = missed[q]
    BY <1>3 DEF Load, Goto, TypeOK
  <2>2. \A n \in merged \ missed'[p] : file.entries[n] = running[n]
    BY <2>1, <1>t DEF MergedIsReachable
  <2>3. CopiesOK'
    BY <2>1, <2>2 DEF CopiesOK, HasCopy
  <2> QED
    BY <2>1, <2>3, <1>k, <1>m
<1>4. ASSUME NEW p \in Processes, NothingToRemove(p) \/ Fail(p)
      PROVE  MergedRuns' /\ CopiesOK' /\ MergedIsReachable'
  <2>1. /\ UNCHANGED <<running, file, missed>> /\ merged' \subseteq merged
        /\ pc'[p] = "idle"
        /\ \A q \in Processes \ {p} : pc'[q] = pc[q] /\ copy'[q] = copy[q]
        /\ pc[p] = "flush" => merged' = {}
    BY <1>4 DEF NothingToRemove, Fail, End, Goto, TypeOK
  <2>2. MergedIsReachable'
    <3>1. CASE pc[p] = "flush"
      BY <2>1, <3>1 DEF MergedIsReachable
    <3>2. CASE pc[p] # "flush"
      BY <2>1, <3>2, <1>m
    <3> QED
      BY <3>1, <3>2
  <2>3. ~HasCopy(p)'
    BY <2>1 DEF HasCopy
  <2> QED
    BY <2>1, <2>2, <2>3, <1>k, <1>c
<1>5. ASSUME NEW p \in Processes, Truncate(p)
      PROVE  MergedRuns' /\ CopiesOK' /\ MergedIsReachable'
  <2>1. /\ UNCHANGED <<running, merged, missed, copy>> /\ pc[p] = "write" /\ pc'[p] = "flush"
        /\ \A q \in Processes \ {p} : pc'[q] = pc[q]
    BY <1>5 DEF Truncate, Goto, TypeOK
  <2>2. MergedIsReachable'
    BY <2>1 DEF MergedIsReachable, Writing
  <2> QED
    BY <2>1, <2>2, <1>k, <1>c DEF HasCopy
<1>6. ASSUME NEW p \in Processes, Write(p)
      PROVE  MergedRuns' /\ CopiesOK' /\ MergedIsReachable'
  <2> DEFINE n == cmd[p].name
  <2>1. /\ Busy(p) /\ HasCopy(p) /\ running' = running /\ file' = Edited(p)
        /\ pc'[p] = "idle"
        /\ \A q \in Processes \ {p} : pc'[q] = pc[q] /\ copy'[q] = copy[q]
    BY <1>6 DEF Write, Busy, HasCopy, End, Goto, TypeOK
  <2>2. /\ cmd[p].op \in {"create", "delete", "update"} /\ n \in Names
        /\ cmd[p].op = "update" => Own(p) \notin Names
        /\ cmd[p].op # "update" => Own(p) = n
    BY <2>1, OwnEntry
  <2>3. /\ Edited(p) \in Config
        /\ \A x \in Names \ {Own(p)} : Edited(p).entries[x] = copy[p].entries[x]
        /\ cmd[p].op = "create" => Edited(p).entries[n] = source[p]
    BY <2>1, <1>t, EditedOne
  <2>4. \A x \in merged \ missed[p] : copy[p].entries[x] = running[x]
    BY <2>1 DEF CopiesOK
  <2>5. Merges(p) => /\ cmd[p].op = "create" /\ source[p] = running[n] /\ running[n] # 0
    <3>1. cmd[p].op = "create" => Leads(source[p], n)
      BY <2>1 DEF CommandOK, HasCopy
    <3>2. ~Leads(0, n)
      BY DEF Leads, TypeOK
    <3> QED
      BY <3>1, <3>2 DEF Merges
  <2>6. /\ merged' = IF Merges(p) THEN (merged \ missed[p]) \cup {n}
                     ELSE IF cmd[p].op = "update" THEN merged \ missed[p]
                     ELSE (merged \ missed[p]) \ {n}
        /\ \A q \in Processes : missed'[q] = IF Merges(p) THEN missed[q] \cup {n} ELSE missed[q]
    BY <1>6 DEF Write, Recount, TypeOK
  <2> HIDE DEF n
  <2>7. Reaches(Edited(p), merged')
    <3>1. CASE Merges(p)
      BY <3>1, <1>t, <2>2, <2>3, <2>4, <2>5, <2>6 DEF Reaches
    <3>2. CASE ~Merges(p)
      BY <3>2, <1>t, <2>2, <2>3, <2>4, <2>6 DEF Reaches
    <3> QED
      BY <3>1, <3>2
  <2>8. MergedRuns'
    BY <2>1, <2>5, <2>6 DEF MergedRuns
  <2>9. CopiesOK'
    <3> SUFFICES ASSUME NEW q \in Processes, HasCopy(q)', NEW x \in merged' \ missed'[q]
                 PROVE  copy'[q].entries[x] = running'[x]
      BY DEF CopiesOK
    <3>1. q # p /\ HasCopy(q) /\ copy'[q] = copy[q]
      BY <2>1 DEF HasCopy
    <3>2. x \in merged \ missed[q]
      BY <2>6
    <3> QED
      BY <2>1, <3>1, <3>2 DEF CopiesOK
  <2>10. file' # Unreadable /\ Reaches(file, merged)'
    BY <2>1, <2>3, <2>7, UnreadableAssumption DEF Reaches
  <2> QED
    BY <2>8, <2>9, <2>10, <1>h
<1>7. ASSUME NEW p \in Processes, WritePart(p)
      PROVE  MergedRuns' /\ CopiesOK' /\ MergedIsReachable'
  BY <1>7 DEF WritePart, MergedRuns, CopiesOK, MergedIsReachable
<1>8. CASE UserEdits
  <2>1. UNCHANGED <<running, merged, missed, pc, copy>> /\ file # Unreadable
    BY <1>8 DEF UserEdits
  <2>2. file' # Unreadable /\ \A n \in merged : file'.entries[n] = file.entries[n]
    BY <1>8, <1>t, UserEditsOnly, UnreadableAssumption
  <2>3. MergedIsReachable'
    BY <2>1, <2>2 DEF MergedIsReachable, Has, Writing
  <2> QED
    BY <2>1, <2>3 DEF MergedRuns, CopiesOK, HasCopy
<1>9. CASE UserRestores
  <2>1. UNCHANGED <<running, merged, missed, pc, copy>> /\ file = Unreadable
    BY <1>9 DEF UserRestores
  <2>2. MergedIsReachable'
    BY <2>1 DEF MergedIsReachable, Has, Writing
  <2> QED
    BY <2>1, <2>2 DEF MergedRuns, CopiesOK, HasCopy
<1>10. CASE UNCHANGED vars
  BY <1>10 DEF vars, MergedRuns, CopiesOK, HasCopy, MergedIsReachable, Has, Writing
<1> QED
  BY <1>1, <1>2, <1>3, <1>4, <1>5, <1>6, <1>7, <1>8, <1>9, <1>10 DEF Next

\* cli/kubeconfig.go, however commands and users overlap: what a command has
\* loaded leads to clusters of the right names, and to every merged cluster but
\* those merged since.
THEOREM Invariance == Spec => []IInv
<1>1. Init => IInv
  <2> SUFFICES ASSUME Init PROVE IInv
    OBVIOUS
  <2>1. file \in Config /\ Named(file)
    BY UserFiles, NamedFiles DEF Init
  <2>2. TypeOK
    BY <2>1, UserFiles, BoundsAssumption DEF Init, TypeOK, Clusters
  <2>3. NamesOK
    BY <2>1, NamedFiles DEF Init, NamesOK
  <2>4. CommandOK /\ MergedRuns /\ CopiesOK /\ MergedIsReachable
    BY DEF Init, CommandOK, MergedRuns, CopiesOK, MergedIsReachable, Busy
  <2> QED
    BY <2>2, <2>3, <2>4 DEF IInv
<1>2. IInv /\ [Next]_vars => IInv'
  BY TypeStep, NamesStep, MergedStep DEF IInv
<1> QED
  BY <1>1, <1>2, PTL DEF Spec

\* mergeClusterKubeconfig: from create until delete the cluster's name leads to
\* it, unless one of the named writes takes it out (MergedIsReachable).
THEOREM Reachable == Spec => []MergedIsReachable
<1>1. IInv => MergedIsReachable
  BY DEF IInv
<1> QED
  BY <1>1, Invariance, PTL

\* No command, however it overlaps with others or is cut off, makes a name lead
\* to a cluster of another name (LeadsToItsName).
THEOREM NamesLead == Spec => []LeadsToItsName
<1>1. IInv => LeadsToItsName
  BY DEF IInv, NamesOK, Named, Leads, LeadsToItsName, Has
<1> QED
  BY <1>1, Invariance, PTL
=============================================================================
