----------------------------- MODULE Kubeconfig -----------------------------
(***************************************************************************)
(* The default kubeconfig file (cli/kubeconfig.go, create.go, delete.go):  *)
(* `fjord create cluster` merges the new cluster into it, `fjord delete    *)
(* cluster` removes it again and `fjord update-kubeconfig` adds a context  *)
(* that authenticates as a principal.  Each of them loads the file, edits  *)
(* the copy and writes all of it back; there is no lock, and other         *)
(* commands and users with kubectl edit the file meanwhile.  WriteToFile   *)
(* truncates the file and then writes it: readers meet it empty, a command *)
(* stopped in between leaves it empty, and a write that fails half way     *)
(* leaves some of its entries or something that does not parse.            *)
(*                                                                         *)
(* The Cluster, AuthInfo and Context that fjord keeps under one name are   *)
(* one entry, which is the cluster it points to.  A cluster that is        *)
(* deleted and created again is another cluster.  A file that does not     *)
(* exist is a file without entries (loadOrNewKubeconfig).  The context     *)
(* update-kubeconfig starts from is that of the cluster's name, as it is   *)
(* unless --context says otherwise.                                        *)
(***************************************************************************)
EXTENDS Naturals, Sequences

CONSTANTS
    Processes,    \* fjord commands that are being run
    Names,        \* cluster names
    Principals,
    UserEntry,    \* an entry of the user's own
    None,
    Unreadable,   \* a file that does not parse
    MaxClusters,  \* bound: clusters ever created
    MaxCommands   \* bound: commands and edits by the user

ASSUME BoundsAssumption == MaxClusters \in Nat /\ MaxCommands \in Nat
\* A cluster's name has no "@", and the user's own entry is not one of fjord's.
ASSUME NamesAssumption ==
    /\ Names \cap (Principals \X Names) = {}
    /\ UserEntry \notin Names \cup (Principals \X Names)

VARIABLES
    born,      \* the clusters ever created: their names
    running,   \* cluster name -> the cluster that has it, 0 for none
    file,      \* the kubeconfig
    pc,        \* what each process does next
    cmd,       \* its command
    source,    \* the cluster whose Cluster entry it has loaded
    copy,      \* the Config it has loaded
    merged,    \* history: names whose running cluster was merged, see Write
    missed,    \* history: names merged since a process loaded its copy, or
               \* hidden from it by a write under way
    commands

vars == <<born, running, file, pc, cmd, source, copy, merged, missed, commands>>
provider == <<born, running>>
local == <<cmd, source, copy>>
history == <<merged, missed>>

\* writeKubeconfigEntry's "fjord-%s@%s", and mergeClusterKubeconfig's name.
Entries == Names \cup (Principals \X Names) \cup {UserEntry}
Clusters == 0..MaxClusters
Config == [entries : [Entries -> Clusters \cup {None}], current : Entries \cup {None}]
NewConfig == [entries |-> [e \in Entries |-> None], current |-> None]
ASSUME NoneAssumption == None \notin Clusters
ASSUME UnreadableAssumption == Unreadable \notin Config

Command == [op : {"create", "delete"}, name : Names]
             \cup [op : {"update"}, principal : Principals, name : Names]
NoCommand == [op |-> "none"]

TypeOK ==
    /\ born \in Seq(Names) /\ Len(born) <= MaxClusters
    /\ running \in [Names -> 0..Len(born)]
    /\ file \in Config \cup {Unreadable}
    /\ pc \in [Processes -> {"idle", "provider", "source", "load", "write", "flush"}]
    /\ cmd \in [Processes -> Command \cup {NoCommand}]
    /\ source \in [Processes -> Clusters]
    /\ copy \in [Processes -> Config]
    /\ merged \subseteq Names
    /\ missed \in [Processes -> SUBSET Names]
    /\ commands \in 0..MaxCommands

UserConfig == [entries |-> [NewConfig.entries EXCEPT ![UserEntry] = 0], current |-> UserEntry]

Init ==
    /\ born = <<>>
    /\ running = [n \in Names |-> 0]
    /\ file \in {NewConfig, UserConfig}
    /\ pc = [p \in Processes |-> "idle"]
    /\ cmd = [p \in Processes |-> NoCommand]
    /\ source = [p \in Processes |-> 0]
    /\ copy = [p \in Processes |-> NewConfig]
    /\ merged = {}
    /\ missed = [p \in Processes |-> {}]
    /\ commands = 0

\* The entry a command is about.
Own(p) == IF cmd[p].op = "update" THEN <<cmd[p].principal, cmd[p].name>> ELSE cmd[p].name

Has(e) == file # Unreadable /\ file.entries[e] # None
Writing == \E p \in Processes : pc[p] = "flush"
Count == commands < MaxCommands /\ commands' = commands + 1
Goto(p, step) == pc' = [pc EXCEPT ![p] = step]

\* The command is over, with or without success.
End(p) ==
    /\ Goto(p, "idle")
    /\ cmd' = [cmd EXCEPT ![p] = NoCommand]
    /\ source' = [source EXCEPT ![p] = 0]
    /\ copy' = [copy EXCEPT ![p] = NewConfig]
-----------------------------------------------------------------------------
\* runCreateCluster up to CreateCluster, and newDeleteClusterCmd.
Begin(p, op, n) ==
    /\ pc[p] = "idle" /\ Count
    /\ cmd' = [cmd EXCEPT ![p] = [op |-> op, name |-> n]]
    /\ Goto(p, "provider")
    /\ UNCHANGED <<provider, file, source, copy, history>>

\* runUpdateKubeconfig: opts.client needs the context of the cluster, and
\* GetByName a cluster that answers.
BeginUpdate(p, principal, n) ==
    /\ pc[p] = "idle" /\ Count
    /\ Has(n) /\ file.entries[n] = running[n]
    /\ cmd' = [cmd EXCEPT ![p] = [op |-> "update", principal |-> principal, name |-> n]]
    /\ Goto(p, "source")
    /\ UNCHANGED <<provider, file, source, copy, history>>

\* provider.CreateCluster.
CreateCluster(p) ==
    LET n == cmd[p].name IN
    /\ pc[p] = "provider" /\ cmd[p].op = "create"
    /\ running[n] = 0 /\ Len(born) < MaxClusters
    /\ born' = Append(born, n)
    /\ running' = [running EXCEPT ![n] = Len(born')]
    /\ Goto(p, "source")
    /\ UNCHANGED <<file, local, history, commands>>

\* provider.DeleteCluster.
DeleteCluster(p) ==
    LET n == cmd[p].name IN
    /\ pc[p] = "provider" /\ cmd[p].op = "delete"
    /\ running' = [running EXCEPT ![n] = 0]
    /\ merged' = merged \ {n}
    /\ Goto(p, "load")
    /\ UNCHANGED <<born, file, local, missed, commands>>

\* Mutant: update-kubeconfig starts from the current context.
LoadSource_Current(p) ==
    LET n == cmd[p].name IN
    /\ pc[p] = "source"
    /\ \/ /\ cmd[p].op = "update" /\ file # Unreadable /\ file.current # None
          /\ Has(file.current)
          /\ source' = [source EXCEPT ![p] = file.entries[file.current]]
       \/ /\ cmd[p].op = "create" /\ running[n] # 0
          /\ source' = [source EXCEPT ![p] = running[n]]
    /\ Goto(p, "load")
    /\ UNCHANGED <<provider, file, cmd, copy, history, commands>>

\* loadClusterConfig from the file, or provider.KubeConfig of a cluster there is.
LoadSource(p) ==
    LET n == cmd[p].name IN
    /\ pc[p] = "source"
    /\ \/ /\ cmd[p].op = "update" /\ Has(n)
          /\ source' = [source EXCEPT ![p] = file.entries[n]]
       \/ /\ cmd[p].op = "create" /\ running[n] # 0
          /\ source' = [source EXCEPT ![p] = running[n]]
    /\ Goto(p, "load")
    /\ UNCHANGED <<provider, file, cmd, copy, history, commands>>

\* loadOrNewKubeconfig, or the LoadFromFile of removeClusterKubeconfig.
Load(p) ==
    /\ pc[p] = "load" /\ file # Unreadable
    /\ cmd[p].op = "delete" => Has(cmd[p].name)
    /\ copy' = [copy EXCEPT ![p] = file]
    /\ missed' = [missed EXCEPT ![p] = IF Writing THEN Names ELSE {}]
    /\ Goto(p, "write")
    /\ UNCHANGED <<provider, file, cmd, source, merged, commands>>

\* removeClusterKubeconfig: the name "was never merged".
NothingToRemove(p) ==
    /\ pc[p] = "load" /\ file # Unreadable
    /\ cmd[p].op = "delete" /\ ~Has(cmd[p].name)
    /\ End(p)
    /\ UNCHANGED <<provider, file, history, commands>>

\* Mutant: an entry of that name is left as it is.
Added_KeepsExisting(config, e, cluster) ==
    [config EXCEPT !.entries[e] = IF @ = None THEN cluster ELSE @, !.current = e]

Added(config, e, cluster) == [config EXCEPT !.entries[e] = cluster, !.current = e]

Removed(config, e) ==
    [config EXCEPT !.entries[e] = None, !.current = IF @ = e THEN None ELSE @]

\* The Config that mergeClusterKubeconfig, writeKubeconfigEntry or
\* removeClusterKubeconfig writes.
Edited(p) ==
    IF cmd[p].op = "delete" THEN Removed(copy[p], Own(p)) ELSE Added(copy[p], Own(p), source[p])

\* WriteToFile opens and truncates the file.
Truncate(p) ==
    /\ pc[p] = "write"
    /\ file' = NewConfig
    /\ Goto(p, "flush")
    /\ UNCHANGED <<provider, local, history, commands>>

\* A cluster counts as merged from the write of its create on.  It no longer
\* does when a command writes back a copy from before that write, when a create
\* of its name writes a cluster that has been deleted meanwhile, and when a
\* delete of its name comes to the file.
Merges(p) == cmd[p].op = "create" /\ source[p] = running[cmd[p].name]
Recount(p) ==
    LET n == cmd[p].name
        kept == merged \ missed[p]
    IN  /\ merged' = IF Merges(p) THEN kept \cup {n}
                     ELSE IF cmd[p].op = "update" THEN kept ELSE kept \ {n}
        /\ missed' = IF Merges(p) THEN [q \in Processes |-> missed[q] \cup {n}] ELSE missed

\* WriteToFile writes what it has encoded.
Write(p) ==
    /\ pc[p] = "flush"
    /\ file' = Edited(p)
    /\ Recount(p)
    /\ End(p)
    /\ UNCHANGED <<provider, commands>>

\* What a file may hold when only part of config was written: a part of its
\* entries, when the part parses.
Parts(config) ==
    {Unreadable} \cup
    {[entries |-> [e \in Entries |-> IF e \in kept THEN config.entries[e] ELSE None],
      current |-> c] : kept \in SUBSET Entries, c \in {None, config.current}}

\* The write fails or the process is stopped in it; or another has written
\* between its truncation and this write, and what is longer shows behind it.
WritePart(p) ==
    /\ pc[p] = "flush"
    /\ file' \in Parts(Edited(p))
    /\ merged' = {}
    /\ End(p)
    /\ UNCHANGED <<provider, missed, commands>>

\* A step fails or the process is stopped: what it did stays, an emptied file
\* as well.
Fail(p) ==
    /\ pc[p] # "idle"
    /\ merged' = IF pc[p] = "flush" THEN {} ELSE merged
    /\ End(p)
    /\ UNCHANGED <<provider, file, missed, commands>>

\* kubectl config: a context of the user's own comes or goes, or another
\* context becomes current.
UserEdits ==
    /\ file # Unreadable /\ Count
    /\ \/ file' = Added(file, UserEntry, 0)
       \/ file' = Removed(file, UserEntry)
       \/ \E e \in Entries : Has(e) /\ file' = [file EXCEPT !.current = e]
    /\ UNCHANGED <<provider, pc, local, history>>

\* The user replaces a file that does not parse.
UserRestores ==
    /\ file = Unreadable
    /\ file' \in {NewConfig, UserConfig}
    /\ UNCHANGED <<provider, pc, local, history, commands>>

Next ==
    \/ \E p \in Processes, n \in Names :
          \/ \E op \in {"create", "delete"} : Begin(p, op, n)
          \/ \E principal \in Principals : BeginUpdate(p, principal, n)
    \/ \E p \in Processes :
          \/ CreateCluster(p) \/ DeleteCluster(p) \/ LoadSource(p) \/ Load(p)
          \/ NothingToRemove(p) \/ Truncate(p) \/ Write(p) \/ WritePart(p) \/ Fail(p)
    \/ UserEdits \/ UserRestores

Spec == Init /\ [][Next]_vars
-----------------------------------------------------------------------------
\* create merges the cluster "so kubectl can reach it under context name without
\* any further setup": its name leads to it, also when an earlier cluster of
\* that name was deleted by a command that never reached the kubeconfig.  Only
\* four things end that: a command about its own name, a write from a copy
\* loaded before the merge or during somebody's write, and a write that is cut
\* off (merged); no other overlap of commands and users does.
MergedIsReachable == ~Writing => \A n \in merged : Has(n) /\ file.entries[n] = running[n]

\* The cluster an entry of fjord's is about.
NameOf(e) == IF e \in Names THEN e ELSE e[2]

\* Whatever overlaps, is cut off or left behind, an entry of fjord's leads to a
\* cluster that was created under the entry's name, never to somebody else's:
\* a stale entry of a deleted cluster is the worst a user meets.
LeadsToItsName ==
    \A e \in Entries \ {UserEntry} : Has(e) =>
        file.entries[e] \in DOMAIN born /\ born[file.entries[e]] = NameOf(e)
=============================================================================
